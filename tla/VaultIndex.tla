----------------------------- MODULE VaultIndex -----------------------------
(***************************************************************************)
(* What an index promises those who read it, whatever machinery keeps it:    *)
(* a map from notes to records in which an entry changes only to something   *)
(* that was true of this very note.  The index may lag behind the vault and   *)
(* even return to an older record; it never says anything else of a note:     *)
(* not the record of another one, not a mixture, and not that a note is gone   *)
(* that never was.                                                           *)
(***************************************************************************)
CONSTANTS
    Note,
    Record,         \* what an index can say of a note
    None            \* ... that there is no such note

VARIABLES
    now,            \* [Note -> Record]: what is true at this time
    past,           \* [Note -> SUBSET Record]: what has been true so far
    index           \* [Note -> Record]: what readers are told

vars == <<now, past, index>>

Init ==
    /\ now \in [Note -> Record]
    /\ past = [n \in Note |-> {now[n]}]
    /\ index = [n \in Note |-> None]

VaultChange ==
    /\ now' \in [Note -> Record]
    /\ past' = [n \in Note |-> past[n] \cup {now'[n]}]
    /\ UNCHANGED index

\* Any number of entries at once: a batch is applied as one step.
Refresh ==
    /\ index' \in [Note -> Record]
    /\ \A n \in Note : index'[n] \in past[n] \cup {index[n]}
    /\ UNCHANGED <<now, past>>

Next == VaultChange \/ Refresh

Spec == Init /\ [][Next]_vars

=============================================================================
