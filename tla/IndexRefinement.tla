-------------------------- MODULE IndexRefinement --------------------------
(***************************************************************************)
(* The index pipeline implements VaultIndex; the history variable `past` is   *)
(* what the disk has held at each path.                                      *)
(***************************************************************************)
EXTENDS IndexPipelineSafety

Now == [n \in Note |-> Parsed(disk[n])]

Index == INSTANCE VaultIndex WITH None <- Absent, now <- Now, index <- store

(* An entry of the store changes only to a record its note has had: batches   *)
(* that mix events, re-reads and walks, prefix deletions, crashes and restarts *)
(* make the index late, never wrong about what was (build_index_batch,         *)
(* run_walk, NoteStore::apply_batch, NoteStore::replace).                      *)
ImplementsVaultIndex == Index!Spec

-----------------------------------------------------------------------------
(* The inductive invariant behind it, note by note: everything on its way to  *)
(* the store about n says something that has been true of n.                  *)

(* The event says n is gone, whatever the disk will say when it is mapped. *)
Denies(e, n) ==
    /\ e.kind \in {"Vanish", "Rename"}
    /\ e.path = n \/ (e.path \in Dir /\ n \in Inside[e.path])

EventsTrue(n) ==
    \A i \in DOMAIN channel : Denies(channel[i], n) => Absent \in past[n]

ActionsTrue(n) ==
    \/ Absent \in past[n]
    \/ /\ noteAction[n] # "delete"
       /\ \A d \in Dir : n \in Inside[d] => treeAction[d] # "delete"

BatchTrue(n) ==
    phase = "build" /\ n \notin todo /\ Touches(batch, n) => batch.upserts[n] \in past[n]

WalkTrue(n) == Walking /\ n \notin walkTodo => walked[n] \in past[n]

MailboxTrue(n) ==
    \A i \in DOMAIN mailbox : Touches(mailbox[i], n) => Result(mailbox[i], n) \in past[n]

TrueOf(n) ==
    /\ Parsed(disk[n]) \in past[n]
    /\ EventsTrue(n)
    /\ ActionsTrue(n)
    /\ BatchTrue(n)
    /\ WalkTrue(n)
    /\ MailboxTrue(n)

(* Nothing under way about a note is invented. *)
OnlyTheTruth == \A n \in Note : TrueOf(n)

=============================================================================
