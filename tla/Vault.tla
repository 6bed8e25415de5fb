------------------------------- MODULE Vault -------------------------------
(***************************************************************************)
(* The vault directory and the events `notify` reports about it.  Both are  *)
(* outside the program: the disk is changed by the users of the vault, the  *)
(* events are what watcher.rs is written to receive.                        *)
(*                                                                         *)
(* A note path is a path with the `.md` suffix outside every dot-directory; *)
(* a directory path may carry the suffix too, so Note and Dir may overlap.  *)
(* Inside[d] holds every note and directory path below d.                   *)
(***************************************************************************)
EXTENDS Integers, Sequences, FiniteSets

CONSTANTS
    Note,           \* vault-relative paths ending in .md
    Dir,            \* vault-relative directory paths, the root excepted
    Inside,         \* [Dir -> the note and directory paths below it]
    Version,        \* contents of a note that parse
    Malformed,      \* a content that does not parse
    Absent,         \* no file: the content of a path that holds none
    Root,           \* the vault root, named by events that name no entry
    PairsRenames    \* TRUE: inotify; FALSE: FSEvents, which reports each side

Path == Note \cup Dir

ASSUME ContentAssumption ==
    /\ Malformed \notin Version
    /\ Absent \notin Version
    /\ Malformed # Absent

ASSUME TreeAssumption ==
    /\ Inside \in [Dir -> SUBSET Path]
    /\ Root \notin Path
    /\ \A d \in Dir : d \notin Inside[d]
    /\ \A d \in Dir : \A e \in Inside[d] \cap Dir : Inside[e] \subseteq Inside[d]
    /\ \A d, e \in Dir :
         \/ d = e
         \/ d \in Inside[e]
         \/ e \in Inside[d]
         \/ Inside[d] \cap Inside[e] = {}

\* FSEvents gives no direction, so a `.md` path that changes from a file to a
\* directory cannot be told apart there: the two kinds of path are disjoint.
ASSUME RenameAssumption ==
    /\ PairsRenames \in BOOLEAN
    /\ PairsRenames \/ Note \cap Dir = {}

Content == Version \cup {Malformed, Absent}

\* What a store entry, or the record a read produced, can be.
Record == Version \cup {Absent}

\* Deliberate mistake: a note is kept whether it parses or not.
ParsedAlways(c) == c

\* What scan_one and scan keep of a content.
Parsed(c) == IF c \in Version THEN c ELSE Absent

VARIABLES
    disk,           \* [Note -> Content]
    dirs,           \* the directories that exist
    past            \* history, [Note -> SUBSET Record]: what each path has held

vaultVars == <<disk, dirs, past>>

\* A file system: what exists has its parents, and no path is both a file and
\* a directory.
WellFormed(f, D) ==
    /\ \A d \in Dir : \A n \in Inside[d] \cap Note : f[n] # Absent => d \in D
    /\ \A d \in Dir : \A e \in Inside[d] \cap D : d \in D
    /\ \A n \in Note \cap D : f[n] = Absent

VaultTypeOK ==
    /\ disk \in [Note -> Content]
    /\ dirs \in SUBSET Dir
    /\ past \in [Note -> SUBSET Record]

VaultInit ==
    /\ disk \in [Note -> Content]
    /\ dirs \in SUBSET Dir
    /\ WellFormed(disk, dirs)
    /\ past = [n \in Note |-> {Parsed(disk[n])}]

\* Path::exists
Exists(p) == p \in dirs \/ (p \in Note /\ disk[p] # Absent)

-----------------------------------------------------------------------------
(* Events, by the class watcher::classify gives their kind.                 *)

Kind == {"Modify", "Appear", "Vanish", "Rename", "RenameUnpaired", "Overflow", "Error"}

\* `to` is the second path of a paired rename and repeats `path` otherwise.
Event == [kind : Kind, path : Path \cup {Root}, to : Path \cup {Root}]

EventOn(kind, p) == [kind |-> kind, path |-> p, to |-> p]

\* The kernel queue overflowed: events before this one were lost.
Overflow == EventOn("Overflow", Root)

\* notify could not deliver a change and says so.
Error == EventOn("Error", Root)

\* What the backend reports when p is renamed to q.
RenameEvents(p, q) ==
    IF PairsRenames
    THEN << EventOn("Vanish", p),
            EventOn("Appear", q),
            [kind |-> "Rename", path |-> p, to |-> q] >>
    ELSE << EventOn("RenameUnpaired", p), EventOn("RenameUnpaired", q) >>

=============================================================================
