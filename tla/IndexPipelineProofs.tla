------------------------ MODULE IndexPipelineProofs -------------------------
(*****************************************************************************)
(* The types of the index pipeline, and the lemmas that the steps of its     *)
(* processes keep the inductive invariant, for every vault and both bounds.  *)
(*****************************************************************************)
EXTENDS IndexPipelineSafety, SequenceTheorems, TLAPS

(* The types of each action.                                                 *)

LEMMA EventTypes ==
    /\ \A k \in Kind, p \in Path : EventOn(k, p) \in Event
    /\ Overflow \in Event
    /\ Error \in Event
    /\ \A p, q \in Path : RenameEvents(p, q) \in Seq(Event)
<1>1. \A k \in Kind, p \in Path \cup {Root} : EventOn(k, p) \in Event
  BY DEF EventOn, Event
<1>2. Overflow \in Event /\ Error \in Event
  BY <1>1 DEF Overflow, Error, Kind
<1>3. ASSUME NEW p \in Path, NEW q \in Path PROVE RenameEvents(p, q) \in Seq(Event)
  <2>1. [kind |-> "Rename", path |-> p, to |-> q] \in Event
    BY DEF Event, Kind
  <2>2. /\ EventOn("Vanish", p) \in Event
        /\ EventOn("Appear", q) \in Event
        /\ EventOn("RenameUnpaired", p) \in Event
        /\ EventOn("RenameUnpaired", q) \in Event
    BY <1>1 DEF Kind
  <2> QED
    BY <2>1, <2>2 DEF RenameEvents
<1> QED
  BY <1>1, <1>2, <1>3

LEMMA CoalescedType ==
    ASSUME NEW S, NEW actions \in [S -> {"none", "upsert", "delete"}], NEW U, NEW D
    PROVE  Coalesced(actions, U, D) \in [S -> {"none", "upsert", "delete"}]
  BY DEF Coalesced

LEMMA BatchTypes ==
    /\ EmptyBatch \in IndexBatch
    /\ \A b \in IndexBatch, n \in Note, v \in Version :
          [b EXCEPT !.upserts[n] = v] \in IndexBatch
    /\ \A b \in IndexBatch, n \in Note : [b EXCEPT !.deletes = @ \cup {n}] \in IndexBatch
    /\ \A D \in SUBSET Note, P \in SUBSET Dir :
          [EmptyBatch EXCEPT !.deletes = D, !.prefixes = P] \in IndexBatch
  BY DEF EmptyBatch, IndexBatch, NoRecords, Record

LEMMA ApplyType ==
    ASSUME NEW m \in Message, NEW s \in [Note -> Record]
    PROVE  Apply(m, s) \in [Note -> Record]
<1>1. \A n \in Note : Result(m, n) \in Record
  <2>1. CASE m \in IndexBatch
    BY <2>1 DEF Result, IndexBatch
  <2>2. CASE m \in Rebuild
    BY <2>2 DEF Result, Rebuild
  <2> QED
    BY <2>1, <2>2 DEF Message
<1> QED
  BY <1>1 DEF Apply

(* A change of the vault keeps the types, whatever it does to the disk. *)
LEMMA ChangeTypes ==
    ASSUME TypeOK, NEW events \in Seq(Event), NEW touched \in SUBSET Note,
           Change(events, touched),
           disk' \in [Note -> Content], dirs' \in SUBSET Dir
    PROVE  TypeOK'
<1>1. /\ channel \in Seq(Event)
      /\ taken \in 0..Len(channel)
  BY DEF TypeOK
<1>2. /\ channel' \in Seq(Event)
      /\ Len(channel') >= Len(channel)
  <2>1. CASE channel' = channel \o events
    BY <1>1, <2>1, ConcatProperties, LenProperties
  <2>2. CASE channel' = Append(channel, Overflow)
    BY <1>1, <2>2, EventTypes, AppendProperties, LenProperties
  <2>3. CASE channel' = Append(channel, Error)
    BY <1>1, <2>3, EventTypes, AppendProperties, LenProperties
  <2>4. CASE channel' = channel
    BY <1>1, <2>4, LenProperties
  <2> QED
    BY <2>1, <2>2, <2>3, <2>4 DEF Change
<1>3. taken' \in 0..Len(channel')
  <2>1. Len(channel) \in Nat /\ Len(channel') \in Nat
    BY <1>1, <1>2, LenProperties
  <2> QED
    BY <1>1, <1>2, <2>1 DEF Change
<1>4. /\ exposed' \in [Note -> Cause \cup {"none"}]
      /\ lost' \in SUBSET Note
      /\ faults' \in Nat
      /\ changes' \in Nat
  BY DEF Change, Exposed, Cause, TypeOK
<1>5. past' \in [Note -> SUBSET Record]
  <2>1. \A n \in Note : Parsed(disk[n])' \in Record
    BY DEF Parsed, Record
  <2> QED
    BY <2>1 DEF Change, TypeOK, VaultTypeOK
<1> QED
  BY <1>2, <1>3, <1>4, <1>5 DEF Change, scannerVars, writerVars, TypeOK, VaultTypeOK

(* ... and each of the changes keeps it a disk. *)
LEMMA WithTreeType ==
    ASSUME NEW D \in [Note -> Content], disk = D, NEW d \in Dir, NEW f \in [Below({d}) -> Content]
    PROVE  WithTree(d, f) \in [Note -> Content]
  BY DEF WithTree

LEMMA VaultChangeTypes ==
    ASSUME TypeOK, VaultChange
    PROVE  TypeOK'
<1>1. /\ disk \in [Note -> Content] /\ dirs \in SUBSET Dir
      /\ \A d \in Dir : Inside[d] \in SUBSET Path
      /\ Note \subseteq Path /\ Dir \subseteq Path
      /\ Version \subseteq Content /\ Malformed \in Content /\ Absent \in Content
  BY TreeAssumption DEF TypeOK, VaultTypeOK, Path, Content
<1>2. ASSUME NEW n \in Note, NEW c \in Version \cup {Malformed}, WriteNote(n, c)
      PROVE  TypeOK'
  <2>1. EventOn(IF disk[n] = Absent THEN "Appear" ELSE "Modify", n) \in Event
    BY <1>1, EventTypes DEF Kind
  <2>2. disk' \in [Note -> Content] /\ dirs' \in SUBSET Dir
    BY <1>1, <1>2 DEF WriteNote
  <2>3. <<EventOn(IF disk[n] = Absent THEN "Appear" ELSE "Modify", n)>> \in Seq(Event)
    BY <2>1
  <2>4. {n} \in SUBSET Note
    OBVIOUS
  <2>5. Change(<<EventOn(IF disk[n] = Absent THEN "Appear" ELSE "Modify", n)>>, {n})
    BY <1>2 DEF WriteNote
  <2> QED
    BY <2>2, <2>3, <2>4, <2>5, ChangeTypes
<1>3. ASSUME NEW n \in Note, RemoveNote(n)
      PROVE  TypeOK'
  <2>1. PICK kind \in RemovalKinds : Change(<<EventOn(kind, n)>>, {n})
    BY <1>3 DEF RemoveNote
  <2>2. EventOn(kind, n) \in Event
    BY <1>1, EventTypes DEF Kind, RemovalKinds
  <2>3. disk' \in [Note -> Content] /\ dirs' \in SUBSET Dir
    BY <1>1, <1>3 DEF RemoveNote
  <2>4. <<EventOn(kind, n)>> \in Seq(Event)
    BY <2>2
  <2>5. {n} \in SUBSET Note
    OBVIOUS
  <2> QED
    BY <2>1, <2>3, <2>4, <2>5, ChangeTypes
<1>4. ASSUME NEW m \in Note, NEW n \in Note, RenameNote(m, n)
      PROVE  TypeOK'
  <2>1. RenameEvents(m, n) \in Seq(Event)
    BY <1>1, EventTypes
  <2>2. disk' \in [Note -> Content] /\ dirs' \in SUBSET Dir
    BY <1>1, <1>4 DEF RenameNote
  <2> QED
    BY <1>4, <2>1, <2>2, ChangeTypes DEF RenameNote
<1>5. ASSUME NEW d \in Dir, NEW D \in SUBSET (Inside[d] \cap Dir),
             NEW f \in [Below({d}) -> Content], TreeAppears(d, D, f)
      PROVE  TypeOK'
  <2>1. EventOn("Appear", d) \in Event
    BY <1>1, EventTypes DEF Kind
  <2>2. disk' \in [Note -> Content] /\ dirs' \in SUBSET Dir
    BY <1>1, <1>5, WithTreeType DEF TreeAppears
  <2>3. Below({d}) \in SUBSET Note
    BY DEF Below
  <2>4. <<EventOn("Appear", d)>> \in Seq(Event)
    BY <2>1
  <2> QED
    BY <1>5, <2>2, <2>3, <2>4, ChangeTypes DEF TreeAppears
<1>6. ASSUME NEW d \in Dir, TreeVanishes(d)
      PROVE  TypeOK'
  <2>1. EventOn("Vanish", d) \in Event
    BY <1>1, EventTypes DEF Kind
  <2>2. disk' \in [Note -> Content] /\ dirs' \in SUBSET Dir
    BY <1>1, <1>6 DEF TreeVanishes, WithTree, NoRecords
  <2>3. <<EventOn("Vanish", d)>> \in Seq(Event)
    BY <2>1
  <2> QED
    BY <1>6, <2>2, <2>3, ChangeTypes DEF TreeVanishes
<1>7. ASSUME NEW d \in Dir, NEW e \in Dir, NEW D \in SUBSET (Inside[e] \cap Dir),
             NEW f \in [Below({e}) -> Content], RenameTree(d, e, D, f)
      PROVE  TypeOK'
  <2>1. RenameEvents(d, e) \in Seq(Event)
    BY <1>1, EventTypes
  <2>2. disk' \in [Note -> Content] /\ dirs' \in SUBSET Dir
    BY <1>1, <1>7, WithTreeType DEF RenameTree
  <2>3. Below({e}) \in SUBSET Note
    BY DEF Below
  <2> QED
    BY <1>7, <2>1, <2>2, <2>3, ChangeTypes DEF RenameTree
<1> QED
  BY <1>2, <1>3, <1>4, <1>5, <1>6, <1>7 DEF VaultChange

(* The channel after the steps that consume or drop its events. *)
LEMMA ChannelTypes ==
    ASSUME TypeOK
    PROVE  /\ channel # <<>> => /\ Tail(channel) \in Seq(Event)
                                /\ Len(Tail(channel)) = Len(channel) - 1
           /\ Len(channel) \in Nat
           /\ \A k \in 0..taken : /\ SubSeq(channel, 1, k) \in Seq(Event)
                                  /\ Len(SubSeq(channel, 1, k)) = k
<1>1. channel \in Seq(Event) /\ taken \in 0..Len(channel)
  BY DEF TypeOK
<1>2. Len(channel) \in Nat
  BY <1>1, LenProperties
<1>3. ASSUME NEW k \in 0..taken
      PROVE  SubSeq(channel, 1, k) \in Seq(Event) /\ Len(SubSeq(channel, 1, k)) = k
  <2>1. \A i \in 1..k : channel[i] \in Event
    BY <1>1, <1>2, ElementOfSeq
  <2>2. 1 \in Int /\ k \in Int
    BY <1>1, <1>2
  <2> QED
    BY <1>1, <1>2, <2>1, <2>2, SubSeqProperties
<1> QED
  BY <1>1, <1>2, <1>3, HeadTailProperties

LEMMA DebouncerTypes ==
    ASSUME TypeOK, Debouncer
    PROVE  TypeOK'
<1> USE DEF scannerVars, writerVars, vaultVars, history
<1>1. CASE Receive
  <2>1. taken' \in 0..Len(channel')
    BY <1>1, ChannelTypes DEF Receive, TypeOK
  <2>2. health' \in [inFlight : BOOLEAN, watcher : {"running", "degraded"},
                     indexed : BOOLEAN, event : BOOLEAN]
    BY <1>1 DEF Receive, TypeOK
  <2> QED
    BY <1>1, <2>1, <2>2 DEF Receive, TypeOK, VaultTypeOK
<1>2. CASE CloseWindow
  BY <1>2 DEF CloseWindow, TypeOK, VaultTypeOK
<1>3. CASE MapEvent
  <2>1. noteAction' \in NoteActions /\ treeAction' \in TreeActions
    BY <1>3, CoalescedType DEF MapEvent, TypeOK, NoteActions, TreeActions
  <2>2. /\ channel' \in Seq(Event) /\ taken' \in 0..Len(channel')
        /\ overflow' \in BOOLEAN
    BY <1>3, ChannelTypes DEF MapEvent, TypeOK
  <2> QED
    BY <1>3, <2>1, <2>2 DEF MapEvent, TypeOK, VaultTypeOK
<1>4. CASE EndMap
  <2>1. todo' \in SUBSET Note /\ batch' \in IndexBatch
    <3>1. Reads \in SUBSET Note /\ Acted(noteAction, "delete") \in SUBSET Note
      BY DEF Reads, Acted, Below, TypeOK, NoteActions
    <3>2. Prefixes \in SUBSET Dir
      BY DEF Prefixes
    <3>3. [EmptyBatch EXCEPT !.deletes = Acted(noteAction, "delete"),
                             !.prefixes = Prefixes] \in IndexBatch
      BY <3>1, <3>2, BatchTypes
    <3>4. CASE noteAction = NoNoteAction /\ treeAction = NoTreeAction
      BY <1>4, <3>4 DEF EndMap, TypeOK
    <3>5. CASE ~(noteAction = NoNoteAction /\ treeAction = NoTreeAction)
      BY <1>4, <3>1, <3>3, <3>5 DEF EndMap
    <3> QED
      BY <3>4, <3>5
  <2>2. rescans' \in Nat /\ phase' \in {"collect", "map", "build"}
    BY <1>4 DEF EndMap, TypeOK
  <2>3. UNCHANGED <<disk, dirs, past, watcher, channel, taken, noteAction, treeAction,
                    scanner, walkTodo, walked, cleared, writerUp, mailbox, applied, store,
                    health, changes, faults, exposed, lost>>
    BY <1>4 DEF EndMap
  <2>4. overflow' \in BOOLEAN
    BY <1>4 DEF EndMap
  <2> QED
    BY <2>1, <2>2, <2>3, <2>4 DEF TypeOK, VaultTypeOK
<1>5. CASE CastBatch
  <2>1. /\ noteAction' \in NoteActions /\ treeAction' \in TreeActions
        /\ batch' \in IndexBatch
    BY <1>5, BatchTypes DEF CastBatch, NoteActions, TreeActions, NoNoteAction, NoTreeAction
  <2>2. mailbox' \in Seq(Message)
    BY <1>5, AppendProperties DEF CastBatch, Cast, TypeOK, Message
  <2>3. exposed' \in [Note -> Cause \cup {"none"}]
    BY <1>5 DEF CastBatch, TypeOK, Cause
  <2> QED
    BY <1>5, <2>1, <2>2, <2>3 DEF CastBatch, TypeOK, VaultTypeOK
<1>6. ASSUME NEW n \in Note, ReadNote(n)
      PROVE  TypeOK'
  <2>1. batch' \in IndexBatch
    BY <1>6, BatchTypes DEF ReadNote, TypeOK
  <2> QED
    BY <1>6, <2>1 DEF ReadNote, TypeOK, VaultTypeOK
<1> QED
  BY <1>1, <1>2, <1>3, <1>4, <1>5, <1>6 DEF Debouncer

LEMMA ScannerTypes ==
    ASSUME TypeOK, Scanner
    PROVE  TypeOK'
<1> USE DEF debouncerVars, writerVars, vaultVars, history
<1>1. CASE RescanNow
  <2>1. rescans' \in Nat
    BY <1>1 DEF RescanNow, TypeOK
  <2>2. walked' \in [Note -> Record]
    BY <1>1 DEF RescanNow, BeginWalk, NoRecords, Record
  <2>3. health' \in [inFlight : BOOLEAN, watcher : {"running", "degraded"},
                     indexed : BOOLEAN, event : BOOLEAN]
    BY <1>1 DEF RescanNow, BeginWalk, TypeOK
  <2> QED
    BY <1>1, <2>1, <2>2, <2>3 DEF RescanNow, BeginWalk, TypeOK, VaultTypeOK
<1>2. CASE EndWalk
  BY <1>2 DEF EndWalk, TypeOK, VaultTypeOK
<1>3. CASE CastRebuild
  <2>1. [kind |-> "Rebuild", notes |-> walked] \in Message
    BY DEF TypeOK, Message, Rebuild
  <2>2. mailbox' \in Seq(Message)
    BY <1>3, <2>1, AppendProperties DEF CastRebuild, SendWalked, Cast, TypeOK
  <2>3. exposed' \in [Note -> Cause \cup {"none"}]
    BY <1>3 DEF CastRebuild, SendWalked, Exposed, TypeOK, Cause
  <2> QED
    BY <1>3, <2>2, <2>3 DEF CastRebuild, SendWalked, NoRecords, Record, TypeOK, VaultTypeOK
<1>4. ASSUME NEW n \in Note, WalkNote(n)
      PROVE  TypeOK'
  <2>1. walked' \in [Note -> Record]
    BY <1>4 DEF WalkNote, Parsed, Record, TypeOK
  <2>2. exposed' \in [Note -> Cause \cup {"none"}]
    BY <1>4 DEF WalkNote, Exposed, TypeOK, Cause
  <2> QED
    BY <1>4, <2>1, <2>2 DEF WalkNote, TypeOK, VaultTypeOK
<1> QED
  BY <1>1, <1>3, <1>4, <1>2 DEF Scanner

LEMMA WriterTypes ==
    ASSUME TypeOK, Writer
    PROVE  TypeOK'
<1> USE DEF debouncerVars, scannerVars, vaultVars, history
<1>1. CASE RecordIndexUpdate
  BY <1>1 DEF RecordIndexUpdate, TypeOK, VaultTypeOK
<1>2. CASE HandleCast
  <2>1. mailbox \in Seq(Message) /\ mailbox # <<>>
    BY <1>2 DEF HandleCast, TypeOK
  <2>2. Head(mailbox) \in Message /\ Tail(mailbox) \in Seq(Message)
    BY <2>1, HeadTailProperties
  <2>3. store' \in [Note -> Record]
    BY <1>2, <2>2, ApplyType DEF HandleCast, TypeOK
  <2> QED
    BY <1>2, <2>2, <2>3 DEF HandleCast, TypeOK, VaultTypeOK
<1> QED
  BY <1>1, <1>2 DEF Writer

LEMMA RestartTypes ==
    ASSUME TypeOK, Restart
    PROVE  TypeOK'
<1> USE DEF debouncerVars, scannerVars, writerVars, vaultVars, history, TypeOK, VaultTypeOK
<1>1. CASE WatcherInit
  BY <1>1 DEF WatcherInit
<1>2. CASE ScannerInit
  BY <1>2 DEF ScannerInit, BeginWalk, NoRecords, Record
<1>3. CASE WriterInit
  BY <1>3 DEF WriterInit
<1> QED
  BY <1>1, <1>2, <1>3 DEF Restart

LEMMA FaultTypes ==
    ASSUME TypeOK, Fault
    PROVE  TypeOK'
<1> USE DEF debouncerVars, scannerVars, writerVars, vaultVars, history
<1>1. CASE WatcherCrash
  <2>1. channel' \in Seq(Event) /\ taken' \in 0..Len(channel')
    <3>1. PICK k \in {0, taken} : channel' = SubSeq(channel, 1, k) /\ taken' = k
      BY <1>1 DEF WatcherCrash
    <3>2. k \in 0..taken
      BY ChannelTypes DEF TypeOK
    <3> QED
      BY <3>1, <3>2, ChannelTypes
  <2>2. exposed' \in [Note -> Cause \cup {"none"}]
    BY <1>1 DEF WatcherCrash, Exposed, TypeOK, Cause
  <2>3. faults' \in Nat
    BY <1>1 DEF WatcherCrash, TypeOK
  <2>4. UNCHANGED <<disk, dirs, past, phase, noteAction, treeAction, overflow, todo, batch,
                    scanner, rescans, walkTodo, walked, cleared, writerUp, mailbox, applied,
                    store, health, changes, lost>>
    BY <1>1 DEF WatcherCrash
  <2>5. watcher' = "down"
    BY <1>1 DEF WatcherCrash
  <2> QED
    BY <2>1, <2>2, <2>3, <2>4, <2>5 DEF TypeOK, VaultTypeOK
<1>2. CASE WatcherInitFails
  <2>1. UNCHANGED <<disk, dirs, past, watcher, channel, taken, phase, noteAction, treeAction,
                    overflow, todo, batch, scanner, rescans, walkTodo, walked, cleared,
                    writerUp, mailbox, applied, store, changes, exposed, lost>>
    BY <1>2 DEF WatcherInitFails
  <2>2. faults' \in Nat /\ health' = [health EXCEPT !.watcher = "degraded"]
    BY <1>2 DEF WatcherInitFails, TypeOK
  <2> QED
    BY <2>1, <2>2 DEF TypeOK, VaultTypeOK
<1>3. CASE ScannerCrash
  <2>1. UNCHANGED <<disk, dirs, past, watcher, channel, taken, phase, noteAction, treeAction,
                    overflow, todo, batch, writerUp, mailbox, applied, store, health, changes,
                    exposed, lost>>
    BY <1>3 DEF ScannerCrash
  <2>2. /\ faults' \in Nat /\ scanner' = "down" /\ rescans' = 0 /\ walkTodo' = {}
        /\ walked' = NoRecords /\ cleared' = FALSE
    BY <1>3 DEF ScannerCrash, TypeOK
  <2> QED
    BY <2>1, <2>2 DEF NoRecords, Record, TypeOK, VaultTypeOK
<1>4. CASE WriterCrash
  <2>1. exposed' \in [Note -> Cause \cup {"none"}]
    BY <1>4 DEF WriterCrash, Exposed, TypeOK, Cause
  <2>2. mailbox' \in Seq(Message) /\ faults' \in Nat
    BY <1>4 DEF WriterCrash, TypeOK
  <2>3. UNCHANGED <<disk, dirs, past, watcher, channel, taken, phase, noteAction,
                    treeAction, overflow, todo, batch, scanner, rescans, walkTodo, walked,
                    cleared, applied, store, health, changes, lost>>
    BY <1>4 DEF WriterCrash
  <2>4. writerUp' \in BOOLEAN
    BY <1>4 DEF WriterCrash
  <2> QED
    BY <2>1, <2>2, <2>3, <2>4 DEF TypeOK, VaultTypeOK
<1> QED
  BY <1>1, <1>2, <1>3, <1>4 DEF Fault

LEMMA InitTypes == Init => TypeOK
<1> SUFFICES ASSUME Init PROVE TypeOK
  OBVIOUS
<1>1. /\ channel \in Seq(Event) /\ taken \in 0..Len(channel)
      /\ mailbox \in Seq(Message)
  BY DEF Init
<1>2. /\ noteAction \in NoteActions /\ treeAction \in TreeActions
      /\ batch \in IndexBatch
      /\ walked \in [Note -> Record] /\ store \in [Note -> Record]
      /\ exposed \in [Note -> Cause \cup {"none"}]
  BY BatchTypes DEF Init, NoteActions, TreeActions, NoNoteAction, NoTreeAction,
     NoRecords, Record
<1>3. past \in [Note -> SUBSET Record]
  <2>1. \A n \in Note : Parsed(disk[n]) \in Record
    BY DEF Parsed, Record
  <2> QED
    BY <2>1 DEF Init, VaultInit
<1> QED
  BY <1>1, <1>2, <1>3 DEF Init, VaultInit, TypeOK, VaultTypeOK

(* The variables of IndexPipeline keep their types: every event, action,     *)
(* batch, message and store entry stays in the set the code's types give it. *)
THEOREM TypeCorrect == Spec => []TypeOK
<1>1. TypeOK /\ [Next]_vars => TypeOK'
  <2> SUFFICES ASSUME TypeOK, [Next]_vars PROVE TypeOK'
    OBVIOUS
  <2>1. CASE UNCHANGED vars
    BY <2>1 DEF vars, vaultVars, debouncerVars, scannerVars, writerVars, history,
       TypeOK, VaultTypeOK
  <2> QED
    BY <2>1, VaultChangeTypes, DebouncerTypes, ScannerTypes, WriterTypes,
       RestartTypes, FaultTypes DEF Next
<1> QED
  BY <1>1, InitTypes, PTL DEF Spec

-----------------------------------------------------------------------------

(* Frames: what the parts of the invariant depend on.                       *)

LEMMA SameEvents ==
    ASSUME disk' = disk, dirs' = dirs
    PROVE  /\ \A e, n : Covers(e, n)' <=> Covers(e, n)
           /\ \A e, n : Truthful(e, n)' <=> Truthful(e, n)
  BY DEF Covers, Truthful, NoteUpserts, NoteDeletes, TreeUpserts, TreeDeletes, Modified,
     Came, Gone, Exists, Below, ReadDecides

LEMMA SameMatches ==
    ASSUME NEW n, disk'[n] = disk[n]
    PROVE  \A r : Matches(n, r)' <=> Matches(n, r)
  BY DEF Matches

LEMMA SameHeld ==
    ASSUME UNCHANGED <<phase, noteAction, treeAction, todo, batch>>
    PROVE  /\ \A n : Held(n)' <=> Held(n)
           /\ \A n : n \in Reads' <=> n \in Reads
           /\ \A n : Removed(n)' <=> Removed(n)
           /\ \A n : Rereads(n)' <=> Rereads(n)
  BY DEF Held, Reads, Removed, Rereads, ReadDecides, Prefixes, Acted, Below, Touches

LEMMA SamePending ==
    ASSUME UNCHANGED <<disk, dirs, channel>>
    PROVE  \A n : Pending(n)' <=> Pending(n)
  BY SameEvents DEF Pending

LEMMA FlushFrame ==
    ASSUME NEW n \in Note, FlushInv(n), Unexposed(n)' => Unexposed(n),
           UNCHANGED <<disk, dirs, channel, phase, noteAction, treeAction, todo, batch, lost>>
    PROVE  FlushInv(n)'
<1>1. ChannelTruthful(n)'
  BY SameEvents DEF FlushInv, ChannelTruthful, Reported
<1>2. ActionsComplete(n)'
  BY SameHeld, SamePending DEF FlushInv, ActionsComplete, Reported
<1>3. BatchMatches(n)'
  BY SamePending, SameMatches, SameHeld DEF FlushInv, BatchMatches, Reported, Touches, Below
<1>4. LossBehind(n)'
  BY SameEvents DEF FlushInv, LossBehind
<1> QED
  BY <1>1, <1>2, <1>3, <1>4 DEF FlushInv

(* A note the rescan will reach needs no more. *)
LEMMA SettledVacuous ==
    ASSUME NEW n \in Note, (Pending(n) \/ RescanDue(n))'
    PROVE  SettledInv(n)'
  BY DEF SettledInv, NoOldVerdict, WalkMatches, Delivered, Unrefreshed

LEMMA SameMailbox ==
    ASSUME NEW n \in Note, UNCHANGED <<mailbox, store>>, disk'[n] = disk[n],
           MailboxMatches(n)
    PROVE  MailboxMatches(n)'
  BY SameMatches DEF MailboxMatches, LastTouching

LEMMA SettledFrame ==
    ASSUME NEW n \in Note, SettledInv(n), Unexposed(n)' => Unexposed(n),
           UNCHANGED <<mailbox, store, scanner, walkTodo, walked>>,
           n \in lost' => n \in lost,
           disk'[n] = disk[n],
           Held(n)' <=> Held(n),
           Unrefreshed(n)' => Unrefreshed(n)
    PROVE  SettledInv(n)'
<1>1. WalkHolds(n)' <=> WalkHolds(n)
  BY DEF WalkHolds, Walking
<1>2. NoOldVerdict(n)'
  BY DEF SettledInv, NoOldVerdict
<1>3. WalkMatches(n)'
  BY <1>1, SameMatches DEF SettledInv, WalkMatches
<1>4. Delivered(n)'
  BY <1>1, SameMailbox DEF SettledInv, Delivered
<1> QED
  BY <1>2, <1>3, <1>4 DEF SettledInv

-----------------------------------------------------------------------------
(* The writer's mailbox.                                                    *)

LEMMA MailboxFacts ==
    ASSUME TypeOK
    PROVE  /\ Len(mailbox) \in Nat
           /\ DOMAIN mailbox = 1..Len(mailbox)
           /\ \A i \in DOMAIN mailbox : mailbox[i] \in Message
  BY LenProperties, ElementOfSeq DEF TypeOK

LEMMA MailboxAppend ==
    ASSUME TypeOK, NEW n \in Note, NEW m \in Message,
           mailbox' = Append(mailbox, m), store' = store, disk'[n] = disk[n],
           IF Touches(m, n) THEN Matches(n, Result(m, n)) ELSE MailboxMatches(n)
    PROVE  MailboxMatches(n)'
<1>1. /\ Len(mailbox) \in Nat
      /\ DOMAIN mailbox = 1..Len(mailbox)
      /\ DOMAIN mailbox' = 1..(Len(mailbox) + 1)
      /\ \A i \in 1..Len(mailbox) : mailbox'[i] = mailbox[i]
      /\ mailbox'[Len(mailbox) + 1] = m
  BY MailboxFacts, AppendProperties, LenProperties DEF TypeOK
<1>2. CASE Touches(m, n)
  <2>1. ASSUME NEW i \in DOMAIN mailbox', LastTouching(i, n)'
        PROVE  mailbox'[i] = m
    BY <1>1, <1>2, <2>1 DEF LastTouching
  <2>2. ~(\A i \in DOMAIN mailbox' : ~Touches(mailbox'[i], n))
    BY <1>1, <1>2
  <2> QED
    BY <1>2, <2>1, <2>2, SameMatches DEF MailboxMatches
<1>3. CASE ~Touches(m, n)
  <2>1. ASSUME NEW i \in DOMAIN mailbox', LastTouching(i, n)'
        PROVE  LastTouching(i, n) /\ mailbox'[i] = mailbox[i] /\ i \in DOMAIN mailbox
    BY <1>1, <1>3, <2>1 DEF LastTouching
  <2>2. (\A i \in DOMAIN mailbox' : ~Touches(mailbox'[i], n))
           => (\A i \in DOMAIN mailbox : ~Touches(mailbox[i], n))
    BY <1>1
  <2> QED
    BY <1>3, <2>1, <2>2, SameMatches DEF MailboxMatches
<1> QED
  BY <1>2, <1>3

LEMMA MailboxHandled ==
    ASSUME TypeOK, NEW n \in Note, HandleCast, MailboxMatches(n)
    PROVE  MailboxMatches(n)'
<1> DEFINE m == Head(mailbox)
<1>1. /\ Len(mailbox) \in Nat /\ Len(mailbox) > 0
      /\ DOMAIN mailbox = 1..Len(mailbox)
      /\ DOMAIN mailbox' = 1..(Len(mailbox) - 1)
      /\ \A i \in 1..(Len(mailbox) - 1) : mailbox'[i] = mailbox[i + 1]
      /\ m = mailbox[1]
  <2>1. mailbox \in Seq(Message) /\ mailbox # <<>> /\ mailbox' = Tail(mailbox)
    BY DEF HandleCast, TypeOK
  <2> QED
    BY <2>1, HeadTailProperties, LenProperties, EmptySeq
<1>2. store'[n] = IF Touches(m, n) THEN Result(m, n) ELSE store[n]
  BY DEF HandleCast, Apply
<1>3. disk' = disk
  BY DEF HandleCast, vaultVars
<1>4. ASSUME NEW i \in DOMAIN mailbox', LastTouching(i, n)'
      PROVE  /\ LastTouching(i + 1, n)
             /\ i + 1 \in DOMAIN mailbox
             /\ mailbox'[i] = mailbox[i + 1]
  <2>1. i + 1 \in DOMAIN mailbox /\ mailbox'[i] = mailbox[i + 1]
    BY <1>1
  <2>2. ASSUME NEW j \in DOMAIN mailbox, j > i + 1
        PROVE  ~Touches(mailbox[j], n)
    <3>1. j - 1 \in DOMAIN mailbox' /\ j - 1 > i /\ mailbox'[j - 1] = mailbox[j]
      BY <1>1, <2>2
    <3> QED
      BY <1>4, <3>1 DEF LastTouching
  <2> QED
    BY <1>4, <2>1, <2>2 DEF LastTouching
<1>5. ASSUME \A i \in DOMAIN mailbox' : ~Touches(mailbox'[i], n)
      PROVE  Matches(n, store'[n])
  <2>1. ASSUME NEW j \in DOMAIN mailbox, j > 1
        PROVE  ~Touches(mailbox[j], n)
    <3>1. j - 1 \in DOMAIN mailbox' /\ mailbox'[j - 1] = mailbox[j]
      BY <1>1, <2>1
    <3> QED
      BY <1>5, <3>1
  <2>2. 1 \in DOMAIN mailbox
    BY <1>1
  <2>3. CASE Touches(m, n)
    BY <1>1, <1>2, <2>1, <2>2, <2>3 DEF LastTouching, MailboxMatches
  <2>4. CASE ~Touches(m, n)
    <3>1. \A j \in DOMAIN mailbox : ~Touches(mailbox[j], n)
      BY <1>1, <2>1, <2>4
    <3> QED
      BY <1>2, <2>4, <3>1 DEF MailboxMatches
  <2> QED
    BY <2>3, <2>4
<1>6. \A i \in DOMAIN mailbox' : LastTouching(i, n)' => Matches(n, Result(mailbox'[i], n))
  BY <1>4 DEF MailboxMatches
<1> QED
  BY <1>3, <1>5, <1>6, SameMatches DEF MailboxMatches

-----------------------------------------------------------------------------
(* The steps that move no information about a note.                          *)

FlushSource == <<disk, dirs, channel, phase, noteAction, treeAction, todo, batch, lost>>
SettledSource == <<mailbox, store, scanner, walkTodo, walked, rescans, overflow, exposed>>

LEMMA IdleSteps ==
    ASSUME NEW n \in Note, NoteInv(n), UNCHANGED <<FlushSource, SettledSource>>
    PROVE  NoteInv(n)'
<1> USE DEF FlushSource, SettledSource
<1>1. Unexposed(n)' => Unexposed(n)
  BY DEF Unexposed
<1>2. Unrefreshed(n)' => Unrefreshed(n)
  BY SamePending DEF Unrefreshed, RescanDue, FullRescanDue, Walking
<1>3. Held(n)' <=> Held(n)
  BY SameHeld
<1> QED
  BY <1>1, <1>2, <1>3, FlushFrame, SettledFrame DEF NoteInv

LEMMA HandleCastKeeps ==
    ASSUME TypeOK, NEW n \in Note, NoteInv(n), HandleCast
    PROVE  NoteInv(n)'
<1>1. UNCHANGED <<disk, dirs, channel, phase, noteAction, treeAction, todo, batch, lost,
                  scanner, walkTodo, walked, rescans, overflow, exposed>>
  BY DEF HandleCast, vaultVars, debouncerVars, scannerVars, history
<1>2. Unexposed(n)' <=> Unexposed(n)
  BY <1>1 DEF Unexposed
<1>3. FlushInv(n)'
  BY <1>1, <1>2, FlushFrame DEF NoteInv
<1>4. /\ Unrefreshed(n)' <=> Unrefreshed(n)
      /\ Held(n)' <=> Held(n)
      /\ WalkHolds(n)' <=> WalkHolds(n)
  BY <1>1, SamePending, SameHeld DEF Unrefreshed, RescanDue, FullRescanDue, Walking, WalkHolds
<1>5. NoOldVerdict(n)' /\ WalkMatches(n)'
  BY <1>1, <1>2, <1>4, SameMatches DEF NoteInv, SettledInv, NoOldVerdict, WalkMatches
<1>6. Delivered(n)'
  BY <1>2, <1>4, MailboxHandled DEF NoteInv, SettledInv, Delivered
<1> QED
  BY <1>3, <1>5, <1>6 DEF NoteInv, SettledInv

-----------------------------------------------------------------------------
(* vault_scanner.                                                           *)

LEMMA WalkBegins ==
    ASSUME TypeOK, NEW n \in Note, NoteInv(n), RescanNow \/ ScannerInit \/ ScannerCrash
    PROVE  NoteInv(n)'
<1>1. UNCHANGED <<disk, dirs, channel, phase, noteAction, treeAction, todo, batch, lost, exposed>>
  BY DEF RescanNow, ScannerInit, ScannerCrash, vaultVars, debouncerVars, history
<1>2. FlushInv(n)'
  BY <1>1, FlushFrame DEF NoteInv, Unexposed
<1>3. RescanDue(n)'
  BY DEF RescanNow, ScannerInit, ScannerCrash, BeginWalk, RescanDue, FullRescanDue, Walking
<1> QED
  BY <1>2, <1>3, SettledVacuous DEF NoteInv

LEMMA WalkNoteKeeps ==
    ASSUME TypeOK, NEW n \in Note, NoteInv(n), NEW m \in Note, WalkNote(m)
    PROVE  NoteInv(n)'
<1>1. UNCHANGED <<disk, dirs, channel, phase, noteAction, treeAction, todo, batch, lost,
                  overflow, rescans, scanner, mailbox, store>>
  BY DEF WalkNote, vaultVars, debouncerVars, writerVars
<1>2. Unexposed(n)' => Unexposed(n)
  BY DEF WalkNote, Exposed, Unexposed
<1>3. FlushInv(n)'
  BY <1>1, <1>2, FlushFrame DEF NoteInv
<1>4. /\ Pending(n)' <=> Pending(n)
      /\ Held(n)' <=> Held(n)
      /\ FullRescanDue' <=> FullRescanDue
  BY <1>1, SamePending, SameHeld DEF FullRescanDue
<1>5. CASE n # m
  <2>1. /\ n \in walkTodo' <=> n \in walkTodo
        /\ walked'[n] = walked[n]
    BY <1>5 DEF WalkNote, TypeOK
  <2>2. /\ Unrefreshed(n)' <=> Unrefreshed(n)
        /\ WalkHolds(n)' <=> WalkHolds(n)
    BY <1>1, <1>4, <2>1 DEF Unrefreshed, RescanDue, Walking, WalkHolds
  <2>3. NoOldVerdict(n)' /\ WalkMatches(n)'
    BY <1>1, <1>2, <1>4, <2>1, <2>2, SameMatches
       DEF NoteInv, SettledInv, NoOldVerdict, WalkMatches
  <2>4. Delivered(n)'
    BY <1>1, <1>2, <1>4, <2>2, SameMailbox DEF NoteInv, SettledInv, Delivered
  <2> QED
    BY <1>3, <2>3, <2>4 DEF NoteInv, SettledInv
<1>6. CASE n = m
  <2>1. WalkHolds(n)'
    BY <1>1, <1>6 DEF WalkNote, WalkHolds, Walking
  <2>2. Delivered(n)'
    BY <2>1 DEF Delivered
  <2>3. WalkMatches(n)'
    <3>1. walked'[n] = Parsed(disk[n])
      BY <1>6 DEF WalkNote, TypeOK
    <3>2. Matches(n, Parsed(disk[n]))
      BY ContentAssumption DEF Matches, Parsed
    <3> QED
      BY <1>1, <3>1, <3>2, SameMatches DEF WalkMatches
  <2>4. NoOldVerdict(n)'
    <3> SUFFICES ASSUME n \in lost, Unexposed(n)', Held(n) PROVE FullRescanDue
      BY <1>1, <1>4 DEF NoOldVerdict, Unrefreshed, RescanDue
    <3>1. CASE ~FullRescanDue
      <4>1. exposed'[n] = "batch"
        BY <1>6, <3>1 DEF WalkNote, Exposed
      <4> QED
        BY <4>1 DEF Unexposed
    <3> QED
      BY <3>1
  <2> QED
    BY <1>3, <2>2, <2>3, <2>4 DEF NoteInv, SettledInv
<1> QED
  BY <1>5, <1>6

LEMMA CastRebuildKeeps ==
    ASSUME TypeOK, Bookkeeping, NEW n \in Note, NoteInv(n), CastRebuild
    PROVE  NoteInv(n)'
<1>1. UNCHANGED <<disk, dirs, channel, phase, noteAction, treeAction, todo, batch, lost,
                  overflow, rescans, store>>
  BY DEF CastRebuild, SendWalked, vaultVars, debouncerVars
<1>2. Unexposed(n)' => Unexposed(n)
  BY DEF CastRebuild, SendWalked, Exposed, Unexposed
<1>3. FlushInv(n)'
  BY <1>1, <1>2, FlushFrame DEF NoteInv
<1>4. WalkHolds(n) /\ ~WalkHolds(n)'
  BY DEF CastRebuild, SendWalked, WalkHolds, Walking, Bookkeeping
<1>5. /\ Unrefreshed(n)' <=> Unrefreshed(n)
      /\ Held(n)' <=> Held(n)
  <2>1. FullRescanDue' <=> FullRescanDue
    BY <1>1 DEF CastRebuild, SendWalked, FullRescanDue, Walking, Bookkeeping
  <2>2. n \notin walkTodo /\ n \notin walkTodo'
    BY DEF CastRebuild, SendWalked, Bookkeeping
  <2> QED
    BY <1>1, <2>1, <2>2, SamePending, SameHeld DEF Unrefreshed, RescanDue
<1>6. NoOldVerdict(n)' /\ WalkMatches(n)'
  BY <1>1, <1>2, <1>4, <1>5 DEF NoteInv, SettledInv, NoOldVerdict, WalkMatches
<1>7. Delivered(n)'
  <2> SUFFICES ASSUME Unexposed(n)', Unrefreshed(n)', ~Held(n)' PROVE MailboxMatches(n)'
    BY DEF Delivered
  <2> DEFINE m == [kind |-> "Rebuild", notes |-> walked]
  <2>1. m \in Message /\ Touches(m, n) /\ Result(m, n) = walked[n]
    BY DEF TypeOK, Message, Rebuild, Touches, Result
  <2>2. Matches(n, walked[n])
    BY <1>2, <1>4, <1>5 DEF NoteInv, SettledInv, WalkMatches
  <2>3. writerUp
    <3> SUFFICES ASSUME ~writerUp PROVE FALSE
      OBVIOUS
    <3>1. exposed'[n] = "mailbox"
      BY <1>5 DEF CastRebuild, SendWalked, Exposed
    <3> QED
      BY <3>1 DEF Unexposed
  <2>4. mailbox' = Append(mailbox, m)
    BY <2>3 DEF CastRebuild, SendWalked, Cast
  <2> HIDE DEF m
  <2> QED
    BY <1>1, <2>1, <2>2, <2>4, MailboxAppend
<1> QED
  BY <1>3, <1>6, <1>7 DEF NoteInv, SettledInv

-----------------------------------------------------------------------------
(* Crashes of the writer and the watcher.                                   *)

LEMMA WriterCrashKeeps ==
    ASSUME TypeOK, NEW n \in Note, NoteInv(n), WriterCrash
    PROVE  NoteInv(n)'
<1>1. UNCHANGED <<disk, dirs, channel, phase, noteAction, treeAction, todo, batch, lost,
                  scanner, walkTodo, walked, rescans, overflow, store>>
  BY DEF WriterCrash, vaultVars, debouncerVars, scannerVars
<1>2. Unexposed(n)' => Unexposed(n)
  BY DEF WriterCrash, Exposed, Unexposed
<1>3. FlushInv(n)'
  BY <1>1, <1>2, FlushFrame DEF NoteInv
<1>4. /\ Unrefreshed(n)' <=> Unrefreshed(n)
      /\ Held(n)' <=> Held(n)
      /\ WalkHolds(n)' <=> WalkHolds(n)
  BY <1>1, SamePending, SameHeld DEF Unrefreshed, RescanDue, FullRescanDue, Walking, WalkHolds
<1>5. NoOldVerdict(n)' /\ WalkMatches(n)'
  BY <1>1, <1>2, <1>4, SameMatches DEF NoteInv, SettledInv, NoOldVerdict, WalkMatches
<1>6. Delivered(n)'
  <2> SUFFICES ASSUME Unexposed(n)', Unrefreshed(n), ~Held(n), ~WalkHolds(n)
               PROVE  MailboxMatches(n)'
    BY <1>4 DEF Delivered
  <2>1. \A i \in DOMAIN mailbox : ~Touches(mailbox[i], n)
    <3> SUFFICES ASSUME \E i \in DOMAIN mailbox : Touches(mailbox[i], n) PROVE FALSE
      OBVIOUS
    <3>1. exposed'[n] = "mailbox"
      BY DEF WriterCrash, Exposed
    <3> QED
      BY <3>1 DEF Unexposed
  <2>2. Matches(n, store[n])
    BY <1>2, <2>1 DEF NoteInv, SettledInv, Delivered, MailboxMatches
  <2>3. mailbox' = <<>>
    BY DEF WriterCrash
  <2> QED
    BY <1>1, <2>2, <2>3, SameMatches DEF MailboxMatches
<1> QED
  BY <1>3, <1>5, <1>6 DEF NoteInv, SettledInv

LEMMA WatcherCrashKeeps ==
    ASSUME TypeOK, NEW n \in Note, NoteInv(n), WatcherCrash
    PROVE  NoteInv(n)'
<1>1. UNCHANGED <<disk, dirs, phase, noteAction, treeAction, todo, batch, lost,
                  scanner, walkTodo, walked, rescans, overflow, mailbox, store>>
  BY DEF WatcherCrash, vaultVars, scannerVars, writerVars
<1> DEFINE k == IF phase = "map" THEN taken ELSE 0
<1>2. /\ k \in 0..Len(channel)
      /\ channel' = SubSeq(channel, 1, k)
      /\ exposed' = Exposed({m \in Note : \E e \in {channel[i] : i \in (k + 1)..Len(channel)} :
                                Covers(e, m) \/ e.kind = "Overflow"}, "window")
  BY ChannelTypes DEF WatcherCrash, TypeOK
<1> HIDE DEF k
<1>3. /\ Len(channel) \in Nat /\ k \in Nat /\ k <= Len(channel)
      /\ DOMAIN channel = 1..Len(channel)
      /\ DOMAIN channel' = 1..k
      /\ \A i \in 1..k : channel'[i] = channel[i]
  <2>1. channel \in Seq(Event)
    BY DEF TypeOK
  <2>2. Len(channel) \in Nat /\ DOMAIN channel = 1..Len(channel) /\ k \in Nat /\ k <= Len(channel)
    BY <1>2, <2>1, LenProperties
  <2>3. \A i \in 1..k : channel[i] \in Event
    BY <2>1, <2>2, ElementOfSeq
  <2>4. /\ channel' \in Seq(Event)
        /\ Len(channel') = k
        /\ \A i \in 1..k : channel'[i] = channel[i]
    BY <1>2, <2>1, <2>2, <2>3, SubSeqProperties
  <2> QED
    BY <2>2, <2>4, LenProperties
<1>4. Unexposed(n)' =>
        /\ Unexposed(n)
        /\ \A i \in (k + 1)..Len(channel) : ~Covers(channel[i], n) /\ channel[i].kind # "Overflow"
  BY <1>2 DEF Exposed, Unexposed
<1>5. CASE ~Unexposed(n)'
  <2>1. /\ ChannelTruthful(n)' /\ ActionsComplete(n)' /\ LossBehind(n)'
        /\ NoOldVerdict(n)' /\ WalkMatches(n)' /\ Delivered(n)'
    BY <1>5 DEF ChannelTruthful, ActionsComplete, LossBehind, NoOldVerdict, WalkMatches,
       Delivered, Reported
  <2>2. BatchMatches(n)'
    BY <1>1, <1>5 DEF NoteInv, FlushInv, BatchMatches, Reported
  <2> QED
    BY <2>1, <2>2 DEF NoteInv, FlushInv, SettledInv
<1>6. CASE Unexposed(n)'
  <2>1. \A i \in DOMAIN channel :
          Covers(channel[i], n) \/ channel[i].kind = "Overflow" => i \in DOMAIN channel'
    BY <1>3, <1>4, <1>6
  <2>2. Pending(n)' <=> Pending(n)
    BY <1>1, <1>3, <2>1, SameEvents DEF Pending
  <2>3. FullRescanDue' <=> FullRescanDue
    BY <1>1, <1>3, <2>1 DEF FullRescanDue
  <2>4. Unrefreshed(n)' <=> Unrefreshed(n)
    BY <1>1, <2>2, <2>3 DEF Unrefreshed, RescanDue, Walking
  <2>5. Held(n)' <=> Held(n)
    BY <1>1, SameHeld
  <2>6. SettledInv(n)'
    BY <1>1, <1>4, <2>4, <2>5, SettledFrame DEF NoteInv
  <2>7. ChannelTruthful(n)'
    <3> SUFFICES ASSUME Reported(n), NEW i \in DOMAIN channel',
                        Covers(channel'[i], n), ~Truthful(channel'[i], n)
                 PROVE  \E j \in DOMAIN channel' :
                          j > i /\ Covers(channel'[j], n) /\ Truthful(channel'[j], n)
      BY <1>1, <1>4, SameEvents DEF ChannelTruthful, Reported
    <3>1. i \in DOMAIN channel /\ channel'[i] = channel[i]
      BY <1>3
    <3>2. PICK j \in DOMAIN channel :
                 j > i /\ Covers(channel[j], n) /\ Truthful(channel[j], n)
      BY <3>1 DEF NoteInv, FlushInv, ChannelTruthful
    <3> QED
      BY <1>3, <2>1, <3>2
  <2>8. ActionsComplete(n)'
    BY <1>1, <1>4, <2>2, <2>5, SameHeld DEF NoteInv, FlushInv, ActionsComplete, Reported
  <2>9. BatchMatches(n)'
    BY <1>1, <1>4, <2>2, SameMatches, SameHeld
       DEF NoteInv, FlushInv, BatchMatches, Reported, Touches, Below
  <2>10. LossBehind(n)'
    BY <1>1, <1>3, <1>4, <2>1, SameEvents DEF NoteInv, FlushInv, LossBehind
  <2> QED
    BY <2>6, <2>7, <2>8, <2>9, <2>10 DEF NoteInv, FlushInv
<1> QED
  BY <1>5, <1>6

-----------------------------------------------------------------------------
(* The debouncer.                                                           *)

LEMMA ChannelHead ==
    ASSUME TypeOK, MapEvent
    PROVE  /\ Len(channel) \in Nat /\ Len(channel) > 0
           /\ DOMAIN channel = 1..Len(channel)
           /\ DOMAIN channel' = 1..(Len(channel) - 1)
           /\ \A i \in 1..(Len(channel) - 1) : channel'[i] = channel[i + 1]
           /\ Head(channel) = channel[1]
           /\ channel[1] \in Event
<1>1. channel \in Seq(Event) /\ channel # <<>> /\ channel' = Tail(channel)
  BY LenProperties DEF MapEvent, TypeOK
<1> QED
  BY <1>1, HeadTailProperties, LenProperties, EmptySeq, ElementOfSeq

LEMMA CloseWindowKeeps ==
    ASSUME TypeOK, Bookkeeping, NEW n \in Note, NoteInv(n), CloseWindow
    PROVE  NoteInv(n)'
<1>1. UNCHANGED <<disk, dirs, channel, noteAction, treeAction, todo, batch, lost, exposed,
                  scanner, walkTodo, walked, rescans, overflow, mailbox, store>>
  BY DEF CloseWindow, vaultVars, scannerVars, writerVars, history
<1>2. ~Held(n) /\ ~Held(n)'
  <2>1. phase = "collect" /\ phase' = "map"
    BY DEF CloseWindow
  <2>2. noteAction = NoNoteAction /\ treeAction = NoTreeAction
    BY <2>1 DEF Bookkeeping
  <2>3. n \notin Reads \cup Acted(noteAction, "delete") \cup Below(Prefixes)
    BY <2>2 DEF Reads, Acted, Below, Prefixes, NoNoteAction, NoTreeAction
  <2>4. /\ Reads' = Reads
        /\ Acted(noteAction, "delete")' = Acted(noteAction, "delete")
        /\ Below(Prefixes)' = Below(Prefixes)
    BY <1>1 DEF Reads, Acted, Below, Prefixes
  <2> QED
    BY <2>1, <2>3, <2>4 DEF Held
<1>3. Unrefreshed(n)' <=> Unrefreshed(n)
  BY <1>1, SamePending DEF Unrefreshed, RescanDue, FullRescanDue, Walking
<1>4. SettledInv(n)'
  BY <1>1, <1>2, <1>3, SettledFrame DEF NoteInv, Unexposed
<1>5. /\ ChannelTruthful(n)' /\ LossBehind(n)'
  BY <1>1, SameEvents DEF NoteInv, FlushInv, ChannelTruthful, LossBehind, Reported,
     Unexposed
<1>6. ActionsComplete(n)'
  BY <1>2 DEF ActionsComplete
<1>7. BatchMatches(n)'
  BY DEF CloseWindow, BatchMatches
<1> QED
  BY <1>4, <1>5, <1>6, <1>7 DEF NoteInv, FlushInv

LEMMA MapEventKeeps ==
    ASSUME TypeOK, NEW n \in Note, NoteInv(n), MapEvent
    PROVE  NoteInv(n)'
<1> DEFINE e == channel[1]
<1>1. UNCHANGED <<disk, dirs, phase, todo, batch, lost, exposed,
                  scanner, walkTodo, walked, rescans, mailbox, store>>
  BY DEF MapEvent, vaultVars, scannerVars, writerVars, history
<1>2. /\ Len(channel) \in Nat /\ Len(channel) > 0
      /\ DOMAIN channel = 1..Len(channel)
      /\ DOMAIN channel' = 1..(Len(channel) - 1)
      /\ \A i \in 1..(Len(channel) - 1) : channel'[i] = channel[i + 1]
      /\ phase = "map"
  BY ChannelHead DEF MapEvent
<1>3. /\ noteAction' = Coalesced(noteAction, NoteUpserts(e), NoteDeletes(e))
      /\ treeAction' = Coalesced(treeAction, TreeUpserts(e), TreeDeletes(e))
      /\ overflow' = (overflow \/ e.kind = "Overflow")
  BY ChannelHead DEF MapEvent
<1>4. Unexposed(n)' <=> Unexposed(n)
  BY <1>1 DEF Unexposed
<1> HIDE DEF e
<1>5. Pending(n) <=> (Covers(e, n) \/ Pending(n)')
  <2>1. ASSUME NEW i \in DOMAIN channel, Covers(channel[i], n), i # 1
        PROVE  Pending(n)'
    <3>1. i - 1 \in DOMAIN channel' /\ channel'[i - 1] = channel[i]
      BY <1>2, <2>1
    <3> QED
      BY <1>1, <2>1, <3>1, SameEvents DEF Pending
  <2>2. ASSUME NEW i \in DOMAIN channel', Covers(channel'[i], n)
        PROVE  Pending(n)
    <3>1. i + 1 \in DOMAIN channel /\ channel'[i] = channel[i + 1]
      BY <1>2
    <3> QED
      BY <2>2, <3>1 DEF Pending
  <2>3. Pending(n)' => \E i \in DOMAIN channel' : Covers(channel'[i], n)
    BY <1>1, SameEvents DEF Pending
  <2>4. Covers(e, n) => Pending(n)
    BY <1>2 DEF Pending, e
  <2>5. Pending(n) => Covers(e, n) \/ Pending(n)'
    BY <2>1 DEF Pending, e
  <2> QED
    BY <2>2, <2>3, <2>4, <2>5
<1>6. FullRescanDue' <=> FullRescanDue
  <2>1. ASSUME NEW i \in DOMAIN channel, channel[i].kind = "Overflow", i # 1
        PROVE  FullRescanDue'
    <3>1. i - 1 \in DOMAIN channel' /\ channel'[i - 1] = channel[i]
      BY <1>2, <2>1
    <3> QED
      BY <2>1, <3>1 DEF FullRescanDue
  <2>2. ASSUME NEW i \in DOMAIN channel', channel'[i].kind = "Overflow"
        PROVE  FullRescanDue
    <3>1. i + 1 \in DOMAIN channel /\ channel'[i] = channel[i + 1]
      BY <1>2
    <3> QED
      BY <2>2, <3>1 DEF FullRescanDue
  <2>3. e.kind = "Overflow" => FullRescanDue /\ FullRescanDue'
    <3> SUFFICES ASSUME e.kind = "Overflow" PROVE FullRescanDue /\ FullRescanDue'
      OBVIOUS
    <3>1. 1 \in DOMAIN channel
      BY <1>2
    <3>2. overflow'
      BY <1>3
    <3> QED
      BY <3>1, <3>2 DEF FullRescanDue, e
  <2>4. FullRescanDue => FullRescanDue'
    BY <1>1, <1>3, <2>1, <2>3 DEF FullRescanDue, e
  <2>5. FullRescanDue' => FullRescanDue
    <3> SUFFICES ASSUME FullRescanDue', ~\E i \in DOMAIN channel' : channel'[i].kind = "Overflow"
                 PROVE  FullRescanDue
      BY <2>2
    <3> QED
      BY <1>1, <1>3, <2>3 DEF FullRescanDue
  <2> QED
    BY <2>4, <2>5
<1>7. /\ noteAction \in [Note -> {"none", "upsert", "delete"}]
      /\ treeAction \in [Dir -> {"none", "upsert", "delete"}]
  BY DEF TypeOK, NoteActions, TreeActions
<1>8. /\ DOMAIN noteAction = Note /\ DOMAIN noteAction' = Note
      /\ DOMAIN treeAction = Dir /\ DOMAIN treeAction' = Dir
      /\ \A m \in Note : noteAction'[m] = IF m \in NoteUpserts(e) THEN "upsert"
                                          ELSE IF m \in NoteDeletes(e) THEN "delete"
                                          ELSE noteAction[m]
      /\ \A d \in Dir : treeAction'[d] = IF d \in TreeUpserts(e) THEN "upsert"
                                         ELSE IF d \in TreeDeletes(e) THEN "delete"
                                         ELSE treeAction[d]
  BY <1>3, <1>7 DEF Coalesced
<1>9. TreeUpserts(e) \subseteq Dir /\ TreeDeletes(e) \subseteq Dir
  BY DEF TreeUpserts, TreeDeletes, TypeOK, VaultTypeOK
<1>10. Covers(e, n) => Held(n)'
  <2>1. n \in NoteUpserts(e) => n \in Reads'
    BY <1>8 DEF Reads, Acted
  <2>2. n \in NoteDeletes(e) /\ n \notin NoteUpserts(e) => n \in Acted(noteAction, "delete")'
    BY <1>8 DEF Acted
  <2>3. n \in Below(TreeUpserts(e) \cup TreeDeletes(e)) => n \in Below(Prefixes)'
    BY <1>8, <1>9 DEF Below, Prefixes
  <2> QED
    BY <1>1, <1>2, <2>1, <2>2, <2>3 DEF Held, Covers
<1>11. Held(n) => Held(n)'
  <2>1. n \in Reads \cup Acted(noteAction, "delete")
          => n \in Reads' \cup Acted(noteAction, "delete")' \cup Below(Prefixes)'
    BY <1>8 DEF Reads, Acted, Below, Prefixes
  <2>2. n \in Below(Prefixes) => n \in Below(Prefixes)'
    BY <1>8 DEF Below, Prefixes
  <2> QED
    BY <1>1, <1>2, <2>1, <2>2 DEF Held
<1>12. SettledInv(n)'
  <2>1. RescanDue(n)' <=> RescanDue(n)
    BY <1>1, <1>6 DEF RescanDue, Walking
  <2>2. WalkHolds(n)' <=> WalkHolds(n)
    BY <1>1 DEF WalkHolds, Walking
  <2>3. ~Held(n)' /\ Unrefreshed(n)' => ~Held(n) /\ Unrefreshed(n)
    BY <1>5, <1>10, <1>11, <2>1 DEF Unrefreshed
  <2>4. WalkMatches(n)'
    BY <1>1, <1>4, <2>2, <2>3, SameMatches DEF NoteInv, SettledInv, WalkMatches
  <2>5. Delivered(n)'
    BY <1>1, <1>4, <2>2, <2>3, SameMailbox DEF NoteInv, SettledInv, Delivered
  <2>6. NoOldVerdict(n)'
    <3> SUFFICES ASSUME n \in lost, Unexposed(n), Held(n)', ~RescanDue(n)
                 PROVE  Pending(n)'
      BY <1>1, <1>4, <2>1 DEF NoOldVerdict, Unrefreshed
    <3>1. ~Pending(n)
      BY DEF NoteInv, FlushInv, LossBehind, Pending, RescanDue, FullRescanDue
    <3>2. ~Held(n)
      BY <3>1 DEF NoteInv, SettledInv, NoOldVerdict, Unrefreshed
    <3>3. ~Covers(e, n)
      BY <1>5, <3>1
    <3>4. Held(n)' => Held(n)
      <4>1. /\ n \in NoteUpserts(e) \cup NoteDeletes(e) => Covers(e, n)
            /\ n \in Below(TreeUpserts(e) \cup TreeDeletes(e)) => Covers(e, n)
        BY DEF Covers
      <4>2. noteAction'[n] = noteAction[n]
        BY <1>8, <3>3, <4>1
      <4>3. \A d \in Dir : n \in Inside[d] => treeAction'[d] = treeAction[d]
        BY <1>8, <3>3, <4>1 DEF Below
      <4> QED
        BY <1>1, <1>2, <1>8, <4>2, <4>3 DEF Held, Reads, Acted, Below, Prefixes
    <3> QED
      BY <3>2, <3>4
  <2> QED
    BY <2>4, <2>5, <2>6 DEF SettledInv
<1>13. ChannelTruthful(n)'
  <2> SUFFICES ASSUME Reported(n), NEW i \in DOMAIN channel',
                      Covers(channel'[i], n), ~Truthful(channel'[i], n)
               PROVE  \E j \in DOMAIN channel' :
                        j > i /\ Covers(channel'[j], n) /\ Truthful(channel'[j], n)
    BY <1>1, <1>4, SameEvents DEF ChannelTruthful, Reported
  <2>1. i + 1 \in DOMAIN channel /\ channel'[i] = channel[i + 1]
    BY <1>2
  <2>2. PICK j \in DOMAIN channel :
               j > i + 1 /\ Covers(channel[j], n) /\ Truthful(channel[j], n)
    BY <2>1 DEF NoteInv, FlushInv, ChannelTruthful
  <2>3. j - 1 \in DOMAIN channel' /\ j - 1 > i /\ channel'[j - 1] = channel[j]
    BY <1>2, <2>2
  <2> QED
    BY <2>2, <2>3
<1>14. LossBehind(n)'
  <2> SUFFICES ASSUME n \in lost, Unexposed(n), NEW i \in DOMAIN channel', Covers(channel'[i], n)
               PROVE  \E j \in DOMAIN channel' : j > i /\ channel'[j].kind = "Overflow"
    BY <1>1, <1>4, SameEvents DEF LossBehind
  <2>1. i + 1 \in DOMAIN channel /\ channel'[i] = channel[i + 1]
    BY <1>2
  <2>2. PICK j \in DOMAIN channel : j > i + 1 /\ channel[j].kind = "Overflow"
    BY <2>1 DEF NoteInv, FlushInv, LossBehind
  <2>3. j - 1 \in DOMAIN channel' /\ j - 1 > i /\ channel'[j - 1] = channel[j]
    BY <1>2, <2>2
  <2> QED
    BY <2>2, <2>3
<1>15. ActionsComplete(n)'
  <2> SUFFICES ASSUME Reported(n), ~Pending(n)', Held(n)'
               PROVE  /\ disk[n] # Absent => n \in Reads'
                      /\ disk[n] = Absent => Removed(n)'
    BY <1>1, <1>4 DEF ActionsComplete, Reported
  <2>1. CASE Covers(e, n)
    <3>1. ASSUME NEW j \in DOMAIN channel, j > 1
          PROVE  ~Covers(channel[j], n)
      <4>1. j - 1 \in DOMAIN channel' /\ channel'[j - 1] = channel[j]
        BY <1>2, <3>1
      <4> QED
        BY <1>1, <4>1, SameEvents DEF Pending
    <3>2. Truthful(e, n)
      <4>1. 1 \in DOMAIN channel
        BY <1>2
      <4> QED
        BY <2>1, <3>1, <4>1 DEF NoteInv, FlushInv, ChannelTruthful, e
    <3>3. CASE disk[n] # Absent
      <4>1. n \in NoteUpserts(e) \/ n \in Below(TreeUpserts(e))
        BY <2>1, <3>2, <3>3 DEF Truthful, Covers, Below
      <4> QED
        BY <1>8, <1>9, <3>3, <4>1 DEF Reads, Acted, Below
    <3>4. CASE disk[n] = Absent
      <4>1. CASE n \notin NoteUpserts(e)
        <5>1. n \in NoteDeletes(e) \/ n \in Below(TreeUpserts(e) \cup TreeDeletes(e))
          BY <2>1, <4>1 DEF Covers
        <5> QED
          BY <1>8, <1>9, <3>4, <4>1, <5>1 DEF Removed, Prefixes, Below
      <4>2. CASE n \in NoteUpserts(e)
        <5>1. ReadDecides /\ noteAction'[n] = "upsert"
          BY <1>8, <3>2, <3>4, <4>2 DEF Truthful
        <5> QED
          BY <3>4, <5>1 DEF Removed, Rereads, ReadDecides
      <4> QED
        BY <4>1, <4>2
    <3> QED
      BY <3>3, <3>4
  <2>2. CASE ~Covers(e, n)
    <3>1. /\ n \in NoteUpserts(e) \cup NoteDeletes(e) => Covers(e, n)
          /\ n \in Below(TreeUpserts(e) \cup TreeDeletes(e)) => Covers(e, n)
      BY DEF Covers
    <3>2. noteAction'[n] = noteAction[n]
      BY <1>8, <2>2, <3>1
    <3>3. \A d \in Dir : n \in Inside[d] => treeAction'[d] = treeAction[d]
      BY <1>8, <2>2, <3>1 DEF Below
    <3>4. /\ Held(n)' => Held(n)
          /\ n \in Reads => n \in Reads'
          /\ Removed(n) => Removed(n)'
      BY <1>1, <1>2, <1>8, <3>2, <3>3 DEF Held, Reads, Acted, Below, Prefixes, Removed,
         Rereads, ReadDecides
    <3>5. ~Pending(n)
      BY <1>5, <2>2
    <3> QED
      BY <1>2, <3>4, <3>5 DEF NoteInv, FlushInv, ActionsComplete
  <2> QED
    BY <2>1, <2>2
<1>16. BatchMatches(n)'
  BY <1>1, <1>2 DEF BatchMatches
<1> QED
  BY <1>12, <1>13, <1>14, <1>15, <1>16 DEF NoteInv, FlushInv

LEMMA EndMapKeeps ==
    ASSUME TypeOK, Bookkeeping, NEW n \in Note, NoteInv(n), EndMap
    PROVE  NoteInv(n)'
<1>1. UNCHANGED <<disk, dirs, channel, noteAction, treeAction, lost, exposed,
                  scanner, walkTodo, walked, mailbox, store>>
  BY DEF EndMap, vaultVars, writerVars, history
<1>2. FullRescanDue' <=> FullRescanDue
  <2>1. CASE scanner = "down"
    BY <1>1, <2>1 DEF FullRescanDue
  <2>2. CASE scanner # "down" /\ overflow
    <3>1. rescans' > 0
      BY <2>2 DEF EndMap, TypeOK
    <3> QED
      BY <2>2, <3>1 DEF FullRescanDue
  <2>3. CASE scanner # "down" /\ ~overflow
    <3>1. rescans' = rescans /\ overflow' = FALSE
      BY <2>3 DEF EndMap
    <3> QED
      BY <1>1, <2>3, <3>1 DEF FullRescanDue
  <2> QED
    BY <2>1, <2>2, <2>3
<1>3. /\ phase = "map"
      /\ todo = {} /\ batch = EmptyBatch
  BY DEF EndMap, Bookkeeping
<1>4. /\ Reads' = Reads
      /\ Acted(noteAction, "delete")' = Acted(noteAction, "delete")
      /\ Prefixes' = Prefixes
  BY <1>1 DEF Reads, Acted, Below, Prefixes
<1>5. /\ phase' \in {"collect", "build"}
      /\ phase' = "build" =>
           /\ todo' = Reads
           /\ \A m \in Note : batch'.upserts[m] = Absent
           /\ batch'.deletes = Acted(noteAction, "delete")
           /\ batch'.prefixes = Prefixes
           /\ batch'.kind = "Batch"
  <2>1. CASE noteAction = NoNoteAction /\ treeAction = NoTreeAction
    BY <2>1 DEF EndMap
  <2>2. CASE ~(noteAction = NoNoteAction /\ treeAction = NoTreeAction)
    <3>1. /\ phase' = "build" /\ todo' = Reads
          /\ batch' = [EmptyBatch EXCEPT !.deletes = Acted(noteAction, "delete"),
                                         !.prefixes = Prefixes]
      BY <2>2 DEF EndMap
    <3>2. batch' = [kind |-> "Batch", upserts |-> NoRecords,
                    deletes |-> Acted(noteAction, "delete"), prefixes |-> Prefixes]
      BY <3>1 DEF EmptyBatch
    <3>3. /\ batch'.kind = "Batch" /\ batch'.upserts = NoRecords
          /\ batch'.deletes = Acted(noteAction, "delete") /\ batch'.prefixes = Prefixes
      BY <3>2
    <3>4. \A m \in Note : batch'.upserts[m] = Absent
      BY <3>3 DEF NoRecords
    <3> QED
      BY <3>1, <3>3, <3>4
  <2> QED
    BY <2>1, <2>2
<1>6. Held(n)' <=> Held(n)
  <2>1. CASE phase' = "collect"
    <3>1. noteAction = NoNoteAction /\ treeAction = NoTreeAction
      BY <2>1 DEF EndMap
    <3>2. n \notin Reads \cup Acted(noteAction, "delete") \cup Below(Prefixes)
      BY <3>1 DEF Reads, Acted, Below, Prefixes, NoNoteAction, NoTreeAction
    <3> QED
      BY <1>3, <2>1, <3>2 DEF Held
  <2>2. CASE phase' = "build"
    <3>1. Touches(batch', n) <=> n \in Acted(noteAction, "delete") \cup Below(Prefixes)
      BY <1>5, <2>2 DEF Touches
    <3> QED
      BY <1>3, <1>5, <2>2, <3>1 DEF Held
  <2> QED
    BY <1>5, <2>1, <2>2
<1>7. Pending(n)' <=> Pending(n)
  BY <1>1, SamePending
<1>8. SettledInv(n)'
  BY <1>1, <1>2, <1>6, <1>7, SettledFrame
     DEF NoteInv, Unexposed, Unrefreshed, RescanDue, Walking
<1>9. ChannelTruthful(n)' /\ LossBehind(n)'
  BY <1>1, SameEvents DEF NoteInv, FlushInv, ChannelTruthful, LossBehind, Reported,
     Unexposed
<1>10. ActionsComplete(n)'
  BY <1>5 DEF ActionsComplete
<1>11. BatchMatches(n)'
  <2> SUFFICES ASSUME phase' = "build"
               PROVE  /\ batch'.upserts[n] = Absent
                      /\ Reported(n)' /\ ~Pending(n)' =>
                           /\ n \in todo' /\ disk'[n] = Absent
                                => n \in batch'.deletes \cup Below(batch'.prefixes) \/ Rereads(n)'
                           /\ n \notin todo' /\ Touches(batch', n) => Matches(n, Absent)'
    BY <1>5 DEF BatchMatches
  <2>1. batch'.upserts[n] = Absent
    BY <1>5
  <2> SUFFICES ASSUME Reported(n), ~Pending(n)
               PROVE  /\ n \in Reads /\ disk[n] = Absent
                           => n \in Acted(noteAction, "delete") \cup Below(Prefixes) \/ Rereads(n)
                      /\ n \notin Reads /\ Touches(batch', n) => Matches(n, Absent)
    BY <1>1, <1>5, <1>7, <2>1, SameMatches DEF Reported, Unexposed, Rereads, ReadDecides
  <2>2. ASSUME n \in Reads, disk[n] = Absent
        PROVE  n \in Acted(noteAction, "delete") \cup Below(Prefixes) \/ Rereads(n)
    <3>1. Held(n)
      BY <1>3, <2>2 DEF Held
    <3> QED
      BY <1>3, <2>2, <3>1 DEF NoteInv, FlushInv, ActionsComplete, Removed, Acted, TypeOK, NoteActions
  <2>3. ASSUME n \notin Reads, Touches(batch', n)
        PROVE  Matches(n, Absent)
    <3>1. n \in Acted(noteAction, "delete") \cup Below(Prefixes)
      BY <1>5, <2>3 DEF Touches
    <3>2. Held(n)
      BY <1>3, <3>1 DEF Held
    <3>3. disk[n] = Absent
      BY <1>3, <2>3, <3>2 DEF NoteInv, FlushInv, ActionsComplete
    <3> QED
      BY <3>3, ContentAssumption DEF Matches
  <2> QED
    BY <2>2, <2>3
<1> QED
  BY <1>8, <1>9, <1>10, <1>11 DEF NoteInv, FlushInv

LEMMA ReadNoteKeeps ==
    ASSUME TypeOK, NEW n \in Note, NoteInv(n), NEW m \in Note, ReadNote(m)
    PROVE  NoteInv(n)'
<1>1. UNCHANGED <<disk, dirs, channel, phase, noteAction, treeAction, lost, exposed, overflow,
                  scanner, rescans, walkTodo, walked, mailbox, store>>
  BY DEF ReadNote, vaultVars, scannerVars, writerVars, history
<1>2. phase = "build" /\ phase' = "build"
  BY DEF ReadNote
<1>3. Unrefreshed(n)' <=> Unrefreshed(n)
  BY <1>1, SamePending DEF Unrefreshed, RescanDue, FullRescanDue, Walking
<1>4. ChannelTruthful(n)' /\ LossBehind(n)'
  BY <1>1, SameEvents DEF NoteInv, FlushInv, ChannelTruthful, LossBehind, Reported,
     Unexposed
<1>5. ActionsComplete(n)'
  BY <1>2 DEF ActionsComplete
<1>6. Pending(n)' <=> Pending(n)
  BY <1>1, SamePending
<1>7. /\ batch \in IndexBatch
      /\ batch'.kind = batch.kind /\ batch'.prefixes = batch.prefixes
      /\ \A k \in Note : k # m => /\ batch'.upserts[k] = batch.upserts[k]
                                  /\ k \in batch'.deletes <=> k \in batch.deletes
      /\ batch'.upserts[m] = IF disk[m] \in Version THEN disk[m] ELSE batch.upserts[m]
      /\ batch.deletes \subseteq batch'.deletes
  <2>1. batch \in IndexBatch
    BY DEF TypeOK
  <2> QED
    BY <2>1 DEF ReadNote, IndexBatch
<1>8. CASE n # m
  <2>1. /\ n \in todo' <=> n \in todo
        /\ Touches(batch', n) <=> Touches(batch, n)
    BY <1>7, <1>8 DEF ReadNote, Touches
  <2>2. Held(n)' <=> Held(n)
    BY <1>2, <2>1 DEF Held
  <2>3. BatchMatches(n)'
    BY <1>1, <1>2, <1>6, <1>7, <1>8, <2>1, SameMatches
       DEF NoteInv, FlushInv, BatchMatches, Reported, Unexposed, Rereads, ReadDecides
  <2>4. SettledInv(n)'
    BY <1>1, <1>3, <2>2, SettledFrame DEF NoteInv, Unexposed
  <2> QED
    BY <1>4, <1>5, <2>3, <2>4 DEF NoteInv, FlushInv
<1>9. CASE n = m
  <2>1. /\ n \in todo /\ n \notin todo'
        /\ batch.upserts[n] = Absent
    BY <1>2, <1>9 DEF ReadNote, NoteInv, FlushInv, BatchMatches
  <2>2. Held(n) /\ (Held(n)' <=> Touches(batch', n))
    BY <1>2, <2>1 DEF Held
  <2>3. Touches(batch', n) => Matches(n, batch'.upserts[n])
    BY <1>7, <1>9, <2>1, ContentAssumption DEF Matches
  <2>4. BatchMatches(n)'
    BY <1>1, <2>1, <2>3, SameMatches DEF BatchMatches
  <2>5. ~Held(n)' /\ Unexposed(n) /\ Unrefreshed(n) => disk[n] = Malformed
    <3> SUFFICES ASSUME ~Touches(batch', n), Unexposed(n), Unrefreshed(n)
                 PROVE  disk[n] = Malformed
      BY <2>2
    <3>1. Reported(n) /\ ~Pending(n)
      BY <2>2 DEF NoteInv, SettledInv, NoOldVerdict, Reported, Unrefreshed
    <3>2. disk[n] \notin Version
      BY <1>7, <1>9, ContentAssumption DEF Touches
    <3>3. disk[n] # Absent
      <4>1. ~Rereads(n) \/ disk[n] # Absent
        <5> SUFFICES ASSUME Rereads(n), disk[n] = Absent PROVE FALSE
          OBVIOUS
        <5>1. ~Exists(n)
          BY RenameAssumption DEF Rereads, ReadDecides, Exists, TypeOK, VaultTypeOK
        <5>2. n \in batch'.deletes
          BY <1>7, <1>9, <3>2, <5>1 DEF ReadNote, Rereads, IndexBatch
        <5> QED
          BY <5>2 DEF Touches
      <4> QED
        BY <1>2, <1>7, <2>1, <3>1, <4>1 DEF NoteInv, FlushInv, BatchMatches, Touches
    <3> QED
      BY <3>2, <3>3 DEF TypeOK, VaultTypeOK, Content
  <2>6. disk[n] = Malformed => \A r : Matches(n, r)
    BY ContentAssumption DEF Matches
  <2>7. NoOldVerdict(n)'
    BY <1>1, <1>3, <2>2 DEF NoteInv, SettledInv, NoOldVerdict, Unexposed
  <2>8. WalkMatches(n)'
    BY <1>1, <1>3, <2>5, <2>6, SameMatches DEF WalkMatches, Unexposed
  <2>9. Delivered(n)'
    BY <1>1, <1>3, <2>5, <2>6, SameMatches DEF Delivered, MailboxMatches, Unexposed
  <2> QED
    BY <1>4, <1>5, <2>4, <2>7, <2>8, <2>9 DEF NoteInv, FlushInv, SettledInv
<1> QED
  BY <1>8, <1>9

LEMMA CastBatchKeeps ==
    ASSUME TypeOK, NEW n \in Note, NoteInv(n), CastBatch
    PROVE  NoteInv(n)'
<1>1. UNCHANGED <<disk, dirs, channel, lost, overflow, scanner, rescans, walkTodo, walked, store>>
  BY DEF CastBatch, vaultVars, scannerVars
<1>2. phase = "build" /\ todo = {} /\ phase' = "collect"
  BY DEF CastBatch
<1>3. Unexposed(n)' => Unexposed(n)
  BY DEF CastBatch, Unexposed
<1>4. /\ Unrefreshed(n)' <=> Unrefreshed(n)
      /\ WalkHolds(n)' <=> WalkHolds(n)
  BY <1>1, SamePending DEF Unrefreshed, RescanDue, FullRescanDue, Walking, WalkHolds
<1>5. ~Held(n)' /\ (Held(n) <=> Touches(batch, n))
  BY <1>2 DEF Held
<1>6. FlushInv(n)'
  <2>1. ChannelTruthful(n)' /\ LossBehind(n)'
    BY <1>1, <1>3, SameEvents DEF NoteInv, FlushInv, ChannelTruthful, LossBehind,
       Reported
  <2> QED
    BY <1>2, <2>1 DEF FlushInv, ActionsComplete, BatchMatches
<1>7. NoOldVerdict(n)'
  BY <1>5 DEF NoOldVerdict
<1>8. Touches(batch, n) /\ Unexposed(n) /\ Unrefreshed(n) => Matches(n, batch.upserts[n])
  <2> SUFFICES ASSUME Touches(batch, n), Unexposed(n), Unrefreshed(n)
               PROVE  Matches(n, batch.upserts[n])
    OBVIOUS
  <2>1. Reported(n) /\ ~Pending(n)
    BY <1>5 DEF NoteInv, SettledInv, NoOldVerdict, Reported, Unrefreshed
  <2> QED
    BY <1>2, <2>1 DEF NoteInv, FlushInv, BatchMatches
<1>9. WalkMatches(n)'
  <2> SUFFICES ASSUME Unexposed(n)', Unrefreshed(n), WalkHolds(n) PROVE Matches(n, walked[n])
    BY <1>1, <1>4, SameMatches DEF WalkMatches
  <2>1. CASE Touches(batch, n)
    <3> SUFFICES ASSUME ~Matches(n, walked[n]) PROVE FALSE
      OBVIOUS
    <3>1. exposed'[n] = "walk"
      BY <2>1 DEF CastBatch
    <3> QED
      BY <3>1 DEF Unexposed
  <2>2. CASE ~Touches(batch, n)
    BY <1>3, <1>5, <2>2 DEF NoteInv, SettledInv, WalkMatches
  <2> QED
    BY <2>1, <2>2
<1>10. Delivered(n)'
  <2> SUFFICES ASSUME Unexposed(n)', Unrefreshed(n), ~WalkHolds(n) PROVE MailboxMatches(n)'
    BY <1>4 DEF Delivered
  <2>1. batch \in Message /\ Result(batch, n) = batch.upserts[n]
    BY DEF TypeOK, Message, IndexBatch, Result
  <2>2. CASE Touches(batch, n)
    <3>1. writerUp
      <4> SUFFICES ASSUME ~writerUp PROVE FALSE
        OBVIOUS
      <4>1. exposed'[n] = "mailbox"
        BY <2>2 DEF CastBatch
      <4> QED
        BY <4>1 DEF Unexposed
    <3>2. mailbox' = Append(mailbox, batch)
      BY <3>1 DEF CastBatch, Cast
    <3> QED
      BY <1>1, <1>3, <1>8, <2>1, <2>2, <3>2, MailboxAppend
  <2>3. CASE ~Touches(batch, n)
    <3>1. MailboxMatches(n)
      BY <1>3, <1>5, <2>3 DEF NoteInv, SettledInv, Delivered
    <3>2. CASE mailbox' = mailbox
      BY <1>1, <3>1, <3>2, SameMailbox
    <3>3. CASE mailbox' = Append(mailbox, batch)
      BY <1>1, <2>1, <2>3, <3>1, <3>3, MailboxAppend
    <3> QED
      BY <3>2, <3>3 DEF CastBatch, Cast
  <2> QED
    BY <2>2, <2>3
<1> QED
  BY <1>6, <1>7, <1>9, <1>10 DEF NoteInv, SettledInv

=============================================================================
