----------------------- MODULE IndexRefinementProofs -----------------------
(***************************************************************************)
(* The index pipeline implements VaultIndex: the lemmas follow what is said   *)
(* of a note from the event to the store.                                    *)
(***************************************************************************)
EXTENDS IndexRefinement, IndexPipelineTheorems

(* What is true after a change is remembered, with all that was before. *)
LEMMA PastGrows ==
    ASSUME NEW events, NEW touched, Change(events, touched)
    PROVE  \A n \in Note : past[n] \subseteq past'[n] /\ Parsed(disk[n])' \in past'[n]
  BY DEF Change

(* Whoever reads a note that is not there, or does not parse, reads Absent. *)
LEMMA AbsentIsParsed ==
    ASSUME NEW n \in Note, disk[n] \notin Version
    PROVE  Parsed(disk[n]) = Absent
  BY DEF Parsed

-----------------------------------------------------------------------------
(* The vault changes.                                                        *)

(* An event that denies a note is reported by a change after or before which *)
(* the note is not there.                                                    *)
DeniedGone(events) ==
    \A i \in DOMAIN events : \A n \in Note :
        Denies(events[i], n) => disk[n] = Absent \/ disk'[n] = Absent

LEMMA SameNote ==
    ASSUME TypeOK, Bookkeeping, NEW m \in Note, disk[m] # Absent, NEW n \in Note,
           n = m \/ (m \in Dir /\ n \in Inside[m])
    PROVE  n = m \/ disk[n] = Absent
  BY DEF Bookkeeping, WellFormed, TypeOK, VaultTypeOK

LEMMA ChangeTrue ==
    ASSUME TypeOK, TypeOK', OnlyTheTruth,
           NEW events \in Seq(Event), NEW touched, Change(events, touched),
           DeniedGone(events)
    PROVE  OnlyTheTruth'
<1> SUFFICES ASSUME NEW n \in Note PROVE TrueOf(n)'
  BY DEF OnlyTheTruth
<1>1. past[n] \subseteq past'[n] /\ Parsed(disk[n])' \in past'[n]
  BY PastGrows
<1>2. TrueOf(n)
  BY DEF OnlyTheTruth
<1>3. EventsTrue(n)'
  <2>1. disk[n] = Absent \/ disk'[n] = Absent => Absent \in past'[n]
    <3>1. CASE disk[n] = Absent
      BY <1>1, <1>2, <3>1, AbsentIsParsed, ContentAssumption DEF TrueOf
    <3>2. CASE disk'[n] = Absent
      BY <1>1, <3>2, ContentAssumption DEF Parsed
    <3> QED
      BY <3>1, <3>2
  <2>2. channel \in Seq(Event)
    BY DEF TypeOK
  <2>3. CASE channel' = channel \o events
    <3> SUFFICES ASSUME NEW i \in DOMAIN channel', Denies(channel'[i], n)
                 PROVE  Absent \in past'[n]
      BY DEF EventsTrue, Denies
    <3>1. Len(channel) \in Nat /\ Len(events) \in Nat
      BY <2>2, LenProperties
    <3>2. /\ Len(channel') = Len(channel) + Len(events)
          /\ \A j \in 1..Len(channel) + Len(events) :
                channel'[j] = IF j <= Len(channel) THEN channel[j]
                              ELSE events[j - Len(channel)]
          /\ channel' \in Seq(Event)
      BY <2>2, <2>3, ConcatProperties
    <3>3. i \in 1..Len(channel) + Len(events)
      BY <3>2, LenProperties
    <3>4. CASE i <= Len(channel)
      <4>1. i \in DOMAIN channel /\ channel'[i] = channel[i]
        BY <2>2, <3>1, <3>2, <3>3, <3>4, LenProperties
      <4> QED
        BY <1>1, <1>2, <4>1 DEF TrueOf, EventsTrue, Denies
    <3>5. CASE ~(i <= Len(channel))
      <4>1. i - Len(channel) \in DOMAIN events /\ channel'[i] = events[i - Len(channel)]
        BY <3>1, <3>2, <3>3, <3>5, LenProperties
      <4> QED
        BY <2>1, <4>1 DEF DeniedGone, Denies
    <3> QED
      BY <3>4, <3>5
  <2>4. ASSUME NEW e \in {Overflow, Error}, channel' = Append(channel, e)
        PROVE  EventsTrue(n)'
    <3> SUFFICES ASSUME NEW i \in DOMAIN channel', Denies(channel'[i], n)
                 PROVE  Absent \in past'[n]
      BY DEF EventsTrue, Denies
    <3>1. Len(channel) \in Nat /\ e \in Event
      BY <2>2, LenProperties, EventTypes
    <3>2. /\ Len(channel') = Len(channel) + 1
          /\ \A j \in 1..Len(channel) : channel'[j] = channel[j]
          /\ channel'[Len(channel) + 1] = e
          /\ channel' \in Seq(Event)
      BY <2>2, <2>4, <3>1, AppendProperties
    <3>3. i \in 1..Len(channel) + 1
      BY <3>2, LenProperties
    <3>4. CASE i \in 1..Len(channel)
      <4>1. i \in DOMAIN channel /\ channel'[i] = channel[i]
        BY <2>2, <3>2, <3>4, LenProperties
      <4> QED
        BY <1>1, <1>2, <4>1 DEF TrueOf, EventsTrue, Denies
    <3>5. CASE i = Len(channel) + 1
      BY <3>2, <3>5 DEF Denies, Overflow, Error, EventOn
    <3> QED
      BY <3>1, <3>3, <3>4, <3>5
  <2>5. CASE channel' = channel
    BY <1>1, <1>2, <2>5 DEF TrueOf, EventsTrue, Denies
  <2> QED
    BY <2>3, <2>4, <2>5 DEF Change
<1>4. UNCHANGED <<noteAction, treeAction, phase, todo, batch, scannerVars, mailbox>>
  BY DEF Change, writerVars
<1>5. ActionsTrue(n)'
  BY <1>1, <1>2, <1>4 DEF TrueOf, ActionsTrue
<1>6. BatchTrue(n)'
  BY <1>1, <1>2, <1>4 DEF TrueOf, BatchTrue, Touches, Below
<1>7. WalkTrue(n)'
  BY <1>1, <1>2, <1>4 DEF TrueOf, WalkTrue, Walking, scannerVars
<1>8. MailboxTrue(n)'
  BY <1>1, <1>2, <1>4 DEF TrueOf, MailboxTrue, Touches, Result, Below
<1> QED
  BY <1>1, <1>3, <1>5, <1>6, <1>7, <1>8 DEF TrueOf

LEMMA VaultChangeTrue ==
    ASSUME TypeOK, TypeOK', Bookkeeping, OnlyTheTruth, VaultChange
    PROVE  OnlyTheTruth'
<1> USE DEF DeniedGone, Denies, EventOn
<1>1. ASSUME NEW n \in Note, NEW c \in Version \cup {Malformed}, WriteNote(n, c)
      PROVE  OnlyTheTruth'
  <2> DEFINE events == <<EventOn(IF disk[n] = Absent THEN "Appear" ELSE "Modify", n)>>
  <2>1. events \in Seq(Event) /\ Change(events, {n})
    BY <1>1, EventTypes DEF WriteNote, Kind, Path
  <2>2. DeniedGone(events)
    OBVIOUS
  <2> QED
    BY <2>1, <2>2, ChangeTrue
<1>2. ASSUME NEW m \in Note, RemoveNote(m)
      PROVE  OnlyTheTruth'
  <2>1. PICK kind \in RemovalKinds : Change(<<EventOn(kind, m)>>, {m})
    BY <1>2 DEF RemoveNote
  <2> DEFINE events == <<EventOn(kind, m)>>
  <2>2. events \in Seq(Event)
    BY EventTypes DEF RemovalKinds, Kind, Path
  <2>3. disk[m] # Absent /\ disk'[m] = Absent
    BY <1>2 DEF RemoveNote, TypeOK, VaultTypeOK
  <2>4. DeniedGone(events)
    BY <2>3, SameNote
  <2> QED
    BY <2>1, <2>2, <2>4, ChangeTrue
<1>3. ASSUME NEW m \in Note, NEW k \in Note, RenameNote(m, k)
      PROVE  OnlyTheTruth'
  <2> DEFINE events == RenameEvents(m, k)
  <2>1. events \in Seq(Event) /\ Change(events, {m, k})
    BY <1>3, EventTypes DEF RenameNote, Path
  <2>2. disk[m] # Absent /\ disk'[m] = Absent
    BY <1>3 DEF RenameNote, TypeOK, VaultTypeOK
  <2>3. ASSUME NEW i \in DOMAIN events, NEW n \in Note, Denies(events[i], n)
        PROVE  n = m \/ (m \in Dir /\ n \in Inside[m])
    BY <2>3 DEF RenameEvents
  <2>4. DeniedGone(events)
    BY <2>2, <2>3, SameNote
  <2> QED
    BY <2>1, <2>4, ChangeTrue
<1>4. ASSUME NEW d \in Dir, NEW D, NEW f, TreeAppears(d, D, f)
      PROVE  OnlyTheTruth'
  <2> DEFINE events == <<EventOn("Appear", d)>>
  <2>1. events \in Seq(Event) /\ Change(events, Below({d}))
    BY <1>4, EventTypes DEF TreeAppears, Kind, Path
  <2>2. DeniedGone(events)
    OBVIOUS
  <2> QED
    BY <2>1, <2>2, ChangeTrue
<1>5. ASSUME NEW d \in Dir, TreeVanishes(d)
      PROVE  OnlyTheTruth'
  <2> DEFINE events == <<EventOn("Vanish", d)>>
  <2>1. /\ events \in Seq(Event)
        /\ Change(events, Note \cap ({d} \cup Inside[d]))
    BY <1>5, EventTypes DEF TreeVanishes, Kind, Path
  <2>2. \A n \in Note : n = d => disk[n] = Absent
    BY <1>5 DEF TreeVanishes, Bookkeeping, WellFormed
  <2>3. \A n \in Note : n \in Inside[d] => disk'[n] = Absent
    BY <1>5 DEF TreeVanishes, WithTree, Below, NoRecords
  <2>4. DeniedGone(events)
    BY <2>2, <2>3
  <2> QED
    BY <2>1, <2>4, ChangeTrue
<1>6. ASSUME NEW d \in Dir, NEW e \in Dir, NEW D, NEW f, RenameTree(d, e, D, f)
      PROVE  OnlyTheTruth'
  <2> DEFINE events == RenameEvents(d, e)
  <2>1. /\ events \in Seq(Event)
        /\ Change(events, (Note \cap ({d} \cup Inside[d])) \cup Below({e}))
    BY <1>6, EventTypes DEF RenameTree, Path
  <2>2. \A n \in Note : n = d => disk[n] = Absent
    BY <1>6 DEF RenameTree, Bookkeeping, WellFormed
  <2>3. \A n \in Note : n \in Inside[d] => disk'[n] = Absent
    BY <1>6 DEF RenameTree, Below
  <2>4. ASSUME NEW i \in DOMAIN events, NEW n \in Note, Denies(events[i], n)
        PROVE  n = d \/ n \in Inside[d]
    BY <2>4 DEF RenameEvents
  <2>5. DeniedGone(events)
    BY <2>2, <2>3, <2>4
  <2> QED
    BY <2>1, <2>5, ChangeTrue
<1> QED
  BY <1>1, <1>2, <1>3, <1>4, <1>5, <1>6 DEF VaultChange

-----------------------------------------------------------------------------
(* The debouncer.                                                            *)

(* What the steps of one process leave to the conjuncts of TrueOf. *)
LEMMA Elsewhere ==
    ASSUME NEW n \in Note, TrueOf(n), UNCHANGED <<disk, past>>
    PROVE  /\ Parsed(disk[n])' \in past'[n]
           /\ UNCHANGED channel => EventsTrue(n)'
           /\ UNCHANGED <<noteAction, treeAction>> => ActionsTrue(n)'
           /\ UNCHANGED <<phase, todo, batch>> => BatchTrue(n)'
           /\ UNCHANGED <<scanner, walkTodo, walked>> => WalkTrue(n)'
           /\ UNCHANGED mailbox => MailboxTrue(n)'
<1>1. Parsed(disk[n])' = Parsed(disk[n])
  BY DEF Parsed
<1> QED
  BY <1>1 DEF TrueOf, EventsTrue, ActionsTrue, BatchTrue, WalkTrue, MailboxTrue, Denies, Touches,
     Result, Below, Walking

(* An event maps to a removal only of a note it denies, or one gone by now. *)
LEMMA GoneIsTrue ==
    ASSUME TypeOK, Bookkeeping, NEW n \in Note, TrueOf(n), NEW i \in DOMAIN channel,
           \/ n \in Gone(channel[i])
           \/ \E d \in Dir : d \in Gone(channel[i]) /\ n \in Inside[d]
    PROVE  Absent \in past[n]
<1> DEFINE e == channel[i]
<1>1. CASE Denies(e, n)
  BY <1>1 DEF TrueOf, EventsTrue
<1>2. CASE ~Denies(e, n)
  <2>1. e.kind = "RenameUnpaired" /\ ~Exists(e.path)
    BY <1>2 DEF Gone, Denies
  <2>2. e.path = n \/ (e.path \in Dir /\ n \in Inside[e.path])
    BY DEF Gone
  <2>3. disk[n] = Absent
    BY <2>1, <2>2 DEF Exists, Bookkeeping, WellFormed
  <2> QED
    BY <2>3, AbsentIsParsed, ContentAssumption DEF TrueOf
<1> QED
  BY <1>1, <1>2

LEMMA MapEventTrue ==
    ASSUME TypeOK, Bookkeeping, NEW n \in Note, TrueOf(n), MapEvent, UNCHANGED past
    PROVE  TrueOf(n)'
<1>1. UNCHANGED <<disk, phase, todo, batch, scanner, walkTodo, walked, mailbox>>
  BY DEF MapEvent, vaultVars, scannerVars, writerVars
<1> DEFINE e == channel[1]
<1>2. 1 \in DOMAIN channel /\ Head(channel) = e
  BY ChannelHead
<1>3. /\ noteAction' = Coalesced(noteAction, NoteUpserts(e), NoteDeletes(e))
      /\ treeAction' = Coalesced(treeAction, TreeUpserts(e), TreeDeletes(e))
  BY <1>2 DEF MapEvent
<1>4. EventsTrue(n)'
  <2>1. \A i \in DOMAIN channel' : i + 1 \in DOMAIN channel /\ channel'[i] = channel[i + 1]
    BY ChannelHead
  <2> QED
    BY <2>1 DEF TrueOf, EventsTrue, Denies
<1>5. ActionsTrue(n)'
  <2> SUFFICES ASSUME Absent \notin past[n]
               PROVE  /\ noteAction'[n] # "delete"
                      /\ \A d \in Dir : n \in Inside[d] => treeAction'[d] # "delete"
    BY DEF ActionsTrue
  <2>1. /\ noteAction[n] # "delete"
        /\ \A d \in Dir : n \in Inside[d] => treeAction[d] # "delete"
    BY DEF TrueOf, ActionsTrue
  <2>2. n \notin Gone(e) /\ \A d \in Dir : n \in Inside[d] => d \notin Gone(e)
    BY <1>2, GoneIsTrue
  <2>3. noteAction'[n] # "delete"
    BY <1>3, <2>1, <2>2 DEF Coalesced, NoteDeletes, TypeOK, NoteActions
  <2>4. \A d \in Dir : n \in Inside[d] => treeAction'[d] # "delete"
    BY <1>3, <2>1, <2>2 DEF Coalesced, TreeDeletes, TypeOK, TreeActions
  <2> QED
    BY <2>3, <2>4
<1> QED
  BY <1>1, <1>4, <1>5, Elsewhere DEF TrueOf

LEMMA EndMapTrue ==
    ASSUME TypeOK, Bookkeeping, NEW n \in Note, TrueOf(n), EndMap, UNCHANGED past
    PROVE  TrueOf(n)'
<1>1. UNCHANGED <<disk, channel, noteAction, treeAction, scanner, walkTodo, walked, mailbox>>
  BY DEF EndMap, vaultVars, writerVars
<1>2. BatchTrue(n)'
  <2>1. CASE phase' = "build"
    <3>1. /\ todo' = Reads
          /\ batch'.upserts = NoRecords
          /\ batch'.deletes = Acted(noteAction, "delete")
          /\ batch'.prefixes = Prefixes
          /\ batch'.kind = "Batch"
      BY <2>1 DEF EndMap, EmptyBatch
    <3> SUFFICES ASSUME n \notin Reads, Touches(batch, n)' PROVE Absent \in past[n]
      BY <3>1 DEF BatchTrue, NoRecords
    <3>2. n \in Acted(noteAction, "delete") \cup Below(Prefixes)
      BY <3>1 DEF Touches, NoRecords, Below
    <3>3. CASE n \in Acted(noteAction, "delete")
      BY <3>3 DEF Acted, TrueOf, ActionsTrue
    <3>4. CASE n \in Below(Prefixes)
      <4>1. PICK d \in Prefixes : n \in Inside[d]
        BY <3>4 DEF Below
      <4>2. d \in Dir /\ treeAction[d] \in {"upsert", "delete"}
        BY DEF Prefixes, TypeOK, TreeActions
      <4>3. treeAction[d] # "upsert"
        BY <4>1, <4>2 DEF Reads, Acted, Below, TypeOK, TreeActions
      <4> QED
        BY <4>1, <4>2, <4>3 DEF TrueOf, ActionsTrue
    <3> QED
      BY <3>2, <3>3, <3>4
  <2>2. CASE phase' # "build"
    BY <2>2 DEF BatchTrue
  <2> QED
    BY <2>1, <2>2
<1> QED
  BY <1>1, <1>2, Elsewhere DEF TrueOf

LEMMA ReadNoteTrue ==
    ASSUME TypeOK, Bookkeeping, NEW n \in Note, BatchMatches(n), TrueOf(n),
           NEW m \in Note, ReadNote(m), UNCHANGED past
    PROVE  TrueOf(n)'
<1>1. UNCHANGED <<disk, channel, noteAction, treeAction, phase, scanner, walkTodo, walked, mailbox>>
  BY DEF ReadNote, vaultVars, scannerVars, writerVars
<1>2. /\ phase = "build" /\ m \in todo /\ todo' = todo \ {m}
      /\ batch \in IndexBatch /\ batch.upserts \in [Note -> Record]
  BY DEF ReadNote, TypeOK, IndexBatch
<1>3. BatchTrue(n)'
  <2> SUFFICES ASSUME n \notin todo', Touches(batch, n)' PROVE batch'.upserts[n] \in past[n]
    BY <1>2 DEF BatchTrue
  <2>1. CASE n = m
    <3>1. Parsed(disk[n]) \in past[n] /\ batch.upserts[n] = Absent
      BY <1>2, <2>1 DEF TrueOf, BatchMatches
    <3>2. CASE disk[m] \in Version
      BY <1>2, <2>1, <3>1, <3>2 DEF ReadNote, IndexBatch, Parsed
    <3>3. CASE disk[m] \notin Version
      BY <1>2, <2>1, <3>1, <3>3, AbsentIsParsed DEF ReadNote, IndexBatch
    <3> QED
      BY <3>2, <3>3
  <2>2. CASE n # m
    <3>1. batch'.upserts[n] = batch.upserts[n] /\ batch'.kind = batch.kind
          /\ batch'.prefixes = batch.prefixes /\ (n \in batch'.deletes <=> n \in batch.deletes)
      BY <1>2, <2>2 DEF ReadNote, IndexBatch
    <3>2. n \notin todo /\ Touches(batch, n)
      BY <1>2, <2>2, <3>1 DEF Touches, Below
    <3> QED
      BY <1>2, <3>1, <3>2 DEF TrueOf, BatchTrue
  <2> QED
    BY <2>1, <2>2
<1> QED
  BY <1>1, <1>3, Elsewhere DEF TrueOf

(* A cast adds to the mailbox a message that is true of n. *)
LEMMA CastTrue ==
    ASSUME TypeOK, NEW n \in Note, MailboxTrue(n), NEW m \in Message, Cast(m),
           Touches(m, n) => Result(m, n) \in past[n], UNCHANGED past
    PROVE  MailboxTrue(n)'
<1>1. mailbox \in Seq(Message)
  BY DEF TypeOK
<1>2. CASE mailbox' = Append(mailbox, m)
  <2> SUFFICES ASSUME NEW i \in DOMAIN mailbox', Touches(mailbox'[i], n)
               PROVE  Result(mailbox'[i], n) \in past[n]
    BY DEF MailboxTrue, Touches, Result, Below
  <2>1. /\ Len(mailbox') = Len(mailbox) + 1
        /\ \A j \in 1..Len(mailbox) : mailbox'[j] = mailbox[j]
        /\ mailbox'[Len(mailbox) + 1] = m
        /\ mailbox' \in Seq(Message)
    BY <1>1, <1>2, AppendProperties
  <2>2. Len(mailbox) \in Nat /\ i \in 1..Len(mailbox) + 1
    BY <1>1, <2>1, LenProperties
  <2>3. CASE i \in 1..Len(mailbox)
    <3>1. i \in DOMAIN mailbox /\ mailbox'[i] = mailbox[i]
      BY <1>1, <2>1, <2>3, LenProperties
    <3> QED
      BY <3>1 DEF MailboxTrue
  <2>4. CASE i = Len(mailbox) + 1
    BY <2>1, <2>4
  <2> QED
    BY <2>2, <2>3, <2>4
<1>3. CASE mailbox' = mailbox
  BY <1>3 DEF MailboxTrue, Touches, Result, Below
<1> QED
  BY <1>2, <1>3 DEF Cast

LEMMA CastBatchTrue ==
    ASSUME TypeOK, Bookkeeping, NEW n \in Note, TrueOf(n), CastBatch, UNCHANGED past
    PROVE  TrueOf(n)'
<1>1. UNCHANGED <<disk, channel, scanner, walkTodo, walked>>
  BY DEF CastBatch, vaultVars, scannerVars
<1>2. ActionsTrue(n)'
  BY DEF CastBatch, ActionsTrue, NoNoteAction, NoTreeAction
<1>3. BatchTrue(n)'
  BY DEF CastBatch, BatchTrue
<1>4. MailboxTrue(n)'
  <2>1. Touches(batch, n) => Result(batch, n) \in past[n]
    BY DEF CastBatch, TrueOf, BatchTrue, Result, TypeOK, IndexBatch
  <2>2. batch \in Message /\ Cast(batch)
    BY DEF CastBatch, TypeOK, Message
  <2> QED
    BY <2>1, <2>2, CastTrue DEF TrueOf
<1> QED
  BY <1>1, <1>2, <1>3, <1>4, Elsewhere DEF TrueOf

LEMMA DebouncerTrue ==
    ASSUME TypeOK, IInv, OnlyTheTruth, Debouncer, UNCHANGED past
    PROVE  OnlyTheTruth'
<1> SUFFICES ASSUME NEW n \in Note PROVE TrueOf(n)'
  BY DEF OnlyTheTruth
<1>1. Bookkeeping /\ BatchMatches(n) /\ TrueOf(n)
  BY DEF OnlyTheTruth, IInv, NoteInv, FlushInv
<1>2. CASE Receive
  BY <1>1, <1>2, Elsewhere DEF Receive, TrueOf, vaultVars, scannerVars, writerVars
<1>3. CASE CloseWindow
  <2>1. BatchTrue(n)'
    BY <1>3 DEF CloseWindow, BatchTrue
  <2> QED
    BY <1>1, <1>3, <2>1, Elsewhere DEF CloseWindow, TrueOf, vaultVars, scannerVars, writerVars
<1>4. CASE MapEvent
  BY <1>1, <1>4, MapEventTrue
<1>5. CASE EndMap
  BY <1>1, <1>5, EndMapTrue
<1>6. CASE CastBatch
  BY <1>1, <1>6, CastBatchTrue
<1>7. CASE \E m \in Note : ReadNote(m)
  BY <1>1, <1>7, ReadNoteTrue
<1> QED
  BY <1>2, <1>3, <1>4, <1>5, <1>6, <1>7 DEF Debouncer

-----------------------------------------------------------------------------
(* The scanner, the writer, restarts and faults.                             *)

LEMMA ScannerTrue ==
    ASSUME TypeOK, IInv, OnlyTheTruth, Scanner \/ ScannerInit \/ ScannerCrash, UNCHANGED past
    PROVE  OnlyTheTruth'
<1> SUFFICES ASSUME NEW n \in Note PROVE TrueOf(n)'
  BY DEF OnlyTheTruth
<1>1. TrueOf(n)
  BY DEF OnlyTheTruth
<1> USE DEF vaultVars, debouncerVars, writerVars
<1>2. CASE RescanNow \/ ScannerInit \/ ScannerCrash
  <2>1. WalkTrue(n)'
    BY <1>2 DEF RescanNow, ScannerInit, ScannerCrash, BeginWalk, WalkTrue, Walking
  <2> QED
    BY <1>1, <1>2, <2>1, Elsewhere DEF RescanNow, ScannerInit, ScannerCrash, TrueOf
<1>3. CASE \E m \in Note : WalkNote(m)
  <2>1. PICK m \in Note : WalkNote(m)
    BY <1>3
  <2>2. WalkTrue(n)'
    BY <1>1, <2>1 DEF WalkNote, TrueOf, WalkTrue, Walking, TypeOK
  <2> QED
    BY <1>1, <2>1, <2>2, Elsewhere DEF WalkNote, TrueOf
<1>4. CASE EndWalk
  BY <1>1, <1>4, Elsewhere DEF EndWalk, TrueOf
<1>5. CASE CastRebuild
  <2> DEFINE m == [kind |-> "Rebuild", notes |-> walked]
  <2>1. m \in Message /\ Cast(m)
    BY <1>5 DEF CastRebuild, SendWalked, Message, Rebuild, TypeOK
  <2>2. Result(m, n) \in past[n]
    BY <1>1, <1>5 DEF CastRebuild, SendWalked, Result, TrueOf, WalkTrue, IInv, Bookkeeping
  <2>3. MailboxTrue(n)'
    BY <1>1, <2>1, <2>2, CastTrue DEF TrueOf
  <2>4. WalkTrue(n)'
    BY <1>5 DEF CastRebuild, SendWalked, WalkTrue, Walking
  <2> QED
    BY <1>1, <1>5, <2>3, <2>4, Elsewhere DEF CastRebuild, SendWalked, TrueOf
<1> QED
  BY <1>2, <1>3, <1>4, <1>5 DEF Scanner

LEMMA HandleCastTrue ==
    ASSUME TypeOK, OnlyTheTruth, HandleCast, UNCHANGED past
    PROVE  /\ OnlyTheTruth'
           /\ \A n \in Note : store'[n] \in past[n] \cup {store[n]}
<1>1. /\ mailbox \in Seq(Message) /\ mailbox # <<>> /\ mailbox' = Tail(mailbox)
      /\ store' = Apply(Head(mailbox), store)
  BY DEF HandleCast, TypeOK
<1>2. /\ 1 \in DOMAIN mailbox /\ Head(mailbox) = mailbox[1]
      /\ \A i \in DOMAIN mailbox' : i + 1 \in DOMAIN mailbox /\ mailbox'[i] = mailbox[i + 1]
  BY <1>1, HeadTailProperties, LenProperties, EmptySeq
<1>3. ASSUME NEW n \in Note PROVE TrueOf(n)'
  <2>1. TrueOf(n)
    BY DEF OnlyTheTruth
  <2>2. MailboxTrue(n)'
    BY <1>2, <2>1 DEF TrueOf, MailboxTrue, Touches, Result, Below
  <2> QED
    BY <2>1, <2>2, Elsewhere DEF HandleCast, TrueOf, vaultVars, debouncerVars, scannerVars
<1>4. ASSUME NEW n \in Note PROVE store'[n] \in past[n] \cup {store[n]}
  BY <1>1, <1>2 DEF Apply, OnlyTheTruth, TrueOf, MailboxTrue
<1> QED
  BY <1>3, <1>4 DEF OnlyTheTruth

LEMMA WatcherCrashTrue ==
    ASSUME TypeOK, OnlyTheTruth, WatcherCrash, UNCHANGED past
    PROVE  OnlyTheTruth'
<1> SUFFICES ASSUME NEW n \in Note PROVE TrueOf(n)'
  BY DEF OnlyTheTruth
<1>1. TrueOf(n)
  BY DEF OnlyTheTruth
<1> DEFINE k == IF phase = "map" THEN taken ELSE 0
<1>2. channel \in Seq(Event) /\ channel' = SubSeq(channel, 1, k)
  BY DEF WatcherCrash, TypeOK
<1>3. Len(channel) \in Nat /\ DOMAIN channel = 1..Len(channel) /\ k \in 0..Len(channel)
  BY <1>2, LenProperties DEF TypeOK
<1> HIDE DEF k
<1>4. \A i \in 1..k : channel[i] \in Event /\ i \in DOMAIN channel
  BY <1>2, <1>3, ElementOfSeq
<1>5. /\ channel' \in Seq(Event) /\ Len(channel') = k
      /\ \A i \in 1..k : channel'[i] = channel[i]
  BY <1>2, <1>3, <1>4, SubSeqProperties
<1>6. DOMAIN channel' = 1..k
  BY <1>5, LenProperties
<1>7. EventsTrue(n)'
  BY <1>1, <1>4, <1>5, <1>6 DEF TrueOf, EventsTrue, Denies
<1> QED
  BY <1>1, <1>7, Elsewhere DEF WatcherCrash, TrueOf, vaultVars, scannerVars, writerVars

LEMMA OtherTrue ==
    ASSUME TypeOK, OnlyTheTruth, UNCHANGED past,
           \/ RecordIndexUpdate \/ WatcherInit \/ WriterInit \/ WatcherInitFails \/ WriterCrash
           \/ UNCHANGED vars
    PROVE  OnlyTheTruth'
<1> SUFFICES ASSUME NEW n \in Note PROVE TrueOf(n)'
  BY DEF OnlyTheTruth
<1>1. TrueOf(n)
  BY DEF OnlyTheTruth
<1> USE DEF vars, vaultVars, debouncerVars, scannerVars, writerVars
<1>2. CASE \/ RecordIndexUpdate \/ WatcherInit \/ WriterInit \/ WatcherInitFails
           \/ UNCHANGED vars
  BY <1>1, <1>2, Elsewhere DEF RecordIndexUpdate, WatcherInit, WriterInit, WatcherInitFails, TrueOf
<1>3. CASE WriterCrash
  <2>1. MailboxTrue(n)'
    BY <1>3, EmptySeq DEF WriterCrash, MailboxTrue
  <2> QED
    BY <1>1, <1>3, <2>1, Elsewhere DEF WriterCrash, TrueOf
<1> QED
  BY <1>2, <1>3

-----------------------------------------------------------------------------
(* The invariant and the refinement.                                         *)

TruthInv == TypeOK /\ IInv /\ OnlyTheTruth

LEMMA InitTruth == Init => TruthInv
<1> SUFFICES ASSUME Init PROVE TruthInv
  OBVIOUS
<1>1. TypeOK /\ IInv
  BY InitTypes, InitIInv
<1>2. \A n \in Note : TrueOf(n)
  <2> SUFFICES ASSUME NEW n \in Note PROVE TrueOf(n)
    OBVIOUS
  <2>1. Parsed(disk[n]) \in past[n]
    BY DEF Init, VaultInit
  <2>2. DOMAIN channel = {} /\ DOMAIN mailbox = {}
    BY EmptySeq DEF Init
  <2>3. EventsTrue(n) /\ MailboxTrue(n)
    BY <2>2 DEF EventsTrue, MailboxTrue
  <2>4. ActionsTrue(n)
    BY DEF Init, ActionsTrue, NoNoteAction, NoTreeAction
  <2>5. BatchTrue(n)
    BY DEF Init, BatchTrue
  <2>6. WalkTrue(n)
    BY DEF Init, WalkTrue
  <2> QED
    BY <2>1, <2>3, <2>4, <2>5, <2>6 DEF TrueOf
<1> QED
  BY <1>1, <1>2 DEF TruthInv, OnlyTheTruth

LEMMA VaultAlone ==
    ASSUME Next, ~VaultChange
    PROVE  UNCHANGED <<disk, past>>
  BY DEF Next, Debouncer, Scanner, Writer, Restart, Fault, Receive, CloseWindow, MapEvent, EndMap,
     CastBatch, ReadNote, RescanNow, EndWalk, CastRebuild, SendWalked, WalkNote, HandleCast,
     RecordIndexUpdate, WatcherInit, ScannerInit, WriterInit,
     WatcherCrash, WatcherInitFails, ScannerCrash, WriterCrash, vaultVars

LEMMA NextTruth ==
    ASSUME TruthInv, TypeOK', IInv', [Next]_vars
    PROVE  TruthInv'
<1>1. CASE UNCHANGED vars
  BY <1>1, OtherTrue DEF TruthInv, vars, vaultVars
<1>2. CASE VaultChange
  BY <1>2, VaultChangeTrue DEF TruthInv, IInv
<1>3. CASE Next /\ ~VaultChange
  <2>1. UNCHANGED past
    BY <1>3, VaultAlone
  <2> QED
    BY <1>3, <2>1, DebouncerTrue, ScannerTrue, HandleCastTrue, WatcherCrashTrue, OtherTrue
    DEF TruthInv, Next, Writer, Restart, Fault
<1> QED
  BY <1>1, <1>2, <1>3 DEF Next

Remembers == UNCHANGED store /\ past' = [n \in Note |-> past[n] \cup {Parsed(disk[n])'}]

LEMMA StoreMovesTruly ==
    ASSUME TruthInv, TypeOK', [Next]_vars
    PROVE  [Index!Next]_(Index!vars)
<1> USE DEF Index!Next, Index!vars, Index!VaultChange, Index!Refresh, Now
<1>1. \A n \in Note : Parsed(disk[n])' \in Record
  BY DEF Parsed, Record, TypeOK, VaultTypeOK
<1>2. CASE UNCHANGED vars
  BY <1>2 DEF vars, vaultVars, writerVars, Parsed
<1>3. CASE VaultChange
  <2>1. Remembers
    <3>1. ASSUME NEW events, NEW touched, Change(events, touched)
          PROVE  Remembers
      BY <3>1 DEF Change, writerVars, Remembers
    <3>2. CASE \E n \in Note, c \in Version \cup {Malformed} : WriteNote(n, c)
      BY <3>1, <3>2 DEF WriteNote
    <3>3. CASE \E n \in Note : RemoveNote(n)
      BY <3>1, <3>3 DEF RemoveNote
    <3>4. CASE \E m, n \in Note : RenameNote(m, n)
      BY <3>1, <3>4 DEF RenameNote
    <3>5. CASE \E d \in Dir : \E D \in SUBSET (Inside[d] \cap Dir), f \in [Below({d}) -> Content] :
                  TreeAppears(d, D, f)
      BY <3>1, <3>5 DEF TreeAppears
    <3>6. CASE \E d \in Dir : TreeVanishes(d)
      BY <3>1, <3>6 DEF TreeVanishes
    <3>7. CASE \E d, e \in Dir :
                  \E D \in SUBSET (Inside[e] \cap Dir), f \in [Below({e}) -> Content] :
                      RenameTree(d, e, D, f)
      BY <3>1, <3>7 DEF RenameTree
    <3> QED
      BY <1>3, <3>2, <3>3, <3>4, <3>5, <3>6, <3>7 DEF VaultChange
  <2>2. Now' \in [Note -> Record]
    BY <1>1
  <2>3. UNCHANGED store /\ past' = [n \in Note |-> past[n] \cup {Now'[n]}]
    BY <2>1 DEF Remembers
  <2> QED
    BY <2>2, <2>3
<1>4. CASE Next /\ ~VaultChange
  <2>1. UNCHANGED <<disk, past>>
    BY <1>4, VaultAlone
  <2>3. UNCHANGED Now
    BY <2>1 DEF Parsed
  <2>4. CASE HandleCast
    <3>1. store' \in [Note -> Record]
      BY DEF TypeOK
    <3>2. \A n \in Note : store'[n] \in past[n] \cup {store[n]}
      BY <2>1, <2>4, HandleCastTrue DEF TruthInv
    <3> QED
      BY <2>1, <2>3, <3>1, <3>2
  <2>5. CASE ~HandleCast
    <3>1. UNCHANGED store
      BY <1>4, <2>5 DEF Next, Debouncer, Scanner, Writer, Restart, Fault, Receive,
         CloseWindow, MapEvent, EndMap, CastBatch, ReadNote, RescanNow, EndWalk, CastRebuild,
         SendWalked, WalkNote, RecordIndexUpdate, WatcherInit,
         ScannerInit, WriterInit, WatcherCrash, WatcherInitFails, ScannerCrash, WriterCrash,
         writerVars
    <3> QED
      BY <2>1, <2>3, <3>1
  <2> QED
    BY <2>4, <2>5
<1> QED
  BY <1>2, <1>3, <1>4

(* Whatever is under way about a note -- queued events, coalesced actions, a  *)
(* batch, a walk, the writer's mailbox -- says what has been true of it.      *)
THEOREM NothingInvented == Spec => []OnlyTheTruth
<1>1. Init => TruthInv
  BY InitTruth
<1>2. TruthInv /\ TypeOK' /\ IInv' /\ [Next]_vars => TruthInv'
  BY NextTruth
<1>3. TruthInv => OnlyTheTruth
  BY DEF TruthInv
<1> QED
  BY <1>1, <1>2, <1>3, TypeCorrect, InvariantHolds, PTL DEF Spec

(* The pipeline, for every vault and any faults, implements VaultIndex: an    *)
(* entry of the index changes only to something its note has been.            *)
THEOREM PipelineImplementsIndex == Spec => ImplementsVaultIndex
<1>1. Init => Index!Init
  <2> SUFFICES ASSUME Init PROVE Index!Init
    OBVIOUS
  <2>1. TypeOK
    BY InitTypes
  <2>2. Now \in [Note -> Record]
    BY <2>1 DEF Now, Parsed, Record, TypeOK, VaultTypeOK
  <2> QED
    BY <2>2 DEF Index!Init, Init, VaultInit, NoRecords, Now
<1>2. TruthInv /\ TypeOK' /\ [Next]_vars => [Index!Next]_(Index!vars)
  BY StoreMovesTruly
<1>3. Spec => []TruthInv
  <2>1. Init => TruthInv
    BY InitTruth
  <2>2. TruthInv /\ TypeOK' /\ IInv' /\ [Next]_vars => TruthInv'
    BY NextTruth
  <2> QED
    BY <2>1, <2>2, TypeCorrect, InvariantHolds, PTL DEF Spec
<1> QED
  BY <1>1, <1>2, <1>3, TypeCorrect, PTL
  DEF Spec, ImplementsVaultIndex, Index!Spec

=============================================================================
