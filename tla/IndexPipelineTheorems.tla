----------------------- MODULE IndexPipelineTheorems ------------------------
(*****************************************************************************)
(* The index pipeline keeps its inductive invariant, and so at rest serves   *)
(* every note no recorded hazard has struck as it is on disk.                *)
(*****************************************************************************)
EXTENDS IndexPipelineProofs, FiniteSetTheorems

(* The changes of the vault: what an event queued before a change says of a  *)
(* note the change leaves alone stays true, and the events of the change     *)
(* tell how the notes it touches are now.                                   *)

(* An event and a note the change does not affect.                          *)

Untouched(n) ==
    /\ disk'[n] = disk[n]
    /\ \A d \in Dir : n \in Inside[d] => (d \in dirs' <=> d \in dirs)
    /\ n \in dirs => n \in dirs'

SoundEvent(e) ==
    /\ e \in Event
    /\ e.kind = "RenameUnpaired" => ~PairsRenames /\ e.to = e.path

(* What an event covers, kind by kind. *)
CoverageOf(e, n) ==
    /\ n \in NoteUpserts(e) <=>
         \/ e.kind = "Modify" /\ e.path = n
         \/ e.kind \in {"Appear", "Rename"} /\ e.to = n /\ n \notin dirs
         \/ e.kind = "RenameUnpaired" /\ e.path = n /\ disk[n] # Absent
    /\ n \in NoteDeletes(e) <=>
         \/ e.kind \in {"Vanish", "Rename"} /\ e.path = n
         \/ e.kind = "RenameUnpaired" /\ e.path = n /\ disk[n] = Absent
    /\ n \in Below(TreeUpserts(e)) <=>
         \/ e.kind \in {"Appear", "Rename"} /\ e.to \in dirs /\ n \in Inside[e.to]
         \/ e.kind = "RenameUnpaired" /\ e.path \in dirs /\ n \in Inside[e.path]
    /\ n \in Below(TreeDeletes(e)) <=>
         \/ e.kind \in {"Vanish", "Rename"} /\ e.path \in Dir /\ n \in Inside[e.path]
         \/ e.kind = "RenameUnpaired" /\ e.path \in Dir \ dirs /\ n \in Inside[e.path]

Coverage == dirs \subseteq Dir => \A e, n : SoundEvent(e) /\ n \in Note => CoverageOf(e, n)

LEMMA EventCoverage == Coverage
<1> SUFFICES ASSUME NEW e, SoundEvent(e), NEW n \in Note, dirs \subseteq Dir
             PROVE  CoverageOf(e, n)
  BY DEF Coverage
<1>1. e.kind \in Kind
  BY DEF SoundEvent, Event
<1>2. CASE e.kind = "RenameUnpaired"
  <2>1. Note \cap Dir = {} /\ e.to = e.path
    BY <1>2, RenameAssumption DEF SoundEvent
  <2>2. Modified(e) = {}
    BY <1>2 DEF Modified
  <2>3. Gone(e) = IF Exists(e.path) THEN {} ELSE {e.path}
    BY <1>2 DEF Gone
  <2>4. Came(e) = IF Exists(e.path) THEN {e.path} ELSE {}
    BY <1>2, <2>1 DEF Came
  <2>5. /\ e.path \in Note => (Exists(e.path) <=> disk[e.path] # Absent)
        /\ e.path \in Dir => (Exists(e.path) <=> e.path \in dirs)
    BY <2>1 DEF Exists
  <2>6. n \in NoteUpserts(e) <=> e.path = n /\ disk[n] # Absent
    BY <2>1, <2>2, <2>4, <2>5 DEF NoteUpserts
  <2>7. n \in NoteDeletes(e) <=> e.path = n /\ disk[n] = Absent
    BY <2>3, <2>5 DEF NoteDeletes
  <2>8. n \in Below(TreeUpserts(e)) <=> e.path \in dirs /\ n \in Inside[e.path]
    BY <2>4, <2>5 DEF Below, TreeUpserts
  <2>9. n \in Below(TreeDeletes(e)) <=> e.path \in Dir \ dirs /\ n \in Inside[e.path]
    BY <2>3, <2>5 DEF Below, TreeDeletes
  <2> QED
    BY <1>2, <2>6, <2>7, <2>8, <2>9 DEF CoverageOf
<1>3. CASE e.kind # "RenameUnpaired"
  <2>1. Gone(e) = IF e.kind \in {"Vanish", "Rename"} THEN {e.path} ELSE {}
    BY <1>3 DEF Gone
  <2>2. Came(e) = IF e.kind \in {"Appear", "Rename"} THEN {e.to} ELSE {}
    BY <1>3 DEF Came
  <2>3. n \in NoteUpserts(e) <=>
          \/ e.kind = "Modify" /\ e.path = n
          \/ e.kind \in {"Appear", "Rename"} /\ e.to = n /\ n \notin dirs
    BY <2>2 DEF NoteUpserts, Modified
  <2>4. n \in NoteDeletes(e) <=> e.kind \in {"Vanish", "Rename"} /\ e.path = n
    BY <2>1 DEF NoteDeletes
  <2>5. n \in Below(TreeUpserts(e)) <=>
          e.kind \in {"Appear", "Rename"} /\ e.to \in dirs /\ n \in Inside[e.to]
    BY <2>2 DEF Below, TreeUpserts
  <2>6. n \in Below(TreeDeletes(e)) <=>
          e.kind \in {"Vanish", "Rename"} /\ e.path \in Dir /\ n \in Inside[e.path]
    BY <2>1 DEF Below, TreeDeletes
  <2> QED
    BY <1>3, <2>3, <2>4, <2>5, <2>6 DEF CoverageOf
<1> QED
  BY <1>2, <1>3

LEMMA EventCoverageNext == Coverage'
  BY EventCoverage, PTL

LEMMA UntouchedEvent ==
    ASSUME NEW e, SoundEvent(e), NEW n \in Note, Untouched(n),
           dirs \subseteq Dir, dirs' \subseteq Dir, WellFormed(disk', dirs')
    PROVE  /\ Covers(e, n)' => Covers(e, n)
           /\ Covers(e, n) /\ ~Covers(e, n)'
                => n \in NoteUpserts(e) /\ disk[n] = Absent /\ ~ReadDecides
           /\ Truthful(e, n) => Truthful(e, n)'
           /\ ~Truthful(e, n)' => ~Truthful(e, n)
<1> USE DEF Covers, Truthful
<1> DEFINE U == n \in NoteUpserts(e)
           D == n \in NoteDeletes(e)
           TU == n \in Below(TreeUpserts(e))
           TD == n \in Below(TreeDeletes(e))
<1>1. Covers(e, n) <=> U \/ D \/ TU \/ TD
  BY DEF Below
<1>2. Covers(e, n)' <=> U' \/ D' \/ TU' \/ TD'
  BY DEF Below
<1>3. /\ U <=> \/ e.kind = "Modify" /\ e.path = n
               \/ e.kind \in {"Appear", "Rename"} /\ e.to = n /\ n \notin dirs
               \/ e.kind = "RenameUnpaired" /\ e.path = n /\ disk[n] # Absent
      /\ D <=> \/ e.kind \in {"Vanish", "Rename"} /\ e.path = n
               \/ e.kind = "RenameUnpaired" /\ e.path = n /\ disk[n] = Absent
      /\ TU <=> \/ e.kind \in {"Appear", "Rename"} /\ e.to \in dirs /\ n \in Inside[e.to]
                \/ e.kind = "RenameUnpaired" /\ e.path \in dirs /\ n \in Inside[e.path]
      /\ TD <=> \/ e.kind \in {"Vanish", "Rename"} /\ e.path \in Dir /\ n \in Inside[e.path]
                \/ e.kind = "RenameUnpaired" /\ e.path \in Dir \ dirs /\ n \in Inside[e.path]
  BY EventCoverage DEF Coverage, CoverageOf
<1>4. /\ U' <=> \/ e.kind = "Modify" /\ e.path = n
                \/ e.kind \in {"Appear", "Rename"} /\ e.to = n /\ n \notin dirs'
                \/ e.kind = "RenameUnpaired" /\ e.path = n /\ disk'[n] # Absent
      /\ D' <=> \/ e.kind \in {"Vanish", "Rename"} /\ e.path = n
                \/ e.kind = "RenameUnpaired" /\ e.path = n /\ disk'[n] = Absent
      /\ TU' <=> \/ e.kind \in {"Appear", "Rename"} /\ e.to \in dirs' /\ n \in Inside[e.to]
                 \/ e.kind = "RenameUnpaired" /\ e.path \in dirs' /\ n \in Inside[e.path]
      /\ TD' <=> \/ e.kind \in {"Vanish", "Rename"} /\ e.path \in Dir /\ n \in Inside[e.path]
                 \/ e.kind = "RenameUnpaired" /\ e.path \in Dir \ dirs' /\ n \in Inside[e.path]
  BY EventCoverageNext DEF Coverage, CoverageOf
<1>5. /\ disk'[n] = disk[n]
      /\ \A d \in Dir : n \in Inside[d] => (d \in dirs' <=> d \in dirs)
      /\ n \in dirs => n \in dirs'
      /\ n \in dirs' => disk[n] = Absent
  BY DEF Untouched, WellFormed
<1>6. /\ TU' <=> TU
      /\ TD' <=> TD
      /\ D' <=> D
  BY <1>3, <1>4, <1>5
<1>7. /\ U' => U
      /\ U /\ ~U' => disk[n] = Absent
      /\ U /\ ~U' => ~ReadDecides
  BY <1>3, <1>4, <1>5, RenameAssumption DEF ReadDecides
<1>8. Truthful(e, n) => Truthful(e, n)'
  <2>1. Truthful(e, n)' <=> /\ U' => disk'[n] # Absent \/ ReadDecides
                            /\ D' /\ ~U' => disk'[n] = Absent
                            /\ TD' /\ ~TU' => disk'[n] = Absent
    BY DEF ReadDecides
  <2>2. Truthful(e, n) <=> /\ U => disk[n] # Absent \/ ReadDecides
                           /\ D /\ ~U => disk[n] = Absent
                           /\ TD /\ ~TU => disk[n] = Absent
    OBVIOUS
  <2> QED
    BY <1>5, <1>6, <1>7, <2>1, <2>2
<1> QED
  BY <1>1, <1>2, <1>6, <1>7, <1>8

-----------------------------------------------------------------------------
(* What the channel holds once the change is reported.                      *)

LEMMA ChannelGrows ==
    ASSUME TypeOK, NEW more \in Seq(Event), channel' = channel \o more
    PROVE  /\ Len(channel) \in Nat /\ Len(more) \in Nat
           /\ DOMAIN channel = 1..Len(channel)
           /\ DOMAIN more = 1..Len(more)
           /\ DOMAIN channel' = 1..(Len(channel) + Len(more))
           /\ \A i \in DOMAIN channel : i \in DOMAIN channel' /\ channel'[i] = channel[i]
           /\ \A k \in DOMAIN more :
                 /\ Len(channel) + k \in DOMAIN channel'
                 /\ channel'[Len(channel) + k] = more[k]
           /\ \A i \in DOMAIN channel' :
                 \/ i \in DOMAIN channel
                 \/ \E k \in DOMAIN more : i = Len(channel) + k
<1>1. channel \in Seq(Event)
  BY DEF TypeOK
<1>2. /\ Len(channel) \in Nat /\ Len(more) \in Nat
      /\ DOMAIN channel = 1..Len(channel)
      /\ DOMAIN more = 1..Len(more)
  BY <1>1, LenProperties
<1>3. /\ channel' \in Seq(Event)
      /\ Len(channel') = Len(channel) + Len(more)
      /\ \A i \in 1..(Len(channel) + Len(more)) :
            channel'[i] = IF i <= Len(channel) THEN channel[i] ELSE more[i - Len(channel)]
  BY <1>1, ConcatProperties
<1>4. DOMAIN channel' = 1..(Len(channel) + Len(more))
  BY <1>3, LenProperties
<1>5. \A i \in DOMAIN channel : i \in DOMAIN channel' /\ channel'[i] = channel[i]
  BY <1>2, <1>3, <1>4
<1>6. ASSUME NEW k \in DOMAIN more
      PROVE  Len(channel) + k \in DOMAIN channel' /\ channel'[Len(channel) + k] = more[k]
  <2>1. k \in Nat /\ k > 0 /\ k <= Len(more) /\ (Len(channel) + k) - Len(channel) = k
    BY <1>2
  <2> QED
    BY <1>2, <1>3, <1>4, <2>1
<1>7. ASSUME NEW i \in DOMAIN channel', i \notin DOMAIN channel
      PROVE  \E k \in DOMAIN more : i = Len(channel) + k
  <2>1. i - Len(channel) \in DOMAIN more /\ i = Len(channel) + (i - Len(channel))
    BY <1>2, <1>4, <1>7
  <2> QED
    BY <2>1
<1> QED
  BY <1>2, <1>4, <1>5, <1>6, <1>7

LEMMA ChannelSound ==
    ASSUME TypeOK, Bookkeeping, NEW i \in DOMAIN channel
    PROVE  SoundEvent(channel[i])
<1>1. channel[i] \in Event
  BY LenProperties, ElementOfSeq DEF TypeOK
<1> QED
  BY <1>1 DEF Bookkeeping, SoundEvent

(* The change leaves n alone, and so do the events that report it. *)
LEMMA UntouchedFlush ==
    ASSUME TypeOK, TypeOK', Bookkeeping, WellFormed(disk', dirs'),
           NEW n \in Note, FlushInv(n), Untouched(n), Reported(n)' => Reported(n),
           NEW more \in Seq(Event), channel' = channel \o more,
           \A k \in DOMAIN more : ~Covers(more[k], n)',
           UNCHANGED <<phase, noteAction, treeAction, todo, batch>>
    PROVE  /\ Pending(n)' => Pending(n)
           /\ Reported(n) /\ Pending(n) => Pending(n)'
           /\ ChannelTruthful(n)' /\ ActionsComplete(n)' /\ BatchMatches(n)'
<1>1. /\ \A i \in DOMAIN channel : i \in DOMAIN channel' /\ channel'[i] = channel[i]
      /\ DOMAIN channel \subseteq Int /\ DOMAIN channel' \subseteq Int
  BY ChannelGrows
<1>2. ASSUME NEW i \in DOMAIN channel', Covers(channel[i], n)'
      PROVE  i \in DOMAIN channel
  <2> SUFFICES ASSUME NEW k \in DOMAIN more, i = Len(channel) + k PROVE FALSE
    BY ChannelGrows
  <2>1. channel'[i] = more[k]
    BY ChannelGrows
  <2> QED
    BY <1>2, <2>1
<1>3. ASSUME NEW i \in DOMAIN channel
      PROVE  /\ Covers(channel[i], n)' => Covers(channel[i], n)
             /\ Covers(channel[i], n) /\ ~Covers(channel[i], n)' => ~Truthful(channel[i], n)
             /\ Truthful(channel[i], n) => Truthful(channel[i], n)'
  <2>1. PICK e : e = channel[i]
    OBVIOUS
  <2>2. SoundEvent(e)
    BY <2>1, ChannelSound
  <2>3. dirs \subseteq Dir /\ dirs' \subseteq Dir
    BY DEF TypeOK, VaultTypeOK
  <2>4. /\ Covers(e, n)' => Covers(e, n)
        /\ Covers(e, n) /\ ~Covers(e, n)'
             => n \in NoteUpserts(e) /\ disk[n] = Absent /\ ~ReadDecides
        /\ Truthful(e, n) => Truthful(e, n)'
    BY <2>2, <2>3, UntouchedEvent
  <2>5. /\ Covers(channel[i], n)' <=> Covers(e, n)'
        /\ Truthful(channel[i], n)' <=> Truthful(e, n)'
    BY <1>1, <2>1
  <2>6. n \in NoteUpserts(e) /\ disk[n] = Absent /\ ~ReadDecides => ~Truthful(e, n)
    BY DEF Truthful
  <2> QED
    BY <2>1, <2>4, <2>5, <2>6
<1>4. Pending(n)' => Pending(n)
  BY <1>2, <1>3 DEF Pending
<1>5. ASSUME Reported(n), NEW i \in DOMAIN channel, Covers(channel[i], n)
      PROVE  \E j \in DOMAIN channel :
               /\ j = i \/ (j > i /\ Truthful(channel[j], n))
               /\ Covers(channel[j], n)'
  BY <1>1, <1>3, <1>5 DEF FlushInv, ChannelTruthful
<1>6. Reported(n) /\ Pending(n) => Pending(n)'
  BY <1>1, <1>5 DEF Pending
<1>7. ChannelTruthful(n)'
  <2> SUFFICES ASSUME Reported(n), NEW i \in DOMAIN channel',
                      Covers(channel[i], n)', ~Truthful(channel[i], n)'
               PROVE  \E j \in DOMAIN channel' :
                        j > i /\ Covers(channel[j], n)' /\ Truthful(channel[j], n)'
    BY DEF ChannelTruthful
  <2>1. i \in DOMAIN channel /\ Covers(channel[i], n) /\ ~Truthful(channel[i], n)
    BY <1>2, <1>3
  <2>2. PICK j \in DOMAIN channel :
               j > i /\ Covers(channel[j], n) /\ Truthful(channel[j], n)
    BY <2>1 DEF FlushInv, ChannelTruthful
  <2> QED
    BY <1>1, <1>3, <2>2
<1>8. ActionsComplete(n)'
  BY <1>6, SameHeld DEF FlushInv, ActionsComplete, Untouched
<1>9. BatchMatches(n)'
  <2>1. \A r : Matches(n, r)' <=> Matches(n, r)
    BY SameMatches DEF Untouched
  <2> QED
    BY <1>6, <2>1 DEF FlushInv, BatchMatches, Untouched, Touches, Below, Rereads, ReadDecides
<1> QED
  BY <1>4, <1>6, <1>7, <1>8, <1>9

-----------------------------------------------------------------------------
(* The four things that can happen to the report of a change.               *)

ChangeFrame ==
    /\ UNCHANGED <<phase, noteAction, treeAction, todo, batch>>
    /\ UNCHANGED <<overflow, scanner, rescans, walkTodo, walked, mailbox, store>>

(* No event of the change is about n.                                       *)
LEMMA UnaffectedKeeps ==
    ASSUME TypeOK, TypeOK', Bookkeeping, WellFormed(disk', dirs'),
           NEW n \in Note, NoteInv(n), Untouched(n), ChangeFrame,
           Unexposed(n)' <=> Unexposed(n), n \in lost' <=> n \in lost,
           NEW more \in Seq(Event), channel' = channel \o more,
           \A k \in DOMAIN more : ~Covers(more[k], n)',
           \A k \in DOMAIN more : more[k].kind # "Overflow"
    PROVE  NoteInv(n)'
<1> USE DEF ChangeFrame
<1>1. FlushInv(n)
  BY DEF NoteInv
<1>2. Reported(n)' <=> Reported(n)
  BY DEF Reported
<1>3. /\ Pending(n)' => Pending(n)
      /\ Reported(n) /\ Pending(n) => Pending(n)'
      /\ ChannelTruthful(n)' /\ ActionsComplete(n)' /\ BatchMatches(n)'
  BY <1>1, <1>2, UntouchedFlush
<1>4. FullRescanDue' <=> FullRescanDue
  <2>1. ASSUME NEW i \in DOMAIN channel', channel'[i].kind = "Overflow"
        PROVE  i \in DOMAIN channel /\ channel[i].kind = "Overflow"
    BY <2>1, ChannelGrows
  <2>2. ASSUME NEW i \in DOMAIN channel, channel[i].kind = "Overflow"
        PROVE  i \in DOMAIN channel' /\ channel'[i].kind = "Overflow"
    BY <2>2, ChannelGrows
  <2> QED
    BY <2>1, <2>2 DEF FullRescanDue
<1>5. RescanDue(n)' <=> RescanDue(n)
  BY <1>4 DEF RescanDue, Walking
<1>6. CASE ~Unexposed(n)
  BY <1>3, <1>6 DEF NoteInv, FlushInv, SettledInv, LossBehind, NoOldVerdict, WalkMatches,
     Delivered
<1>7. CASE Unexposed(n)
  <2>1. Pending(n) => Pending(n)' \/ RescanDue(n)
    BY <1>1, <1>3, <1>7 DEF Reported, FlushInv, LossBehind, Pending, RescanDue, FullRescanDue
  <2>2. Unrefreshed(n)' => Unrefreshed(n)
    BY <1>5, <2>1 DEF Unrefreshed
  <2>3. SettledInv(n)'
    <3>1. Held(n)' <=> Held(n)
      BY SameHeld
    <3>2. SettledInv(n) /\ disk'[n] = disk[n]
      BY DEF NoteInv, Untouched
    <3> QED
      BY <2>2, <3>1, <3>2, SettledFrame
  <2>4. LossBehind(n)'
    <3> SUFFICES ASSUME n \in lost, NEW i \in DOMAIN channel', Covers(channel[i], n)'
                 PROVE  \E j \in DOMAIN channel' : j > i /\ channel'[j].kind = "Overflow"
      BY DEF LossBehind
    <3>1. i \in DOMAIN channel
      <4> SUFFICES ASSUME NEW k \in DOMAIN more, i = Len(channel) + k PROVE FALSE
        BY ChannelGrows
      <4>1. channel'[i] = more[k]
        BY ChannelGrows
      <4> QED
        BY <4>1
    <3>2. PICK e : e = channel[i]
      OBVIOUS
    <3>3. SoundEvent(e) /\ dirs \subseteq Dir /\ dirs' \subseteq Dir /\ channel'[i] = e
      BY <3>1, <3>2, ChannelSound, ChannelGrows DEF TypeOK, VaultTypeOK
    <3>4. Covers(e, n)'
      BY <3>3
    <3>5. Covers(channel[i], n)
      BY <3>2, <3>3, <3>4, UntouchedEvent
    <3>6. PICK j \in DOMAIN channel : j > i /\ channel[j].kind = "Overflow"
      BY <1>1, <1>7, <3>1, <3>5 DEF FlushInv, LossBehind
    <3> QED
      BY <3>6, ChannelGrows
  <2> QED
    BY <1>3, <2>3, <2>4 DEF NoteInv, FlushInv
<1> QED
  BY <1>6, <1>7

(* The queue overflows: a rescan of everything is due.                      *)
LEMMA OverflowKeeps ==
    ASSUME TypeOK, TypeOK', Bookkeeping, WellFormed(disk', dirs'),
           NEW n \in Note, NoteInv(n), ChangeFrame,
           channel' = channel \o <<Overflow>>,
           Unexposed(n)', n \notin lost' => Untouched(n) /\ Reported(n)
    PROVE  NoteInv(n)'
<1> USE DEF ChangeFrame
<1>1. <<Overflow>> \in Seq(Event)
  <2>1. Overflow \in Event
    BY EventTypes
  <2> QED
    BY <2>1
<1>2. /\ DOMAIN <<Overflow>> = {1} /\ <<Overflow>>[1] = Overflow
      /\ Len(<<Overflow>>) = 1
  OBVIOUS
<1>3. ~Covers(Overflow, n)'
  BY DEF Overflow, EventOn, Covers, NoteUpserts, NoteDeletes, TreeUpserts, TreeDeletes,
     Modified, Gone, Came, Below
<1>4. /\ \A i \in DOMAIN channel' : channel'[i] # Overflow => i < Len(channel) + 1
      /\ Len(channel) + 1 \in DOMAIN channel' /\ channel'[Len(channel) + 1] = Overflow
      /\ Len(channel) \in Nat
  <2>1. /\ DOMAIN channel' = 1..(Len(channel) + 1)
        /\ channel'[Len(channel) + 1] = Overflow
        /\ Len(channel) \in Nat
    BY <1>1, <1>2, ChannelGrows
  <2> QED
    BY <2>1
<1>5. channel'[Len(channel) + 1].kind = "Overflow"
  BY <1>4 DEF Overflow, EventOn
<1>6. SettledInv(n)'
  BY <1>4, <1>5, SettledVacuous DEF RescanDue, FullRescanDue
<1>7. LossBehind(n)'
  <2> SUFFICES ASSUME NEW i \in DOMAIN channel', Covers(channel[i], n)'
               PROVE  i < Len(channel) + 1
    BY <1>4, <1>5 DEF LossBehind
  <2>1. CASE channel'[i] # Overflow
    BY <1>4, <2>1
  <2>2. CASE channel'[i] = Overflow
    BY <1>3, <2>2
  <2> QED
    BY <2>1, <2>2
<1>8. CASE n \in lost'
  BY <1>6, <1>7, <1>8 DEF NoteInv, FlushInv, ChannelTruthful, ActionsComplete, BatchMatches, Reported
<1>9. CASE n \notin lost'
  <2>1. Untouched(n) /\ Reported(n) /\ FlushInv(n)
    BY <1>9 DEF NoteInv
  <2>2. ChannelTruthful(n)' /\ ActionsComplete(n)' /\ BatchMatches(n)'
    BY <1>1, <1>2, <1>3, <2>1, UntouchedFlush
  <2> QED
    BY <1>6, <1>7, <2>2 DEF NoteInv, FlushInv
<1> QED
  BY <1>8, <1>9

(* The change is not reported at all: the note is exposed.                  *)
LEMMA ExposedKeeps ==
    ASSUME NEW n \in Note, NoteInv(n), ChangeFrame, ~Unexposed(n)'
    PROVE  NoteInv(n)'
<1>1. BatchMatches(n)'
  BY DEF NoteInv, FlushInv, BatchMatches, Reported, ChangeFrame
<1> QED
  BY <1>1 DEF NoteInv, FlushInv, SettledInv, ChannelTruthful, ActionsComplete, LossBehind,
     NoOldVerdict, WalkMatches, Delivered, Reported

(* An event of the change is about n and tells how it is now.               *)
LEMMA ReportedKeeps ==
    ASSUME TypeOK, NEW n \in Note, NoteInv(n), ChangeFrame, n \notin lost',
           NEW more \in Seq(Event), channel' = channel \o more,
           NEW k \in DOMAIN more, Covers(more[k], n)',
           \A j \in DOMAIN more :
              j >= k /\ Covers(more[j], n)' => Truthful(more[j], n)'
    PROVE  NoteInv(n)'
<1>1. /\ Len(channel) + k \in DOMAIN channel' /\ channel'[Len(channel) + k] = more[k]
      /\ Len(channel) \in Nat /\ DOMAIN channel = 1..Len(channel) /\ DOMAIN more = 1..Len(more)
  BY ChannelGrows
<1>2. Pending(n)'
  <2>1. PICK i \in DOMAIN channel' : i = Len(channel) + k
    BY <1>1
  <2>2. channel'[i] = more[k]
    BY <1>1, <2>1
  <2> QED
    BY <2>2 DEF Pending
<1>3. ChannelTruthful(n)'
  <2> SUFFICES ASSUME NEW i \in DOMAIN channel', Covers(channel[i], n)', ~Truthful(channel[i], n)'
               PROVE  \E j \in DOMAIN channel' :
                        j > i /\ Covers(channel[j], n)' /\ Truthful(channel[j], n)'
    BY DEF ChannelTruthful
  <2>1. PICK j \in DOMAIN channel' : j = Len(channel) + k
    BY <1>1
  <2>2. channel'[j] = more[k]
    BY <1>1, <2>1
  <2>3. Covers(channel[j], n)' /\ Truthful(channel[j], n)'
    <3>1. k >= k
      BY <1>1
    <3>2. Truthful(more[k], n)'
      BY <3>1
    <3> QED
      BY <2>2, <3>2
  <2>4. i < j
    <3> SUFFICES ASSUME ~(i < j) PROVE FALSE
      OBVIOUS
    <3>1. i \in Int /\ j \in Int /\ k \in Nat /\ k > 0
      BY <1>1, ChannelGrows
    <3>2. i \notin DOMAIN channel
      BY <1>1, <2>1, <3>1
    <3>3. PICK l \in DOMAIN more : i = Len(channel) + l
      BY <3>2, ChannelGrows
    <3>4. l >= k /\ channel'[i] = more[l]
      BY <1>1, <2>1, <3>1, <3>3, ChannelGrows
    <3>5. Covers(more[l], n)'
      BY <3>4
    <3>6. Truthful(more[l], n)'
      BY <3>4, <3>5
    <3> QED
      BY <3>4, <3>6
  <2> QED
    BY <2>3, <2>4
<1>4. SettledInv(n)'
  BY <1>2, SettledVacuous
<1>5. ActionsComplete(n)' /\ LossBehind(n)'
  BY <1>2 DEF ActionsComplete, LossBehind
<1>6. BatchMatches(n)'
  BY <1>2 DEF NoteInv, FlushInv, BatchMatches, ChangeFrame
<1> QED
  BY <1>3, <1>4, <1>5, <1>6 DEF NoteInv, FlushInv

-----------------------------------------------------------------------------
(* A change and its events: whatever they are about, the last of them tells   *)
(* how it is now, and they are about every note the change touches.           *)
TellsNow(events, n) ==
    \E k \in DOMAIN events :
        /\ Covers(events[k], n)'
        /\ \A j \in DOMAIN events :
              j >= k /\ Covers(events[j], n)' => Truthful(events[j], n)'

Reports(events, touched) ==
    /\ \A k \in DOMAIN events : SoundEvent(events[k]) /\ events[k].kind # "Overflow"
    /\ \A n \in Note \ touched : Untouched(n)
    /\ \A n \in touched : TellsNow(events, n)
    /\ \A n \in Note : \A k \in DOMAIN events : Covers(events[k], n)' => TellsNow(events, n)

LEMMA ChangeKeeps ==
    ASSUME TypeOK, TypeOK', Bookkeeping, NEW events \in Seq(Event), NEW touched \in SUBSET Note,
           Change(events, touched), Reports(events, touched),
           NEW n \in Note, NoteInv(n)
    PROVE  NoteInv(n)'
<1>1. ChangeFrame /\ WellFormed(disk', dirs')
  BY DEF Change, ChangeFrame, scannerVars, writerVars
<1>2. \A k \in DOMAIN events : Covers(events[k], n)' => TellsNow(events, n)
  BY DEF Reports
<1>3. n \in touched => TellsNow(events, n)
  BY DEF Reports
<1>4. n \notin touched => Untouched(n)
  BY DEF Reports
<1>5. CASE /\ channel' = channel \o events
           /\ LET reported == {m \in Note : \E e \in {events[i] : i \in DOMAIN events} :
                                             Covers(e, m)'}
              IN  /\ exposed' = Exposed(reported, "none")
                  /\ lost' = lost \ reported
  <2> DEFINE reported == {m \in Note : \E e \in {events[i] : i \in DOMAIN events} : Covers(e, m)'}
  <2>1. n \in reported <=> \E k \in DOMAIN events : Covers(events[k], n)'
    OBVIOUS
  <2>2. exposed' = Exposed(reported, "none") /\ lost' = lost \ reported
    BY <1>5
  <2>3. channel' = channel \o events
    BY <1>5
  <2> HIDE DEF reported
  <2>4. CASE n \in reported
    <3>1. n \notin lost'
      BY <2>2, <2>4
    <3>2. PICK k \in DOMAIN events :
                 /\ Covers(events[k], n)'
                 /\ \A j \in DOMAIN events :
                       j >= k /\ Covers(events[j], n)' => Truthful(events[j], n)'
      BY <1>2, <2>1, <2>4 DEF TellsNow
    <3> QED
      BY <1>1, <2>3, <3>1, <3>2, ReportedKeeps
  <2>5. CASE n \notin reported
    <3>1. \A k \in DOMAIN events : ~Covers(events[k], n)'
      BY <2>1, <2>5
    <3>2. Untouched(n)
      BY <1>3, <1>4, <3>1 DEF TellsNow
    <3>3. Unexposed(n)' <=> Unexposed(n)
      BY <2>2, <2>5 DEF Exposed, Unexposed
    <3>4. n \in lost' <=> n \in lost
      BY <2>2, <2>5
    <3>5. \A k \in DOMAIN events : events[k].kind # "Overflow"
      BY DEF Reports
    <3> QED
      BY <1>1, <2>3, <3>1, <3>2, <3>3, <3>4, <3>5, UnaffectedKeeps
  <2> QED
    BY <2>4, <2>5
<1>6. CASE /\ channel' = Append(channel, Overflow)
           /\ exposed' = [m \in Note |-> "none"]
           /\ lost' = lost \cup touched \cup {m \in Note : exposed[m] # "none"}
  <2>1. channel' = channel \o <<Overflow>>
    BY <1>6, AppendIsConcat, EventTypes DEF TypeOK
  <2>2. Unexposed(n)'
    BY <1>6 DEF Unexposed
  <2>3. n \notin lost' => Untouched(n) /\ Reported(n)
    BY <1>4, <1>6 DEF Reported, Unexposed
  <2> QED
    BY <1>1, <2>1, <2>2, <2>3, OverflowKeeps
<1>7. ASSUME NEW more \in Seq(Event), channel' = channel \o more, lost' = lost,
             \A k \in DOMAIN more : ~Covers(more[k], n)' /\ more[k].kind # "Overflow",
             NEW cause, cause # "none", exposed' = Exposed(touched, cause)
      PROVE  NoteInv(n)'
  <2>1. CASE n \in touched
    <3>1. ~Unexposed(n)'
      BY <1>7, <2>1 DEF Unexposed, Exposed
    <3> QED
      BY <1>1, <3>1, ExposedKeeps
  <2>2. CASE n \notin touched
    <3>1. Unexposed(n)' <=> Unexposed(n)
      BY <1>7, <2>2 DEF Unexposed, Exposed
    <3> QED
      BY <1>1, <1>4, <1>7, <2>2, <3>1, UnaffectedKeeps
  <2> QED
    BY <2>1, <2>2
<1>8. CASE /\ channel' = Append(channel, Error)
           /\ exposed' = Exposed(touched, "error")
           /\ lost' = lost
  <2>1. Error \in Event
    BY EventTypes
  <2>2. PICK more : more = <<Error>>
    OBVIOUS
  <2>3. /\ more \in Seq(Event) /\ DOMAIN more = {1} /\ more[1] = Error
        /\ channel' = channel \o more
    BY <1>8, <2>1, <2>2, AppendIsConcat DEF TypeOK
  <2>4. ~Covers(Error, n)' /\ Error.kind # "Overflow"
    BY DEF Error, EventOn, Covers, NoteUpserts, NoteDeletes, TreeUpserts, TreeDeletes,
       Modified, Gone, Came, Below
  <2>5. \A k \in DOMAIN more : ~Covers(more[k], n)' /\ more[k].kind # "Overflow"
    BY <2>3, <2>4
  <2> QED
    BY <1>7, <1>8, <2>3, <2>5
<1>9. CASE channel' = channel /\ exposed' = Exposed(touched, "unwatched") /\ lost' = lost
  <2>1. PICK more : more = << >>
    OBVIOUS
  <2>2. more \in Seq(Event) /\ DOMAIN more = {} /\ channel' = channel \o more
    BY <1>9, <2>1, ConcatEmptySeq DEF TypeOK
  <2> QED
    BY <1>7, <1>9, <2>2
<1> QED
  BY <1>5, <1>6, <1>8, <1>9 DEF Change

-----------------------------------------------------------------------------
(* ... as each change of the vault does.                                    *)

(* An event that names one path. *)
LEMMA SoundEventOn ==
    ASSUME NEW p \in Path, NEW kind \in Kind \ {"RenameUnpaired"}
    PROVE  /\ EventOn(kind, p) \in Event /\ SoundEvent(EventOn(kind, p))
           /\ EventOn(kind, p).kind = kind
           /\ EventOn(kind, p).path = p /\ EventOn(kind, p).to = p
  BY DEF EventOn, Event, SoundEvent

(* The coverage of an event on the changed disk. *)
LEMMA CoversNext ==
    ASSUME TypeOK', NEW e, SoundEvent(e), NEW n \in Note
    PROVE  /\ CoverageOf(e, n)'
           /\ Covers(e, n)' <=> \/ (n \in NoteUpserts(e))'
                                \/ (n \in NoteDeletes(e))'
                                \/ (n \in Below(TreeUpserts(e)))'
                                \/ (n \in Below(TreeDeletes(e)))'
  BY EventCoverageNext DEF Coverage, Covers, Below, TypeOK, VaultTypeOK

LEMMA ReportsOne ==
    ASSUME NEW e, SoundEvent(e), e.kind # "Overflow", NEW touched,
           \A n \in Note \ touched : Untouched(n),
           \A n \in touched : n \in Note /\ Covers(e, n)',
           \A n \in Note : Covers(e, n)' => Truthful(e, n)'
    PROVE  Reports(<<e>>, touched)
<1>1. PICK events : events = <<e>>
  OBVIOUS
<1>2. DOMAIN events = {1} /\ events[1] = e
  BY <1>1
<1>3. \A n \in Note : Covers(e, n)' => TellsNow(events, n)
  BY <1>2 DEF TellsNow
<1> QED
  BY <1>1, <1>2, <1>3 DEF Reports

LEMMA WriteNoteReports ==
    ASSUME TypeOK, TypeOK', WellFormed(disk', dirs'),
           NEW n \in Note, NEW c \in Version \cup {Malformed}, WriteNote(n, c),
           NEW e, e = EventOn(IF disk[n] = Absent THEN "Appear" ELSE "Modify", n)
    PROVE  e \in Event /\ Reports(<<e>>, {n})
<1>1. /\ e \in Event /\ SoundEvent(e) /\ e.kind \in {"Appear", "Modify"}
      /\ e.path = n /\ e.to = n
  BY SoundEventOn DEF Kind, Path
<1>2. /\ disk' = [disk EXCEPT ![n] = c] /\ dirs' = dirs
      /\ disk \in [Note -> Content] /\ c # Absent
  BY ContentAssumption DEF WriteNote, TypeOK, VaultTypeOK
<1>3. disk'[n] # Absent /\ n \notin dirs'
  BY <1>2 DEF WellFormed
<1>4. \A m \in Note \ {n} : Untouched(m)
  BY <1>2 DEF Untouched
<1>5. \A m \in Note : Covers(e, m)' <=> m = n
  BY <1>1, <1>3, CoversNext DEF CoverageOf
<1>6. Truthful(e, n)'
  BY <1>1, <1>3, CoversNext DEF CoverageOf, Truthful
<1> QED
  BY <1>1, <1>4, <1>5, <1>6, ReportsOne

LEMMA RemoveNoteReports ==
    ASSUME TypeOK, TypeOK', Bookkeeping, NEW n \in Note, RemoveNote(n),
           NEW kind \in RemovalKinds, NEW e, e = EventOn(kind, n)
    PROVE  e \in Event /\ Reports(<<e>>, {n})
<1>1. /\ e \in Event /\ SoundEvent(e) /\ e.path = n /\ e.to = n
      /\ e.kind \in {"Vanish", "Appear"} /\ (e.kind = "Appear" => ReadDecides /\ n \notin Dir)
  BY SoundEventOn, RenameAssumption DEF RemovalKinds, ReadDecides, Kind, Path
<1>2. /\ disk' = [disk EXCEPT ![n] = Absent] /\ dirs' = dirs
      /\ disk \in [Note -> Content] /\ disk[n] # Absent
      /\ WellFormed(disk, dirs)
  BY DEF RemoveNote, TypeOK, VaultTypeOK, Bookkeeping
<1>3. \A m \in Note \ {n} : Untouched(m)
  BY <1>2 DEF Untouched
<1>4. ASSUME NEW m \in Note
      PROVE  /\ m = n => Covers(e, m)'
             /\ Covers(e, m)' => disk'[m] = Absent /\ ((m \notin NoteUpserts(e))' \/ ReadDecides)
  <2>1. n \in Dir => n \notin dirs
    BY <1>2 DEF WellFormed
  <2>2. n \in Dir /\ m \in Inside[n] => disk[m] = Absent
    BY <1>2, <2>1 DEF WellFormed
  <2> QED
    BY <1>1, <1>2, <2>2, CoversNext, SMTT(40) DEF CoverageOf, TypeOK, VaultTypeOK
<1>5. \A m \in Note : Covers(e, m)' => Truthful(e, m)'
  BY <1>4 DEF Truthful, ReadDecides
<1> QED
  BY <1>1, <1>3, <1>4, <1>5, ReportsOne

LEMMA TreeAppearsReports ==
    ASSUME TypeOK, TypeOK', NEW d \in Dir, NEW D \in SUBSET (Inside[d] \cap Dir),
           NEW f \in [Below({d}) -> Content], TreeAppears(d, D, f),
           NEW e, e = EventOn("Appear", d)
    PROVE  e \in Event /\ Reports(<<e>>, Below({d}))
<1>1. e \in Event /\ SoundEvent(e) /\ e.kind = "Appear" /\ e.path = d /\ e.to = d
  BY SoundEventOn DEF Kind, Path
<1>2. /\ dirs' = dirs \cup {d} \cup D
      /\ \A m \in Note : m \notin Inside[d] => disk'[m] = disk[m]
      /\ \A m \in Note : m \in Below({d}) <=> m \in Inside[d]
  BY DEF TreeAppears, WithTree, Below
<1>3. ASSUME NEW m \in Note \ Below({d})
      PROVE  Untouched(m)
  <2>1. \A g \in {d} \cup D : m \notin Inside[g]
    BY <1>2, TreeAssumption
  <2> QED
    BY <1>2, <2>1 DEF Untouched
<1>4. \A m \in Note : Covers(e, m)' <=> m \in Inside[d]
  BY <1>1, <1>2, CoversNext DEF CoverageOf
<1>5. \A m \in Note : Covers(e, m)' => Truthful(e, m)'
  BY <1>1, <1>2, CoversNext DEF CoverageOf, Truthful
<1>6. \A m \in Below({d}) : m \in Note
  BY DEF Below
<1> QED
  BY <1>1, <1>2, <1>3, <1>4, <1>5, <1>6, ReportsOne

LEMMA TreeVanishesReports ==
    ASSUME TypeOK, TypeOK', Bookkeeping, NEW d \in Dir, TreeVanishes(d),
           NEW e, e = EventOn("Vanish", d)
    PROVE  e \in Event /\ Reports(<<e>>, Note \cap ({d} \cup Inside[d]))
<1>1. e \in Event /\ SoundEvent(e) /\ e.kind = "Vanish" /\ e.path = d /\ e.to = d
  BY SoundEventOn DEF Kind, Path
<1>2. /\ dirs' = dirs \ ({d} \cup Inside[d])
      /\ \A m \in Note : disk'[m] = IF m \in Inside[d] THEN Absent ELSE disk[m]
      /\ d \in dirs /\ WellFormed(disk, dirs)
  BY DEF TreeVanishes, WithTree, Below, NoRecords, Bookkeeping
<1>3. ASSUME NEW m \in Note, m # d, m \notin Inside[d]
      PROVE  Untouched(m)
  <2>1. \A g \in Dir \cap ({d} \cup Inside[d]) : m \notin Inside[g]
    BY <1>3, TreeAssumption
  <2> QED
    BY <1>2, <1>3, <2>1 DEF Untouched
<1>4. \A m \in Note : Covers(e, m)' <=> m = d \/ m \in Inside[d]
  BY <1>1, CoversNext DEF CoverageOf
<1>5. \A m \in Note : m = d \/ m \in Inside[d] => disk'[m] = Absent
  BY <1>2 DEF WellFormed
<1>6. \A m \in Note : Covers(e, m)' => Truthful(e, m)'
  BY <1>1, <1>4, <1>5, CoversNext DEF CoverageOf, Truthful
<1> QED
  BY <1>1, <1>3, <1>4, <1>6, ReportsOne

(* A rename: inotify ends with the pair, FSEvents names each side. *)
RenameEvent(p, q) == [kind |-> "Rename", path |-> p, to |-> q]

LEMMA ReportsRename ==
    ASSUME TypeOK', NEW p \in Path, NEW q \in Path, NEW touched \in SUBSET Note,
           \A n \in Note \ touched : Untouched(n),
           PairsRenames =>
             /\ \A n \in touched : Covers(RenameEvent(p, q), n)'
             /\ \A n \in Note : Covers(RenameEvent(p, q), n)' => Truthful(RenameEvent(p, q), n)',
           ~PairsRenames =>
             /\ \A n \in touched : \/ Covers(EventOn("RenameUnpaired", p), n)'
                                  \/ Covers(EventOn("RenameUnpaired", q), n)'
             /\ \A r \in {p, q}, n \in Note :
                  Covers(EventOn("RenameUnpaired", r), n)'
                    => Truthful(EventOn("RenameUnpaired", r), n)'
    PROVE  Reports(RenameEvents(p, q), touched)
<1>1. CASE PairsRenames
  <2> DEFINE v == EventOn("Vanish", p)
             a == EventOn("Appear", q)
             r == RenameEvent(p, q)
  <2>1. PICK events : events = RenameEvents(p, q)
    OBVIOUS
  <2>2. DOMAIN events = 1..3 /\ events[1] = v /\ events[2] = a /\ events[3] = r
    BY <1>1, <2>1 DEF RenameEvents, RenameEvent
  <2>3. /\ SoundEvent(v) /\ v.kind = "Vanish" /\ v.path = p
        /\ SoundEvent(a) /\ a.kind = "Appear" /\ a.to = q
        /\ SoundEvent(r) /\ r.kind = "Rename" /\ r.path = p /\ r.to = q
    BY SoundEventOn DEF Kind, RenameEvent, SoundEvent, Event
  <2> HIDE DEF v, a, r
  <2>4. \A n \in Note : Covers(v, n)' \/ Covers(a, n)' => Covers(r, n)'
    <3> TAKE n \in Note
    <3>1. Covers(v, n)' => Covers(r, n)'
      BY <2>3, CoversNext DEF CoverageOf
    <3>2. Covers(a, n)' => Covers(r, n)'
      BY <2>3, CoversNext DEF CoverageOf
    <3> QED
      BY <3>1, <3>2
  <2>5. \A n \in touched : Covers(r, n)'
    BY <1>1 DEF r
  <2>6. \A n \in Note : Covers(r, n)' => Truthful(r, n)'
    BY <1>1 DEF r
  <2>7. \A n \in Note : Covers(r, n)' => TellsNow(events, n)
    BY <2>2, <2>6 DEF TellsNow
  <2>8. \A k \in DOMAIN events : SoundEvent(events[k]) /\ events[k].kind # "Overflow"
    BY <2>2, <2>3
  <2>9. \A n \in Note, k \in DOMAIN events : Covers(events[k], n)' => TellsNow(events, n)
    BY <2>2, <2>4, <2>7
  <2>10. Reports(events, touched)
    BY <2>5, <2>7, <2>8, <2>9 DEF Reports
  <2> QED
    BY <2>1, <2>10
<1>2. CASE ~PairsRenames
  <2> DEFINE u == EventOn("RenameUnpaired", p)
             w == EventOn("RenameUnpaired", q)
  <2>1. PICK events : events = RenameEvents(p, q)
    OBVIOUS
  <2>2. DOMAIN events = 1..2 /\ events[1] = u /\ events[2] = w
    BY <1>2, <2>1 DEF RenameEvents
  <2>3. SoundEvent(u) /\ SoundEvent(w) /\ u.kind # "Overflow" /\ w.kind # "Overflow"
    BY <1>2 DEF Kind, EventOn, SoundEvent, Event
  <2>4. \A n \in touched : Covers(u, n)' \/ Covers(w, n)'
    BY <1>2
  <2>5. \A n \in Note : /\ Covers(u, n)' => Truthful(u, n)'
                        /\ Covers(w, n)' => Truthful(w, n)'
    BY <1>2
  <2> HIDE DEF u, w
  <2>6. \A n \in Note : Covers(w, n)' => TellsNow(events, n)
    BY <2>2, <2>5 DEF TellsNow
  <2>7. \A n \in Note : Covers(u, n)' /\ ~Covers(w, n)' => TellsNow(events, n)
    BY <2>2, <2>5 DEF TellsNow
  <2>8. \A k \in DOMAIN events : SoundEvent(events[k]) /\ events[k].kind # "Overflow"
    BY <2>2, <2>3
  <2>9. \A n \in Note, k \in DOMAIN events : Covers(events[k], n)' => TellsNow(events, n)
    BY <2>2, <2>6, <2>7
  <2>10. Reports(events, touched)
    BY <2>4, <2>6, <2>7, <2>8, <2>9 DEF Reports
  <2> QED
    BY <2>1, <2>10
<1> QED
  BY <1>1, <1>2

(* The events of a rename, as records. *)
LEMMA RenameSound ==
    ASSUME NEW p \in Path, NEW q \in Path
    PROVE  /\ SoundEvent(RenameEvent(p, q)) /\ RenameEvent(p, q).kind = "Rename"
           /\ RenameEvent(p, q).path = p /\ RenameEvent(p, q).to = q
           /\ ~PairsRenames => SoundEvent(EventOn("RenameUnpaired", p))
           /\ EventOn("RenameUnpaired", p).kind = "RenameUnpaired"
           /\ EventOn("RenameUnpaired", p).path = p
  BY DEF RenameEvent, EventOn, SoundEvent, Event, Kind

LEMMA RenameNoteReports ==
    ASSUME TypeOK, TypeOK', Bookkeeping, WellFormed(disk', dirs'),
           NEW m \in Note, NEW n \in Note, RenameNote(m, n)
    PROVE  Reports(RenameEvents(m, n), {m, n})
<1>1. /\ disk' = [disk EXCEPT ![m] = Absent, ![n] = disk[m]] /\ dirs' = dirs
      /\ disk \in [Note -> Content] /\ disk[m] # Absent /\ m # n
      /\ WellFormed(disk, dirs)
  BY DEF RenameNote, TypeOK, VaultTypeOK, Bookkeeping
<1>2. /\ disk'[m] = Absent /\ disk'[n] # Absent
      /\ \A k \in Note : k # m /\ k # n => disk'[k] = disk[k]
  BY <1>1
<1>3. /\ m \notin dirs /\ m \notin dirs' /\ n \notin dirs'
      /\ m \in Dir => \A k \in Note : k \in Inside[m] => disk'[k] = Absent
  BY <1>1, <1>2 DEF WellFormed
<1>4. m \in Path /\ n \in Path
  BY DEF Path
<1>5. \A k \in Note \ {m, n} : Untouched(k)
  BY <1>1, <1>2 DEF Untouched
<1>6. ASSUME PairsRenames
      PROVE  /\ \A k \in {m, n} : Covers(RenameEvent(m, n), k)'
             /\ \A k \in Note : Covers(RenameEvent(m, n), k)' => Truthful(RenameEvent(m, n), k)'
  <2> DEFINE r == RenameEvent(m, n)
  <2>1. SoundEvent(r) /\ r.kind = "Rename" /\ r.path = m /\ r.to = n
    BY <1>4, RenameSound
  <2> HIDE DEF r
  <2>2. \A k \in {m, n} : Covers(r, k)'
    BY <1>3, <2>1, CoversNext DEF CoverageOf
  <2>3. ASSUME NEW k \in Note
        PROVE  Truthful(r, k)'
    <3>1. (k \in NoteUpserts(r))' <=> k = n
      BY <1>3, <2>1, CoversNext DEF CoverageOf
    <3>2. (k \in NoteDeletes(r))' <=> k = m
      BY <2>1, CoversNext DEF CoverageOf
    <3>3. (k \in Below(TreeDeletes(r)))' <=> m \in Dir /\ k \in Inside[m]
      BY <2>1, CoversNext DEF CoverageOf
    <3> QED
      BY <1>2, <1>3, <3>1, <3>2, <3>3 DEF Truthful
  <2> QED
    BY <2>2, <2>3 DEF r
<1>7. ASSUME ~PairsRenames
      PROVE  /\ \A k \in {m, n} : \/ Covers(EventOn("RenameUnpaired", m), k)'
                                  \/ Covers(EventOn("RenameUnpaired", n), k)'
             /\ \A p \in {m, n}, k \in Note :
                  Covers(EventOn("RenameUnpaired", p), k)'
                    => Truthful(EventOn("RenameUnpaired", p), k)'
  <2>1. m \notin Dir /\ n \notin Dir
    BY <1>7, RenameAssumption
  <2>2. ASSUME NEW p \in {m, n}, NEW k \in Note, NEW u, u = EventOn("RenameUnpaired", p)
        PROVE  /\ k = p => Covers(u, k)'
               /\ Truthful(u, k)'
    <3>1. SoundEvent(u) /\ u.kind = "RenameUnpaired" /\ u.path = p /\ p \in Note
      BY <1>4, <1>7, <2>2, RenameSound
    <3>2. /\ (k \in NoteUpserts(u))' <=> p = k /\ disk'[k] # Absent
          /\ (k \in NoteDeletes(u))' <=> p = k /\ disk'[k] = Absent
      BY <3>1, CoversNext DEF CoverageOf
    <3>3. (k \notin Below(TreeDeletes(u)))'
      BY <2>1, <3>1, CoversNext DEF CoverageOf
    <3> QED
      BY <3>1, <3>2, <3>3, CoversNext DEF Truthful
  <2> QED
    BY <2>2
<1> QED
  BY <1>4, <1>5, <1>6, <1>7, ReportsRename

LEMMA RenameTreeReports ==
    ASSUME TypeOK, TypeOK', Bookkeeping, WellFormed(disk', dirs'),
           NEW d \in Dir, NEW e \in Dir, NEW D \in SUBSET (Inside[e] \cap Dir),
           NEW f \in [Below({e}) -> Content], RenameTree(d, e, D, f)
    PROVE  Reports(RenameEvents(d, e), (Note \cap ({d} \cup Inside[d])) \cup Below({e}))
<1> DEFINE touched == (Note \cap ({d} \cup Inside[d])) \cup Below({e})
<1>1. /\ d \in dirs /\ e \notin dirs /\ d # e
      /\ Inside[d] \cap Inside[e] = {} /\ d \notin Inside[d] /\ d \notin Inside[e]
      /\ dirs' = (dirs \ ({d} \cup Inside[d])) \cup {e} \cup D
      /\ WellFormed(disk, dirs)
  BY TreeAssumption DEF RenameTree, Bookkeeping
<1>2. \A k \in Note : k \in touched <=> k = d \/ k \in Inside[d] \/ k \in Inside[e]
  BY DEF Below
<1>3. /\ \A k \in Note : k \in Inside[d] => disk'[k] = Absent
      /\ \A k \in Note : k \notin Inside[d] /\ k \notin Inside[e] => disk'[k] = disk[k]
  BY DEF RenameTree, WithTree, Below
<1>4. d \in Note => disk'[d] = Absent
  BY <1>1, <1>3 DEF WellFormed
<1>5. e \in dirs' /\ d \notin dirs'
  BY <1>1
<1>6. d \in Path /\ e \in Path /\ touched \in SUBSET Note
  BY DEF Path, Below
<1>7. ASSUME NEW k \in Note, k \notin touched
      PROVE  Untouched(k)
  <2>1. k # d /\ k \notin Inside[d] /\ k \notin Inside[e]
    BY <1>2, <1>7
  <2>2. \A g \in Dir \cap ({d, e} \cup Inside[d] \cup D) : k \notin Inside[g]
    BY <2>1, TreeAssumption
  <2> QED
    BY <1>1, <1>3, <2>1, <2>2 DEF Untouched
<1> HIDE DEF touched
<1>8. ASSUME PairsRenames
      PROVE  /\ \A k \in touched : Covers(RenameEvent(d, e), k)'
             /\ \A k \in Note : Covers(RenameEvent(d, e), k)' => Truthful(RenameEvent(d, e), k)'
  <2> DEFINE r == RenameEvent(d, e)
  <2>1. SoundEvent(r) /\ r.kind = "Rename" /\ r.path = d /\ r.to = e
    BY <1>6, RenameSound
  <2> HIDE DEF r
  <2>2. ASSUME NEW k \in Note
        PROVE  /\ (k \notin NoteUpserts(r))'
               /\ (k \in NoteDeletes(r))' <=> k = d
               /\ (k \in Below(TreeUpserts(r)))' <=> k \in Inside[e]
               /\ (k \in Below(TreeDeletes(r)))' <=> k \in Inside[d]
    <3>1. (k \notin NoteUpserts(r))'
      BY <1>5, <2>1, CoversNext DEF CoverageOf
    <3>2. (k \in NoteDeletes(r))' <=> k = d
      BY <2>1, CoversNext DEF CoverageOf
    <3>3. (k \in Below(TreeUpserts(r)))' <=> k \in Inside[e]
      BY <1>5, <2>1, CoversNext DEF CoverageOf
    <3>4. (k \in Below(TreeDeletes(r)))' <=> k \in Inside[d]
      BY <2>1, CoversNext DEF CoverageOf
    <3> QED
      BY <3>1, <3>2, <3>3, <3>4
  <2>3. \A k \in touched : Covers(r, k)'
    BY <1>2, <1>6, <2>1, <2>2, CoversNext
  <2>4. \A k \in Note : Truthful(r, k)'
    BY <1>3, <1>4, <2>2 DEF Truthful
  <2> QED
    BY <2>3, <2>4 DEF r
<1>9. ASSUME ~PairsRenames
      PROVE  /\ \A k \in touched : \/ Covers(EventOn("RenameUnpaired", d), k)'
                                   \/ Covers(EventOn("RenameUnpaired", e), k)'
             /\ \A p \in {d, e}, k \in Note :
                  Covers(EventOn("RenameUnpaired", p), k)'
                    => Truthful(EventOn("RenameUnpaired", p), k)'
  <2>1. d \notin Note /\ e \notin Note
    BY <1>9, RenameAssumption
  <2>2. ASSUME NEW p \in {d, e}, NEW k \in Note, NEW u, u = EventOn("RenameUnpaired", p)
        PROVE  /\ k \in Inside[p] => Covers(u, k)'
               /\ Truthful(u, k)'
    <3>1. SoundEvent(u) /\ u.kind = "RenameUnpaired" /\ u.path = p /\ p \in Dir /\ p # k
      BY <1>6, <1>9, <2>1, <2>2, RenameSound
    <3>2. (k \notin NoteUpserts(u))' /\ (k \notin NoteDeletes(u))'
      BY <3>1, CoversNext DEF CoverageOf
    <3>3. (k \in Below(TreeUpserts(u)))' <=> p = e /\ k \in Inside[e]
      BY <1>5, <2>2, <3>1, CoversNext DEF CoverageOf
    <3>4. (k \in Below(TreeDeletes(u)))' <=> p = d /\ k \in Inside[d]
      BY <1>1, <1>5, <2>2, <3>1, CoversNext DEF CoverageOf
    <3>5. k \in Inside[p] => Covers(u, k)'
      BY <2>2, <3>1, <3>3, <3>4, CoversNext
    <3>6. Truthful(u, k)'
      BY <1>3, <3>2, <3>4 DEF Truthful
    <3> QED
      BY <3>5, <3>6
  <2>3. \A k \in touched : k \in Inside[d] \/ k \in Inside[e]
    BY <1>2, <1>6, <2>1
  <2> QED
    BY <1>6, <2>2, <2>3
<1>10. Reports(RenameEvents(d, e), touched)
  BY <1>6, <1>7, <1>8, <1>9, ReportsRename
<1> QED
  BY <1>10 DEF touched

-----------------------------------------------------------------------------
(* The vault changes keep the invariant of every note.                      *)

(* An event of the change can be queued. *)
LEMMA RenameEventsTypes ==
    ASSUME NEW p \in Path, NEW q \in Path
    PROVE  RenameEvents(p, q) \in Seq(Event)
  BY EventTypes

LEMMA VaultChangeReports ==
    ASSUME TypeOK, TypeOK', Bookkeeping, VaultChange
    PROVE  \E events \in Seq(Event), touched \in SUBSET Note :
              Change(events, touched) /\ Reports(events, touched)
<1> DEFINE Goal == \E events \in Seq(Event), touched \in SUBSET Note :
                      Change(events, touched) /\ Reports(events, touched)
<1>1. Note \subseteq Path /\ Dir \subseteq Path
  BY DEF Path
<1>2. ASSUME NEW m \in Note, NEW c \in Version \cup {Malformed}, WriteNote(m, c)
      PROVE  Goal
  <2>1. PICK e : e = EventOn(IF disk[m] = Absent THEN "Appear" ELSE "Modify", m)
    OBVIOUS
  <2>2. Change(<<e>>, {m}) /\ WellFormed(disk', dirs')
    BY <1>2, <2>1 DEF WriteNote, Change
  <2>3. e \in Event /\ Reports(<<e>>, {m})
    BY <1>2, <2>1, <2>2, WriteNoteReports
  <2>4. PICK events, touched : events = <<e>> /\ touched = {m}
    OBVIOUS
  <2>5. events \in Seq(Event) /\ touched \in SUBSET Note
    BY <2>3, <2>4
  <2> QED
    BY <2>2, <2>3, <2>4, <2>5
<1>3. ASSUME NEW m \in Note, RemoveNote(m)
      PROVE  Goal
  <2>1. PICK kind \in RemovalKinds : Change(<<EventOn(kind, m)>>, {m})
    BY <1>3 DEF RemoveNote
  <2> DEFINE e == EventOn(kind, m)
  <2>2. Change(<<e>>, {m}) /\ e \in Event /\ Reports(<<e>>, {m})
    BY <1>3, <2>1, RemoveNoteReports
  <2>3. PICK events, touched : events = <<e>> /\ touched = {m}
    OBVIOUS
  <2>4. events \in Seq(Event) /\ touched \in SUBSET Note
    BY <2>2, <2>3
  <2> QED
    BY <2>2, <2>3, <2>4
<1>4. ASSUME NEW m \in Note, NEW k \in Note, RenameNote(m, k)
      PROVE  Goal
  <2>1. Change(RenameEvents(m, k), {m, k}) /\ WellFormed(disk', dirs')
    BY <1>4 DEF RenameNote, Change
  <2>2. PICK events, touched : events = RenameEvents(m, k) /\ touched = {m, k}
    OBVIOUS
  <2>3. events \in Seq(Event) /\ touched \in SUBSET Note
    BY <1>1, <2>2, RenameEventsTypes
  <2>4. Reports(events, touched)
    BY <1>4, <2>1, <2>2, RenameNoteReports
  <2> QED
    BY <2>1, <2>2, <2>3, <2>4
<1>5. ASSUME NEW d \in Dir, NEW D \in SUBSET (Inside[d] \cap Dir),
             NEW f \in [Below({d}) -> Content], TreeAppears(d, D, f)
      PROVE  Goal
  <2>1. PICK e : e = EventOn("Appear", d)
    OBVIOUS
  <2>2. Change(<<e>>, Below({d})) /\ e \in Event /\ Reports(<<e>>, Below({d}))
    BY <1>5, <2>1, TreeAppearsReports DEF TreeAppears
  <2>3. PICK events, touched : events = <<e>> /\ touched = Below({d})
    OBVIOUS
  <2>4. events \in Seq(Event) /\ touched \in SUBSET Note
    BY <2>2, <2>3 DEF Below
  <2> QED
    BY <2>2, <2>3, <2>4
<1>6. ASSUME NEW d \in Dir, TreeVanishes(d)
      PROVE  Goal
  <2>1. PICK e : e = EventOn("Vanish", d)
    OBVIOUS
  <2>2. PICK events, touched : events = <<e>> /\ touched = Note \cap ({d} \cup Inside[d])
    OBVIOUS
  <2>3. Change(events, touched) /\ e \in Event /\ Reports(events, touched)
    BY <1>6, <2>1, <2>2, TreeVanishesReports DEF TreeVanishes
  <2>4. events \in Seq(Event) /\ touched \in SUBSET Note
    BY <2>2, <2>3
  <2> QED
    BY <2>3, <2>4
<1>7. ASSUME NEW d \in Dir, NEW e \in Dir, NEW D \in SUBSET (Inside[e] \cap Dir),
             NEW f \in [Below({e}) -> Content], RenameTree(d, e, D, f)
      PROVE  Goal
  <2>1. PICK events, touched :
              /\ events = RenameEvents(d, e)
              /\ touched = (Note \cap ({d} \cup Inside[d])) \cup Below({e})
    OBVIOUS
  <2>2. Change(events, touched) /\ WellFormed(disk', dirs')
    BY <1>7, <2>1 DEF RenameTree, Change
  <2>3. Reports(events, touched)
    BY <1>7, <2>1, <2>2, RenameTreeReports
  <2>4. events \in Seq(Event) /\ touched \in SUBSET Note
    BY <1>1, <2>1, RenameEventsTypes DEF Below
  <2> QED
    BY <2>2, <2>3, <2>4
<1> QED
  BY <1>2, <1>3, <1>4, <1>5, <1>6, <1>7 DEF VaultChange

LEMMA VaultChangeKeeps ==
    ASSUME TypeOK, TypeOK', Bookkeeping, NEW n \in Note, NoteInv(n), VaultChange
    PROVE  NoteInv(n)'
  BY VaultChangeReports, ChangeKeeps

LEMMA VaultChangeBookkeeping ==
    ASSUME TypeOK, TypeOK', Bookkeeping, VaultChange
    PROVE  Bookkeeping'
<1>1. PICK events \in Seq(Event), touched \in SUBSET Note :
            Change(events, touched) /\ Reports(events, touched)
  BY VaultChangeReports
<1>2. /\ ChangeFrame /\ WellFormed(disk', dirs')
      /\ UNCHANGED <<taken, cleared, writerUp>>
  BY <1>1 DEF Change, ChangeFrame, scannerVars, writerVars
<1>3. ASSUME NEW more \in Seq(Event), channel' = channel \o more,
             \A k \in DOMAIN more : SoundEvent(more[k])
      PROVE  \A i \in DOMAIN channel' : SoundEvent(channel'[i])
  <2> TAKE i \in DOMAIN channel'
  <2>1. CASE i \in DOMAIN channel
    BY <1>3, <2>1, ChannelGrows, ChannelSound
  <2>2. CASE i \notin DOMAIN channel
    BY <1>3, <2>2, ChannelGrows
  <2> QED
    BY <2>1, <2>2
<1>4. ASSUME NEW e, e \in {Overflow, Error}, channel' = Append(channel, e)
      PROVE  \A i \in DOMAIN channel' : SoundEvent(channel'[i])
  <2>1. e \in Event /\ SoundEvent(e)
    BY <1>4, EventTypes DEF Overflow, Error, EventOn, SoundEvent
  <2>2. PICK more : more = <<e>>
    OBVIOUS
  <2>3. /\ more \in Seq(Event) /\ channel' = channel \o more
        /\ \A k \in DOMAIN more : SoundEvent(more[k])
    BY <1>4, <2>1, <2>2, AppendIsConcat DEF TypeOK
  <2> QED
    BY <1>3, <2>3
<1>5. \A i \in DOMAIN channel' : SoundEvent(channel'[i])
  <2>1. CASE channel' = channel
    BY <2>1, ChannelSound
  <2>2. CASE channel' = channel \o events
    BY <1>1, <1>3, <2>2 DEF Reports
  <2> QED
    BY <1>1, <1>4, <2>1, <2>2 DEF Change
<1> QED
  BY <1>2, <1>5 DEF Bookkeeping, ChangeFrame, SoundEvent, Walking

-----------------------------------------------------------------------------

(* The bookkeeping, action by action.                                       *)

LEMMA ShorterChannelSound ==
    ASSUME TypeOK, Bookkeeping, MapEvent \/ WatcherCrash
    PROVE  \A i \in DOMAIN channel' : SoundEvent(channel'[i])
<1>1. CASE MapEvent
  <2> TAKE i \in DOMAIN channel'
  <2>1. i + 1 \in DOMAIN channel /\ channel'[i] = channel[i + 1]
    BY <1>1, ChannelHead
  <2> QED
    BY <2>1, ChannelSound
<1>2. CASE WatcherCrash
  <2> DEFINE k == IF phase = "map" THEN taken ELSE 0
  <2>1. channel \in Seq(Event) /\ channel' = SubSeq(channel, 1, k)
    BY <1>2 DEF WatcherCrash, TypeOK
  <2>2. Len(channel) \in Nat /\ DOMAIN channel = 1..Len(channel) /\ k \in 0..Len(channel)
    BY <2>1, LenProperties DEF TypeOK
  <2> HIDE DEF k
  <2>3. \A i \in 1..k : channel[i] \in Event /\ i \in DOMAIN channel
    BY <2>1, <2>2, ElementOfSeq
  <2>4. /\ channel' \in Seq(Event) /\ Len(channel') = k
        /\ \A i \in 1..k : channel'[i] = channel[i]
    BY <2>1, <2>2, <2>3, SubSeqProperties
  <2>5. DOMAIN channel' = 1..k
    BY <2>4, LenProperties
  <2> QED
    BY <2>3, <2>4, <2>5, ChannelSound
<1> QED
  BY <1>1, <1>2

LEMMA DebouncerBookkeeping ==
    ASSUME TypeOK, Bookkeeping, Debouncer
    PROVE  Bookkeeping'
<1>1. UNCHANGED <<disk, dirs, scanner, walkTodo, cleared, writerUp>>
  BY DEF Debouncer, Receive, CloseWindow, MapEvent, EndMap, CastBatch, ReadNote, vaultVars,
     scannerVars, writerVars
<1>2. CASE Receive
  <2>1. UNCHANGED <<channel, phase, noteAction, treeAction, overflow, todo, batch, mailbox>>
    BY <1>2 DEF Receive, writerVars
  <2>2. phase = "collect"
    BY <1>2 DEF Receive
  <2> QED
    BY <1>1, <2>1, <2>2 DEF Bookkeeping, Walking
<1>3. CASE CloseWindow
  <2>1. UNCHANGED <<channel, taken, noteAction, treeAction, overflow, todo, batch, mailbox>>
    BY <1>3 DEF CloseWindow, writerVars
  <2>2. phase = "collect" /\ phase' = "map"
    BY <1>3 DEF CloseWindow
  <2> QED
    BY <1>1, <2>1, <2>2 DEF Bookkeeping, Walking
<1>4. CASE MapEvent
  <2>1. \A i \in DOMAIN channel' : SoundEvent(channel'[i])
    BY <1>4, ShorterChannelSound
  <2>2. UNCHANGED <<phase, todo, batch, mailbox>> /\ phase = "map"
    BY <1>4 DEF MapEvent, writerVars
  <2> QED
    BY <1>1, <2>1, <2>2 DEF Bookkeeping, Walking, SoundEvent
<1>5. CASE EndMap
  <2>1. UNCHANGED <<channel, taken, noteAction, treeAction, mailbox>>
    BY <1>5 DEF EndMap, writerVars
  <2>2. taken = 0 /\ phase = "map" /\ overflow' = FALSE /\ todo = {} /\ batch = EmptyBatch
    BY <1>5 DEF EndMap, Bookkeeping
  <2>3. \/ phase' = "collect" /\ UNCHANGED <<todo, batch>>
           /\ noteAction = NoNoteAction /\ treeAction = NoTreeAction
        \/ phase' = "build"
    BY <1>5 DEF EndMap
  <2>4. UNCHANGED EmptyBatch
    BY DEF EmptyBatch
  <2> QED
    BY <1>1, <2>1, <2>2, <2>3, <2>4 DEF Bookkeeping, Walking
<1>6. CASE CastBatch
  <2>1. /\ UNCHANGED <<channel, taken, overflow, todo>>
        /\ phase' = "collect" /\ todo = {} /\ phase = "build"
        /\ noteAction' = NoNoteAction /\ treeAction' = NoTreeAction
        /\ batch' = EmptyBatch
    BY <1>6 DEF CastBatch
  <2>2. ~writerUp => mailbox' = mailbox
    BY <1>6 DEF CastBatch, Cast
  <2> QED
    BY <1>1, <2>1, <2>2 DEF Bookkeeping, Walking
<1>7. ASSUME NEW n \in Note, ReadNote(n)
      PROVE  Bookkeeping'
  <2>1. /\ UNCHANGED <<channel, taken, phase, noteAction, treeAction, overflow, mailbox>>
        /\ phase = "build"
    BY <1>7 DEF ReadNote, writerVars
  <2> QED
    BY <1>1, <2>1 DEF Bookkeeping, Walking
<1> QED
  BY <1>2, <1>3, <1>4, <1>5, <1>6, <1>7 DEF Debouncer

(* What the debouncer does not hold. *)
DebouncerFrame == UNCHANGED <<disk, dirs, channel, taken, phase, noteAction, treeAction,
                              overflow, todo, batch>>

LEMMA ScannerBookkeeping ==
    ASSUME TypeOK, Bookkeeping, Scanner \/ ScannerInit \/ ScannerCrash
    PROVE  Bookkeeping'
<1> USE DEF Scanner, RescanNow, WalkNote, EndWalk, CastRebuild, SendWalked, ScannerInit,
            ScannerCrash
<1>1. DebouncerFrame /\ writerUp' = writerUp
  BY DEF DebouncerFrame, vaultVars, debouncerVars, writerVars
<1>2. ~writerUp => mailbox' = mailbox
  BY DEF writerVars, Cast
<1>3. ~Walking' => walkTodo' = {}
  BY DEF Walking
<1>4. cleared' => Walking' /\ walkTodo' = {}
  <2>1. ~Walking => ~cleared
    BY DEF Bookkeeping
  <2>2. CASE RescanNow \/ ScannerInit
    BY <2>1, <2>2 DEF Walking
  <2>3. CASE ScannerCrash \/ CastRebuild
    BY <2>3
  <2>4. CASE EndWalk
    BY <2>4 DEF Walking
  <2>5. ASSUME NEW n \in Note, WalkNote(n)
        PROVE  ~cleared'
    BY <2>5 DEF Bookkeeping
  <2> QED
    BY <2>2, <2>3, <2>4, <2>5
<1> QED
  BY <1>1, <1>2, <1>3, <1>4 DEF Bookkeeping, DebouncerFrame

LEMMA OtherBookkeeping ==
    ASSUME TypeOK, Bookkeeping,
           Writer \/ WatcherInit \/ WriterInit \/ WatcherInitFails \/ WriterCrash
             \/ UNCHANGED vars
    PROVE  Bookkeeping'
<1> USE DEF Writer, RecordIndexUpdate, HandleCast
<1>1. DebouncerFrame /\ UNCHANGED <<scanner, walkTodo, cleared>>
  BY DEF DebouncerFrame, WatcherInit, WriterInit, WatcherInitFails, WriterCrash,
     vars, vaultVars, debouncerVars, scannerVars
<1>2. ~writerUp' => mailbox' = <<>>
  BY DEF Bookkeeping, WatcherInit, WriterInit, WatcherInitFails, WriterCrash,
     vars, writerVars
<1> QED
  BY <1>1, <1>2 DEF Bookkeeping, DebouncerFrame, Walking

LEMMA WatcherCrashBookkeeping ==
    ASSUME TypeOK, Bookkeeping, WatcherCrash
    PROVE  Bookkeeping'
<1>1. UNCHANGED <<disk, dirs, phase, noteAction, treeAction, overflow, todo, batch,
                  scanner, walkTodo, cleared, writerUp, mailbox>>
  BY DEF WatcherCrash, vaultVars, scannerVars, writerVars
<1>2. phase = "build" => taken' = 0
  BY DEF WatcherCrash
<1>3. \A i \in DOMAIN channel' : SoundEvent(channel'[i])
  BY ShorterChannelSound
<1> QED
  BY <1>1, <1>2, <1>3 DEF Bookkeeping, Walking, SoundEvent

-----------------------------------------------------------------------------
(* The inductive invariant.                                                 *)

LEMMA InitIInv == Init => IInv
<1> SUFFICES ASSUME Init PROVE IInv
  OBVIOUS
<1>1. Bookkeeping
  BY DEF Init, VaultInit, Bookkeeping, Walking
<1>2. ASSUME NEW n \in Note
      PROVE  NoteInv(n)
  <2>1. /\ channel = <<>> /\ phase = "collect" /\ lost = {}
        /\ scanner = "init" /\ n \in walkTodo
    BY DEF Init
  <2>2. RescanDue(n) /\ ~Pending(n)
    BY <2>1 DEF RescanDue, Walking, Pending
  <2>3. FlushInv(n)
    BY <2>1 DEF FlushInv, ChannelTruthful, ActionsComplete, BatchMatches, LossBehind
  <2>4. SettledInv(n)
    BY <2>2 DEF SettledInv, NoOldVerdict, WalkMatches, Delivered, Unrefreshed
  <2> QED
    BY <2>3, <2>4 DEF NoteInv
<1> QED
  BY <1>1, <1>2 DEF IInv

LEMMA NextIInv ==
    ASSUME TypeOK, TypeOK', IInv, [Next]_vars
    PROVE  IInv'
<1>1. Bookkeeping /\ \A n \in Note : NoteInv(n)
  BY DEF IInv
<1>2. CASE VaultChange
  BY <1>1, <1>2, VaultChangeKeeps, VaultChangeBookkeeping DEF IInv
<1>3. CASE Debouncer
  <2>1. Bookkeeping'
    BY <1>1, <1>3, DebouncerBookkeeping
  <2>2. ASSUME NEW n \in Note
        PROVE  NoteInv(n)'
    <3>1. CASE Receive
      <4>1. UNCHANGED <<FlushSource, SettledSource>>
        BY <3>1 DEF Receive, FlushSource, SettledSource, vaultVars, scannerVars, writerVars,
           history
      <4> QED
        BY <1>1, <4>1, IdleSteps
    <3>2. CASE CloseWindow
      BY <1>1, <3>2, CloseWindowKeeps
    <3>3. CASE MapEvent
      BY <1>1, <3>3, MapEventKeeps
    <3>4. CASE EndMap
      BY <1>1, <3>4, EndMapKeeps
    <3>5. CASE CastBatch
      BY <1>1, <3>5, CastBatchKeeps
    <3>6. CASE \E m \in Note : ReadNote(m)
      BY <1>1, <3>6, ReadNoteKeeps
    <3> QED
      BY <1>3, <3>1, <3>2, <3>3, <3>4, <3>5, <3>6 DEF Debouncer
  <2> QED
    BY <2>1, <2>2 DEF IInv
<1>4. CASE Scanner \/ ScannerInit \/ ScannerCrash
  <2>1. Bookkeeping'
    BY <1>1, <1>4, ScannerBookkeeping
  <2>2. ASSUME NEW n \in Note
        PROVE  NoteInv(n)'
    <3>1. CASE EndWalk
      <4>1. UNCHANGED <<FlushSource, SettledSource>>
        BY <3>1 DEF EndWalk, FlushSource, SettledSource, vaultVars, debouncerVars, writerVars,
           history
      <4> QED
        BY <1>1, <4>1, IdleSteps
    <3> QED
      BY <1>1, <1>4, <3>1, WalkBegins, WalkNoteKeeps, CastRebuildKeeps DEF Scanner
  <2> QED
    BY <2>1, <2>2 DEF IInv
<1>5. CASE RecordIndexUpdate \/ WatcherInit \/ WriterInit \/ WatcherInitFails \/ UNCHANGED vars
  <2>1. Bookkeeping'
    BY <1>1, <1>5, OtherBookkeeping DEF Writer
  <2>2. UNCHANGED <<FlushSource, SettledSource>>
    BY <1>5 DEF RecordIndexUpdate, WatcherInit, WriterInit, WatcherInitFails, vars, FlushSource, SettledSource,
       vaultVars, debouncerVars, scannerVars, writerVars, history
  <2>3. \A n \in Note : NoteInv(n)'
    BY <1>1, <2>2, IdleSteps
  <2> QED
    BY <2>1, <2>3 DEF IInv
<1>6. CASE HandleCast
  BY <1>1, <1>6, OtherBookkeeping, HandleCastKeeps DEF IInv, Writer
<1>7. CASE WriterCrash
  BY <1>1, <1>7, OtherBookkeeping, WriterCrashKeeps DEF IInv
<1>8. CASE WatcherCrash
  BY <1>1, <1>8, WatcherCrashBookkeeping, WatcherCrashKeeps DEF IInv
<1> QED
  BY <1>2, <1>3, <1>4, <1>5, <1>6, <1>7, <1>8 DEF Next, Writer, Restart, Fault

(* The events still queued, the window being flushed, the walk under way and *)
(* the messages not yet applied always account, between them, for every note *)
(* that no hazard of `exposed` has struck (watcher.rs, app.rs, store.rs).    *)
THEOREM InvariantHolds == Spec => []IInv
<1>1. Init => IInv
  BY InitIInv
<1>2. TypeOK /\ TypeOK' /\ IInv /\ [Next]_vars => IInv'
  BY NextIInv
<1> QED
  BY <1>1, <1>2, TypeCorrect, PTL DEF Spec

LEMMA IInvFresh ==
    ASSUME TypeOK, IInv
    PROVE  FreshAtRest
<1> SUFFICES ASSUME AtRest, NEW n \in Note, Unexposed(n)
             PROVE  Matches(n, store[n])
  BY DEF FreshAtRest, Stale, Unexposed
<1>1. ~Pending(n) /\ ~RescanDue(n)
  BY DEF AtRest, Pending, RescanDue, FullRescanDue, Walking, Bookkeeping, IInv
<1>2. ~Held(n) /\ ~WalkHolds(n)
  BY DEF AtRest, Held, WalkHolds, Walking
<1>3. MailboxMatches(n)
  BY <1>1, <1>2 DEF IInv, NoteInv, SettledInv, Delivered, Unrefreshed
<1>4. DOMAIN mailbox = {}
  BY DEF AtRest
<1> QED
  BY <1>3, <1>4 DEF MailboxMatches

(* Once the pipeline is at rest, every note that no recorded hazard has      *)
(* struck is served as it is on disk, and a note gone from disk is gone from *)
(* the index: for every vault, any number of changes and any faults.         *)
THEOREM IndexFresh == Spec => []FreshAtRest
  BY InvariantHolds, TypeCorrect, IInvFresh, PTL

-----------------------------------------------------------------------------
(* What /health says.                                                        *)

LEMMA ChangeOfSome ==
    ASSUME VaultChange
    PROVE  \E events, touched : Change(events, touched)
BY Zenon DEF VaultChange, WriteNote, RemoveNote, RenameNote, TreeAppears, TreeVanishes, RenameTree

LEMMA HealthStep ==
    ASSUME TypeOK, HealthInv, [Next]_vars
    PROVE  HealthInv'
<1>1. CASE \/ VaultChange \/ CloseWindow \/ MapEvent \/ EndMap \/ CastBatch \/ WriterInit
           \/ WriterCrash \/ UNCHANGED vars \/ \E n \in Note : ReadNote(n)
  <2>1. UNCHANGED <<scanner, cleared, watcher, applied, store, health>>
    <3>1. ASSUME VaultChange
          PROVE  UNCHANGED <<scanner, cleared, watcher, applied, store, health>>
      BY <3>1, ChangeOfSome DEF Change, scannerVars, writerVars
    <3> QED
      BY <1>1, <3>1 DEF CloseWindow, MapEvent, EndMap, CastBatch, WriterInit, WriterCrash,
         ReadNote, Cast, vars, scannerVars, writerVars
  <2> QED
    BY <2>1 DEF HealthInv, Walking, NoRecords
<1>2. CASE Receive
  BY <1>2 DEF Receive, HealthInv, Walking, TypeOK, NoRecords, scannerVars, writerVars
<1>3. CASE RescanNow \/ ScannerInit
  BY <1>3 DEF RescanNow, ScannerInit, BeginWalk, HealthInv, Walking, TypeOK, NoRecords,
     writerVars
<1>4. CASE (\E n \in Note : WalkNote(n)) \/ ScannerCrash
  <2>1. UNCHANGED <<watcher, applied, store, health>>
    BY <1>4 DEF WalkNote, ScannerCrash, writerVars
  <2>2. \/ UNCHANGED <<scanner, cleared>>
        \/ scanner' = "down" /\ ~cleared'
    BY <1>4 DEF WalkNote, ScannerCrash
  <2> QED
    BY <2>1, <2>2 DEF HealthInv, Walking, NoRecords
<1>5. CASE EndWalk \/ CastRebuild
  BY <1>5 DEF EndWalk, CastRebuild, SendWalked, HealthInv, Walking, TypeOK, NoRecords, writerVars
<1>6. CASE Writer
  BY <1>6 DEF Writer, HandleCast, RecordIndexUpdate, HealthInv, Walking, TypeOK, scannerVars
<1>7. CASE WatcherInit \/ WatcherInitFails
  BY <1>7 DEF WatcherInit, WatcherInitFails, HealthInv, Walking, TypeOK, NoRecords, scannerVars,
     writerVars
<1>8. CASE WatcherCrash
  BY <1>8 DEF WatcherCrash, HealthInv, Walking, NoRecords, scannerVars, writerVars
<1> QED
  BY <1>1, <1>2, <1>3, <1>4, <1>5, <1>6, <1>7, <1>8
  DEF Next, Debouncer, Scanner, Restart, Fault

LEMMA HealthInvTells ==
    ASSUME HealthInv
    PROVE  HealthTells
<1>1. ~health.indexed /\ ~applied => {n \in Note : store[n] # Absent} = {}
  BY DEF HealthInv, NoRecords
<1>2. Cardinality({}) = 0 /\ ~(0 > 0)
  BY FS_EmptySet
<1>3. ~GetHealth.lastIndexUpdate /\ GetHealth.noteCount > 0 => applied
  BY <1>1, <1>2 DEF GetHealth
<1>4. AtRest => GetHealth.watcherState = "running"
  BY DEF HealthInv, GetHealth, AtRest
<1>5. scanner # "down" => (GetHealth.inFlightRescan <=> Walking /\ ~cleared)
  BY DEF HealthInv, GetHealth
<1> QED
  BY <1>3, <1>4, <1>5 DEF HealthTells

(* Whatever crashes, fails to bind or is cut short, /health shows a rescan    *)
(* exactly while a living scanner walks, and none once it has cast the        *)
(* Rebuild; notes it counts without a date are being dated; and at rest it    *)
(* shows the watcher running (run_walk, handle_cast, FilesystemWatcher::init).  *)
THEOREM HealthHolds == Spec => []HealthTells
<1>1. Init => HealthInv
  BY DEF Init, HealthInv, Walking
<1>2. TypeOK /\ HealthInv /\ [Next]_vars => HealthInv'
  BY HealthStep
<1>3. HealthInv => HealthTells
  BY HealthInvTells
<1> QED
  BY <1>1, <1>2, <1>3, TypeCorrect, PTL DEF Spec

-----------------------------------------------------------------------------
(* The runs without a fault.                                                 *)

(* What they keep of each note's exposure. *)
NoHazard == \A n \in Note : exposed[n] \in {"none", "unwatched"}

Calm == OneWalk /\ NoRescan /\ NoHazard

LEMMA FaultsStay ==
    ASSUME TypeOK, [Next]_vars, faults' = 0
    PROVE  faults = 0
<1>1. faults \in Nat
  BY DEF TypeOK
<1>2. CASE VaultChange
  <2>1. faults' = faults \/ faults' = faults + 1
    BY <1>2, ChangeOfSome DEF Change
  <2> QED
    BY <1>1, <2>1
<1>3. CASE Fault
  BY <1>1, <1>3 DEF Fault, WatcherCrash, WatcherInitFails, ScannerCrash, WriterCrash
<1>4. CASE Debouncer \/ Scanner \/ Writer \/ Restart \/ UNCHANGED vars
  BY <1>4 DEF Debouncer, Receive, CloseWindow, MapEvent, EndMap, CastBatch, ReadNote, Scanner,
     RescanNow, EndWalk, CastRebuild, SendWalked, WalkNote, Writer, HandleCast,
     RecordIndexUpdate, Restart, WatcherInit, ScannerInit, WriterInit, vars
<1> QED
  BY <1>2, <1>3, <1>4 DEF Next

LEMMA NoFault ==
    ASSUME TypeOK, faults' = 0
    PROVE  ~Fault
<1>1. faults \in Nat
  BY DEF TypeOK
<1> QED
  BY <1>1 DEF Fault, WatcherCrash, WatcherInitFails, ScannerCrash, WriterCrash

(* A change is delivered, or made before anyone watches. *)
LEMMA CalmChange ==
    ASSUME TypeOK, TypeOK', Bookkeeping, VaultChange, Calm, faults = 0, faults' = 0
    PROVE  Calm'
<1>1. PICK events \in Seq(Event), touched \in SUBSET Note :
            Change(events, touched) /\ Reports(events, touched)
  BY VaultChangeReports
<1>2. UNCHANGED <<watcher, writerUp, scanner, phase, rescans, overflow>>
  BY <1>1 DEF Change, scannerVars, writerVars
<1>3. CASE watcher = "up"
  <2> DEFINE S == {n \in Note : \E e \in {events[i] : i \in DOMAIN events} : Covers(e, n)'}
  <2>1. channel' = channel \o events /\ exposed' = Exposed(S, "none") /\ lost' = lost \ S
    <3>1. faults' # faults + 1
      BY DEF TypeOK
    <3> QED
      BY <1>1, <1>3, <3>1 DEF Change
  <2>2. ASSUME NEW i \in DOMAIN channel'
        PROVE  channel'[i].kind # "Overflow"
    <3>1. CASE i \in DOMAIN channel
      BY <2>1, <3>1, ChannelGrows DEF Calm, NoRescan
    <3>2. CASE i \notin DOMAIN channel
      BY <1>1, <2>1, <3>2, ChannelGrows DEF Reports
    <3> QED
      BY <3>1, <3>2
  <2> QED
    BY <1>2, <1>3, <2>1, <2>2 DEF Calm, OneWalk, NoRescan, NoHazard, Exposed, TypeOK
<1>4. CASE watcher # "up"
  <2>1. exposed' = Exposed(touched, "unwatched") /\ UNCHANGED <<channel, lost>>
    BY <1>1, <1>4 DEF Change
  <2> QED
    BY <1>2, <2>1 DEF Calm, OneWalk, NoRescan, NoHazard, Exposed
<1> QED
  BY <1>3, <1>4

LEMMA CalmDebouncer ==
    ASSUME TypeOK, Debouncer, Calm
    PROVE  Calm'
<1>1. UNCHANGED <<watcher, writerUp, scanner, lost>>
  BY DEF Debouncer, Receive, CloseWindow, MapEvent, EndMap, CastBatch, ReadNote, scannerVars,
     writerVars, history
<1>2. channel = <<>> => taken = 0
  BY DEF TypeOK
<1>3. CASE CastBatch
  <2>1. ~Walking
    BY <1>3 DEF CastBatch, Calm, OneWalk, Walking
  <2>2. UNCHANGED <<exposed, rescans, overflow, channel>> /\ phase' = "collect"
    BY <1>3, <2>1 DEF CastBatch, WalkHolds, Calm, OneWalk, scannerVars, TypeOK
  <2> QED
    BY <1>1, <2>2 DEF Calm, OneWalk, NoRescan, NoHazard
<1>4. CASE MapEvent
  <2>1. /\ channel[1].kind # "Overflow" /\ Head(channel) = channel[1]
        /\ \A i \in DOMAIN channel' : channel'[i].kind # "Overflow"
    BY <1>4, ChannelHead DEF Calm, NoRescan
  <2>2. ~overflow' /\ UNCHANGED <<exposed, rescans, phase>> /\ phase = "map"
    BY <1>4, <2>1 DEF MapEvent, scannerVars, history, Calm, NoRescan
  <2> QED
    BY <1>1, <2>1, <2>2 DEF Calm, OneWalk, NoRescan, NoHazard
<1>5. CASE Receive \/ CloseWindow \/ EndMap \/ \E n \in Note : ReadNote(n)
  <2>1. UNCHANGED <<exposed, channel, rescans>> /\ ~overflow'
    BY <1>5 DEF Receive, CloseWindow, EndMap, ReadNote, scannerVars, history, Calm, NoRescan
  <2>2. watcher = "boot" => phase' = "collect"
    BY <1>2, <1>5 DEF Receive, CloseWindow, EndMap, ReadNote, Calm, OneWalk
  <2> QED
    BY <1>1, <2>1, <2>2 DEF Calm, OneWalk, NoRescan, NoHazard
<1> QED
  BY <1>3, <1>4, <1>5 DEF Debouncer

LEMMA CalmOthers ==
    ASSUME TypeOK, Calm, Scanner \/ Writer \/ Restart \/ UNCHANGED vars
    PROVE  Calm'
<1> USE DEF Calm, Scanner, EndWalk, CastRebuild, SendWalked, Writer, HandleCast,
            RecordIndexUpdate, Restart, WatcherInit
<1>1. /\ writerUp /\ scanner # "down" /\ rescans = 0
      /\ ~WriterInit /\ ~ScannerInit /\ ~RescanNow
  BY DEF OneWalk, NoRescan, WriterInit, ScannerInit, RescanNow
<1>2. writerUp' /\ UNCHANGED <<rescans, phase, channel, overflow, lost>>
  BY <1>1 DEF WalkNote, vars, debouncerVars, scannerVars, writerVars, history
<1>3. OneWalk'
  BY <1>1, <1>2 DEF WalkNote, vars, scannerVars, OneWalk
<1>4. UNCHANGED exposed
  <2>1. ASSUME NEW S, S = {}, exposed' = Exposed(S, "batch") \/ exposed' = Exposed(S, "mailbox")
        PROVE  UNCHANGED exposed
    BY <2>1 DEF Exposed, TypeOK
  <2>2. CASE CastRebuild
    BY <2>1, <2>2 DEF OneWalk
  <2>3. ASSUME NEW n \in Note, WalkNote(n)
        PROVE  UNCHANGED exposed
    BY <2>1, <2>3 DEF WalkNote, NoRescan
  <2> QED
    BY <1>1, <2>2, <2>3 DEF vars, history
<1> QED
  BY <1>2, <1>3, <1>4 DEF NoRescan, NoHazard

LEMMA CalmStep ==
    ASSUME TypeOK, TypeOK', IInv, CalmInv, [Next]_vars
    PROVE  CalmInv'
<1> SUFFICES ASSUME faults' = 0 PROVE Calm'
  BY DEF CalmInv, Calm, NoHazard
<1>1. Calm /\ faults = 0 /\ Bookkeeping
  BY FaultsStay DEF CalmInv, Calm, NoHazard, IInv
<1> QED
  BY <1>1, NoFault, CalmChange, CalmDebouncer, CalmOthers DEF Next

(* With no crash, overflow or notify error, the only notes served stale at    *)
(* rest are those last changed before the watch was bound: Anwesen::start     *)
(* starts the watcher after the one walk, so no batch can race it, and the    *)
(* queues between the processes drop nothing while both ends live.            *)
THEOREM StaleFromStartup == Spec => []StaleOnlyFromStartup
<1>1. Init => CalmInv
  BY DEF Init, CalmInv, OneWalk, NoRescan
<1>2. TypeOK /\ TypeOK' /\ IInv /\ CalmInv /\ [Next]_vars => CalmInv'
  BY CalmStep
<1>3. TypeOK /\ FreshAtRest /\ CalmInv => StaleOnlyFromStartup
  BY DEF TypeOK, FreshAtRest, CalmInv, StaleOnlyFromStartup, StaleOnlyBy
<1> QED
  BY <1>1, <1>2, <1>3, TypeCorrect, InvariantHolds, IndexFresh, PTL DEF Spec

=============================================================================
