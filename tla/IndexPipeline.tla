--------------------------- MODULE IndexPipeline ---------------------------
(***************************************************************************)
(* How the index of the daemon follows the vault: the processes             *)
(* vault_scanner, filesystem_watcher (with its debouncer task) and          *)
(* index_writer of app.rs, the code of watcher.rs that turns a window of    *)
(* events into one batch, and the NoteStore they all end in.                *)
(*                                                                         *)
(* The walk and the flush read the vault one note at a time, while the      *)
(* vault keeps changing.  Their results travel as casts through the         *)
(* writer's mailbox.  Crashes lose what a process or its mailbox held.      *)
(*                                                                         *)
(* The model keeps three history variables no action reads as a guard:      *)
(*   exposed  for each note, the hazard that may have left its entry stale  *)
(*   lost     the notes whose last change was dropped by an overflow        *)
(*   past     what the disk has held at each path (of module Vault)           *)
(***************************************************************************)
EXTENDS Vault

CONSTANTS
    MaxChanges,     \* bound on the changes made to the vault
    MaxFaults,      \* bound on crashes, overflows and notify errors
    MayCrash        \* whether a process may crash at all

ASSUME BoundAssumption ==
    /\ MaxChanges \in Nat /\ MaxFaults \in Nat
    /\ MayCrash \in BOOLEAN

VARIABLES
    watcher,        \* filesystem_watcher: "boot" (never started), "up", "down"
    channel,        \* the notify events not yet mapped, oldest first
    taken,          \* how many of them the open window holds
    phase,          \* the debouncer: "collect", "map", "build"
    noteAction,     \* coalesce: the last action per note
    treeAction,     \* coalesce: the last action per directory
    overflow,       \* the window held an overflow event
    todo,           \* build_index_batch: notes still to be read
    batch,          \* the IndexBatch under construction
    scanner,        \* vault_scanner: "init" and "walk" (walking), "idle", "down"
    rescans,        \* RescanNow casts in its mailbox
    walkTodo,       \* notes the walk has not passed yet
    walked,         \* the records the walk has read
    cleared,        \* run_walk has cleared its flag and is about to cast
    writerUp,       \* index_writer is registered
    mailbox,        \* its mailbox, oldest first
    applied,        \* it has changed the store and is about to date the change
    store,          \* NoteStore: [Note -> Record]
    health,         \* the flags of HealthState
    changes, faults,  \* used up parts of the two bounds
    exposed, lost   \* history

debouncerVars == <<channel, taken, phase, noteAction, treeAction, overflow, todo, batch>>
scannerVars == <<scanner, rescans, walkTodo, walked, cleared>>
writerVars == <<writerUp, mailbox, applied, store>>
history == <<exposed, lost>>
vars == <<vaultVars, watcher, debouncerVars, scannerVars, writerVars, health,
          changes, faults, history>>

NoteActions == [Note -> {"none", "upsert", "delete"}]
TreeActions == [Dir -> {"none", "upsert", "delete"}]
NoNoteAction == [n \in Note |-> "none"]
NoTreeAction == [d \in Dir |-> "none"]
NoRecords == [n \in Note |-> Absent]

\* IndexBatch; upserts[n] = Absent says the batch carries no record of n.
IndexBatch ==
    [kind : {"Batch"}, upserts : [Note -> Record], deletes : SUBSET Note,
     prefixes : SUBSET Dir]
EmptyBatch ==
    [kind |-> "Batch", upserts |-> NoRecords, deletes |-> {}, prefixes |-> {}]

Rebuild == [kind : {"Rebuild"}, notes : [Note -> Record]]
Message == IndexBatch \cup Rebuild

\* Why an entry may be stale with nothing left to repair it.
Cause == {"unwatched", "error", "window", "mailbox", "walk", "batch"}

TypeOK ==
    /\ VaultTypeOK
    /\ watcher \in {"boot", "up", "down"}
    /\ channel \in Seq(Event)
    /\ taken \in 0..Len(channel)
    /\ phase \in {"collect", "map", "build"}
    /\ noteAction \in NoteActions
    /\ treeAction \in TreeActions
    /\ overflow \in BOOLEAN
    /\ todo \in SUBSET Note
    /\ batch \in IndexBatch
    /\ scanner \in {"init", "walk", "idle", "down"}
    /\ rescans \in Nat
    /\ walkTodo \in SUBSET Note
    /\ walked \in [Note -> Record]
    /\ cleared \in BOOLEAN
    /\ writerUp \in BOOLEAN
    /\ mailbox \in Seq(Message)
    /\ applied \in BOOLEAN
    /\ store \in [Note -> Record]
    /\ health \in [inFlight : BOOLEAN, watcher : {"running", "degraded"},
                   indexed : BOOLEAN, event : BOOLEAN]
    /\ changes \in Nat
    /\ faults \in Nat
    /\ exposed \in [Note -> Cause \cup {"none"}]
    /\ lost \in SUBSET Note

\* The supervisor has started index_writer and is inside the synchronous
\* start of vault_scanner, whose init walks the vault.
Init ==
    /\ VaultInit
    /\ watcher = "boot"
    /\ channel = <<>> /\ taken = 0 /\ phase = "collect"
    /\ noteAction = NoNoteAction /\ treeAction = NoTreeAction
    /\ overflow = FALSE /\ todo = {} /\ batch = EmptyBatch
    /\ scanner = "init" /\ rescans = 0
    /\ walkTodo = Note /\ walked = NoRecords /\ cleared = FALSE
    /\ writerUp = TRUE /\ mailbox = <<>> /\ applied = FALSE
    /\ store = NoRecords
    /\ health = [inFlight |-> TRUE, watcher |-> "running", indexed |-> FALSE, event |-> FALSE]
    /\ changes = 0 /\ faults = 0
    /\ exposed = [n \in Note |-> "none"] /\ lost = {}

-----------------------------------------------------------------------------
(* map_event: which paths an event reports changed, arrived and gone.       *)

Modified(e) == IF e.kind = "Modify" THEN {e.path} ELSE {}

Gone(e) ==
    IF \/ e.kind = "Vanish"
       \/ e.kind = "Rename"
       \/ e.kind = "RenameUnpaired" /\ ~Exists(e.path)
    THEN {e.path} ELSE {}

\* Deliberate mistake: the side of an unpaired rename that arrived is ignored.
CameOfPairsOnly(e) == IF e.kind \in {"Appear", "Rename"} THEN {e.to} ELSE {}

Came(e) ==
    IF \/ e.kind = "Appear"
       \/ e.kind = "Rename"
       \/ e.kind = "RenameUnpaired" /\ Exists(e.path)
    THEN {e.to} ELSE {}

\* The actions an event ends in: appear() asks the disk whether the path is a
\* directory, vanish() cannot and emits both deletions.
NoteUpserts(e) == Note \cap (Modified(e) \cup (Came(e) \ dirs))
NoteDeletes(e) == Note \cap Gone(e)
TreeUpserts(e) == Came(e) \cap dirs
\* Deliberate mistake, the code before ANW-40: a `.md` suffix is taken for a file.
TreeDeletesBySuffix(e) == (Dir \ Note) \cap Gone(e)
TreeDeletes(e) == Dir \cap Gone(e)

\* coalesce: the last action on a path wins; notes and directories apart.
Coalesced(actions, upserts, deletes) ==
    [p \in DOMAIN actions |->
        IF p \in upserts THEN "upsert"
        ELSE IF p \in deletes THEN "delete"
        ELSE actions[p]]

\* The notes below a set of directories.
Below(D) == {n \in Note : \E d \in D : n \in Inside[d]}

Acted(actions, action) == {p \in DOMAIN actions : actions[p] = action}

\* The notes the flush will read: named upserts and the walks of new trees.
Reads == Acted(noteAction, "upsert") \cup Below(Acted(treeAction, "upsert"))

\* Deliberate mistake, the code before ANW-36: a walked directory is not cleared.
PrefixesOfRemoved == {d \in Dir : treeAction[d] = "delete"}

\* delete_prefixes: removed trees, and walked ones to clear what they held.
Prefixes == {d \in Dir : treeAction[d] # "none"}

\* NoteStore::apply_batch and NoteStore::replace, for one entry.
\* Deliberate mistake: a prefix takes the notes beside its directory with it.
TouchesBeside(m, n) ==
    \/ m.kind = "Rebuild"
    \/ m.upserts[n] # Absent
    \/ n \in m.deletes
    \/ m.prefixes # {}

Touches(m, n) ==
    \/ m.kind = "Rebuild"
    \/ m.upserts[n] # Absent
    \/ n \in m.deletes
    \/ n \in Below(m.prefixes)

Result(m, n) == IF m.kind = "Rebuild" THEN m.notes[n] ELSE m.upserts[n]

Apply(m, s) == [n \in Note |-> IF Touches(m, n) THEN Result(m, n) ELSE s[n]]

-----------------------------------------------------------------------------
(* What is still on its way about a note (read by the history only).        *)

Covers(e, n) ==
    n \in NoteUpserts(e) \cup NoteDeletes(e) \cup Below(TreeUpserts(e) \cup TreeDeletes(e))

\* An event about n has not been mapped yet.
Pending(n) == \E i \in DOMAIN channel : Covers(channel[i], n)

Walking == scanner \in {"init", "walk"}

\* A walk that will reach every note has still to begin.
FullRescanDue ==
    \/ \E i \in DOMAIN channel : channel[i].kind = "Overflow"
    \/ overflow
    \/ rescans > 0
    \/ scanner = "down"

RescanDue(n) == FullRescanDue \/ (Walking /\ n \in walkTodo)

\* The flush under way will put n in its batch, or may.
Held(n) ==
    \/ phase = "map" /\ n \in Reads \cup Acted(noteAction, "delete") \cup Below(Prefixes)
    \/ phase = "build" /\ (n \in todo \/ Touches(batch, n))

\* The walk under way has read n.
WalkHolds(n) == Walking /\ n \notin walkTodo

\* Neither the channel nor a walk to come will look at n again.
Unrefreshed(n) == ~Pending(n) /\ ~RescanDue(n)

\* An entry agrees with the disk; a malformed note has no agreed entry.
Matches(n, r) ==
    /\ disk[n] = Absent => r = Absent
    /\ disk[n] \in Version => r = disk[n]

Exposed(S, cause) == [n \in Note |-> IF n \in S THEN cause ELSE exposed[n]]

-----------------------------------------------------------------------------
(* The vault changes.  `touched` are the notes the change can affect, and    *)
(* `events` what reports it: once queued, the notes they cover (seen from the *)
(* changed disk) are going to be refreshed.                                  *)

Change(events, touched) ==
    /\ changes < MaxChanges
    /\ changes' = changes + 1
    /\ WellFormed(disk', dirs')
    /\ past' = [n \in Note |-> past[n] \cup {Parsed(disk[n])'}]
    /\ \/ /\ watcher = "up"                                 \* delivered
          /\ channel' = channel \o events
          /\ LET reported == {n \in Note : \E e \in {events[i] : i \in DOMAIN events} :
                                              Covers(e, n)'}
             IN  /\ exposed' = Exposed(reported, "none")
                 /\ lost' = lost \ reported
          /\ UNCHANGED faults
       \/ /\ watcher = "up" /\ faults < MaxFaults           \* the queue overflows
          /\ faults' = faults + 1
          /\ channel' = Append(channel, Overflow)
          /\ exposed' = [n \in Note |-> "none"]
          /\ lost' = lost \cup touched \cup {n \in Note : exposed[n] # "none"}
       \/ /\ watcher = "up" /\ faults < MaxFaults           \* notify fails
          /\ faults' = faults + 1
          /\ channel' = Append(channel, Error)
          /\ exposed' = Exposed(touched, "error")
          /\ UNCHANGED lost
       \/ /\ watcher # "up"                                 \* nobody watches
          /\ exposed' = Exposed(touched, "unwatched")
          /\ UNCHANGED <<channel, faults, lost>>
    /\ UNCHANGED <<watcher, taken, phase, noteAction, treeAction, overflow, todo,
                   batch, scannerVars, writerVars, health>>

WriteNote(n, c) ==
    /\ c # disk[n]
    /\ disk' = [disk EXCEPT ![n] = c]
    /\ UNCHANGED dirs
    /\ Change(<<EventOn(IF disk[n] = Absent THEN "Appear" ELSE "Modify", n)>>, {n})

\* FSEvents may fold the removal into an upsert-shaped event [ANW-36].
RemovalKinds == IF PairsRenames THEN {"Vanish"} ELSE {"Vanish", "Appear"}

RemoveNote(n) ==
    /\ disk[n] # Absent
    /\ disk' = [disk EXCEPT ![n] = Absent]
    /\ UNCHANGED dirs
    /\ \E kind \in RemovalKinds : Change(<<EventOn(kind, n)>>, {n})

\* Renaming onto an existing note replaces it.
RenameNote(m, n) ==
    /\ m # n /\ disk[m] # Absent
    /\ disk' = [disk EXCEPT ![m] = Absent, ![n] = disk[m]]
    /\ UNCHANGED dirs
    /\ Change(RenameEvents(m, n), {m, n})

\* The disk with the notes below d replaced by the contents f.
WithTree(d, f) == [n \in Note |-> IF n \in Below({d}) THEN f[n] ELSE disk[n]]

\* mkdir, or a tree renamed in from outside: one event names the directory.
TreeAppears(d, D, f) ==
    /\ d \notin dirs
    /\ dirs' = dirs \cup {d} \cup D
    /\ disk' = WithTree(d, f)
    /\ Change(<<EventOn("Appear", d)>>, Below({d}))

\* rmdir, or a tree renamed out of the vault.
TreeVanishes(d) ==
    /\ d \in dirs
    /\ dirs' = dirs \ ({d} \cup Inside[d])
    /\ disk' = WithTree(d, NoRecords)
    /\ Change(<<EventOn("Vanish", d)>>, Note \cap ({d} \cup Inside[d]))

\* A directory renamed inside the vault; its contents move along.
RenameTree(d, e, D, f) ==
    /\ d \in dirs /\ e \notin dirs /\ e \notin Inside[d] /\ d \notin Inside[e]
    /\ {f[n] : n \in Below({e})} \cup {Absent} = {disk[n] : n \in Below({d})} \cup {Absent}
    /\ dirs' = (dirs \ ({d} \cup Inside[d])) \cup {e} \cup D
    /\ disk' = [n \in Note |-> IF n \in Below({d}) THEN Absent ELSE WithTree(e, f)[n]]
    /\ Change(RenameEvents(d, e), (Note \cap ({d} \cup Inside[d])) \cup Below({e}))

VaultChange ==
    \/ \E n \in Note, c \in Version \cup {Malformed} : WriteNote(n, c)
    \/ \E n \in Note : RemoveNote(n)
    \/ \E m, n \in Note : RenameNote(m, n)
    \/ \E d \in Dir : \E D \in SUBSET (Inside[d] \cap Dir), f \in [Below({d}) -> Content] :
          TreeAppears(d, D, f)
    \/ \E d \in Dir : TreeVanishes(d)
    \/ \E d, e \in Dir : \E D \in SUBSET (Inside[e] \cap Dir), f \in [Below({e}) -> Content] :
          RenameTree(d, e, D, f)

-----------------------------------------------------------------------------
(* filesystem_watcher and its debouncer task.                               *)

\* The supervisor starts one child at a time and waits for its init.
SupervisorFree == scanner # "init" /\ watcher # "boot"

\* init: bind the watch, then spawn the debouncer on a fresh channel.
WatcherInit ==
    /\ watcher # "up" /\ scanner # "init"
    /\ watcher' = "up"
    /\ health' = [health EXCEPT !.watcher = "running"]
    /\ UNCHANGED <<vaultVars, debouncerVars, scannerVars, writerVars, changes, faults, history>>

WatcherInitFails ==
    /\ watcher = "down" /\ SupervisorFree
    /\ faults < MaxFaults /\ faults' = faults + 1
    /\ health' = [health EXCEPT !.watcher = "degraded"]
    /\ UNCHANGED <<vaultVars, watcher, debouncerVars, scannerVars, writerVars, changes, history>>

\* recv: the first event opens the window, later ones join it.
Receive ==
    /\ phase = "collect" /\ taken < Len(channel)
    /\ taken' = taken + 1
    /\ health' = [health EXCEPT !.event = TRUE]
    /\ UNCHANGED <<vaultVars, watcher, channel, phase, noteAction, treeAction, overflow,
                   todo, batch, scannerVars, writerVars, changes, faults, history>>

\* The deadline passes.
CloseWindow ==
    /\ phase = "collect" /\ taken > 0
    /\ phase' = "map"
    /\ UNCHANGED <<vaultVars, watcher, channel, taken, noteAction, treeAction, overflow,
                   todo, batch, scannerVars, writerVars, health, changes, faults, history>>

MapEvent ==
    /\ phase = "map" /\ taken > 0
    /\ LET e == Head(channel) IN
         /\ noteAction' = Coalesced(noteAction, NoteUpserts(e), NoteDeletes(e))
         /\ treeAction' = Coalesced(treeAction, TreeUpserts(e), TreeDeletes(e))
         /\ overflow' = (overflow \/ e.kind = "Overflow")
    /\ channel' = Tail(channel)
    /\ taken' = taken - 1
    /\ UNCHANGED <<vaultVars, watcher, phase, todo, batch, scannerVars, writerVars,
                   health, changes, faults, history>>

\* Deliberate mistake: nobody is told of an overflow.
EndMapNoRescan ==
    /\ phase = "map" /\ taken = 0
    /\ overflow' = FALSE
    /\ IF noteAction = NoNoteAction /\ treeAction = NoTreeAction
       THEN phase' = "collect" /\ UNCHANGED <<todo, batch>>
       ELSE /\ phase' = "build"
            /\ todo' = Reads
            /\ batch' = [EmptyBatch EXCEPT !.deletes = Acted(noteAction, "delete"),
                                           !.prefixes = Prefixes]
    /\ UNCHANGED <<vaultVars, watcher, channel, taken, noteAction, treeAction, scannerVars,
                   writerVars, health, changes, faults, history>>

\* The window is mapped: an overflow casts RescanNow (to nobody when the
\* scanner is down); an empty batch is skipped.
EndMap ==
    /\ phase = "map" /\ taken = 0
    /\ rescans' = IF overflow /\ scanner # "down" THEN rescans + 1 ELSE rescans
    /\ overflow' = FALSE
    /\ IF noteAction = NoNoteAction /\ treeAction = NoTreeAction
       THEN phase' = "collect" /\ UNCHANGED <<todo, batch>>
       ELSE /\ phase' = "build"
            /\ todo' = Reads
            /\ batch' = [EmptyBatch EXCEPT !.deletes = Acted(noteAction, "delete"),
                                           !.prefixes = Prefixes]
    /\ UNCHANGED <<vaultVars, watcher, channel, taken, noteAction, treeAction, scanner,
                   walkTodo, walked, cleared, writerVars, health, changes, faults, history>>

\* Deliberate mistake, the code before ANW-36: a note gone by now is skipped.
ReadNoteMissingSkipped(n) ==
    /\ phase = "build" /\ n \in todo
    /\ todo' = todo \ {n}
    /\ batch' = IF disk[n] \in Version THEN [batch EXCEPT !.upserts[n] = disk[n]] ELSE batch
    /\ UNCHANGED <<vaultVars, watcher, channel, taken, phase, noteAction, treeAction,
                   overflow, scannerVars, writerVars, health, changes, faults, history>>

\* scan_one on a named note, or the subtree walk passing it.  A note that is
\* gone becomes a delete; one that does not parse, or a directory, is skipped.
ReadNote(n) ==
    /\ phase = "build" /\ n \in todo
    /\ todo' = todo \ {n}
    /\ batch' =
         IF disk[n] \in Version
         THEN [batch EXCEPT !.upserts[n] = disk[n]]
         ELSE IF noteAction[n] = "upsert" /\ ~Exists(n)
         THEN [batch EXCEPT !.deletes = @ \cup {n}]
         ELSE batch
    /\ UNCHANGED <<vaultVars, watcher, channel, taken, phase, noteAction, treeAction,
                   overflow, scannerVars, writerVars, health, changes, faults, history>>

\* A cast to a name nobody has registered is dropped.
Cast(m) == mailbox' = IF writerUp THEN Append(mailbox, m) ELSE mailbox

\* The batch overtakes a walk that holds an older record of one of its notes,
\* or nobody is there to receive it.
CastBatch ==
    /\ phase = "build" /\ todo = {}
    /\ Cast(batch)
    /\ LET carried == {n \in Note : Touches(batch, n) /\ Unrefreshed(n)}
           overtaken == {n \in carried : WalkHolds(n) /\ ~Matches(n, walked[n])}
           dropped == {n \in carried : ~writerUp /\ ~WalkHolds(n)}
       IN  exposed' = [n \in Note |-> IF n \in overtaken THEN "walk"
                                      ELSE IF n \in dropped THEN "mailbox"
                                      ELSE exposed[n]]
    /\ phase' = "collect"
    /\ noteAction' = NoNoteAction /\ treeAction' = NoTreeAction
    /\ batch' = EmptyBatch
    /\ UNCHANGED <<vaultVars, watcher, channel, taken, overflow, todo, scannerVars,
                   writerUp, applied, store, health, changes, faults, lost>>

\* The process dies: Drop aborts the debouncer at its next await, so a flush
\* under way still ends, and everything else it held is gone.  The model lets
\* it end before the restarted debouncer flushes its first window.
WatcherCrash ==
    /\ watcher = "up" /\ MayCrash /\ faults < MaxFaults
    /\ faults' = faults + 1
    /\ watcher' = "down"
    /\ LET kept == IF phase = "map" THEN taken ELSE 0
           gone == {channel[i] : i \in (kept + 1)..Len(channel)}
       IN  /\ channel' = SubSeq(channel, 1, kept)
           /\ taken' = kept
           /\ exposed' = Exposed({n \in Note : \E e \in gone :
                                     Covers(e, n) \/ e.kind = "Overflow"}, "window")
    /\ UNCHANGED <<vaultVars, phase, noteAction, treeAction, overflow, todo, batch,
                   scannerVars, writerVars, health, changes, lost>>

-----------------------------------------------------------------------------
(* vault_scanner: run_walk, at init and on RescanNow.                       *)

BeginWalk ==
    /\ walkTodo' = Note
    /\ walked' = NoRecords
    /\ health' = [health EXCEPT !.inFlight = TRUE]

ScannerInit ==
    /\ scanner = "down" /\ SupervisorFree
    /\ scanner' = "init"
    /\ BeginWalk
    /\ UNCHANGED <<vaultVars, watcher, debouncerVars, rescans, cleared, writerVars, changes,
                   faults, history>>

RescanNow ==
    /\ scanner = "idle" /\ rescans > 0
    /\ scanner' = "walk"
    /\ rescans' = rescans - 1
    /\ BeginWalk
    /\ UNCHANGED <<vaultVars, watcher, debouncerVars, cleared, writerVars, changes, faults,
                   history>>

\* The walk passes n, while the flush may hold a verdict on n that an
\* overflow left without correction.
WalkNote(n) ==
    /\ Walking /\ n \in walkTodo
    /\ walkTodo' = walkTodo \ {n}
    /\ walked' = [walked EXCEPT ![n] = Parsed(disk[n])]
    /\ exposed' = Exposed({m \in {n} \cap lost : Held(m) /\ ~FullRescanDue}, "batch")
    /\ UNCHANGED <<vaultVars, watcher, debouncerVars, scanner, rescans, cleared,
                   writerVars, health, changes, faults, lost>>

\* The walk is over.  The flag of /health is cleared before the cast, so that
\* nobody who has seen the new index sees it set.
EndWalk ==
    /\ Walking /\ walkTodo = {} /\ ~cleared
    /\ health' = [health EXCEPT !.inFlight = FALSE]
    /\ cleared' = TRUE
    /\ UNCHANGED <<vaultVars, watcher, debouncerVars, scanner, rescans, walkTodo, walked,
                   writerVars, changes, faults, history>>

\* The scanner returns to its mailbox.
SendWalked ==
    /\ Cast([kind |-> "Rebuild", notes |-> walked])
    /\ exposed' = Exposed({n \in Note : ~writerUp /\ Unrefreshed(n) /\ ~Held(n)}, "mailbox")
    /\ scanner' = "idle"
    /\ walkTodo' = {} /\ walked' = NoRecords /\ cleared' = FALSE
    /\ UNCHANGED <<vaultVars, watcher, debouncerVars, rescans, writerUp, applied, store,
                   health, changes, faults, lost>>

\* Deliberate mistake: a walk that stops early sends what it has.
CastPartialWalk == Walking /\ SendWalked

\* Deliberate mistake: the cast comes first, with the flag still set.
CastBeforeClear == Walking /\ walkTodo = {} /\ SendWalked

CastRebuild == cleared /\ SendWalked

\* The mailbox goes with the process; the restart walks again.
ScannerCrash ==
    /\ scanner \in {"idle", "walk"} /\ watcher # "boot"
    /\ MayCrash /\ faults < MaxFaults
    /\ faults' = faults + 1
    /\ scanner' = "down"
    /\ rescans' = 0
    /\ walkTodo' = {} /\ walked' = NoRecords /\ cleared' = FALSE
    /\ UNCHANGED <<vaultVars, watcher, debouncerVars, writerVars, health, changes, history>>

-----------------------------------------------------------------------------
(* index_writer: handle_cast.                                               *)

\* A message changes the store under its lock ...
HandleCast ==
    /\ writerUp /\ ~applied /\ mailbox # <<>>
    /\ store' = Apply(Head(mailbox), store)
    /\ mailbox' = Tail(mailbox)
    /\ applied' = TRUE
    /\ UNCHANGED <<vaultVars, watcher, debouncerVars, scannerVars, writerUp, health, changes,
                   faults, history>>

\* ... and then the change is dated, in an atomic of its own.
RecordIndexUpdate ==
    /\ applied
    /\ health' = [health EXCEPT !.indexed = TRUE]
    /\ applied' = FALSE
    /\ UNCHANGED <<vaultVars, watcher, debouncerVars, scannerVars, writerUp, mailbox, store,
                   changes, faults, history>>

WriterInit ==
    /\ ~writerUp /\ SupervisorFree
    /\ writerUp' = TRUE
    /\ UNCHANGED <<vaultVars, watcher, debouncerVars, scannerVars, mailbox, applied, store,
                   health, changes, faults, history>>

\* The store outlives the process, the mailbox does not.  Between the change of
\* the store and its date the handler neither waits nor does what can fail.
WriterCrash ==
    /\ writerUp /\ ~applied /\ MayCrash /\ faults < MaxFaults
    /\ faults' = faults + 1
    /\ writerUp' = FALSE
    /\ mailbox' = <<>>
    /\ exposed' = Exposed({n \in Note : /\ \E i \in DOMAIN mailbox : Touches(mailbox[i], n)
                                        /\ Unrefreshed(n) /\ ~Held(n) /\ ~WalkHolds(n)},
                          "mailbox")
    /\ UNCHANGED <<vaultVars, watcher, debouncerVars, scannerVars, applied, store, health,
                   changes, lost>>

-----------------------------------------------------------------------------
\* GET /health, at any time and beside every process.  The code reads one field
\* after another; the properties stated of it relate only fields for which an
\* earlier read of the first and a later one of the second say the same.
GetHealth ==
    [noteCount |-> Cardinality({n \in Note : store[n] # Absent}),
     lastIndexUpdate |-> health.indexed,
     lastEvent |-> health.event,
     watcherState |-> health.watcher,
     inFlightRescan |-> health.inFlight]

-----------------------------------------------------------------------------
Debouncer ==
    \/ Receive \/ CloseWindow \/ MapEvent \/ EndMap \/ CastBatch
    \/ \E n \in Note : ReadNote(n)
Scanner ==
    \/ RescanNow \/ EndWalk \/ CastRebuild
    \/ \E n \in Note : WalkNote(n)
Writer == HandleCast \/ RecordIndexUpdate
Restart == WatcherInit \/ ScannerInit \/ WriterInit
Fault == WatcherCrash \/ WatcherInitFails \/ ScannerCrash \/ WriterCrash

Next == VaultChange \/ Debouncer \/ Scanner \/ Writer \/ Restart \/ Fault

Spec == Init /\ [][Next]_vars

\* The tokio runtime keeps scheduling every task, a window closes at its
\* deadline, and the supervisor restarts what died.  Nothing makes the vault
\* change or a process crash.
Fairness ==
    /\ WF_vars(Debouncer)
    /\ WF_vars(Scanner)
    /\ WF_vars(Writer)
    /\ WF_vars(WatcherInit)
    /\ WF_vars(ScannerInit)
    /\ WF_vars(WriterInit)

FairSpec == Spec /\ Fairness

=============================================================================
