------------------------ MODULE IndexPipelineSafety ------------------------
(***************************************************************************)
(* What the index pipeline promises, and the inductive invariant behind it. *)
(***************************************************************************)
EXTENDS IndexPipeline

(* Nothing is in flight: every queue is empty, every process waits. *)
AtRest ==
    /\ watcher = "up" /\ channel = <<>> /\ phase = "collect"
    /\ scanner = "idle" /\ rescans = 0
    /\ writerUp /\ mailbox = <<>> /\ ~applied

Stale(n) == ~Matches(n, store[n])

(* The hazards recorded in `exposed` are the ONLY ways the index goes stale:  *)
(* once the pipeline has come to rest, every note whose last change fell into *)
(* none of them is served as it is on disk, and a removed one is not served   *)
(* at all -- whatever the windows, coalescing, re-reads, walks and restarts   *)
(* did in between (run_debouncer, build_index_batch, run_walk, handle_cast).  *)
FreshAtRest == AtRest => \A n \in Note : exposed[n] = "none" => ~Stale(n)

StaleOnlyBy(causes) == AtRest => \A n \in Note : Stale(n) => exposed[n] \in causes

(* With no crash, no overflow and no notify error, the only notes served      *)
(* stale are those last changed before the watch was bound: no interleaving   *)
(* of walks, windows, re-reads and casts adds one (Anwesen::start orders the   *)
(* children so that the first walk ends before the watcher starts).           *)
StaleOnlyFromStartup == faults = 0 => StaleOnlyBy({"unwatched"})

(* What /health says of the pipeline, through crashes, failed binds and walks  *)
(* cut short: a rescan is shown exactly while the scanner walks, and so never  *)
(* to a reader who can have seen what that walk sent; notes are served without *)
(* a dated update only between the two steps of the writer that make both      *)
(* true; and at rest the watcher is shown running (get_health, run_walk,       *)
(* FilesystemWatcher's init, handle_cast: three processes write the flags).    *)
HealthTells ==
    /\ scanner # "down" => (GetHealth.inFlightRescan <=> Walking /\ ~cleared)
    /\ ~GetHealth.lastIndexUpdate /\ GetHealth.noteCount > 0 => applied
    /\ AtRest => GetHealth.watcherState = "running"

(* Under fair scheduling the pipeline does not stay stale: from some point on *)
(* every note is fresh or struck by a recorded hazard (run_debouncer drains   *)
(* the channel, RescanNow is answered, the supervisor restarts what died).    *)
EventuallyFresh == \A n \in Note : <>[](exposed[n] = "none" => ~Stale(n))

-----------------------------------------------------------------------------
(* Sentences of the sources that the code does not keep, one run each.        *)

(* README.md:23 -- "built once at startup and kept current by watching": with *)
(* no fault at all, the index at rest is the vault.                           *)
KeptCurrent == faults = 0 /\ AtRest => \A n \in Note : ~Stale(n)

(* app.rs:492 -- the store outlives the writer, "so no rescan handshake is     *)
(* needed on init": a writer restart leaves no note stale.                    *)
WriterRestartKeepsIndex == AtRest => \A n \in Note : exposed[n] = "mailbox" => ~Stale(n)

(* app.rs:13 -- RescanNow re-runs the walk "for the inotify-overflow recovery  *)
(* path": once that walk is in the index, no note is stale for having been     *)
(* walked beside the watcher's own batches.                                   *)
RescanRecovers == AtRest => \A n \in Note : exposed[n] = "walk" => ~Stale(n)

-----------------------------------------------------------------------------
(* The inductive invariant, note by note.                                     *)

(* The bookkeeping the debouncer, the scanner and the writer keep between     *)
(* their steps.                                                               *)
Bookkeeping ==
    /\ WellFormed(disk, dirs)
    /\ phase = "collect" => noteAction = NoNoteAction /\ treeAction = NoTreeAction
    /\ phase # "map" => ~overflow
    /\ phase = "build" => taken = 0
    /\ phase # "build" => todo = {} /\ batch = EmptyBatch
    /\ ~Walking => walkTodo = {}
    /\ cleared => Walking /\ walkTodo = {}
    /\ ~writerUp => mailbox = <<>>
    /\ \A i \in DOMAIN channel : channel[i].kind = "RenameUnpaired" =>
                                    ~PairsRenames /\ channel[i].to = channel[i].path

Unexposed(n) == exposed[n] = "none"

(* Every change to n since its last delivered event is in the channel. *)
Reported(n) == Unexposed(n) /\ n \notin lost

(* Where an upsert may stand for a removal, reading the note decides. *)
ReadDecides == ~PairsRenames

(* The event tells how n is on the disk now. *)
Truthful(e, n) ==
    /\ n \in NoteUpserts(e) => disk[n] # Absent \/ ReadDecides
    /\ n \in NoteDeletes(e) \ NoteUpserts(e) => disk[n] = Absent
    /\ n \in Below(TreeDeletes(e)) \ Below(TreeUpserts(e)) => disk[n] = Absent

(* An event the vault has outrun has a truthful one behind it. *)
ChannelTruthful(n) ==
    Reported(n) => \A i \in DOMAIN channel :
        Covers(channel[i], n) /\ ~Truthful(channel[i], n) =>
            \E j \in DOMAIN channel :
                j > i /\ Covers(channel[j], n) /\ Truthful(channel[j], n)

(* With no event about n left, what was coalesced about n reads n if it       *)
(* exists and drops it if it does not.                                        *)
Rereads(n) == ReadDecides /\ noteAction[n] = "upsert"

Removed(n) == noteAction[n] = "delete" \/ n \in Below(Prefixes) \/ Rereads(n)

ActionsComplete(n) ==
    Reported(n) /\ phase = "map" /\ ~Pending(n) /\ Held(n) =>
        /\ disk[n] # Absent => n \in Reads
        /\ disk[n] = Absent => Removed(n)

(* ... and so does the batch built from it. *)
BatchMatches(n) ==
    phase = "build" =>
        /\ n \in todo => batch.upserts[n] = Absent
        /\ Reported(n) /\ ~Pending(n) =>
             /\ n \in todo /\ disk[n] = Absent =>
                  n \in batch.deletes \cup Below(batch.prefixes) \/ Rereads(n)
             /\ n \notin todo /\ Touches(batch, n) => Matches(n, batch.upserts[n])

(* A change lost to an overflow is behind every event about the note. *)
LossBehind(n) ==
    n \in lost /\ Unexposed(n) =>
        \A i \in DOMAIN channel : Covers(channel[i], n) =>
            \E j \in DOMAIN channel : j > i /\ channel[j].kind = "Overflow"

(* No flush holds a verdict on such a note once the rescan has passed it. *)
NoOldVerdict(n) ==
    n \in lost /\ Unexposed(n) /\ Held(n) => ~Unrefreshed(n)

(* What the walk has read of n is right unless something newer is held.       *)
WalkMatches(n) ==
    Unexposed(n) /\ Unrefreshed(n) /\ ~Held(n) /\ WalkHolds(n) => Matches(n, walked[n])

(* With nothing more to be sent about n, the last message that touches n      *)
(* agrees with the disk, or the store does already.                           *)
LastTouching(i, n) ==
    /\ i \in DOMAIN mailbox
    /\ Touches(mailbox[i], n)
    /\ \A j \in DOMAIN mailbox : j > i => ~Touches(mailbox[j], n)

MailboxMatches(n) ==
    /\ \A i \in DOMAIN mailbox : LastTouching(i, n) => Matches(n, Result(mailbox[i], n))
    /\ (\A i \in DOMAIN mailbox : ~Touches(mailbox[i], n)) => Matches(n, store[n])

Delivered(n) ==
    Unexposed(n) /\ Unrefreshed(n) /\ ~Held(n) /\ ~WalkHolds(n) => MailboxMatches(n)

(* What is on its way to a batch, and what the index ends with. *)
FlushInv(n) ==
    /\ ChannelTruthful(n)
    /\ ActionsComplete(n)
    /\ BatchMatches(n)
    /\ LossBehind(n)

SettledInv(n) ==
    /\ NoOldVerdict(n)
    /\ WalkMatches(n)
    /\ Delivered(n)

NoteInv(n) == FlushInv(n) /\ SettledInv(n)

IInv == Bookkeeping /\ \A n \in Note : NoteInv(n)

(* Each flag follows the process that owns it; between its crash and its next  *)
(* init it may say anything.                                                  *)
HealthInv ==
    /\ scanner # "down" => (health.inFlight <=> Walking /\ ~cleared)
    /\ cleared => Walking
    /\ watcher = "up" => health.watcher = "running"
    /\ ~health.indexed => store = NoRecords \/ applied

(* Without a fault every process stays up, the one walk ends before the       *)
(* watcher starts, and so no window is ever flushed beside a walk.            *)
OneWalk ==
    /\ watcher # "down" /\ writerUp
    /\ scanner \in {"init", "idle"}
    /\ scanner = "init" => watcher = "boot"
    /\ watcher = "boot" => phase = "collect" /\ channel = <<>>

(* ... and nothing asks for a second one. *)
NoRescan ==
    /\ rescans = 0 /\ ~overflow /\ lost = {}
    /\ \A i \in DOMAIN channel : channel[i].kind # "Overflow"

CalmInv ==
    faults = 0 =>
        /\ OneWalk
        /\ NoRescan
        /\ \A n \in Note : exposed[n] \in {"none", "unwatched"}

=============================================================================
