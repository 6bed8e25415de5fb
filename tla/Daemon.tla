------------------------------- MODULE Daemon -------------------------------
(***************************************************************************)
(* The life of `anwesen serve`: systemd launches the process, the supervisor  *)
(* starts its four children one after the other and restarts those that      *)
(* exit, and main turns the way the tree ended into an exit code that tells   *)
(* systemd whether to launch again (app.rs, main.rs, deploy/anwesen.service). *)
(*                                                                         *)
(* Of the index only its first load is seen here; IndexPipeline has the rest. *)
(***************************************************************************)
EXTENDS Integers, Sequences, FiniteSets

CONSTANTS
    MaxRestarts,    \* the supervisor's limit on restarts in one window
    MaxFaults       \* bound on crashes of children and failures of the watch

ASSUME LimitAssumption == MaxRestarts \in Nat /\ MaxFaults \in Nat

Role == {"index_writer", "vault_scanner", "filesystem_watcher", "http_server"}

VARIABLES
    process,        \* "down", "starting", "running" or "exited"
    exitCode,
    stopped,        \* systemd was told to stop the unit
    started,        \* Anwesen.started
    up,             \* the children that run
    inits,          \* RoleCounter: how often each role's record_init ran
    restarts,       \* restarts the supervisor counts in its window
    rebuild,        \* a Rebuild waits in the mailbox of index_writer
    loaded,         \* the store holds the records of a walk
    watcherState,   \* HealthState.watcher_state
    taken,          \* another process holds the bind address
    orphan,         \* an http_server runs whose start has failed
    cameUp,         \* history: how often each role came up in this process
    writerCrashed,  \* history: index_writer exited in this process
    faults

environment == <<stopped, taken>>
tree == <<up, inits, restarts, rebuild, loaded, watcherState, orphan, cameUp, writerCrashed,
          faults>>
vars == <<process, exitCode, started, environment, tree>>

-----------------------------------------------------------------------------
(* Deliberate mistake: the scanner is started before the writer. *)
ChildrenScannerFirst == <<"vault_scanner", "index_writer", "filesystem_watcher", "http_server">>

\* The order in which the supervisor starts them.
Children == <<"index_writer", "vault_scanner", "filesystem_watcher", "http_server">>

\* RestartCounters.snapshot
Restarts(r) == IF inits[r] = 0 THEN 0 ELSE inits[r] - 1

Counted(r) == inits' = [inits EXCEPT ![r] = @ + 1]

CameUp(r) == up' = up \cup {r} /\ cameUp' = [cameUp EXCEPT ![r] = @ + 1]

WriterInit ==
    /\ CameUp("index_writer") /\ Counted("index_writer")
    /\ UNCHANGED <<rebuild, loaded, watcherState, orphan, writerCrashed, faults>>

\* init walks the vault and casts a Rebuild to the name of the writer; a cast
\* to a name nobody holds is dropped.
ScannerInit ==
    /\ CameUp("vault_scanner") /\ Counted("vault_scanner")
    /\ rebuild' = (rebuild \/ "index_writer" \in up)
    /\ UNCHANGED <<loaded, watcherState, orphan, writerCrashed, faults>>

\* Deliberate mistake: a watch that is bound again does not say so.
WatcherInitSilent ==
    /\ CameUp("filesystem_watcher") /\ Counted("filesystem_watcher")
    /\ UNCHANGED <<rebuild, loaded, watcherState, orphan, writerCrashed, faults>>

WatcherInit ==
    /\ CameUp("filesystem_watcher") /\ Counted("filesystem_watcher")
    /\ watcherState' = "running"
    /\ UNCHANGED <<rebuild, loaded, orphan, writerCrashed, faults>>

\* A listener that runs although its start failed keeps the address until the
\* tree ends and takes it along by its link.
AddressHeld == taken \/ (orphan /\ process = "running")

\* The child binds before it counts itself.
HttpInit ==
    /\ ~AddressHeld
    /\ CameUp("http_server") /\ Counted("http_server")
    /\ UNCHANGED <<rebuild, loaded, watcherState, orphan, writerCrashed, faults>>

ChildInit(r) ==
    \/ r = "index_writer" /\ WriterInit
    \/ r = "vault_scanner" /\ ScannerInit
    \/ r = "filesystem_watcher" /\ WatcherInit
    \/ r = "http_server" /\ HttpInit

(* The ways a start fails; what else ends with it is said where it happens.    *)

Fault == faults < MaxFaults /\ faults' = faults + 1

\* The watcher counts itself before it tries to bind.
WatcherInitFails ==
    /\ Fault /\ Counted("filesystem_watcher")
    /\ watcherState' = "degraded"
    /\ UNCHANGED orphan

\* Deliberate mistake: the counter runs ahead of the bind.
HttpBindFailsCounted ==
    /\ AddressHeld /\ Counted("http_server")
    /\ UNCHANGED <<watcherState, orphan, faults>>

HttpBindFails ==
    /\ AddressHeld
    /\ UNCHANGED <<inits, watcherState, orphan, faults>>

\* The listener is spawned and counted when its name is refused; the start
\* reports an error, but nobody stops the listener.
HttpRegisterFails ==
    /\ ~AddressHeld /\ Fault /\ Counted("http_server")
    /\ orphan' = TRUE
    /\ UNCHANGED watcherState

ChildInitFails(r) ==
    \/ r = "filesystem_watcher" /\ WatcherInitFails
    \/ r = "http_server" /\ (HttpBindFails \/ HttpRegisterFails)

-----------------------------------------------------------------------------
Zero == [r \in Role |-> 0]

Init ==
    /\ process = "down" /\ exitCode = 0 /\ started = FALSE
    /\ stopped = FALSE /\ taken \in BOOLEAN
    /\ up = {} /\ restarts = 0 /\ inits = Zero /\ cameUp = Zero
    /\ rebuild = FALSE /\ loaded = FALSE /\ writerCrashed = FALSE
    /\ watcherState = "running" /\ orphan = FALSE /\ faults = 0

\* Deliberate mistake: main does not look at `started`.
ExitsAlwaysZero == process' = "exited" /\ exitCode' = 0 /\ up' = {}

\* Application::run returns however the tree ended; main asks `started`.
Exits == process' = "exited" /\ exitCode' = (IF started THEN 0 ELSE 1) /\ up' = {}

\* systemd starts the unit, and again after a failure (Restart=on-failure).
Launch ==
    /\ ~stopped
    /\ process = "down" \/ (process = "exited" /\ exitCode # 0)
    /\ process' = "starting" /\ started' = FALSE
    /\ up' = {} /\ restarts' = 0 /\ inits' = Zero /\ cameUp' = Zero
    /\ rebuild' = FALSE /\ loaded' = FALSE /\ writerCrashed' = FALSE
    /\ watcherState' = "running" /\ orphan' = FALSE
    /\ UNCHANGED <<exitCode, environment, faults>>

\* start_link starts the children in order, each to the end of its init.
StartChild ==
    /\ process = "starting" /\ Cardinality(up) < Len(Children)
    /\ ChildInit(Children[Cardinality(up) + 1])
    /\ UNCHANGED <<process, exitCode, started, environment, restarts>>

\* A child that fails to start fails the whole start.
StartFails ==
    /\ process = "starting" /\ Cardinality(up) < Len(Children)
    /\ ChildInitFails(Children[Cardinality(up) + 1])
    /\ Exits
    /\ UNCHANGED <<started, environment, restarts, rebuild, loaded, cameUp, writerCrashed>>

TreeUp ==
    /\ process = "starting" /\ up = Role
    /\ process' = "running" /\ started' = TRUE
    /\ UNCHANGED <<exitCode, environment, tree>>

\* handle_cast(Rebuild)
ApplyRebuild ==
    /\ rebuild /\ "index_writer" \in up
    /\ rebuild' = FALSE /\ loaded' = TRUE
    /\ UNCHANGED <<process, exitCode, started, environment, up, inits, restarts, watcherState,
                   orphan, cameUp, writerCrashed, faults>>

\* A child exits; the mailbox of the writer goes with it.
ChildExits(r) ==
    /\ process = "running" /\ r \in up /\ faults < MaxFaults
    /\ faults' = faults + 1
    /\ up' = up \ {r}
    /\ rebuild' = (rebuild /\ r # "index_writer")
    /\ writerCrashed' = (writerCrashed \/ r = "index_writer")
    /\ UNCHANGED <<process, exitCode, started, environment, inits, restarts, loaded, watcherState,
                   orphan, cameUp>>

\* one_for_one: a child that exited is started again, and again if that fails,
\* while the window has room for one more restart.
RestartChild(r) ==
    /\ process = "running" /\ r \notin up /\ restarts < MaxRestarts
    /\ restarts' = restarts + 1
    /\ \/ ChildInit(r)
       \/ /\ ChildInitFails(r)
          /\ UNCHANGED <<up, rebuild, loaded, cameUp, writerCrashed>>
    /\ UNCHANGED <<process, exitCode, started, environment>>

\* Deliberate mistake: the retries are so slow that each has a window of its own.
QuietWhileDown ==
    /\ process = "running" /\ restarts > 0
    /\ restarts' = 0
    /\ UNCHANGED <<process, exitCode, started, environment, up, inits, rebuild, loaded,
                   watcherState, orphan, cameUp, writerCrashed, faults>>

\* The window passes; a child that is down is retried without a delay.
Quiet ==
    /\ process = "running" /\ up = Role /\ restarts > 0
    /\ restarts' = 0
    /\ UNCHANGED <<process, exitCode, started, environment, up, inits, rebuild, loaded,
                   watcherState, orphan, cameUp, writerCrashed, faults>>

\* One restart too many: the supervisor takes the tree down with it.
TreeFails ==
    /\ process = "running" /\ up # Role /\ restarts = MaxRestarts
    /\ Exits
    /\ UNCHANGED <<started, environment, inits, restarts, rebuild, loaded, watcherState,
                   orphan, cameUp, writerCrashed, faults>>

\* systemctl stop: SIGTERM, and no launch afterwards.
Stop ==
    /\ process = "running"
    /\ stopped' = TRUE
    /\ Exits
    /\ UNCHANGED <<started, taken, inits, restarts, rebuild, loaded, watcherState, orphan, cameUp,
                   writerCrashed, faults>>

\* Somebody takes the bind address while the daemon does not hold it, or gives
\* it back.
AddressChange ==
    /\ "http_server" \notin up /\ ~(orphan /\ process = "running")
    /\ taken' = ~taken
    /\ UNCHANGED <<process, exitCode, started, stopped, tree>>

Next ==
    \/ Launch \/ StartChild \/ StartFails \/ TreeUp
    \/ ApplyRebuild \/ Quiet \/ TreeFails \/ Stop \/ AddressChange
    \/ \E r \in Role : ChildExits(r) \/ RestartChild(r)

Spec == Init /\ [][Next]_vars

\* systemd launches, and the tree starts and restarts its children, as long as
\* they can.  Nobody has to stop the unit, crash, or move the address.
FairSpec ==
    /\ Spec
    /\ WF_vars(Launch) /\ WF_vars(StartChild) /\ WF_vars(StartFails) /\ WF_vars(TreeUp)
    /\ WF_vars(ApplyRebuild) /\ WF_vars(TreeFails)
    /\ \A r \in Role : WF_vars(RestartChild(r))

-----------------------------------------------------------------------------
(* Properties. *)

\* Shape of the state, and what the program keeps of it: a watcher that runs has
\* said so (FilesystemWatcherState::init).
TypeOK ==
    /\ process \in {"down", "starting", "running", "exited"}
    /\ exitCode \in {0, 1}
    /\ started \in BOOLEAN /\ stopped \in BOOLEAN /\ taken \in BOOLEAN
    /\ rebuild \in BOOLEAN /\ loaded \in BOOLEAN /\ writerCrashed \in BOOLEAN
    /\ orphan \in BOOLEAN
    /\ up \subseteq Role /\ cameUp \in [Role -> Nat] /\ inits \in [Role -> Nat]
    /\ restarts \in 0..MaxRestarts /\ faults \in 0..MaxFaults
    /\ watcherState \in {"running", "degraded"}
    /\ "filesystem_watcher" \in up => watcherState = "running"

\* The records of the startup walk are never lost between the scanner and the
\* store unless the writer died with them: wherever the scanner came up, a
\* Rebuild waits or has been applied, and no later crash of any child empties
\* the store (Anwesen::start, the comment on the order of the children).
WalkReachesStore ==
    process \in {"starting", "running"} /\ cameUp["vault_scanner"] > 0 /\ ~writerCrashed =>
        rebuild \/ loaded

\* The counters of /health tell how often a child came back: every return is
\* counted, and what is counted beyond the returns is an attempt that failed after
\* its count, of the watcher to bind or of the server to register; the server's
\* attempts at an address it does not get are never counted, however many
\* (record_init and its place in each init).
CountersMatch ==
    /\ \A r \in Role : cameUp[r] > 0 => Restarts(r) >= cameUp[r] - 1
    /\ \A r \in {"index_writer", "vault_scanner"} : inits[r] = cameUp[r]
    /\ (inits["filesystem_watcher"] - cameUp["filesystem_watcher"])
         + (inits["http_server"] - cameUp["http_server"]) <= faults

\* A running daemon does not stay without a supervised listener: http_server comes
\* back or the tree gives up, also when the address is held by the daemon's own
\* listener of a start that failed after its bind, so that no retry can succeed
\* (HttpServer::child_spec).
ListenerReturns ==
    process = "running" /\ "http_server" \notin up ~> "http_server" \in up \/ process = "exited"

\* A start that failed is tried again until it succeeds: if the address becomes
\* and stays free, a daemon that never came up comes to serve, however often it
\* failed before (main.rs, ANW-45; tests/serve_start_failure.rs).
RetriedUntilServing ==
    <>[]~taken => (process = "exited" /\ ~started ~> "http_server" \in up)

\* deploy/README.md: the unit "restarts it on failure"; only a daemon that was
\* stopped exits with success.
CrashFailsTheUnit == process = "exited" /\ ~stopped => exitCode # 0

=============================================================================
