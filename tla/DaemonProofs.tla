---------------------------- MODULE DaemonProofs ----------------------------
(***************************************************************************)
(* The safety properties of the supervisor tree, for every restart limit and  *)
(* any number of faults.                                                    *)
(*                                                                         *)
(* WalkReachesStore is not inductive: it rests on the order in which the     *)
(* children start (what runs while the tree starts is a beginning of it) and *)
(* on a writer that has not crashed being there.                            *)
(***************************************************************************)
EXTENDS Daemon, FiniteSetTheorems, TLAPS

Started(k) == {Children[i] : i \in 1..k}

StartsInOrder == process = "starting" => \E k \in 0..4 : up = Started(k)
WriterThere == process = "running" /\ ~writerCrashed => "index_writer" \in up

InitsCover == \A r \in Role : inits[r] >= cameUp[r]

IInv ==
    TypeOK /\ WalkReachesStore /\ CountersMatch /\ StartsInOrder /\ WriterThere /\ InitsCover

-----------------------------------------------------------------------------
LEMMA StartedCount == \A k \in 0..4 : Cardinality(Started(k)) = k
<1>1. /\ Started(0) = {}
      /\ Started(1) = {"index_writer"}
      /\ Started(2) = {"index_writer", "vault_scanner"}
      /\ Started(3) = {"index_writer", "vault_scanner", "filesystem_watcher"}
      /\ Started(4) = {"index_writer", "vault_scanner", "filesystem_watcher", "http_server"}
  BY DEF Started, Children
<1>2. Cardinality(Started(0)) = 0 /\ IsFiniteSet(Started(0))
  BY <1>1, FS_EmptySet
<1>3. Cardinality(Started(1)) = 1 /\ IsFiniteSet(Started(1))
  BY <1>1, FS_Singleton
<1>4. Started(2) = Started(1) \cup {"vault_scanner"} /\ "vault_scanner" \notin Started(1)
  BY <1>1
<1>5. Cardinality(Started(2)) = 2 /\ IsFiniteSet(Started(2))
  BY <1>3, <1>4, FS_AddElement
<1>6. Started(3) = Started(2) \cup {"filesystem_watcher"} /\ "filesystem_watcher" \notin Started(2)
  BY <1>1
<1>7. Cardinality(Started(3)) = 3 /\ IsFiniteSet(Started(3))
  BY <1>5, <1>6, FS_AddElement
<1>8. Started(4) = Started(3) \cup {"http_server"} /\ "http_server" \notin Started(3)
  BY <1>1
<1>9. Cardinality(Started(4)) = 4
  BY <1>7, <1>8, FS_AddElement
<1> QED
  BY <1>2, <1>3, <1>5, <1>7, <1>9

\* What comes up next is the child the order says, with those before it there.
LEMMA NextChild ==
    ASSUME StartsInOrder, process = "starting", Cardinality(up) < Len(Children)
    PROVE  \E k \in 0..3 :
              /\ up = Started(k)
              /\ Cardinality(up) + 1 = k + 1
              /\ up \cup {Children[k + 1]} = Started(k + 1)
<1>1. PICK k \in 0..4 : up = Started(k)
  BY DEF StartsInOrder
<1>2. Cardinality(up) = k
  BY <1>1, StartedCount
<1>3. k \in 0..3
  BY <1>2 DEF Children
<1>4. Started(k) \cup {Children[k + 1]} = Started(k + 1)
  BY <1>3 DEF Started
<1> QED
  BY <1>1, <1>2, <1>3, <1>4

\* A child that comes up, first or again, keeps types and counters.
LEMMA ChildInitKeeps ==
    ASSUME NEW r \in Role, r \notin up, TypeOK, CountersMatch, InitsCover, ChildInit(r),
           process' \in {"starting", "running"}, restarts' \in 0..MaxRestarts,
           UNCHANGED <<exitCode, started, environment>>
    PROVE  /\ TypeOK' /\ CountersMatch' /\ InitsCover'
           /\ orphan' = orphan /\ up' = up \cup {r} /\ writerCrashed' = writerCrashed
           /\ loaded' = loaded /\ (rebuild => rebuild')
           /\ r = "vault_scanner" /\ "index_writer" \in up => rebuild'
           /\ r # "vault_scanner" => cameUp'["vault_scanner"] = cameUp["vault_scanner"]
<1>1. CameUp(r) /\ Counted(r)
  BY DEF ChildInit, WriterInit, ScannerInit, WatcherInit, HttpInit
<1>2. cameUp' \in [Role -> Nat] /\ inits' \in [Role -> Nat]
  BY <1>1 DEF CameUp, Counted, TypeOK
<1>3. CountersMatch' /\ InitsCover'
  <2>1. \A q \in Role : /\ cameUp'[q] = cameUp[q] + (IF q = r THEN 1 ELSE 0)
                        /\ inits'[q] = inits[q] + (IF q = r THEN 1 ELSE 0)
                        /\ cameUp[q] \in Nat /\ inits[q] \in Nat
    BY <1>1 DEF CameUp, Counted, TypeOK
  <2>2. \A q \in Role : inits'[q] - cameUp'[q] = inits[q] - cameUp[q]
    BY <2>1
  <2>3. InitsCover'
    BY <2>1 DEF InitsCover
  <2>4. faults' = faults
    BY DEF ChildInit, WriterInit, ScannerInit, WatcherInit, HttpInit
  <2>5. \A q \in Role : cameUp'[q] > 0 => Restarts(q)' >= cameUp'[q] - 1
    BY <2>1, <2>3 DEF InitsCover, Restarts
  <2>6. \A q \in {"index_writer", "vault_scanner"} : inits'[q] = cameUp'[q]
    BY <2>1 DEF CountersMatch, Role
  <2>7. /\ inits'["filesystem_watcher"] - cameUp'["filesystem_watcher"] =
              inits["filesystem_watcher"] - cameUp["filesystem_watcher"]
        /\ inits'["http_server"] - cameUp'["http_server"] =
              inits["http_server"] - cameUp["http_server"]
    BY <2>2 DEF Role
  <2> QED
    BY <2>3, <2>4, <2>5, <2>6, <2>7 DEF CountersMatch
<1>4. /\ loaded' = loaded /\ writerCrashed' = writerCrashed /\ orphan' = orphan
      /\ faults' = faults
      /\ watcherState' \in {"running", "degraded"}
      /\ rebuild => rebuild'
      /\ r = "vault_scanner" /\ "index_writer" \in up => rebuild'
  BY DEF ChildInit, WriterInit, ScannerInit, WatcherInit, HttpInit, TypeOK
<1>8. rebuild' \in BOOLEAN
  BY DEF ChildInit, WriterInit, ScannerInit, WatcherInit, HttpInit, TypeOK
<1>5. "filesystem_watcher" \in up' => watcherState' = "running"
  BY <1>1 DEF ChildInit, WriterInit, ScannerInit, WatcherInit, HttpInit, TypeOK, CameUp
<1>6. TypeOK'
  BY <1>1, <1>2, <1>4, <1>5, <1>8 DEF TypeOK, CameUp, environment
<1>7. r # "vault_scanner" => cameUp'["vault_scanner"] = cameUp["vault_scanner"]
  BY <1>1 DEF CameUp, TypeOK, Role
<1> QED
  BY <1>1, <1>3, <1>4, <1>6, <1>7 DEF CameUp

\* A start that fails may have counted itself, but then it was a fault.
LEMMA FailsKeeps ==
    ASSUME NEW r \in Role, TypeOK, CountersMatch, InitsCover, LimitAssumption,
           ChildInitFails(r), cameUp' = cameUp
    PROVE  /\ inits' \in [Role -> Nat] /\ orphan' \in BOOLEAN /\ faults' \in 0..MaxFaults
           /\ watcherState' \in {"running", "degraded"}
           /\ r # "filesystem_watcher" => watcherState' = watcherState
           /\ CountersMatch' /\ InitsCover'
<1>0. /\ inits \in [Role -> Nat] /\ cameUp \in [Role -> Nat]
      /\ \A q \in Role : inits[q] \in Nat /\ cameUp[q] \in Nat
      /\ faults \in 0..MaxFaults /\ MaxFaults \in Nat
  BY DEF TypeOK, LimitAssumption
<1>1. ASSUME NEW q \in {"filesystem_watcher", "http_server"}, Counted(q), Fault
      PROVE  /\ inits' \in [Role -> Nat] /\ faults' \in 0..MaxFaults
             /\ CountersMatch' /\ InitsCover'
  <2>1. /\ inits' \in [Role -> Nat]
        /\ \A p \in Role : inits'[p] = inits[p] + (IF p = q THEN 1 ELSE 0)
    BY <1>0, <1>1 DEF Counted, Role
  <2>2. faults' = faults + 1 /\ faults' \in 0..MaxFaults
    BY <1>0, <1>1 DEF Fault
  <2>3. InitsCover'
    BY <1>0, <2>1 DEF InitsCover
  <2>4. CountersMatch'
    BY <1>0, <2>1, <2>2 DEF CountersMatch, InitsCover, Restarts, Role
  <2> QED
    BY <2>1, <2>2, <2>3, <2>4
<1>2. CASE WatcherInitFails /\ r = "filesystem_watcher"
  <2>1. Counted("filesystem_watcher") /\ Fault
    BY <1>2 DEF WatcherInitFails
  <2> QED
    BY <1>1, <1>2, <2>1 DEF WatcherInitFails, TypeOK
<1>3. CASE HttpBindFails
  <2>1. UNCHANGED <<inits, watcherState, orphan, faults>>
    BY <1>3 DEF HttpBindFails
  <2> QED
    BY <1>0, <2>1 DEF TypeOK, CountersMatch, InitsCover, Restarts
<1>4. CASE HttpRegisterFails
  <2>1. Counted("http_server") /\ Fault /\ orphan' = TRUE /\ watcherState' = watcherState
    BY <1>4 DEF HttpRegisterFails
  <2> QED
    BY <1>1, <2>1 DEF TypeOK
<1> QED
  BY <1>2, <1>3, <1>4 DEF ChildInitFails

LEMMA InitIInv == LimitAssumption /\ Init => IInv
<1> SUFFICES ASSUME LimitAssumption, Init
             PROVE  IInv
  OBVIOUS
<1>1. TypeOK
  <2>0. orphan \in BOOLEAN
    BY Zenon DEF Init
  <2>1. started \in BOOLEAN /\ stopped \in BOOLEAN /\ taken \in BOOLEAN
    BY Zenon DEF Init
  <2>2. rebuild \in BOOLEAN /\ loaded \in BOOLEAN /\ writerCrashed \in BOOLEAN
    BY Zenon DEF Init
  <2> QED
    BY <2>0, <2>1, <2>2 DEF LimitAssumption, Init, TypeOK, Zero
<1>2. WalkReachesStore /\ StartsInOrder /\ WriterThere
  BY DEF Init, WalkReachesStore, StartsInOrder, WriterThere
<1>3. CountersMatch /\ InitsCover
  BY DEF LimitAssumption, Init, CountersMatch, InitsCover, Zero, Role, Restarts
<1> QED
  BY <1>1, <1>2, <1>3 DEF IInv

LEMMA StartChildKeeps ==
    ASSUME IInv, StartChild
    PROVE  IInv'
<1>1. PICK k \in 0..3 : /\ up = Started(k)
                        /\ Cardinality(up) + 1 = k + 1
                        /\ up \cup {Children[k + 1]} = Started(k + 1)
  BY NextChild DEF IInv, StartChild
<1> DEFINE r == Children[k + 1]
<1>2. r \in Role /\ r \notin up /\ ChildInit(r)
  BY <1>1 DEF StartChild, Started, Children, Role
<1>3. /\ TypeOK' /\ CountersMatch' /\ InitsCover'
      /\ up' = up \cup {r} /\ writerCrashed' = writerCrashed
      /\ loaded' = loaded /\ (rebuild => rebuild')
      /\ r = "vault_scanner" /\ "index_writer" \in up => rebuild'
      /\ r # "vault_scanner" => cameUp'["vault_scanner"] = cameUp["vault_scanner"]
  BY <1>2, ChildInitKeeps DEF IInv, StartChild, TypeOK
<1>4. r = "vault_scanner" => "index_writer" \in up
  BY <1>1 DEF Started, Children
<1>5. WalkReachesStore'
  BY <1>3, <1>4 DEF StartChild, IInv, WalkReachesStore
<1>6. StartsInOrder'
  BY <1>1, <1>3 DEF StartsInOrder
<1> QED
  BY <1>3, <1>5, <1>6 DEF IInv, WriterThere, StartChild

LEMMA RestartChildKeeps ==
    ASSUME IInv, LimitAssumption, NEW r \in Role, RestartChild(r)
    PROVE  IInv'
<1>1. CASE ChildInit(r)
  <2>1. /\ TypeOK' /\ CountersMatch' /\ InitsCover'
        /\ up' = up \cup {r} /\ writerCrashed' = writerCrashed
        /\ loaded' = loaded /\ (rebuild => rebuild')
        /\ r = "vault_scanner" /\ "index_writer" \in up => rebuild'
        /\ r # "vault_scanner" => cameUp'["vault_scanner"] = cameUp["vault_scanner"]
    BY <1>1, ChildInitKeeps DEF IInv, RestartChild, TypeOK, LimitAssumption
  <2> QED
    BY <2>1 DEF IInv, WalkReachesStore, StartsInOrder, WriterThere, RestartChild
<1>2. CASE ChildInitFails(r) /\ UNCHANGED <<up, rebuild, loaded, cameUp, writerCrashed>>
  <2>1. /\ inits' \in [Role -> Nat] /\ orphan' \in BOOLEAN /\ faults' \in 0..MaxFaults
        /\ watcherState' \in {"running", "degraded"}
        /\ r # "filesystem_watcher" => watcherState' = watcherState
        /\ CountersMatch' /\ InitsCover'
    BY <1>2, FailsKeeps DEF IInv
  <2>2. "filesystem_watcher" \in up => r # "filesystem_watcher"
    BY DEF RestartChild
  <2>3. TypeOK'
    BY <1>2, <2>1, <2>2 DEF IInv, TypeOK, RestartChild, environment, LimitAssumption
  <2> QED
    BY <1>2, <2>1, <2>3 DEF IInv, WalkReachesStore, StartsInOrder, WriterThere, RestartChild
<1> QED
  BY <1>1, <1>2 DEF RestartChild

\* The steps that start no child.
LEMMA OtherStepsKeep ==
    ASSUME IInv, LimitAssumption,
           \/ Launch \/ StartFails \/ TreeUp \/ ApplyRebuild \/ Quiet \/ TreeFails \/ Stop
           \/ AddressChange \/ (\E r \in Role : ChildExits(r)) \/ UNCHANGED vars
    PROVE  IInv'
<1> USE DEF IInv, TypeOK, WalkReachesStore, CountersMatch, Restarts, StartsInOrder, WriterThere,
        InitsCover, environment, LimitAssumption
<1>1. CASE Launch
  <2>1. up' = Started(0)
    BY <1>1 DEF Launch, Started
  <2>2. TypeOK'
    <3>1. started' \in BOOLEAN /\ stopped' \in BOOLEAN /\ taken' \in BOOLEAN
      BY <1>1, Zenon DEF Launch
    <3>2. rebuild' \in BOOLEAN /\ loaded' \in BOOLEAN /\ writerCrashed' \in BOOLEAN
      BY <1>1, Zenon DEF Launch
    <3>3. orphan' \in BOOLEAN
      BY <1>1, Zenon DEF Launch
    <3> QED
      BY <1>1, <3>1, <3>2, <3>3 DEF Launch, Zero
  <2>3. CountersMatch' /\ InitsCover'
    BY <1>1 DEF Launch, Zero, Role
  <2>4. WalkReachesStore' /\ WriterThere'
    BY <1>1 DEF Launch, Zero, Role
  <2>5. StartsInOrder'
    BY <2>1
  <2> QED
    BY <2>2, <2>3, <2>4, <2>5
<1>2. CASE StartFails
  <2>1. PICK k \in 0..3 : Cardinality(up) + 1 = k + 1
    BY <1>2, NextChild DEF StartFails
  <2> DEFINE r == Children[k + 1]
  <2>2. r \in Role /\ ChildInitFails(r)
    BY <1>2, <2>1 DEF StartFails, Children, Role
  <2>3. cameUp' = cameUp
    BY <1>2 DEF StartFails
  <2>4. /\ inits' \in [Role -> Nat] /\ orphan' \in BOOLEAN /\ faults' \in 0..MaxFaults
        /\ watcherState' \in {"running", "degraded"}
        /\ CountersMatch' /\ InitsCover'
    BY <2>2, <2>3, FailsKeeps
  <2> QED
    BY <1>2, <2>3, <2>4 DEF StartFails, Exits
<1>3. CASE TreeUp
  BY <1>3 DEF TreeUp, tree, Role
<1>4. CASE ApplyRebuild
  BY <1>4 DEF ApplyRebuild
<1>5. CASE Quiet
  BY <1>5 DEF Quiet
<1>6. CASE TreeFails
  BY <1>6 DEF TreeFails, Exits
<1>7. CASE Stop
  BY <1>7 DEF Stop, Exits
<1>8. CASE AddressChange
  BY <1>8 DEF AddressChange, tree
<1>9. CASE \E r \in Role : ChildExits(r)
  <2>1. PICK r \in Role : ChildExits(r)
    BY <1>9
  <2>2. rebuild' \in BOOLEAN /\ writerCrashed' \in BOOLEAN
    BY <2>1 DEF ChildExits
  <2>3. TypeOK'
    BY <2>1, <2>2 DEF ChildExits
  <2>4. WalkReachesStore' /\ WriterThere'
    BY <2>1 DEF ChildExits
  <2>5. /\ inits \in [Role -> Nat] /\ cameUp \in [Role -> Nat]
        /\ faults \in Nat /\ faults' = faults + 1 /\ UNCHANGED <<inits, cameUp>>
    BY <2>1 DEF ChildExits
  <2>6. CountersMatch' /\ InitsCover'
    BY <2>5 DEF Role
  <2>7. StartsInOrder'
    BY <2>1 DEF ChildExits
  <2> QED
    BY <2>3, <2>4, <2>6, <2>7
<1>10. CASE UNCHANGED vars
  BY <1>10 DEF vars, tree
<1> QED
  BY <1>1, <1>2, <1>3, <1>4, <1>5, <1>6, <1>7, <1>8, <1>9, <1>10

LEMMA NextIInv == LimitAssumption /\ IInv /\ [Next]_vars => IInv'
  BY StartChildKeeps, RestartChildKeeps, OtherStepsKeep DEF Next

LEMMA AlwaysIInv == Spec => []IInv
  BY InitIInv, NextIInv, LimitAssumption, PTL DEF Spec

\* Types are kept, and a watcher that runs has reported that it does
\* (FilesystemWatcherState::init).
THEOREM TypeCorrect == Spec => []TypeOK
<1>1. IInv => TypeOK
  BY DEF IInv
<1> QED
  BY <1>1, AlwaysIInv, PTL

\* The records of the startup walk reach the store, whatever fails and however
\* often the tree restarts its children, unless index_writer itself crashed
\* (Anwesen::start, the order of the children).
THEOREM WalkKept == Spec => []WalkReachesStore
<1>1. IInv => WalkReachesStore
  BY DEF IInv
<1> QED
  BY <1>1, AlwaysIInv, PTL

\* The restart counters of /health count every return of a child, and beyond the
\* returns no more than the attempts that failed after their count; an address
\* that is held by another process is not among them (RoleCounter::record_init
\* and where each init calls it).
THEOREM CountersCorrect == Spec => []CountersMatch
<1>1. IInv => CountersMatch
  BY DEF IInv
<1> QED
  BY <1>1, AlwaysIInv, PTL

=============================================================================
