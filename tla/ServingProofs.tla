---------------------------- MODULE ServingProofs ----------------------------
(***************************************************************************)
(* For every set of requests and every environment: nothing about telemetry *)
(* is dropped in silence, the counters are the answers, the labels tell notes *)
(* from folders, and what was answered has been exported at the exit.        *)
(***************************************************************************)
EXTENDS Serving, SequenceFacts, FiniteSetTheorems, TLAPS

-----------------------------------------------------------------------------
(* Configuration.                                                            *)

Resolved == ResolveConfig(start.options, FromEnv(start.environment))

ConfigInv ==
    /\ start \in Starts
    /\ process \in {"starting", "serving", "draining", "down", "exited"}
    /\ process \in {"serving", "draining", "down"} =>
         /\ Resolved # "error"
         /\ telemetry = Resolved \/ (Resolved = "on" /\ telemetry = "shut")

LEMMA ConfigInit == Init => ConfigInv
BY DEF Init, ConfigInv

LEMMA ConfigStep == ConfigInv /\ [Next]_vars => ConfigInv'
<1> SUFFICES ASSUME ConfigInv, [Next]_vars PROVE ConfigInv'
  OBVIOUS
<1>1. start' = start /\ Resolved' = Resolved
  BY DEF Next, vars, Serve, Arrive, HandlerEnds, HandlerPanics, Respond, Disconnect,
         ShutdownSignal, Drained, Export, Shutdown, Exit, Resolved
<1>2. CASE Serve
  BY <1>1, <1>2 DEF Serve, ConfigInv, Resolved
<1>3. CASE ShutdownSignal
  BY <1>1, <1>3 DEF ShutdownSignal, ConfigInv
<1>4. CASE Drained
  BY <1>1, <1>4 DEF Drained, ConfigInv
<1>5. CASE Exit
  BY <1>1, <1>5 DEF Exit, ConfigInv
<1>11. CASE Shutdown
  BY <1>1, <1>11 DEF Shutdown, ConfigInv
<1>6. ASSUME UNCHANGED <<telemetry, process>> PROVE ConfigInv'
  BY <1>1, <1>6 DEF ConfigInv
<1>12. CASE Export
  BY <1>6, <1>12 DEF Export
<1>7. ASSUME NEW s \in Slot, NEW r \in Requests, Arrive(s, r) PROVE ConfigInv'
  BY <1>6, <1>7 DEF Arrive
<1>8. ASSUME NEW s \in Slot, NEW code, HandlerEnds(s, code) PROVE ConfigInv'
  BY <1>6, <1>8 DEF HandlerEnds
<1>9. ASSUME NEW s \in Slot, HandlerPanics(s) \/ Respond(s) \/ Disconnect(s) PROVE ConfigInv'
  BY <1>6, <1>9 DEF HandlerPanics, Respond, Disconnect
<1>10. CASE UNCHANGED vars
  BY <1>6, <1>10 DEF vars
<1> QED
  BY <1>2, <1>3, <1>4, <1>5, <1>7, <1>8, <1>9, <1>10, <1>11, <1>12 DEF Next

LEMMA ConfigTells == ConfigInv => NothingDropped
<1> SUFFICES ASSUME ConfigInv, process \in {"serving", "draining", "down"}
             PROVE  NothingDropped
  BY DEF NothingDropped
<1> DEFINE set == {v \in EndpointVar \cup ProtocolVar :
                      start.environment[v] \notin Blank \cup {Unset}}
           env == FromEnv(start.environment)
<1>1. /\ start \in Starts /\ Resolved # "error"
      /\ telemetry = Resolved \/ (Resolved = "on" /\ telemetry = "shut")
      /\ start.options \subseteq RemovedOption
      /\ \A v \in EndpointVar : start.environment[v] # Localhost
  BY ServingAssumption DEF ConfigInv
<1>2. \A v \in EndpointVar \cup ProtocolVar :
         /\ env[v] # Unset <=> v \in set
         /\ v \in set => env[v] = TrimmedValue(start.environment[v])
  BY TrimAssumption DEF FromEnv, TrimmedValue
<1>3. Resolved = IF ~NoneRemoved(start.options) THEN "error"
                 ELSE IF ~AnyEndpoint(env) THEN "off"
                 ELSE IF GenericEndpointFits(env) /\ ProtocolsSpoken(env) THEN "on" ELSE "error"
  BY DEF Resolved, ResolveConfig
<1> HIDE DEF env, set
<1>4. start.options = {}
  BY <1>1, <1>3 DEF NoneRemoved
<1>5. (telemetry # "off") = (set \cap EndpointVar # {})
  <2>1. AnyEndpoint(env) <=> set \cap EndpointVar # {}
    BY <1>2 DEF AnyEndpoint
  <2>2. telemetry # "off" <=> AnyEndpoint(env)
    BY <1>1, <1>3
  <2> QED
    BY <2>1, <2>2
<1>6. ASSUME telemetry # "off"
      PROVE  GenericEndpointFits(env) /\ ProtocolsSpoken(env)
  BY <1>1, <1>3, <1>6
<1>7. ASSUME telemetry # "off", NEW v \in set \cap ProtocolVar
      PROVE  TrimmedValue(start.environment[v]) = SupportedProtocol
  BY <1>2, <1>6, <1>7 DEF ProtocolsSpoken
<1>8. ASSUME telemetry # "off", NEW signal \in Signal,
             NEW named, named = IF OwnEndpoint(signal) \in set THEN OwnEndpoint(signal) ELSE "ENDPOINT",
             named \in set, start.environment[named] \notin DOMAIN Trim
      PROVE  /\ ExportUrl(start.environment, signal).base = start.environment[named]
             /\ Arrives(ExportUrl(start.environment, signal))
  <2> DEFINE url == start.environment[named]
  <2>1. OwnEndpoint(signal) \in EndpointVar /\ "ENDPOINT" \in EndpointVar
    BY DEF OwnEndpoint, EndpointVar, Signal
  <2>2. \A v \in EndpointVar : v \in set <=> start.environment[v] \notin Blank \cup {Unset}
    BY DEF set
  <2>3. named \in EndpointVar /\ url # Localhost /\ IsUrl(url)
    BY <1>1, <1>8, <2>1, <2>2 DEF IsUrl
  <2>4. CASE OwnEndpoint(signal) \in set
    <3> DEFINE exportUrl == [base |-> url, path |-> ""]
    <3>1. ExportUrl(start.environment, signal) = exportUrl
      BY <1>8, <2>3, <2>4 DEF ExportUrl
    <3>2. exportUrl.base = url /\ Arrives(exportUrl)
      BY <2>3 DEF Arrives
    <3> HIDE DEF exportUrl
    <3> QED
      BY <3>1, <3>2
  <2>5. CASE OwnEndpoint(signal) \notin set
    <3>1. named = "ENDPOINT" /\ ~IsUrl(start.environment[OwnEndpoint(signal)])
      BY <1>8, <2>1, <2>2, <2>5 DEF IsUrl
    <3>2. ExportUrl(start.environment, signal) = [base |-> url, path |-> signal]
      BY <2>3, <3>1 DEF ExportUrl
    <3>3. env["ENDPOINT"] = url
      BY <1>2, <1>8, <2>1, <3>1 DEF TrimmedValue
    <3>4. url \notin WithTail
      BY <1>6, <1>8, <3>3 DEF GenericEndpointFits
    <3>5. Arrives([base |-> url, path |-> signal])
      BY <2>3, <3>4 DEF Arrives
    <3> QED
      BY <3>2, <3>5
  <2> QED
    BY <2>4, <2>5
<1> QED
  BY <1>4, <1>5, <1>7, <1>8 DEF NothingDropped, set

(* A daemon that serves was given no removed option, exports if and only if   *)
(* an endpoint is set, and every signal with a URL arrives there, unless       *)
(* white space surrounds the URL (resolve, from_env).                         *)
THEOREM ConfigHolds == Spec => []NothingDropped
<1> QED
  BY ConfigInit, ConfigStep, ConfigTells, PTL DEF Spec

-----------------------------------------------------------------------------
(* Counting.                                                                 *)

\* The bag of the labels that `label` gives the members of S.
Tally(label, S) == [l \in {label[s] : s \in S} |-> Cardinality({s \in S : label[s] = l})]

LEMMA TallySame ==
    ASSUME NEW S, NEW label, NEW new, \A r \in S : new[r] = label[r]
    PROVE  Tally(new, S) = Tally(label, S)
<1>1. {new[r] : r \in S} = {label[r] : r \in S}
  OBVIOUS
<1>2. \A l : {r \in S : new[r] = l} = {r \in S : label[r] = l}
  OBVIOUS
<1> QED
  BY <1>1, <1>2 DEF Tally

LEMMA TallyOneMore ==
    ASSUME NEW S, IsFiniteSet(S), NEW s, s \notin S, NEW label
    PROVE  Tally(label, S \cup {s}) = Tally(label, S) (+) SetToBag({label[s]})
<1> DEFINE Of(T, l) == {r \in T : label[r] = l}
           old == Tally(label, S)
           new == Tally(label, S \cup {s})
           sum == old (+) SetToBag({label[s]})
           labels == {label[r] : r \in S}
<1>1. /\ new = [l \in {label[r] : r \in S \cup {s}} |-> Cardinality(Of(S \cup {s}, l))]
      /\ old = [l \in labels |-> Cardinality(Of(S, l))]
  BY DEF Tally
<1>2. {label[r] : r \in S \cup {s}} = labels \cup {label[s]}
  OBVIOUS
<1>3. /\ DOMAIN SetToBag({label[s]}) = {label[s]}
      /\ SetToBag({label[s]})[label[s]] = 1
  BY DEF SetToBag
<1>4. sum = [l \in labels \cup {label[s]} |->
                (IF l \in labels THEN old[l] ELSE 0) + (IF l = label[s] THEN 1 ELSE 0)]
  <2> HIDE DEF labels
  <2>1. DOMAIN old = labels
    BY <1>1
  <2> HIDE DEF old
  <2> QED
    BY <1>3, <2>1 DEF (+)
<1>5. ASSUME NEW l \in labels \cup {label[s]}
      PROVE  Cardinality(Of(S \cup {s}, l)) =
                (IF l \in labels THEN old[l] ELSE 0) + (IF l = label[s] THEN 1 ELSE 0)
  <2>1. IsFiniteSet(Of(S, l)) /\ s \notin Of(S, l)
    BY FS_Subset
  <2>2. Cardinality(Of(S, l)) \in Nat
    BY <2>1, FS_CardinalityType
  <2>3. (IF l \in labels THEN old[l] ELSE 0) = Cardinality(Of(S, l))
    <3>1. CASE l \in labels
      BY <1>1, <3>1
    <3>2. CASE l \notin labels
      <4>1. Of(S, l) = {}
        BY <3>2
      <4> QED
        BY <3>2, <4>1, FS_EmptySet
    <3> QED
      BY <3>1, <3>2
  <2>4. CASE l = label[s]
    <3>1. Of(S \cup {s}, l) = Of(S, l) \cup {s}
      BY <2>4
    <3>2. Cardinality(Of(S, l) \cup {s}) = Cardinality(Of(S, l)) + 1
      BY <2>1, FS_AddElement
    <3> QED
      BY <2>3, <2>4, <3>1, <3>2
  <2>5. CASE l # label[s]
    <3>1. Of(S \cup {s}, l) = Of(S, l)
      BY <2>5
    <3> HIDE DEF Of, old, labels
    <3> QED
      BY <2>2, <2>3, <2>5, <3>1
  <2> QED
    BY <2>4, <2>5
<1> HIDE DEF Of, old, sum, labels
<1>6. new = sum
  BY <1>1, <1>2, <1>4, <1>5
<1> QED
  BY <1>6 DEF sum, old

LabelOf == [s \in Slot |-> LabelsOf(s)]
Spanned == {s \in Answered : s \in slow \/ status[s] >= 500}

LEMMA BagIsTally ==
    ASSUME NEW S \in SUBSET Slot
    PROVE  BagOf(S) = Tally(LabelOf, S)
<1>1. \A s \in S : LabelOf[s] = LabelsOf(s)
  BY DEF LabelOf
<1>2. {LabelsOf(s) : s \in S} = {LabelOf[s] : s \in S}
  BY <1>1
<1>3. \A l : {s \in S : LabelsOf(s) = l} = {s \in S : LabelOf[s] = l}
  BY <1>1
<1> QED
  BY <1>2, <1>3 DEF BagOf, Tally

\* What is exported, or would be.
Tallied ==
    IF telemetry \in {"on", "shut"}
    THEN requests = Tally(LabelOf, Answered) /\ spans = Tally(LabelOf, Spanned)
    ELSE requests = EmptyBag /\ spans = EmptyBag

CountInv ==
    /\ telemetry \in {"unresolved", "off", "on", "shut"}
    /\ process = "starting" => telemetry = "unresolved" /\ \A s \in Slot : connection[s] = "none"
    /\ process \in {"serving", "draining"} => telemetry \in {"off", "on"}
    /\ process = "down" => telemetry # "unresolved"
    /\ asked \in [Slot -> Requests \cup {NoRequest}]
    /\ connection \in [Slot -> {"none", "waiting", "answered", "gone", "cut"}]
    /\ handler \in [Slot -> {"none", "running", "sent", "panicked", "aborted"}]
    /\ DOMAIN status = Slot
    /\ \A s \in Slot : connection[s] = "answered" => handler[s] # "running"
    /\ slow \subseteq Answered
    /\ Tallied

LEMMA TallyNone == \A label : Tally(label, {}) = EmptyBag
<1>1. ASSUME NEW label PROVE Tally(label, {}) = EmptyBag
  <2>1. {label[s] : s \in {}} = {}
    OBVIOUS
  <2>2. Tally(label, {}) = [l \in {} |-> Cardinality({s \in {} : label[s] = l})]
    BY <2>1 DEF Tally
  <2>3. EmptyBag = [l \in {} |-> 1]
    BY DEF EmptyBag, SetToBag
  <2> QED
    BY <2>2, <2>3
<1> QED
  BY <1>1

LEMMA CountInit == Init => CountInv
BY DEF Init, CountInv, Answered, Tallied

(* A step that answers nobody and records nothing keeps the tallies. *)
LEMMA TalliesKept ==
    ASSUME CountInv, UNCHANGED <<requests, spans, slow>>, Answered' = Answered,
           telemetry' \in {"on", "shut"} <=> telemetry \in {"on", "shut"},
           \A s \in Answered : LabelsOf(s)' = LabelsOf(s) /\ status'[s] = status[s]
    PROVE  Tallied' /\ (slow \subseteq Answered)'
<1>1. requests' = requests /\ spans' = spans /\ slow' = slow
  OBVIOUS
<1>2. Spanned' = Spanned
  BY <1>1 DEF Spanned
<1>3. Answered \subseteq Slot /\ Spanned \subseteq Answered
  BY DEF Answered, Spanned
<1>4. \A s \in Answered : LabelOf'[s] = LabelOf[s]
  BY <1>3 DEF LabelOf
<1>5. Tally(LabelOf', Answered) = Tally(LabelOf, Answered)
  BY <1>4, TallySame
<1>6. Tally(LabelOf', Spanned) = Tally(LabelOf, Spanned)
  BY <1>3, <1>4, TallySame
<1>7. Tally(LabelOf, Answered)' = Tally(LabelOf', Answered')
      /\ Tally(LabelOf, Spanned)' = Tally(LabelOf', Spanned')
  OBVIOUS
<1> QED
  BY <1>1, <1>2, <1>5, <1>6, <1>7 DEF CountInv, Tallied

LEMMA Responded ==
    ASSUME CountInv, NEW s \in Slot, Respond(s)
    PROVE  Tallied' /\ (slow \subseteq Answered)'
<1>1. /\ connection[s] = "waiting" /\ asked' = asked
      /\ connection' = [connection EXCEPT ![s] = "answered"]
      /\ connection \in [Slot -> {"none", "waiting", "answered", "gone", "cut"}]
      /\ DOMAIN status = Slot /\ slow \subseteq Answered
  BY DEF Respond, CountInv
<1>2. s \notin Answered /\ Answered' = Answered \cup {s} /\ Answered \subseteq Slot
  BY <1>1 DEF Answered
<1>3. PICK code : /\ status' = [status EXCEPT ![s] = code]
                  /\ \/ telemetry = "on" /\ \E isSlow \in BOOLEAN : Observed(s, code, isSlow)
                     \/ telemetry = "off" /\ UNCHANGED records
  BY DEF Respond, CountInv
<1>4. /\ telemetry' = telemetry /\ status'[s] = code
      /\ \A r \in Slot \ {s} : status'[r] = status[r]
  BY <1>1, <1>3 DEF Respond
<1>5. CASE telemetry = "off"
  <2>1. requests' = requests /\ spans' = spans /\ slow' = slow
    BY <1>3, <1>5 DEF records
  <2> QED
    BY <1>1, <1>2, <1>4, <1>5, <2>1 DEF CountInv, Tallied
<1>6. CASE telemetry = "on"
  <2>1. PICK isSlow \in BOOLEAN : Observed(s, code, isSlow)
    BY <1>3, <1>6
  <2> DEFINE labels == Labels(ClassifyRoute(RawPath(asked[s])), code, asked[s].ifNoneMatch # {})
  <2>2. /\ requests' = requests (+) SetToBag({labels})
        /\ spans' = IF ShouldSpan(isSlow, code) THEN spans (+) SetToBag({labels}) ELSE spans
        /\ slow' = IF isSlow THEN slow \cup {s} ELSE slow
    BY <2>1 DEF Observed
  <2>3. labels = LabelsOf(s)' /\ \A r \in Answered : LabelsOf(r)' = LabelsOf(r)
    BY <1>1, <1>2, <1>4 DEF LabelsOf
  <2> HIDE DEF labels
  <2>4. LabelOf'[s] = labels /\ \A r \in Answered : LabelOf'[r] = LabelOf[r]
    BY <1>2, <2>3 DEF LabelOf
  <2>5. requests = Tally(LabelOf, Answered) /\ spans = Tally(LabelOf, Spanned)
    BY <1>6 DEF CountInv, Tallied
  <2>6. /\ IsFiniteSet(Answered) /\ IsFiniteSet(Spanned)
        /\ Spanned \subseteq Answered
    BY <1>2, FS_Subset, ServingAssumption DEF Spanned
  <2>7. requests' = Tally(LabelOf', Answered')
    <3>1. Tally(LabelOf', Answered) = Tally(LabelOf, Answered)
      BY <2>4, TallySame
    <3>2. Tally(LabelOf', Answered \cup {s}) =
             Tally(LabelOf', Answered) (+) SetToBag({LabelOf'[s]})
      BY <1>2, <2>6, TallyOneMore
    <3> QED
      BY <1>2, <2>2, <2>4, <2>5, <3>1, <3>2
  <2>8. Tally(LabelOf', Spanned) = Tally(LabelOf, Spanned)
    BY <2>4, <2>6, TallySame
  <2>9. spans' = Tally(LabelOf', Spanned')
    <3>1. CASE ShouldSpan(isSlow, code)
      <4>1. Spanned' = Spanned \cup {s}
        BY <1>1, <1>2, <1>4, <2>2, <3>1 DEF Spanned, ShouldSpan
      <4>2. Tally(LabelOf', Spanned \cup {s}) =
               Tally(LabelOf', Spanned) (+) SetToBag({LabelOf'[s]})
        BY <1>2, <2>6, TallyOneMore
      <4> QED
        BY <2>2, <2>4, <2>5, <2>8, <3>1, <4>1, <4>2
    <3>2. CASE ~ShouldSpan(isSlow, code)
      <4>1. Spanned' = Spanned
        BY <1>1, <1>2, <1>4, <2>2, <3>2 DEF Spanned, ShouldSpan
      <4> QED
        BY <2>2, <2>5, <2>8, <3>2, <4>1
    <3> QED
      BY <3>1, <3>2
  <2> QED
    BY <1>1, <1>2, <1>4, <1>6, <2>2, <2>7, <2>9 DEF Tallied
<1> QED
  BY <1>3, <1>5, <1>6

LEMMA CountStep == CountInv /\ [Next]_vars => CountInv'
<1> SUFFICES ASSUME CountInv, [Next]_vars PROVE CountInv'
  OBVIOUS
<1> USE DEF CountInv
<1>1. CASE Serve
  <2>1. /\ Answered = {} /\ Answered' = {} /\ slow' = slow
        /\ requests' = EmptyBag /\ spans' = EmptyBag
        /\ connection' = connection /\ asked' = asked /\ handler' = handler /\ status' = status
    BY <1>1 DEF Serve, clients, exports, records, Answered, Tallied
  <2>2. Spanned' = {}
    BY <2>1 DEF Spanned
  <2>3. Tallied'
    BY <2>1, <2>2, TallyNone DEF Tallied
  <2>4. telemetry' \in {"unresolved", "off", "on"} /\ process' \in {"serving", "exited"}
        /\ (process' = "serving" => telemetry' \in {"off", "on"})
    BY <1>1 DEF Serve, ResolveConfig
  <2> QED
    BY <2>1, <2>3, <2>4
<1>2. ASSUME NEW s \in Slot, NEW r \in Requests, Arrive(s, r) PROVE CountInv'
  <2>1. Answered' = Answered /\ \A a \in Answered : a # s
    BY <1>2 DEF Arrive, Answered
  <2>2. /\ \A a \in Answered : LabelsOf(a)' = LabelsOf(a) /\ status'[a] = status[a]
        /\ UNCHANGED <<requests, spans, slow, telemetry>>
    BY <1>2, <2>1 DEF Arrive, LabelsOf, Answered, exports, records
  <2>3. Tallied' /\ (slow \subseteq Answered)'
    BY <2>1, <2>2, TalliesKept
  <2> QED
    BY <1>2, <2>3 DEF Arrive
<1>3. ASSUME NEW s \in Slot, NEW code, HandlerEnds(s, code) PROVE CountInv'
  <2>1. Answered' = Answered /\ \A a \in Answered : a # s
    BY <1>3 DEF HandlerEnds, Answered, clients
  <2>2. /\ \A a \in Answered : LabelsOf(a)' = LabelsOf(a) /\ status'[a] = status[a]
        /\ UNCHANGED <<requests, spans, slow, telemetry>>
    BY <1>3, <2>1 DEF HandlerEnds, LabelsOf, Answered, clients, exports, records
  <2>3. Tallied' /\ (slow \subseteq Answered)'
    BY <2>1, <2>2, TalliesKept
  <2> QED
    BY <1>3, <2>3 DEF HandlerEnds, clients
<1>4. ASSUME NEW s \in Slot, HandlerPanics(s) PROVE CountInv'
  <2>1. Answered' = Answered
    BY <1>4 DEF HandlerPanics, Answered, clients
  <2>2. /\ \A a \in Answered : LabelsOf(a)' = LabelsOf(a) /\ status'[a] = status[a]
        /\ UNCHANGED <<requests, spans, slow, telemetry>>
    BY <1>4 DEF HandlerPanics, LabelsOf, clients, exports, records
  <2>3. Tallied' /\ (slow \subseteq Answered)'
    BY <2>1, <2>2, TalliesKept
  <2> QED
    BY <1>4, <2>3 DEF HandlerPanics, clients
<1>5. ASSUME NEW s \in Slot, Respond(s) PROVE CountInv'
  <2>1. Tallied' /\ (slow \subseteq Answered)'
    BY <1>5, Responded
  <2> QED
    BY <1>5, <2>1 DEF Respond
<1>6. ASSUME NEW s \in Slot, Disconnect(s) PROVE CountInv'
  <2>1. Answered' = Answered /\ \A a \in Answered : a # s
    BY <1>6 DEF Disconnect, Answered
  <2>2. /\ \A a \in Answered : LabelsOf(a)' = LabelsOf(a) /\ status'[a] = status[a]
        /\ UNCHANGED <<requests, spans, slow, telemetry>>
    BY <1>6, <2>1 DEF Disconnect, LabelsOf, Answered, exports, records
  <2>3. Tallied' /\ (slow \subseteq Answered)'
    BY <2>1, <2>2, TalliesKept
  <2> QED
    BY <1>6, <2>3 DEF Disconnect
<1>7. ASSUME UNCHANGED <<asked, connection, status, requests, spans, slow>>,
             telemetry' \in {"on", "shut"} <=> telemetry \in {"on", "shut"}
      PROVE  Tallied' /\ (slow \subseteq Answered)'
  <2>1. Answered' = Answered
    BY <1>7 DEF Answered
  <2>2. \A a \in Answered : LabelsOf(a)' = LabelsOf(a) /\ status'[a] = status[a]
    BY <1>7 DEF LabelsOf
  <2> QED
    BY <1>7, <2>1, <2>2, TalliesKept
<1>8. CASE ShutdownSignal
  BY <1>7, <1>8 DEF ShutdownSignal, clients, exports, records
<1>9. CASE Drained
  BY <1>7, <1>9 DEF Drained, clients, exports, records
<1>10. CASE Exit
  BY <1>7, <1>10 DEF Exit, clients, exports, records
<1>11. CASE UNCHANGED vars
  BY <1>7, <1>11 DEF vars, clients, exports, records
<1>12. CASE Export
  BY <1>7, <1>12 DEF Export, clients
<1>13. CASE Shutdown
  BY <1>7, <1>13 DEF Shutdown, clients
<1> QED
  BY <1>1, <1>2, <1>3, <1>4, <1>5, <1>6, <1>8, <1>9, <1>10, <1>11, <1>12, <1>13 DEF Next

LEMMA CountTells == CountInv => CountersAreAnswers
<1> SUFFICES ASSUME CountInv PROVE CountersAreAnswers
  OBVIOUS
<1>1. Answered \in SUBSET Slot /\ Spanned \in SUBSET Slot
  BY DEF Answered, Spanned
<1>2. BagOf(Answered) = Tally(LabelOf, Answered) /\ BagOf(Spanned) = Tally(LabelOf, Spanned)
  BY <1>1, BagIsTally
<1> QED
  BY <1>2 DEF CountInv, Tallied, CountersAreAnswers, Spanned

(* With telemetry on, the counters are the answers and the spans those that   *)
(* were slow or server errors, through panics, clients that leave and the     *)
(* shutdown (telemetry_wrap, process_wrap, finish).                           *)
THEOREM CountsHold == Spec => []CountersAreAnswers
<1> QED
  BY CountInit, CountStep, CountTells, PTL DEF Spec

-----------------------------------------------------------------------------
(* Exporting.                                                                *)

\* An answer under telemetry is in the memory of the exporters or sent; nothing
\* is left there once they are shut down, which is after the last answer.
ExportInv ==
    /\ telemetry \in {"on", "shut"} => exported \cup unsent = Answered
    /\ telemetry \notin {"on", "shut"} => exported = {} /\ unsent = {}
    /\ telemetry = "shut" => unsent = {} /\ process \in {"down", "exited"}
    /\ telemetry = "unresolved" => Answered = {} /\ process \in {"starting", "exited"}
    /\ process = "exited" => telemetry # "on"

LEMMA ExportInit == Init => ExportInv
BY DEF Init, ExportInv, Answered

LEMMA ExportStep == CountInv /\ ExportInv /\ [Next]_vars => ExportInv'
<1> SUFFICES ASSUME CountInv, ExportInv, [Next]_vars PROVE ExportInv'
  OBVIOUS
<1> USE DEF ExportInv
<1>0. connection \in [Slot -> {"none", "waiting", "answered", "gone", "cut"}]
  BY DEF CountInv
<1>1. CASE Serve
  <2>1. Answered = {} /\ Answered' = {} /\ UNCHANGED <<unsent, exported>>
    BY <1>1 DEF Serve, CountInv, Answered, clients, exports, records
  <2>2. telemetry = "unresolved"
    BY <1>1 DEF Serve, CountInv
  <2>3. \/ telemetry' \in {"off", "on"} /\ process' = "serving"
        \/ telemetry' = "unresolved" /\ process' = "exited"
    BY <1>1, <2>2 DEF Serve, ResolveConfig
  <2> QED
    BY <2>1, <2>2, <2>3
<1>2. ASSUME Answered' = Answered, UNCHANGED <<telemetry, process, unsent, exported>>
      PROVE  ExportInv'
  BY <1>2
<1>3. ASSUME NEW s \in Slot, NEW r \in Requests, Arrive(s, r) PROVE ExportInv'
  <2>1. Answered' = Answered
    BY <1>0, <1>3 DEF Arrive, Answered
  <2> QED
    BY <1>2, <1>3, <2>1 DEF Arrive, exports, records
<1>4. ASSUME NEW s \in Slot, NEW code, HandlerEnds(s, code) PROVE ExportInv'
  BY <1>2, <1>4 DEF HandlerEnds, Answered, clients, exports, records
<1>5. ASSUME NEW s \in Slot, HandlerPanics(s) PROVE ExportInv'
  BY <1>2, <1>5 DEF HandlerPanics, Answered, clients, exports, records
<1>6. ASSUME NEW s \in Slot, Disconnect(s) PROVE ExportInv'
  <2>1. Answered' = Answered
    BY <1>0, <1>6 DEF Disconnect, Answered
  <2> QED
    BY <1>2, <1>6, <2>1 DEF Disconnect, exports, records
<1>7. ASSUME NEW s \in Slot, Respond(s) PROVE ExportInv'
  <2>1. Answered' = Answered \cup {s}
    BY <1>0, <1>7 DEF Respond, Answered
  <2>2. UNCHANGED <<telemetry, process, exported>> /\ telemetry \in {"off", "on"}
        /\ process \in {"serving", "draining"}
    BY <1>7 DEF Respond, CountInv
  <2>3. CASE telemetry = "on"
    <3>1. unsent' = unsent \cup {s}
      BY <1>7, <2>3 DEF Respond, Observed
    <3> QED
      BY <2>1, <2>2, <2>3, <3>1
  <2>4. CASE telemetry = "off"
    <3>1. unsent' = unsent
      BY <1>7, <2>4 DEF Respond, records
    <3> QED
      BY <2>1, <2>2, <2>4, <3>1
  <2> QED
    BY <2>2, <2>3, <2>4
<1>8. CASE Export
  BY <1>8 DEF Export, Answered, clients
<1>9. CASE Shutdown
  BY <1>9 DEF Shutdown, Answered, clients
<1>10. CASE Exit
  BY <1>10 DEF Exit, Answered, clients, exports, records
<1>11. CASE ShutdownSignal
  BY <1>11 DEF ShutdownSignal, Answered, clients, exports, records, CountInv
<1>12. CASE Drained
  BY <1>12 DEF Drained, Answered, clients, exports, records, CountInv
<1>13. CASE UNCHANGED vars
  BY <1>2, <1>13 DEF vars, Answered, clients, exports, records
<1> QED
  BY <1>1, <1>3, <1>4, <1>5, <1>6, <1>7, <1>8, <1>9, <1>10, <1>11, <1>12, <1>13 DEF Next

(* Whatever was answered under telemetry, while the server drained too, has    *)
(* left the process when it exits (main: run, shutdown, exit).                 *)
THEOREM ExportsHold == Spec => []AnsweredIsExported
<1>1. Init => CountInv /\ ExportInv
  BY CountInit, ExportInit
<1>2. CountInv /\ ExportInv /\ [Next]_vars => (CountInv /\ ExportInv)'
  BY CountStep, ExportStep
<1>3. CountInv /\ ExportInv => AnsweredIsExported
  BY DEF CountInv, ExportInv, AnsweredIsExported
<1> QED
  BY <1>1, <1>2, <1>3, PTL DEF Spec

-----------------------------------------------------------------------------
(* What the handlers answer.                                                 *)

StatusCode == {0, 200, 304, 400, 404, 405, 500}
Asked == Requests \cup {NoRequest}

LEMMA SegmentsAsked == \A r \in Asked : r.segments \in Seq(STRING)
<1>1. NoRequest.segments = <<>>
  BY DEF NoRequest
<1>2. <<>> \in Seq(STRING)
  OBVIOUS
<1> QED
  BY <1>1, <1>2, ServingAssumption DEF Asked

(* A path with a trailing slash still ends in an empty name when axum has     *)
(* decoded it.                                                               *)
LEMMA SlashDecoded ==
    ASSUME NEW segments \in Seq(STRING), segments # <<>>, Last(segments) = ""
    PROVE  LET names == Decoded(segments, UrlDecode)
           IN  names = Invalid \/ (names # <<>> /\ Last(names) = "")
<1> DEFINE seqs == [i \in DOMAIN segments |-> UrlDecode[segments[i]]]
<1>1. CASE ~(ToSet(segments) \subseteq DOMAIN UrlDecode)
  BY <1>1 DEF Decoded
<1>2. CASE ToSet(segments) \subseteq DOMAIN UrlDecode
  <2>1. Decoded(segments, UrlDecode) = FlattenSeq(seqs)
    BY <1>2 DEF Decoded
  <2>2. /\ Len(segments) \in Nat /\ Len(segments) # 0
        /\ DOMAIN segments = 1..Len(segments)
    BY LenProperties, EmptySeq
  <2>3. \A i \in 1..Len(segments) : seqs[i] \in Seq(STRING)
    <3>1. \A i \in DOMAIN segments : segments[i] \in DOMAIN UrlDecode
      BY <1>2 DEF ToSet
    <3> QED
      BY <2>2, <3>1, DecodeAssumption
  <2>4. seqs \in Seq(Seq(STRING)) /\ Len(seqs) = Len(segments)
    <3>1. seqs \in [1..Len(segments) -> Seq(STRING)]
      BY <2>2, <2>3
    <3> HIDE DEF seqs
    <3> QED
      BY <2>2, <3>1, FunctionIsSeq
  <2>5. Last(seqs) = <<"">>
    <3>1. Len(segments) \in 1..Len(segments) /\ segments[Len(segments)] = ""
      BY LastOfSeq
    <3>2. "" \in DOMAIN UrlDecode
      BY <1>2, <2>2, <3>1 DEF ToSet
    <3>3. UrlDecode[""] = <<"">>
      BY <3>2, DecodeAssumption
    <3> QED
      BY <2>2, <2>4, <3>1, <3>3 DEF Last
  <2> HIDE DEF seqs
  <2>6. seqs # <<>>
    BY <2>2, <2>4, EmptySeq
  <2>7. Last(seqs) # <<>> /\ Last(Last(seqs)) = ""
    <3>1. <<"">> # <<>> /\ Len(<<"">>) = 1 /\ <<"">>[1] = ""
      OBVIOUS
    <3> QED
      BY <2>5, <3>1, Zenon DEF Last
  <2> QED
    BY <2>1, <2>4, <2>6, <2>7, FlattenLast
<1> QED
  BY <1>1, <1>2

(* Every answer below /notes/ has one of four statuses, a listing only if the *)
(* decoded path ends in an empty name, a 304 only if it does not.             *)
LEMMA NotesAnswers ==
    ASSUME NEW r
    PROVE  LET names == Decoded(r.segments, UrlDecode)
               slash == names # <<>> /\ Last(names) = ""
           IN  /\ NotesAnswer(r).status \in {"ok", "304", "400", "404"}
               /\ "entries" \in DOMAIN NotesAnswer(r) => slash
               /\ NotesAnswer(r).status = "304" => ~slash
               /\ NotesAnswer(r).status = "ok" /\ slash => "entries" \in DOMAIN NotesAnswer(r)
               /\ names = Invalid => NotesAnswer(r).status = "400"
<1> DEFINE names == Decoded(r.segments, UrlDecode)
           slash == names # <<>> /\ Last(names) = ""
           path == Resolve(IF slash THEN Front(names) ELSE names, slash)
<1>1. NotesAnswer(r) =
         IF Invalid \in {names, path} THEN BadRequest
         ELSE IF slash THEN ListFolder(Notes, path)
         ELSE IF path \notin Notes THEN NotFound
         ELSE RespondNote(path, r.ifNoneMatch, Etag[path])
  BY Zenon DEF NotesAnswer, GetNotes
<1>2. /\ ListFolder(Notes, path).status \in {"ok", "404"}
      /\ ListFolder(Notes, path).status = "ok" => "entries" \in DOMAIN ListFolder(Notes, path)
  BY DEF ListFolder, NotFound
<1>3. /\ RespondNote(path, r.ifNoneMatch, Etag[path]).status \in {"ok", "304"}
      /\ DOMAIN RespondNote(path, r.ifNoneMatch, Etag[path]) = {"status", "body"}
  BY DEF RespondNote
<1>4. /\ BadRequest.status = "400" /\ DOMAIN BadRequest = {"status", "body"}
      /\ NotFound.status = "404" /\ DOMAIN NotFound = {"status", "body"}
  BY DEF BadRequest, NotFound
<1> HIDE DEF names, path
<1>5. CASE Invalid \in {names, path}
  <2>1. NotesAnswer(r) = BadRequest
    BY <1>1, <1>5, Zenon
  <2>2. NotesAnswer(r).status = "400" /\ "entries" \notin DOMAIN NotesAnswer(r)
    BY <1>4, <2>1
  <2> QED
    BY <2>2 DEF names
<1>6. CASE Invalid \notin {names, path} /\ slash
  <2>1. NotesAnswer(r) = ListFolder(Notes, path)
    BY <1>1, <1>6, Zenon
  <2>2. names # Invalid /\ NotesAnswer(r).status \in {"ok", "404"}
    BY <1>2, <1>6, <2>1
  <2> QED
    BY <1>2, <1>6, <2>1, <2>2 DEF names
<1>7. CASE Invalid \notin {names, path} /\ ~slash
  <2>1. NotesAnswer(r) = NotFound \/ NotesAnswer(r) = RespondNote(path, r.ifNoneMatch, Etag[path])
    BY <1>1, <1>7, Zenon
  <2>2. NotesAnswer(r).status \in {"ok", "304", "404"} /\ "entries" \notin DOMAIN NotesAnswer(r)
    BY <1>3, <1>4, <2>1
  <2>3. names # Invalid
    BY <1>7
  <2> QED
    BY <1>7, <2>2, <2>3 DEF names
<1> QED
  BY <1>5, <1>6, <1>7

LEMMA AnswersCases ==
    ASSUME NEW r \in Asked
    PROVE  Answers[r] =
              IF ~Routed(r) THEN {404}
              ELSE IF ~r.get THEN {405}
              ELSE IF r.first = "notes" THEN {Code(NotesAnswer(r))}
              ELSE IF r.first = "query" THEN {200, 400} ELSE {200}
<1>1. Routed(r) => r.first \in {"notes", "query", "health"}
  BY DEF Routed
<1> QED
  BY <1>1 DEF Answers, Asked

LEMMA AnswersOf ==
    ASSUME NEW r \in Asked
    PROVE  /\ ~Routed(r) => Answers[r] = {404}
           /\ ~r.get /\ Routed(r) => Answers[r] = {405}
           /\ Routed(r) /\ r.get /\ r.first = "notes" => Answers[r] = {Code(NotesAnswer(r))}
<1>1. Answers[r] =
         IF ~Routed(r) THEN {404}
         ELSE IF ~r.get THEN {405}
         ELSE IF r.first = "notes" THEN {Code(NotesAnswer(r))}
         ELSE IF r.first = "query" THEN {200, 400} ELSE {200}
  BY AnswersCases
<1>2. CASE ~Routed(r)
  BY <1>1, <1>2
<1>3. CASE Routed(r) /\ ~r.get
  BY <1>1, <1>3
<1>4. CASE Routed(r) /\ r.get
  BY <1>1, <1>4
<1> QED
  BY <1>2, <1>3, <1>4

LEMMA CodeOf ==
    ASSUME NEW answer, answer.status \in {"ok", "304", "400", "404"}
    PROVE  /\ Code(answer) \in {200, 304, 400, 404}
           /\ Code(answer) = 200 => answer.status = "ok"
           /\ Code(answer) = 304 => answer.status = "304"
BY DEF Code

LEMMA AnswersAreCodes == \A r \in Asked : Answers[r] \subseteq StatusCode \ {0, 500}
<1> SUFFICES ASSUME NEW r \in Asked PROVE Answers[r] \subseteq StatusCode \ {0, 500}
  OBVIOUS
<1>1. NotesAnswer(r).status \in {"ok", "304", "400", "404"}
  BY NotesAnswers
<1>2. Code(NotesAnswer(r)) \in {200, 304, 400, 404}
  BY <1>1, CodeOf
<1>3. Answers[r] \in {{404}, {405}, {Code(NotesAnswer(r))}, {200, 400}, {200}}
  <2>1. Answers[r] = IF ~Routed(r) THEN {404}
                     ELSE IF ~r.get THEN {405}
                     ELSE IF r.first = "notes" THEN {Code(NotesAnswer(r))}
                     ELSE IF r.first = "query" THEN {200, 400} ELSE {200}
    BY AnswersCases, Zenon
  <2> QED
    BY <2>1
<1> QED
  BY <1>2, <1>3 DEF StatusCode

\* What a client is sent comes from its handler, or is the 500 of the layer.
AnswerInv ==
    /\ asked \in [Slot -> Asked]
    /\ status \in [Slot -> StatusCode]
    /\ \A s \in Slot :
          /\ connection[s] = "waiting" /\ handler[s] = "sent" => status[s] \in Answers[asked[s]]
          /\ connection[s] = "answered" => status[s] \in Answers[asked[s]] \cup {500}

LEMMA AnswerInit == Init => AnswerInv
BY DEF Init, AnswerInv, Asked, StatusCode

LEMMA AnswerStep == CountInv /\ AnswerInv /\ [Next]_vars => AnswerInv'
<1> SUFFICES ASSUME CountInv, AnswerInv, [Next]_vars PROVE AnswerInv'
  OBVIOUS
<1>0. connection \in [Slot -> {"none", "waiting", "answered", "gone", "cut"}]
      /\ handler \in [Slot -> {"none", "running", "sent", "panicked", "aborted"}]
  BY DEF CountInv
<1> USE DEF AnswerInv
<1>1. ASSUME NEW s \in Slot, NEW r \in Requests, Arrive(s, r) PROVE AnswerInv'
  <2>1. r \in Asked
    BY DEF Asked
  <2> QED
    BY <1>0, <1>1, <2>1 DEF Arrive
<1>2. ASSUME NEW s \in Slot, NEW code \in Answers[asked[s]], HandlerEnds(s, code)
      PROVE  AnswerInv'
  <2>1. code \in StatusCode /\ 0 \in StatusCode
    BY AnswersAreCodes DEF StatusCode
  <2>2. /\ connection' = connection /\ asked' = asked /\ connection[s] # "answered"
        /\ handler' = [handler EXCEPT ![s] = "sent"]
        /\ status' = [status EXCEPT ![s] = IF connection[s] = "waiting" THEN code ELSE 0]
    BY <1>0, <1>2 DEF HandlerEnds, clients, CountInv
  <2>3. status' \in [Slot -> StatusCode]
    BY <2>1, <2>2
  <2>4. \A t \in Slot : t # s => status'[t] = status[t] /\ handler'[t] = handler[t]
    BY <1>0, <2>2
  <2>5. connection[s] = "waiting" => status'[s] \in Answers[asked[s]]
    BY <2>2
  <2> QED
    BY <2>2, <2>3, <2>4, <2>5
<1>3. ASSUME NEW s \in Slot, HandlerPanics(s) PROVE AnswerInv'
  BY <1>0, <1>3 DEF HandlerPanics, clients
<1>4. ASSUME NEW s \in Slot, Respond(s) PROVE AnswerInv'
  <2>1. PICK code : /\ code = IF handler[s] = "sent" THEN status[s] ELSE 500
                    /\ status' = [status EXCEPT ![s] = code]
    BY <1>4 DEF Respond
  <2>2. code \in StatusCode /\ code \in Answers[asked[s]] \cup {500}
    BY <1>4, <2>1 DEF Respond, StatusCode
  <2> QED
    BY <1>0, <1>4, <2>1, <2>2 DEF Respond
<1>5. ASSUME NEW s \in Slot, Disconnect(s) PROVE AnswerInv'
  <2>1. 0 \in StatusCode
    BY DEF StatusCode
  <2> QED
    BY <1>0, <1>5, <2>1 DEF Disconnect
<1>6. CASE Drained
  BY <1>0, <1>6 DEF Drained, clients, InFlight
<1>7. CASE Serve \/ ShutdownSignal \/ Export \/ Shutdown \/ Exit \/ UNCHANGED vars
  BY <1>7 DEF Serve, ShutdownSignal, Export, Shutdown, Exit, vars, clients
<1> QED
  BY <1>1, <1>2, <1>3, <1>4, <1>5, <1>6, <1>7 DEF Next

(* What a label calls a note is a note, and what it calls a folder a listing. *)
LEMMA AnswerTells == CountInv /\ AnswerInv => RouteTellsNotes
<1> SUFFICES ASSUME CountInv, AnswerInv, NEW s \in Answered
             PROVE  LET route == LabelsOf(s).route
                        listing == status[s] = 200 /\ "entries" \in DOMAIN NotesAnswer(asked[s])
                    IN  /\ (route = "other") = ~Routed(asked[s])
                        /\ asked[s].first = "notes" =>
                             /\ status[s] = 304 => route = "note"
                             /\ route = "folder" /\ status[s] = 200 => listing
                             /\ route = "note" /\ listing =>
                                  /\ ~RawPath(asked[s]).slash
                                  /\ Last(Decoded(asked[s].segments, UrlDecode)) = ""
  BY DEF RouteTellsNotes
<1> DEFINE r == asked[s]
           names == Decoded(r.segments, UrlDecode)
           route == ClassifyRoute(RawPath(r))
           notesAnswer == NotesAnswer(r)
<1>1. s \in Slot /\ r \in Asked /\ status[s] \in Answers[r] \cup {500}
  BY DEF AnswerInv, Answered
<1>2. LabelsOf(s).route = route
  BY DEF LabelsOf, Labels
<1>3. r.segments \in Seq(STRING)
  BY <1>1, SegmentsAsked
<1>4. r.segments # <<>> /\ Last(r.segments) = "" =>
         names = Invalid \/ (names # <<>> /\ Last(names) = "")
  BY <1>3, SlashDecoded
<1>5. /\ notesAnswer.status \in {"ok", "304", "400", "404"}
      /\ "entries" \in DOMAIN notesAnswer => names # <<>> /\ Last(names) = ""
      /\ notesAnswer.status = "304" => ~(names # <<>> /\ Last(names) = "")
      /\ notesAnswer.status = "ok" /\ names # <<>> /\ Last(names) = "" =>
            "entries" \in DOMAIN notesAnswer
      /\ names = Invalid => notesAnswer.status = "400"
  BY NotesAnswers
<1>6. /\ route = "other" <=> ~Routed(r)
      /\ r.first = "notes" /\ Routed(r) /\ r.segments # <<>> /\ Last(r.segments) = "" => route = "folder"
      /\ r.first = "notes" /\ Routed(r) /\ ~(r.segments # <<>> /\ Last(r.segments) = "") => route = "note"
      /\ RawPath(r).slash = (r.segments # <<>> /\ Last(r.segments) = "")
  <2>1. /\ RawPath(r).first = r.first /\ RawPath(r).below = (r.segments # <<>>)
        /\ RawPath(r).slash = (r.segments # <<>> /\ Last(r.segments) = "")
    BY DEF RawPath
  <2>2. Routed(r) <=> \/ r.first \in {"health", "query"} /\ r.segments = <<>>
                      \/ r.first = "notes" /\ r.segments # <<>>
    BY DEF Routed
  <2> HIDE DEF r
  <2> QED
    BY <2>1, <2>2 DEF ClassifyRoute
<1>7. ASSUME r.first = "notes", status[s] \in {200, 304}
      PROVE  /\ Routed(r)
             /\ status[s] = 200 => notesAnswer.status = "ok"
             /\ status[s] = 304 => notesAnswer.status = "304"
  <2>1. /\ ~Routed(r) => Answers[r] = {404}
        /\ ~r.get /\ Routed(r) => Answers[r] = {405}
        /\ Routed(r) /\ r.get /\ r.first = "notes" => Answers[r] = {Code(notesAnswer)}
    BY <1>1, AnswersOf
  <2>4. /\ Code(notesAnswer) = 200 => notesAnswer.status = "ok"
        /\ Code(notesAnswer) = 304 => notesAnswer.status = "304"
    <3>1. PICK answer : answer = notesAnswer
      OBVIOUS
    <3> HIDE DEF notesAnswer
    <3>2. answer.status \in {"ok", "304", "400", "404"}
      BY <1>5, <3>1
    <3> QED
      BY <3>1, <3>2, CodeOf
  <2> HIDE DEF r, notesAnswer
  <2>5. Routed(r) /\ r.get
    BY <1>1, <1>7, <2>1
  <2> QED
    BY <1>1, <1>7, <2>1, <2>4, <2>5
<1> HIDE DEF r, names, route, notesAnswer
<1>8. (route = "other") = ~Routed(r)
  BY <1>6
<1>9. ASSUME r.first = "notes", status[s] = 304 PROVE route = "note"
  BY <1>4, <1>5, <1>6, <1>7, <1>9
<1>10. ASSUME r.first = "notes", route = "folder", status[s] = 200
       PROVE  "entries" \in DOMAIN notesAnswer
  BY <1>4, <1>5, <1>6, <1>7, <1>10
<1>11. ASSUME r.first = "notes", route = "note", status[s] = 200, "entries" \in DOMAIN notesAnswer
       PROVE  ~RawPath(r).slash /\ Last(names) = ""
  BY <1>5, <1>6, <1>7, <1>11
<1> QED
  BY <1>2, <1>8, <1>9, <1>10, <1>11 DEF r, names, route, notesAnswer

(* The share of 304 among the route "note" is the share of note fetches: no    *)
(* listing is counted as a note unless its slash was encoded, no note as a     *)
(* folder, only a note is a 304 (classify_route, get_notes, router).           *)
THEOREM RoutesTell == Spec => []RouteTellsNotes
<1>1. Init => CountInv /\ AnswerInv
  BY CountInit, AnswerInit
<1>2. CountInv /\ AnswerInv /\ [Next]_vars => (CountInv /\ AnswerInv)'
  BY CountStep, AnswerStep
<1> QED
  BY <1>1, <1>2, AnswerTells, PTL DEF Spec

(* A tally is a bag, and grows with the set.                                 *)
LEMMA TallyIsBag ==
    ASSUME NEW label, NEW S, IsFiniteSet(S), NEW T \in SUBSET S
    PROVE  /\ IsABag(Tally(label, S)) /\ IsABag(Tally(label, T))
           /\ Tally(label, T) \sqsubseteq Tally(label, S)
<1>1. ASSUME NEW U \in SUBSET S PROVE IsABag(Tally(label, U))
  <2>1. ASSUME NEW l \in {label[s] : s \in U}
        PROVE  Cardinality({s \in U : label[s] = l}) \in {n \in Nat : n > 0}
    <3>1. IsFiniteSet({s \in U : label[s] = l}) /\ {s \in U : label[s] = l} # {}
      BY FS_Subset
    <3> QED
      BY <3>1, FS_EmptySet, FS_CardinalityType
  <2> QED
    BY <2>1 DEF IsABag, Tally
<1>2. Tally(label, T) \sqsubseteq Tally(label, S)
  <2>1. {label[s] : s \in T} \subseteq {label[s] : s \in S}
    OBVIOUS
  <2>2. ASSUME NEW l
        PROVE  Cardinality({s \in T : label[s] = l}) <= Cardinality({s \in S : label[s] = l})
    <3>1. {s \in T : label[s] = l} \subseteq {s \in S : label[s] = l}
      OBVIOUS
    <3>2. IsFiniteSet({s \in S : label[s] = l})
      BY FS_Subset
    <3> QED
      BY <3>1, <3>2, FS_Subset
  <2> QED
    BY <2>1, <2>2 DEF Tally, \sqsubseteq
<1> QED
  BY <1>1, <1>2

(* Shape of the state, through every step.                                   *)
THEOREM ServingTypeCorrect == Spec => []TypeOK
<1>1. ConfigInv /\ CountInv /\ AnswerInv /\ ExportInv => TypeOK
  <2> SUFFICES ASSUME ConfigInv, CountInv, AnswerInv, ExportInv PROVE TypeOK
    OBVIOUS
  <2>1. Answered \subseteq Slot /\ Spanned \subseteq Answered
    BY DEF Answered, Spanned
  <2>2. IsFiniteSet(Answered)
    BY <2>1, FS_Subset, ServingAssumption
  <2>3. IsABag(requests) /\ IsABag(spans) /\ spans \sqsubseteq requests
    <3>1. CASE telemetry \in {"on", "shut"}
      BY <2>1, <2>2, <3>1, TallyIsBag DEF CountInv, Tallied
    <3>2. CASE telemetry \notin {"on", "shut"}
      <4>1. requests = Tally([s \in {} |-> 0], {}) /\ spans = Tally([s \in {} |-> 0], {})
        BY <3>2, TallyNone DEF CountInv, Tallied
      <4> QED
        BY <4>1, FS_EmptySet, TallyIsBag
    <3> QED
      BY <3>1, <3>2
  <2>4. unsent \subseteq Slot /\ exported \subseteq Slot
    BY <2>1 DEF ExportInv
  <2> QED
    BY <2>1, <2>3, <2>4 DEF TypeOK, ConfigInv, CountInv, AnswerInv, Asked, StatusCode
<1>2. Init => ConfigInv /\ CountInv /\ AnswerInv /\ ExportInv
  BY ConfigInit, CountInit, AnswerInit, ExportInit
<1>3. ConfigInv /\ CountInv /\ AnswerInv /\ ExportInv /\ [Next]_vars =>
         (ConfigInv /\ CountInv /\ AnswerInv /\ ExportInv)'
  BY ConfigStep, CountStep, AnswerStep, ExportStep
<1> QED
  BY <1>1, <1>2, <1>3, PTL DEF Spec

=============================================================================
