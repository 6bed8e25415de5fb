------------------------------- MODULE Serving -------------------------------
(***************************************************************************)
(* Requests in the daemon: the telemetry layer around the layer that runs     *)
(* every handler in a process of its own, clients that leave, handlers that   *)
(* panic, and the end of the process, when the server drains and the exporters *)
(* are flushed (http.rs, telemetry.rs, main.rs, app.rs http_server).          *)
(*                                                                         *)
(* The index stands still; GET /query and GET /health answer as they may.     *)
(***************************************************************************)
EXTENDS Telemetry, HttpNotes, Bags

CONSTANTS
    Slot,           \* the requests of one life of the daemon
    Requests,       \* what they may be: [first, segments, get,
                    \* ifNoneMatch]
    Notes,          \* the indexed notes, by their path ...
    Etag,           \* ... and their etags
    Starts          \* how the daemon may be started: [options, environment]

\* Nobody names the SDK's own address.
ASSUME ServingAssumption ==
    /\ IsFiniteSet(Slot)
    /\ \A r \in Requests : r.segments \in Seq(STRING)
    /\ \A s \in Starts : /\ s.options \subseteq RemovedOption
                         /\ \A v \in EndpointVar : s.environment[v] # Localhost

VARIABLES
    start,          \* the options and the environment of this daemon
    telemetry,      \* "unresolved", "off", "on" or "shut"
    process,        \* "starting", "serving", "draining", "down" or "exited"
    asked,          \* [Slot -> request]: what the client sent
    connection,     \* [Slot -> state of the request as its connection sees it]
    handler,        \* [Slot -> state of the handler process]
    status,         \* [Slot -> what the handler sends, then what the client gets]
    requests,       \* http.server.requests: a bag of labels
    spans,          \* the spans emitted: a bag of labels
    unsent,         \* requests recorded, in the memory of the exporters only
    exported,       \* requests whose records the exporters have sent
    slow            \* history: the requests that took long

clients == <<asked, connection>>
records == <<requests, spans, slow, unsent>>
exports == <<records, exported>>
vars == <<start, telemetry, process, clients, handler, status, exports>>

NoRequest == [first |-> "", segments |-> <<>>, get |-> TRUE, ifNoneMatch |-> {}]

\* The path before anything is decoded.
RawPath(r) ==
    [first |-> r.first, below |-> r.segments # <<>>,
     slash |-> r.segments # <<>> /\ Last(r.segments) = ""]

\* The four routes of router.
Routed(r) ==
    \/ r.first \in {"health", "query"} /\ r.segments = <<>>
    \/ r.first = "notes" /\ r.segments # <<>>

Code(answer) ==
    CASE answer.status = "ok" -> 200 [] answer.status = "304" -> 304
      [] answer.status = "400" -> 400 [] answer.status = "404" -> 404

NotesAnswer(r) == GetNotes(Notes, r.segments, r.ifNoneMatch, Etag)

\* The statuses a handler may end with.
Answers ==
    [r \in Requests \cup {NoRequest} |->
        IF ~Routed(r) THEN {404}
        ELSE IF ~r.get THEN {405}
        ELSE CASE r.first = "notes" -> {Code(NotesAnswer(r))}
               [] r.first = "query" -> {200, 400}
               [] r.first = "health" -> {200}]

-----------------------------------------------------------------------------
Init ==
    /\ start \in Starts
    /\ telemetry = "unresolved" /\ process = "starting"
    /\ asked = [s \in Slot |-> NoRequest]
    /\ connection = [s \in Slot |-> "none"] /\ handler = [s \in Slot |-> "none"]
    /\ status = [s \in Slot |-> 0]
    /\ requests = EmptyBag /\ spans = EmptyBag /\ slow = {}
    /\ unsent = {} /\ exported = {}

\* main: an error here, or one of init, ends the process before the tree starts.
Serve ==
    /\ process = "starting"
    /\ LET resolved == ResolveConfig(start.options, FromEnv(start.environment)) IN
         \/ /\ resolved # "error"
            /\ telemetry' = resolved /\ process' = "serving"
         \/ /\ resolved # "off"
            /\ process' = "exited" /\ UNCHANGED telemetry
    /\ UNCHANGED <<start, clients, handler, status, exports>>

\* telemetry_wrap and process_wrap up to their await.
Arrive(s, r) ==
    /\ process = "serving" /\ connection[s] = "none"
    /\ asked' = [asked EXCEPT ![s] = r]
    /\ connection' = [connection EXCEPT ![s] = "waiting"]
    /\ handler' = [handler EXCEPT ![s] = "running"]
    /\ UNCHANGED <<start, telemetry, process, status, exports>>

\* The handler sends its response; nobody may be there to take it.
HandlerEnds(s, code) ==
    /\ handler[s] = "running" /\ process \in {"serving", "draining"}
    /\ code \in Answers[asked[s]]
    /\ handler' = [handler EXCEPT ![s] = "sent"]
    /\ status' = [status EXCEPT ![s] = IF connection[s] = "waiting" THEN code ELSE 0]
    /\ UNCHANGED <<start, telemetry, process, clients, exports>>

HandlerPanics(s) ==
    /\ handler[s] = "running" /\ process \in {"serving", "draining"}
    /\ handler' = [handler EXCEPT ![s] = "panicked"]
    /\ UNCHANGED <<start, telemetry, process, clients, status, exports>>

\* Deliberate mistake: the layers are the other way round, and the outer one
\* makes up the 500 that the inner one never sees.
ObservedUnlessPanicked(s, code, isSlow) ==
    LET seen == handler[s] = "sent"
        labels == Labels(ClassifyRoute(RawPath(asked[s])), code, asked[s].ifNoneMatch # {})
    IN  /\ requests' = IF seen THEN requests (+) SetToBag({labels}) ELSE requests
        /\ spans' = IF seen /\ ShouldSpan(isSlow, code) THEN spans (+) SetToBag({labels}) ELSE spans
        /\ slow' = IF isSlow THEN slow \cup {s} ELSE slow
        /\ unsent' = unsent \cup {s}

\* Deliberate mistake: a request with a span is not counted.
ObservedOneOf(s, code, isSlow) ==
    LET labels == Labels(ClassifyRoute(RawPath(asked[s])), code, asked[s].ifNoneMatch # {})
        span == ShouldSpan(isSlow, code)
    IN  /\ requests' = IF span THEN requests ELSE requests (+) SetToBag({labels})
        /\ spans' = IF span THEN spans (+) SetToBag({labels}) ELSE spans
        /\ slow' = IF isSlow THEN slow \cup {s} ELSE slow
        /\ unsent' = unsent \cup {s}

\* Telemetry::finish
Observed(s, code, isSlow) ==
    LET labels == Labels(ClassifyRoute(RawPath(asked[s])), code, asked[s].ifNoneMatch # {})
    IN  /\ requests' = requests (+) SetToBag({labels})
        /\ spans' = IF ShouldSpan(isSlow, code) THEN spans (+) SetToBag({labels}) ELSE spans
        /\ slow' = IF isSlow THEN slow \cup {s} ELSE slow
        /\ unsent' = unsent \cup {s}

\* process_wrap and telemetry_wrap after their await, in one step: the response,
\* or a 500 if the handler process is gone without one.  Providers that are shut
\* down take no record.
Respond(s) ==
    /\ connection[s] = "waiting" /\ handler[s] \in {"sent", "panicked"}
    /\ process \in {"serving", "draining"}
    /\ LET code == IF handler[s] = "sent" THEN status[s] ELSE 500 IN
         /\ status' = [status EXCEPT ![s] = code]
         /\ \/ telemetry = "on" /\ \E isSlow \in BOOLEAN : Observed(s, code, isSlow)
            \/ telemetry # "on" /\ UNCHANGED records
    /\ connection' = [connection EXCEPT ![s] = "answered"]
    /\ UNCHANGED <<start, telemetry, process, asked, handler, exported>>

\* The periodic reader and the batch processor send what they hold.
Export ==
    /\ telemetry = "on" /\ unsent # {}
    /\ exported' = exported \cup unsent /\ unsent' = {}
    /\ UNCHANGED <<start, telemetry, process, clients, handler, status, requests, spans, slow>>

\* The client goes, and hyper drops what waits for its answer.
Disconnect(s) ==
    /\ connection[s] = "waiting" /\ process \in {"serving", "draining"}
    /\ connection' = [connection EXCEPT ![s] = "gone"]
    /\ status' = [status EXCEPT ![s] = 0]
    /\ UNCHANGED <<start, telemetry, process, asked, handler, exports>>

\* SIGTERM or SIGINT: no request is accepted any more.
ShutdownSignal ==
    /\ process = "serving"
    /\ process' = "draining"
    /\ UNCHANGED <<start, telemetry, clients, handler, status, exports>>

InFlight == {s \in Slot : connection[s] = "waiting"}

\* Deliberate mistake: the serve loop is dropped at the signal.
DrainedAtOnce ==
    /\ process = "draining"
    /\ process' = "down"
    /\ connection' = [s \in Slot |-> IF s \in InFlight THEN "cut" ELSE connection[s]]
    /\ handler' = [s \in Slot |-> IF handler[s] = "running" THEN "aborted" ELSE handler[s]]
    /\ UNCHANGED <<start, telemetry, asked, status, exports>>

\* Deliberate mistake: every handler process must have sent something.
DrainedWhenAllSent ==
    /\ process = "draining" /\ \A s \in Slot : handler[s] \in {"none", "sent"}
    /\ process' = "down"
    /\ UNCHANGED <<start, telemetry, clients, handler, status, exports>>

\* The serve loop ends with the last response; the tree and its runtime go, and
\* with them the handlers nobody waits for.
Drained ==
    /\ process = "draining" /\ InFlight = {}
    /\ process' = "down"
    /\ handler' = [s \in Slot |-> IF handler[s] = "running" THEN "aborted" ELSE handler[s]]
    /\ UNCHANGED <<start, telemetry, clients, status, exports>>

\* Deliberate mistake: the providers are shut down at the signal, while the
\* server drains.
ShutdownAtSignal ==
    /\ process \in {"draining", "down"} /\ telemetry = "on"
    /\ telemetry' = "shut"
    /\ exported' = exported \cup unsent /\ unsent' = {}
    /\ UNCHANGED <<start, process, clients, handler, status, requests, spans, slow>>

\* Telemetry::shutdown, after run has returned: the last export.
Shutdown ==
    /\ process = "down" /\ telemetry = "on"
    /\ telemetry' = "shut"
    /\ exported' = exported \cup unsent /\ unsent' = {}
    /\ UNCHANGED <<start, process, clients, handler, status, requests, spans, slow>>

\* main returns, with nothing to shut down any more.
Exit ==
    /\ process = "down" /\ telemetry # "on"
    /\ process' = "exited"
    /\ UNCHANGED <<start, telemetry, clients, handler, status, exports>>

Next ==
    \/ Serve \/ ShutdownSignal \/ Drained \/ Export \/ Shutdown \/ Exit
    \/ \E s \in Slot : \/ \E r \in Requests : Arrive(s, r)
                       \/ \E code \in Answers[asked[s]] : HandlerEnds(s, code)
                       \/ HandlerPanics(s) \/ Respond(s) \/ Disconnect(s)

Spec == Init /\ [][Next]_vars

\* The runtime runs every handler and every connection; handlers await nothing
\* but the lock of the store, so that each ends or panics.  Respond stands for a
\* client that reads its answer, or Disconnect for one that does not: the drain
\* waits for either.  Nothing has to be exported before the shutdown.
FairSpec ==
    /\ Spec
    /\ WF_vars(Serve) /\ WF_vars(Drained) /\ WF_vars(Shutdown) /\ WF_vars(Exit)
    /\ \A s \in Slot :
          /\ WF_vars(HandlerPanics(s) \/ \E code \in Answers[asked[s]] : HandlerEnds(s, code))
          /\ WF_vars(Respond(s))

-----------------------------------------------------------------------------
(* Properties. *)

TypeOK ==
    /\ start \in Starts
    /\ telemetry \in {"unresolved", "off", "on", "shut"}
    /\ process \in {"starting", "serving", "draining", "down", "exited"}
    /\ \A s \in Slot :
          /\ asked[s] \in Requests \cup {NoRequest}
          /\ connection[s] \in {"none", "waiting", "answered", "gone", "cut"}
          /\ handler[s] \in {"none", "running", "sent", "panicked", "aborted"}
          /\ status[s] \in {0, 200, 304, 400, 404, 405, 500}
    /\ IsABag(requests) /\ IsABag(spans) /\ spans \sqsubseteq requests
    /\ slow \subseteq Slot /\ unsent \subseteq Slot /\ exported \subseteq Slot

\* Nothing an operator wrote about telemetry is dropped in silence: a daemon that
\* serves was given no removed option; it exports if and only if an endpoint is
\* set; and then every signal somebody named a URL for arrives at that URL, its
\* own before the base, over the protocol asked for (resolve; "Silence is the
\* expensive failure here").  Two exceptions go to another address without a
\* word: a signal nobody named a URL for, and a URL with white space around it,
\* which from_env trims before it looks and the SDK does not.
NothingDropped ==
    process \in {"serving", "draining", "down"} =>
        LET set == {v \in EndpointVar \cup ProtocolVar :
                       start.environment[v] \notin Blank \cup {Unset}}
        IN  /\ start.options = {}
            /\ (telemetry # "off") = (set \cap EndpointVar # {})
            /\ telemetry # "off" =>
                 /\ \A v \in set \cap ProtocolVar :
                       TrimmedValue(start.environment[v]) = SupportedProtocol
                 /\ \A signal \in Signal :
                       LET own == OwnEndpoint(signal)
                           named == IF own \in set THEN own ELSE "ENDPOINT"
                           exportUrl == ExportUrl(start.environment, signal)
                       IN  named \in set /\ start.environment[named] \notin DOMAIN Trim =>
                             /\ exportUrl.base = start.environment[named]
                             /\ Arrives(exportUrl)

\* With telemetry on, the counters are the answers: every answered request is
\* counted once, the 500 of a panic included, under the status its client got,
\* and no other; it has a span exactly if it was slow or a server error.  With
\* telemetry off nothing is recorded (telemetry_wrap, process_wrap, finish).
Answered == {s \in Slot : connection[s] = "answered"}
LabelsOf(s) == Labels(ClassifyRoute(RawPath(asked[s])), status[s], asked[s].ifNoneMatch # {})
BagOf(S) ==
    [l \in {LabelsOf(s) : s \in S} |-> Cardinality({s \in S : LabelsOf(s) = l})]
CountersAreAnswers ==
    IF telemetry \in {"on", "shut"}
    THEN /\ requests = BagOf(Answered)
         /\ spans = BagOf({s \in Answered : s \in slow \/ status[s] >= 500})
    ELSE requests = EmptyBag /\ spans = EmptyBag

\* The route of a label tells notes from folders, so that the share of 304 among
\* "note" is the share of note fetches: no listing is counted as a note unless
\* its slash was encoded, no note as a folder, only a note is a 304, and "other"
\* is what no route takes (classify_route reads the raw path, get_notes the
\* decoded one, router decides by its own patterns).
RouteTellsNotes ==
    \A s \in Answered :
        LET route == LabelsOf(s).route
            listing == status[s] = 200 /\ "entries" \in DOMAIN NotesAnswer(asked[s])
        IN  /\ (route = "other") = ~Routed(asked[s])
            /\ asked[s].first = "notes" =>
                 /\ status[s] = 304 => route = "note"
                 /\ route = "folder" /\ status[s] = 200 => listing
                 /\ route = "note" /\ listing =>
                      /\ ~RawPath(asked[s]).slash
                      /\ Last(Decoded(asked[s].segments, UrlDecode)) = ""

\* What was answered under telemetry has left the process when it exits, the
\* requests answered while the server drained included: the providers, whose
\* batches wait for a timer, are shut down after the last answer and before the
\* exit (main, the order of run, shutdown and the end of the process).
AnsweredIsExported == process = "exited" /\ telemetry # "off" => exported = Answered

\* A request the server has taken is answered, through a panic of its handler or
\* a shutdown, unless its client goes first; and a shutdown comes to its end.
TakenIsAnswered ==
    \A s \in Slot : connection[s] = "waiting" ~> connection[s] \in {"answered", "gone"}
ShutdownEnds == process = "draining" ~> process = "exited"

=============================================================================
