----------------------------- MODULE Telemetry ------------------------------
(***************************************************************************)
(* telemetry.rs: whether and where the daemon exports, and what it records    *)
(* of a request.                                                            *)
(*                                                                         *)
(* The environment is a function from the OTEL_EXPORTER_OTLP_ variables to    *)
(* strings; of a string only matters whether it is blank, whether white space *)
(* surrounds it, and, of a URL, whether it carries a query or a fragment.     *)
(***************************************************************************)
EXTENDS Integers, FiniteSets

CONSTANTS
    Unset,          \* Option::None
    Blank,          \* strings of white space, the empty one included
    Trim,           \* the strings with white space around something, trimmed
    WithTail,       \* URLs with a query or a fragment
    Localhost       \* where the SDK exports if it is told nothing

EndpointVar == {"ENDPOINT", "METRICS_ENDPOINT", "TRACES_ENDPOINT"}
ProtocolVar == {"PROTOCOL", "METRICS_PROTOCOL", "TRACES_PROTOCOL"}
Signal == {"METRICS", "TRACES"}

\* Removed options, refused rather than ignored.
RemovedOption == {"uptrace_dsn", "otlp_endpoint", "otlp_headers"}

SupportedProtocol == "http/protobuf"

ASSUME TrimAssumption ==
    /\ {Unset} \cap DOMAIN Trim = {}
    /\ \A s \in DOMAIN Trim : Trim[s] \notin Blank \cup {Unset}

TrimmedValue(s) == IF s \in DOMAIN Trim THEN Trim[s] ELSE s

\* OtelEnv::from_env: a value is trimmed, a blank one counts as unset.
FromEnv(environment) ==
    [v \in EndpointVar \cup ProtocolVar |->
        IF environment[v] \in Blank THEN Unset ELSE TrimmedValue(environment[v])]

AnyEndpoint(env) == \E v \in EndpointVar : env[v] # Unset

\* check_removed
NoneRemoved(options) == options \cap RemovedOption = {}

\* check_generic_endpoint: the SDK appends the path of the signal to this one.
GenericEndpointFits(env) == env["ENDPOINT"] \notin WithTail

\* check_protocols
ProtocolsSpoken(env) == \A v \in ProtocolVar : env[v] \in {Unset, SupportedProtocol}

\* Deliberate mistake: without an endpoint nothing is looked at.
ResolveConfigOffFirst(options, env) ==
    IF ~AnyEndpoint(env) THEN "off"
    ELSE IF NoneRemoved(options) /\ GenericEndpointFits(env) /\ ProtocolsSpoken(env)
    THEN "on" ELSE "error"

\* TelemetryConfig::resolve
ResolveConfig(options, env) ==
    IF ~NoneRemoved(options) THEN "error"
    ELSE IF ~AnyEndpoint(env) THEN "off"
    ELSE IF GenericEndpointFits(env) /\ ProtocolsSpoken(env) THEN "on" ELSE "error"

\* The SDK reads the environment itself, and does not trim: what is no URL it
\* passes over (a release that fails on it instead fails init, see Serve).  A
\* signal's own URL is used verbatim, the base is composed with the signal's path.
OwnEndpoint(signal) == IF signal = "METRICS" THEN "METRICS_ENDPOINT" ELSE "TRACES_ENDPOINT"
IsUrl(s) == s \notin {Unset} \cup Blank \cup DOMAIN Trim
ExportUrl(environment, signal) ==
    LET own == environment[OwnEndpoint(signal)]
        generic == environment["ENDPOINT"]
    IN  IF IsUrl(own) THEN [base |-> own, path |-> ""]
        ELSE IF IsUrl(generic) THEN [base |-> generic, path |-> signal]
        ELSE [base |-> Localhost, path |-> signal]

\* Every other transport than http/protobuf is left out of the build.
Arrives(url) == url.base # Localhost /\ (url.path = "" \/ url.base \notin WithTail)

-----------------------------------------------------------------------------
(* What is recorded of a request.  A path is [first, below, slash]: its first  *)
(* name, whether anything follows, be it a slash only, and whether it ends    *)
(* with one, before anything is decoded.                                    *)

\* Deliberate mistake: a listing is taken for the note it would be without slash.
ClassifyRouteByPrefix(path) ==
    CASE path.first \in {"health", "query"} /\ ~path.below -> path.first
      [] path.first = "notes" /\ path.below -> "note"
      [] OTHER -> "other"

ClassifyRoute(path) ==
    CASE path.first \in {"health", "query"} /\ ~path.below -> path.first
      [] path.first = "notes" /\ path.slash -> "folder"
      [] path.first = "notes" /\ path.below /\ ~path.slash -> "note"
      [] OTHER -> "other"

\* `slow`: the duration is at or over slow_request_ms.
ShouldSpan(slow, status) == slow \/ status >= 500

ConditionalGet(status, ifNoneMatchPresent) ==
    IF status = 304 THEN "not_modified"
    ELSE IF ifNoneMatchPresent THEN "revalidated" ELSE "unconditional"

\* The attributes of http.server.requests.
Labels(route, status, ifNoneMatchPresent) ==
    [route |-> route, status |-> status,
     conditional |-> ConditionalGet(status, ifNoneMatchPresent)]

=============================================================================
