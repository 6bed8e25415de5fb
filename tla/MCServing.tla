------------------------------ MODULE MCServing ------------------------------
(* A small instance of the request pipeline. *)
EXTENDS Serving, TLC

CONSTANTS unset, localhost, any, s1, s2

URL == "https://collector"
Tailed == "https://collector?grpc=4317"
Plain == [v \in EndpointVar \cup ProtocolVar |-> unset]

Padded == " https://collector"
PaddedTailed == "https://collector?grpc=4317 "
Untrimmed == Padded :> URL @@ PaddedTailed :> Tailed @@ " http/protobuf" :> "http/protobuf"

Run(options, settings) == [options |-> options, environment |-> settings @@ Plain]

\* Every way to be refused, and to be let through, alone and together.
AllStarts ==
    {Run({}, Plain),
     Run({}, "ENDPOINT" :> " " @@ "PROTOCOL" :> "grpc"),
     Run({"otlp_headers"}, Plain),
     Run({"uptrace_dsn"}, "ENDPOINT" :> URL),
     Run({}, "ENDPOINT" :> Padded),
     Run({}, "ENDPOINT" :> PaddedTailed),
     Run({}, "ENDPOINT" :> URL @@ "METRICS_ENDPOINT" :> Padded @@ "PROTOCOL" :> " http/protobuf"),
     Run({}, "ENDPOINT" :> Tailed),
     Run({}, "ENDPOINT" :> Tailed @@ "METRICS_ENDPOINT" :> URL),
     Run({}, "METRICS_ENDPOINT" :> Tailed @@ "PROTOCOL" :> "http/protobuf"),
     Run({}, "TRACES_ENDPOINT" :> URL @@ "TRACES_PROTOCOL" :> "grpc")}

Request(first, segments, tags) ==
    [first |-> first, segments |-> segments, get |-> TRUE, ifNoneMatch |-> tags]
Post(r) == [r EXCEPT !.get = FALSE]

AllRequests ==
    {Request("health", <<>>, {}), Request("query", <<>>, {}), Post(Request("query", <<>>, {})),
     Request("query", <<"">>, {}), Request("notes", <<>>, {}),
     Request("notes", <<"">>, {}), Request("notes", <<"p", "">>, {any}),
     Request("notes", <<"p%2F">>, {}), Request("notes", <<"p", "x.md">>, {any}),
     Request("notes", <<"p", "x.md">>, {}), Request("notes", <<"p", "..">>, {})}

Indexed == {<<"p", "x.md">>}
Etags == [p \in Indexed |-> 1]
Once == [t \in {"", "p", "x.md", ".."} |-> <<t>>]
OnceRaw == Once @@ ("p%2F" :> <<"p", "">>)
Order == ("p" :> 1 @@ "x.md" :> 2)
=============================================================================
