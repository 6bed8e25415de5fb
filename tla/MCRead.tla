------------------------------ MODULE MCRead -------------------------------
(* Small instances of the read side. *)
EXTENDS ReadProperties, TLC

CONSTANTS bad, nan, any

Ranks(sorted) == [s \in ToSet(sorted) |-> CHOOSE i \in DOMAIN sorted : sorted[i] = s]

Instant == "2024-01-01T00:00:00Z"
Exact == "9007199254740992.0"
Wide == "9007199254740993"

\* In byte order.
Texts == <<"", "1", "10", "1a", "2024-01-01", Instant, "9", Exact, Wide,
           "NaN", "a", "a,b", "b", "false", "p", "true">>
Names == <<"a.md", "p", "pq", "q", "x.md", "y.md", "z.md">>
Paths == <<<<"a.md">>, <<"p", "q", "y.md">>, <<"p", "x.md">>, <<"pq", "z.md">>>>

TextOrder == Ranks(Texts)
PathOrder == Ranks(Paths)

DecodedValues == [t \in ToSet(Texts) \ {"a,b"} |-> t] @@ ("a%2Cb" :> "a,b")
\* Magnitudes keep the order only: 1001 is 2^53 + 1, whose nearest f64 is 2^53.
Ints == ("1" :> 1 @@ "9" :> 9 @@ "10" :> 10 @@ Wide :> 1001)
Rounded == (1001 :> 1000)
Floats == ("1" :> 1 @@ "9" :> 9 @@ "10" :> 10 @@ Wide :> 1000 @@ Exact :> 1000 @@ "NaN" :> nan)
Dates == ("2024-01-01" :> 20240101)
Datetimes == (Instant :> 100)
Counts == ("1" :> 1 @@ "9" :> 9 @@ "10" :> 10)
PathValues == [t \in ToSet(Texts) |-> IF t = "" THEN <<>> ELSE <<t>>]
Lists == [t \in ToSet(Texts) |-> IF t = "a,b" THEN <<"a", "b">> ELSE <<t>>]
Prefixed == {<<t, "">> : t \in ToSet(Texts)} \cup {<<t, t>> : t \in ToSet(Texts) \cup ToSet(Names)}
            \cup {<<"10", "1">>, <<"1a", "1">>, <<"a,b", "a">>, <<"pq", "p">>}
Matches == {<<t, "a">> : t \in {"a", "1a", "a,b", "NaN", "false"}} \cup {<<"b", "b">>, <<"a,b", "b">>}
Patterns == {"a", "b"}

Value(type, at, text) == [type |-> type, at |-> at, text |-> text, items |-> <<>>]
Num(n) == Value("int", n, ToString(n))
Txt(t) == Value("string", 0, t)
\* The debug form of a list stands for some text.
List(items) == [type |-> "list", at |-> 0, text |-> "1a", items |-> items]

Field(field, value) == [name |-> "field", field |-> field, suffix |-> "", value |-> value]
Suffixed(field, suffix, value) ==
    [name |-> "suffixed", field |-> field, suffix |-> suffix, value |-> value]
Control(name, value) == [name |-> name, field |-> "", suffix |-> "", value |-> value]
KeyControl(name, key, direction) == [name |-> name, field |-> key, suffix |-> direction, value |-> "a"]

\* A vault with a value of every kind the ladder tells apart; one of the two instants has a fraction of a
\* second.
MixedVault ==
    (<<"a.md">> :> [r |-> Num(9), t |-> List(<<Txt("a"), Txt("b")>>),
                     d |-> Value("datetime", 100, Instant)]
     @@ <<"p", "q", "y.md">> :> [r |-> Value("float", nan, "NaN"), d |-> Value("int", 1001, Wide)]
     @@ <<"p", "x.md">> :> [r |-> Txt("1a"), t |-> Txt("a,b"),
                            d |-> Value("datetime", 101, Instant)]
     @@ <<"pq", "z.md">> :> [r |-> Value("float", 10, "10"), t |-> Txt("b"),
                             d |-> Value("date", 20240101, "2024-01-01")])
MixedVaults == {MixedVault}

SelectParameters ==
    {Field("r", "9"), Suffixed("r", "gte", "9"), Suffixed("t", "in", "a%2Cb"),
     Suffixed("t", "all", "a"), Suffixed("d", "exists", "false"), Suffixed("r", "regex", "a"),
     Suffixed("t", "prefix", "a"), Control("path", "p"), Control("recursive", "false"),
     Control("limit", "1"), Suffixed("t", "contians", "a"), Suffixed("t", "", "a"),
     Control("limit", "a"), Control("kind", "a"), Field("t", "%")}

\* Every vault of three notes that have a number or not and one of two kinds, or
\* do not parse.
NumberedNotes ==
    {[num |-> Num(1), k |-> Txt("a")], [num |-> Num(10), k |-> Txt("a")],
     [k |-> Txt("a")], [num |-> Num(9), k |-> Txt("b")]}
NumberedVaults == [{<<"a.md">>, <<"p", "x.md">>, <<"pq", "z.md">>} -> NumberedNotes \cup {bad}]

MergeParameters ==
    {KeyControl("order", "num", ""), KeyControl("order", "num", ":desc"), KeyControl("kind", "k", ""),
     Control("limit", "1"), Suffixed("k", "not", "b")}

\* An order key that is a number in two notes and a text in the third.
MixedKeyVault ==
    (<<"a.md">> :> [num |-> Num(9)] @@ <<"p", "x.md">> :> [num |-> Num(10)]
     @@ <<"pq", "z.md">> :> [num |-> Txt("1a")])
MixedKeyVaults == {MixedKeyVault}

\* A client encodes no name of these vaults; it may still write one encoded, hide
\* a slash, encode twice, or leave a segment empty.
NameOrder == Ranks(Names)
Written == [t \in ToSet(Names) |-> t]
NamesRead ==
    [t \in ToSet(Names) \cup {"", "..", "%71"} |-> <<t>>]
    @@ ("%70" :> <<"p">>) @@ ("p%2Fq" :> <<"p", "q">>) @@ ("%2571" :> <<"%71">>)
NamesReadAgain ==
    [t \in ToSet(Names) \cup {"", ".."} |-> <<t>>] @@ ("%71" :> <<"q">>)

Segments ==
    {<<"">>, <<"p", "">>, <<"p", "q", "">>, <<"", "p", "">>, <<"%70", "q", "y.md">>, <<"p%2Fq", "">>,
     <<"p", "%2571", "y.md">>, <<"p", "..", "a.md">>, <<"p", "", "x.md">>, <<"p">>, <<"%zz">>}
Tags == {{}, {any}, {MixedVault[<<"p", "q", "y.md">>]}}
PathRequests == [segments : Segments, ifNoneMatch : Tags]
NoRequests == {}
=============================================================================
