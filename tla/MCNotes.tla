------------------------------ MODULE MCNotes ------------------------------
(* Small vaults for doctor. *)
EXTENDS Doctor, TLC

CONSTANTS nan

Ranks(sorted) == [s \in ToSet(sorted) |-> CHOOSE i \in DOMAIN sorted : sorted[i] = s]

\* In byte order; the last two stand for debug texts.
Instant == "2024-01-01T00:00:00Z"
InstantElsewhere == "2024-01-01T01:00:00+01:00"
InstantAndAHalf == "2024-01-01T00:00:00.5Z"
Exact == "9007199254740992"
Wide == "9007199254740993"
Texts == <<"", "1", "1.0", "10", "1a", "2024-01-01", InstantAndAHalf, Instant, InstantElsewhere,
           "2024-1-1", "9", Exact, "9007199254740992.0", Wide, "NaN", "null", "true", "x", "y", "Mapping", "Sequence">>
TextOrder == Ranks(Texts)
Paths == <<<<"a.md">>, <<"b", "c.md">>, <<"d.md">>, <<"e.md">>>>
PathOrder == Ranks(Paths)

\* Magnitudes keep the order only: 1001 is 2^53 + 1, whose nearest f64 is 2^53.
Ints == ("1" :> 1 @@ "9" :> 9 @@ "10" :> 10 @@ Exact :> 1000 @@ Wide :> 1001)
Rounded == (1001 :> 1000)
Floats == ("1" :> 1 @@ "9" :> 9 @@ "10" :> 10 @@ "1.0" :> 1 @@ Exact :> 1000
           @@ "9007199254740992.0" :> 1000 @@ Wide :> 1000 @@ "NaN" :> nan)
Dates == ("2024-01-01" :> 20240101 @@ "2024-1-1" :> 20240101)
Datetimes == (Instant :> 100 @@ InstantElsewhere :> 100 @@ InstantAndAHalf :> 101)
Same == [t \in ToSet(Texts) |-> t]
NoPaths == [t \in ToSet(Texts) |-> <<>>]
Lists == [t \in ToSet(Texts) |-> <<t>>]
Instants == (100 :> Instant @@ 101 :> Instant)
JsonDates == (20240101 :> "2024-01-01")
JsonFloats == ("1" :> "1.0" @@ Exact :> "9007199254740992.0")

\* A name that holds a backslash stands beside a folder.
Files == {"a.md", "b/c.md", "b\\c.md", "d.md", "e.md", "\\377.md"}
PathOf == ("a.md" :> <<"a.md">> @@ "b/c.md" :> <<"b", "c.md">> @@ "b\\c.md" :> <<"b", "c.md">>
           @@ "d.md" :> <<"d.md">> @@ "e.md" :> <<"e.md">> @@ "\\377.md" :> <<>>)

Splits == ("n" :> <<"n">> @@ "d" :> <<"d">> @@ "1" :> <<"1">> @@ "m" :> <<"m">> @@ "l" :> <<"l">>
           @@ "m.n" :> <<"m", "n">> @@ "m.m" :> <<"m", "m">> @@ "m.n.n" :> <<"m", "n", "n">>)

Leaf(yaml, at, text) ==
    [yaml |-> yaml, at |-> at, text |-> text, items |-> <<>>, entries |-> <<>>]
Num(n) == Leaf("int", n, ToString(n))
Str(t) == Leaf("string", 0, t)
Items(yaml, nodes) == [Leaf(yaml, 0, "") EXCEPT !.items = nodes]
Entry(key, node) == [key |-> key, node |-> node]

LineEntry ==
    ("n: 9" :> Entry("n", Num(9)) @@ "n: 10" :> Entry("n", Num(10))
     @@ "n: 1a" :> Entry("n", Str("1a")) @@ "n: 1.0" :> Entry("n", Leaf("float", 1, "1"))
     @@ "n: 2^53" :> Entry("n", Leaf("int", 1000, Exact))
     @@ "n: 2^53 + 1" :> Entry("n", Leaf("int", 1001, Wide))
     @@ "n: 2^53 as float" :> Entry("n", Leaf("float", 1000, Exact))
     @@ "n: .nan" :> Entry("n", Leaf("float", nan, "NaN"))
     @@ "n: true" :> Entry("n", Leaf("bool", 0, "true"))
     @@ "n:" :> Entry("n", Leaf("null", 0, "null"))
     @@ "n: !t 9" :> Entry("n", Items("tagged", <<Num(9)>>))
     @@ "d: date" :> Entry("d", Str("2024-1-1"))
     @@ "d: instant" :> Entry("d", Str(Instant))
     @@ "d: elsewhere" :> Entry("d", Str(InstantElsewhere))
     @@ "d: half" :> Entry("d", Str(InstantAndAHalf))
     @@ "1: x" :> Entry("1", Str("x")) @@ "'1': y" :> Entry("1", Str("y"))
     @@ "m.m: x" :> Entry("m.m", Str("x"))
     @@ "m: {n: 9}" :>
          Entry("m", [Leaf("mapping", 0, "") EXCEPT !.entries = <<Entry("n", Num(9))>>])
     @@ "l: [9, 1a]" :> Entry("l", Items("sequence", <<Num(9), Str("1a")>>)))

Nodes == {LineEntry[l].node : l \in DOMAIN LineEntry}
Nests == [node \in Nodes |-> IF node.yaml \in {"tagged", "sequence", "mapping"} THEN 1 ELSE 0]
DebugText == [node \in Nodes |-> IF node.yaml = "mapping" THEN "Mapping" ELSE "Sequence"]

\* Lines that are entries make a mapping; prose or a list alone is another root,
\* a marker in front of it begins the document.
Parser(lines) ==
    CASE ToSet(lines) \subseteq DOMAIN LineEntry ->
           [root |-> "mapping", entries |-> [i \in DOMAIN lines |-> LineEntry[lines[i]]]]
      [] ToSet(lines) \subseteq {"---", "prose", "- item"} -> [root |-> "other"]
      [] OTHER -> [root |-> "broken"]

Texted(lines) == [readable |-> TRUE, utf8 |-> TRUE, lines |-> lines]
Block(lines) == Texted(<<"---">> \o lines \o <<"---", "prose">>)
Keyed(keys) == {Block(<<k>>) : k \in keys}

Authored ==
    ("a.md" :>
        Keyed({"n: 9", "n: 1.0", "n: .nan", "n: 1a", "n:", "d: half", "n: 2^53 + 1"})
        \cup {Block(<<"1: x", "'1': y", "m.m: x">>), Block(<<"m: {n: 9}", "l: [9, 1a]">>),
              Block(<<"- item">>), Block(<<"prose", "n: 9">>), Block(<<" ", "">>),
              Texted(<<>>), Texted(<<"---">>), Texted(<<"---", "---", "prose">>),
              Texted(<<"---", "---", "prose", "---", "prose">>),
              Texted(<<"---", "n: 9", "---", "prose", "---", "prose">>),
              Texted(<<"---", "n: 9", "prose">>), Texted(<<"prose", "---", "n: 9", "---">>),
              [Texted(<<>>) EXCEPT !.readable = FALSE], [Texted(<<>>) EXCEPT !.utf8 = FALSE]}
     @@ "b/c.md" :> Keyed({"n: 10", "n: !t 9", "d: instant", "n: 2^53 as float"})
     @@ "b\\c.md" :> Keyed({"n: 10"})
     @@ "d.md" :> Keyed({"n: 1a", "n: 10", "d: elsewhere"})
     @@ "e.md" :> Keyed({"n: 10", "n: true", "d: date", "n: 2^53"})
     @@ "\\377.md" :> Keyed({"n: 10"}))

Below == ("b" :> {"b/c.md"})

\* A path that is not UTF-8.
BrokenPath == {"\\377.md"}

Orders == {<<"a.md", "b\\c.md", "d.md", "b/c.md", "e.md", "\\377.md">>,
           <<"\\377.md", "e.md", "b/c.md", "d.md", "b\\c.md", "a.md">>}
=============================================================================
