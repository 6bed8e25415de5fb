------------------------------- MODULE Query -------------------------------
(***************************************************************************)
(* query.rs: parsing a query string, selecting notes by path and            *)
(* frontmatter, and the two answers built from them, the JSON page and the   *)
(* merged document.                                                         *)
(*                                                                         *)
(* Strings are members of finite sets.  What the code asks of a string       *)
(* beyond equality is a constant: its place in byte order, the number, date  *)
(* or list it parses to, whether it starts with or matches another.          *)
(*                                                                         *)
(* A frontmatter is a function from the dotted keys that resolve in it to    *)
(* values.  A value carries its canonical string as `text`; numbers and      *)
(* dates carry their magnitude as `at`, integers and floats on one scale.    *)
(***************************************************************************)
EXTENDS Ordering

LOCAL INSTANCE SequencesExt

CONSTANTS
    TextRank,       \* [Text -> Nat]: byte order of the strings
    PathRank,       \* [Path -> Nat]: byte order; a path is a sequence of names
    Decode,         \* raw query values to strings; the others do not decode
    AsInt, AsFloat, AsDate, AsDatetime,  \* the strings that parse, to magnitudes
    AsCount,        \* ... as usize, to numbers
    AsPath,         \* [Text -> Seq(name)]: leading slashes trimmed, split at slashes
    CommaList,      \* [Text -> Seq(Text)]: split at commas and trimmed
    StartsWith,     \* pairs <<s, prefix>>
    RegexMatches,   \* pairs <<s, pattern>>
    Regex,          \* the strings that compile as a pattern
    NaN,            \* the magnitude of a float that is not a number
    Nearest         \* integers that no f64 has, to the f64 they convert to

Text == DOMAIN TextRank
Path == DOMAIN PathRank

ASSUME OrderAssumption ==
    /\ TextRank \in [Text -> Nat]
    /\ PathRank \in [Path -> Nat]
    /\ \A s, t \in Text : TextRank[s] = TextRank[t] => s = t
    /\ \A p, q \in Path : PathRank[p] = PathRank[q] => p = q
    /\ AsPath \in [Text -> Seq(STRING)] /\ DOMAIN CommaList = Text
    /\ DOMAIN Nearest \subseteq Int /\ Nearest \in [DOMAIN Nearest -> Int]
    /\ Decode \in [DOMAIN Decode -> Text] /\ AsCount \in [DOMAIN AsCount -> Nat]

\* Option::None
Missing == [type |-> "missing", at |-> 0, text |-> "", items |-> <<>>]

-----------------------------------------------------------------------------
(* Parsing.  A parameter of the raw query is [name, field, suffix, value]:   *)
(* name is "field" for a key without `__` and "suffixed" for one with it, what  *)
(* follows __anw-, or "undecodable" for a key that does not decode; field and    *)
(* suffix are the two sides of the last `__`, or the key and the direction of an *)
(* order, or the key of a kind.                                                *)

OperatorSuffixes == {"in", "all", "not", "exists", "regex", "prefix", "gt", "gte", "lt", "lte"}
Operators == OperatorSuffixes \cup {"eq"}

\* An empty suffix is a suffix.
SplitOperator(p) ==
    IF p.name = "field" THEN "eq" ELSE IF p.suffix \in OperatorSuffixes THEN p.suffix ELSE "unknown"

ParsedQuery ==
    [error |-> "none", predicates |-> <<>>, recursive |-> TRUE, path |-> <<>>,
     limit |-> -1, order |-> "", desc |-> FALSE, kind |-> ""]

Failed(q, error) == [q EXCEPT !.error = error]

\* Deliberate mistake: an unknown suffix or a broken pattern is accepted.
WithPredicateUnchecked(q, field, op, value) ==
    [q EXCEPT !.predicates = Append(@, [field |-> field, op |-> op, value |-> value])]

\* A value that can never match is refused here rather than at evaluation.
WithPredicate(q, field, op, value) ==
    IF op \notin Operators
    THEN Failed(q, "UnknownOperator")
    ELSE IF \/ op = "regex" /\ value \notin Regex
            \/ op = "exists" /\ value \notin {"true", "false"}
    THEN Failed(q, "BadValue")
    ELSE [q EXCEPT !.predicates = Append(@, [field |-> field, op |-> op, value |-> value])]

\* apply_control: a repeated control replaces the earlier one.
WithControl(q, p, value) ==
    CASE p.name = "recursive" /\ value \in {"true", "false"} ->
           [q EXCEPT !.recursive = (value = "true")]
      [] p.name = "path" -> [q EXCEPT !.path = AsPath[value]]
      [] p.name = "limit" /\ value \in DOMAIN AsCount -> [q EXCEPT !.limit = AsCount[value]]
      [] p.name = "order" /\ p.field # "" ->
           [q EXCEPT !.order = p.field, !.desc = (p.suffix = ":desc")]
      [] p.name = "kind" /\ p.field # "" -> [q EXCEPT !.kind = p.field]
      [] OTHER -> Failed(q, "BadControl")

\* The loop returns at the first parameter it refuses.
WithParameter(q, p) ==
    IF q.error # "none" THEN q
    ELSE IF p.name = "undecodable" \/ p.value \notin DOMAIN Decode THEN Failed(q, "BadValue")
    ELSE IF p.name \in {"field", "suffixed"}
    THEN WithPredicate(q, p.field, SplitOperator(p), Decode[p.value])
    ELSE WithControl(q, p, Decode[p.value])

Parse(raw) ==
    LET parsed[n \in 0..Len(raw)] ==
            IF n = 0 THEN ParsedQuery ELSE WithParameter(parsed[n - 1], raw[n])
    IN  parsed[Len(raw)]

-----------------------------------------------------------------------------
(* Which notes match.                                                        *)

Lookup(fm, key) == IF key \in DOMAIN fm THEN fm[key] ELSE Missing

\* Deliberate mistake: the prefix is not anchored at a segment boundary.
PathMatchesUnanchored(path, prefix, recursive) ==
    IF prefix = <<>>
    THEN recursive \/ Len(path) = 1
    ELSE /\ Len(path) >= Len(prefix)
         /\ \A i \in DOMAIN prefix : <<path[i], prefix[i]>> \in StartsWith
         /\ recursive \/ Len(path) <= Len(prefix) + 1

\* The prefix may name a note itself.
PathMatches(path, prefix, recursive) ==
    IF prefix = <<>>
    THEN recursive \/ Len(path) = 1
    ELSE \/ path = prefix
         \/ /\ Len(path) > Len(prefix) /\ \A i \in DOMAIN prefix : path[i] = prefix[i]
            /\ recursive \/ Len(path) = Len(prefix) + 1

\* Sequences and mappings equal no needle.
MatchesScalarEq(v, needle) == v.type \notin {"list", "map"} /\ v.text = needle

\* A list equals what it contains.
MatchesEq(v, needle) ==
    IF v.type = "list"
    THEN \E i \in DOMAIN v.items : MatchesScalarEq(v.items[i], needle)
    ELSE MatchesScalarEq(v, needle)

Cmp(a, b) == IF a < b THEN "less" ELSE IF a > b THEN "greater" ELSE "equal"

\* partial_cmp, with NaN taken for equal.
FloatCmp(a, b) == IF NaN \in {a, b} THEN "equal" ELSE Cmp(a, b)

Numeric(v) == v.type \in {"int", "float"}

\* try_as_float: an integer beyond 2^53 may become another number.
AsF64(v) == IF v.type = "int" /\ v.at \in DOMAIN Nearest THEN Nearest[v.at] ELSE v.at

\* ordered_compare: the first rung that reads both sides; "none" if there is none.
NeedleCmp(v, needle) ==
    IF v.type = "date" /\ needle \in DOMAIN AsDate THEN Cmp(v.at, AsDate[needle])
    ELSE IF v.type = "datetime" /\ needle \in DOMAIN AsDatetime
    THEN Cmp(v.at, AsDatetime[needle])
    ELSE IF v.type = "int" /\ needle \in DOMAIN AsInt THEN Cmp(v.at, AsInt[needle])
    ELSE IF Numeric(v) /\ needle \in DOMAIN AsFloat THEN FloatCmp(AsF64(v), AsFloat[needle])
    ELSE IF v.type = "string" THEN Cmp(TextRank[v.text], TextRank[needle])
    ELSE "none"

\* Deliberate mistake: a note at the bound is outside the closed range.
AcceptsGteStrict(op) ==
    CASE op \in {"gt", "gte"} -> {"greater"}
      [] op = "lt" -> {"less"}
      [] op = "lte" -> {"less", "equal"}

\* ord
Accepts(op) ==
    CASE op = "gt" -> {"greater"}
      [] op = "gte" -> {"greater", "equal"}
      [] op = "lt" -> {"less"}
      [] op = "lte" -> {"less", "equal"}

Elements(s) == {s[i] : i \in DOMAIN s}

\* Deliberate mistake: a note that lacks the field fails its negation.
DiffersNeedsField(v, needle) == v # Missing /\ ~MatchesEq(v, needle)

Differs(v, needle) == v = Missing \/ ~MatchesEq(v, needle)

\* Deliberate mistake: __in compares a list as a whole.
IsOneOfScalarOnly(v, needles) ==
    v # Missing /\ \E needle \in needles : MatchesScalarEq(v, needle)

IsOneOf(v, needles) == v # Missing /\ \E needle \in needles : MatchesEq(v, needle)

PredicateMatch(p, fm) ==
    LET v == Lookup(fm, p.field)
        needles == Elements(CommaList[p.value])
    IN  CASE p.op = "exists" -> (v # Missing) = (p.value = "true")
          [] p.op = "eq" -> v # Missing /\ MatchesEq(v, p.value)
          [] p.op = "not" -> Differs(v, p.value)
          [] p.op = "in" -> IsOneOf(v, needles)
          [] p.op = "all" ->
               /\ v.type = "list"
               /\ \A needle \in needles :
                     \E i \in DOMAIN v.items : MatchesScalarEq(v.items[i], needle)
          [] p.op = "regex" -> v.type = "string" /\ <<v.text, p.value>> \in RegexMatches
          [] p.op = "prefix" -> v.type = "string" /\ <<v.text, p.value>> \in StartsWith
          [] OTHER -> v # Missing /\ NeedleCmp(v, p.value) \in Accepts(p.op)

PredicatesMatch(predicates, fm) ==
    \A i \in DOMAIN predicates : PredicateMatch(predicates[i], fm)

\* The store is a function from the indexed paths to frontmatters.
Matching(notes, q) ==
    {p \in DOMAIN notes : /\ PathMatches(p, q.path, q.recursive)
                          /\ PredicatesMatch(q.predicates, notes[p])}

\* The store iterates in path order.
InPathOrder(S) == Ascending(S, PathRank)

Limited(s, limit) == IF limit >= 0 /\ Len(s) > limit THEN SubSeq(s, 1, limit) ELSE s

-----------------------------------------------------------------------------
(* The JSON answer.                                                          *)

\* Deliberate mistake: the total counts the page.
ExecutePageTotal(notes, q) ==
    LET page == Limited(InPathOrder(Matching(notes, q)), q.limit)
    IN  [results |-> page, total |-> Len(page), truncated |-> Len(page) = q.limit]

Execute(notes, q) ==
    LET matches == InPathOrder(Matching(notes, q))
    IN  [results |-> Limited(matches, q.limit), total |-> Len(matches),
         truncated |-> q.limit >= 0 /\ Len(matches) > q.limit]

-----------------------------------------------------------------------------
(* The merged document, as the sequence of the paths of its fragments.        *)

BothType(v, w, type) == v.type = type /\ w.type = type

\* The ladder of the range operators, ending in the canonical strings.
CompareValues(v, w) ==
    IF BothType(v, w, "date") \/ BothType(v, w, "datetime") \/ BothType(v, w, "int")
    THEN Cmp(v.at, w.at)
    ELSE IF Numeric(v) /\ Numeric(w) THEN FloatCmp(AsF64(v), AsF64(w))
    ELSE Cmp(TextRank[v.text], TextRank[w.text])

\* Values that this ladder puts on one scale: integers alone, or beside floats
\* only numbers that an f64 holds.
OneScale(V) ==
    \/ \A v \in V : v.type = "int"
    \/ \A v \in V : Numeric(v) => v.at # NaN /\ AsF64(v) = v.at

Reversed(c) == CASE c = "less" -> "greater" [] c = "greater" -> "less" [] OTHER -> c

\* Deliberate mistake: the direction turns the missing values too.
OrderCmpAllReversed(v, w, desc) ==
    LET base == IF v = Missing \/ w = Missing
                THEN Cmp(IF v = Missing THEN 1 ELSE 0, IF w = Missing THEN 1 ELSE 0)
                ELSE CompareValues(v, w)
    IN  IF desc THEN Reversed(base) ELSE base

\* Missing values come last in either direction.
OrderCmp(v, w, desc) ==
    IF v = Missing \/ w = Missing
    THEN Cmp(IF v = Missing THEN 1 ELSE 0, IF w = Missing THEN 1 ELSE 0)
    ELSE IF desc THEN Reversed(CompareValues(v, w)) ELSE CompareValues(v, w)

OrderKey(notes, q, p) == IF q.order = "" THEN Missing ELSE Lookup(notes[p], q.order)

\* The comparator of the sort: the order key, then the path.
Before(notes, q, p, r) ==
    LET c == OrderCmp(OrderKey(notes, q, p), OrderKey(notes, q, r), q.desc)
    IN  c = "less" \/ (c = "equal" /\ PathRank[p] < PathRank[r])

\* slice::sort_by promises an order only where the comparator is one; without
\* that the result is some permutation.
Sortings(notes, q, S) ==
    LET less == {e \in S \X S : Before(notes, q, e[1], e[2])}
        total == \A p, r, s \in S : <<p, r>> \in less /\ <<r, s>> \in less => <<p, s>> \in less
    IN  IF total THEN {SortedBy(S, less)} ELSE SetToSeqs(S)

KindKey(notes, q, p) == Lookup(notes[p], q.kind)

\* The homogeneity guard groups the matched notes by canonical string.
KindGuardFails(notes, q, S) ==
    /\ q.kind # ""
    /\ \/ \E p \in S : KindKey(notes, q, p) = Missing
       \/ Cardinality({KindKey(notes, q, p).text : p \in S}) > 1

\* Err(MergeError::KindGuard), and Ok
Refused == [guard |-> "failed", fragments |-> <<>>]
Document(fragments) == [guard |-> "passed", fragments |-> fragments]

\* Deliberate mistake: the guard judges the capped document.
ExecuteMergeGuardAfterLimit(notes, q) ==
    {IF KindGuardFails(notes, q, Elements(Limited(s, q.limit)))
     THEN Refused ELSE Document(Limited(s, q.limit)) : s \in Sortings(notes, q, Matching(notes, q))}

\* Deliberate mistake: the cap is applied before the sort.
ExecuteMergeLimitFirst(notes, q) ==
    LET S == Matching(notes, q) IN
    IF KindGuardFails(notes, q, S) THEN {Refused}
    ELSE {Document(s) : s \in Sortings(notes, q, Elements(Limited(InPathOrder(S), q.limit)))}

\* execute_merge: the set of its possible answers.
ExecuteMerge(notes, q) ==
    LET S == Matching(notes, q) IN
    IF KindGuardFails(notes, q, S) THEN {Refused}
    ELSE {Document(Limited(s, q.limit)) : s \in Sortings(notes, q, S)}

=============================================================================
