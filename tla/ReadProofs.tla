----------------------------- MODULE ReadProofs -----------------------------
(***************************************************************************)
(* What readers are promised, for every vault, every query string and every  *)
(* request: what the parser returns, the algebra of the filters, the guard,   *)
(* the page and the order of the merged document, and the folder listings.    *)
(***************************************************************************)
EXTENDS ReadProperties, SequenceFacts, FiniteSetTheorems, SequenceTheorems, TLAPS

-----------------------------------------------------------------------------
(* What the parser returns.                                                  *)

\* A query whose regular expressions compile.
SoundQueries ==
    {q \in ParsedQueries :
        \A i \in DOMAIN q.predicates : q.predicates[i].op = "regex" => q.predicates[i].value \in Regex}

LEMMA Appended ==
    ASSUME NEW S, NEW s \in Seq(S), NEW e
    PROVE  /\ DOMAIN Append(s, e) = DOMAIN s \cup {Len(s) + 1}
           /\ \A i \in DOMAIN s : Append(s, e)[i] = s[i]
           /\ Append(s, e)[Len(s) + 1] = e
<1>1. s \in Seq(S \cup {e})
  OBVIOUS
<1>2. e \in S \cup {e}
  OBVIOUS
<1> QED
  BY <1>1, <1>2, AppendProperties, LenProperties

LEMMA FailedSound ==
    ASSUME NEW q \in SoundQueries, NEW error \in {"UnknownOperator", "BadValue", "BadControl"}
    PROVE  Failed(q, error) \in SoundQueries
BY DEF Failed, SoundQueries, ParsedQueries

LEMMA WithPredicateSound ==
    ASSUME NEW q \in SoundQueries, NEW field \in STRING, NEW op, NEW value \in Text
    PROVE  WithPredicate(q, field, op, value) \in SoundQueries
<1> DEFINE new == [field |-> field, op |-> op, value |-> value]
<1>1. CASE op \notin Operators
  BY <1>1, FailedSound DEF WithPredicate
<1>2. CASE op \in Operators
  <2>1. CASE \/ op = "regex" /\ value \notin Regex
             \/ op = "exists" /\ value \notin {"true", "false"}
    BY <1>2, <2>1, FailedSound DEF WithPredicate
  <2>2. CASE ~(\/ op = "regex" /\ value \notin Regex
               \/ op = "exists" /\ value \notin {"true", "false"})
    <3>1. WithPredicate(q, field, op, value) = [q EXCEPT !.predicates = Append(@, new)]
      BY <1>2, <2>2 DEF WithPredicate
    <3>2. new \in Predicate /\ (new.op = "regex" => new.value \in Regex)
      BY <1>2, <2>2 DEF Predicate
    <3> HIDE DEF new
    <3>3. q.predicates \in Seq(Predicate)
      BY DEF SoundQueries, ParsedQueries
    <3>4. Append(q.predicates, new) \in Seq(Predicate)
      BY <3>2, <3>3, AppendProperties
    <3>5. \A i \in DOMAIN Append(q.predicates, new) :
             Append(q.predicates, new)[i].op = "regex" =>
                 Append(q.predicates, new)[i].value \in Regex
      BY <3>2, <3>3, Appended DEF SoundQueries
    <3>6. q \in ParsedQueries
      BY DEF SoundQueries
    <3>7. WithPredicate(q, field, op, value).predicates = Append(q.predicates, new)
      BY <3>1, <3>6 DEF ParsedQueries
    <3>8. WithPredicate(q, field, op, value) \in ParsedQueries
      BY <3>1, <3>4, <3>6 DEF ParsedQueries
    <3> QED
      BY <3>5, <3>7, <3>8 DEF SoundQueries
  <2> QED
    BY <2>1, <2>2
<1> QED
  BY <1>1, <1>2

LEMMA WithControlSound ==
    ASSUME NEW q \in SoundQueries, NEW p, p.field \in STRING, NEW value \in Text
    PROVE  WithControl(q, p, value) \in SoundQueries
<1>1. q \in ParsedQueries
  BY DEF SoundQueries
<1>2. AsPath[value] \in Seq(STRING) /\ (value \in DOMAIN AsCount => AsCount[value] \in Int)
  BY OrderAssumption
<1>3. CASE p.name = "recursive" /\ value \in {"true", "false"}
  <2>1. WithControl(q, p, value) = [q EXCEPT !.recursive = (value = "true")]
    BY <1>3 DEF WithControl
  <2>2. (value = "true") \in BOOLEAN
    OBVIOUS
  <2> QED
    BY <1>1, <2>1, <2>2 DEF SoundQueries, ParsedQueries, Key
<1>4. CASE p.name = "path"
  <2>1. WithControl(q, p, value) = [q EXCEPT !.path = AsPath[value]]
    BY <1>4 DEF WithControl
  <2> QED
    BY <1>1, <1>2, <2>1 DEF SoundQueries, ParsedQueries
<1>5. CASE p.name = "limit" /\ value \in DOMAIN AsCount
  <2>1. WithControl(q, p, value) = [q EXCEPT !.limit = AsCount[value]]
    BY <1>5 DEF WithControl
  <2> QED
    BY <1>1, <1>2, <1>5, <2>1 DEF SoundQueries, ParsedQueries
<1>6. CASE p.name = "order" /\ p.field # ""
  <2>1. WithControl(q, p, value) = [q EXCEPT !.order = p.field, !.desc = (p.suffix = ":desc")]
    BY <1>6 DEF WithControl
  <2>2. (p.suffix = ":desc") \in BOOLEAN
    OBVIOUS
  <2> QED
    BY <1>1, <2>1, <2>2 DEF SoundQueries, ParsedQueries, Key
<1>7. CASE p.name = "kind" /\ p.field # ""
  <2>1. WithControl(q, p, value) = [q EXCEPT !.kind = p.field]
    BY <1>7 DEF WithControl
  <2> QED
    BY <1>1, <2>1 DEF SoundQueries, ParsedQueries, Key
<1>8. CASE ~(\/ p.name = "recursive" /\ value \in {"true", "false"}
             \/ p.name = "path"
             \/ p.name = "limit" /\ value \in DOMAIN AsCount
             \/ p.name = "order" /\ p.field # ""
             \/ p.name = "kind" /\ p.field # "")
  <2>1. WithControl(q, p, value) = Failed(q, "BadControl")
    BY <1>8 DEF WithControl
  <2> QED
    BY <2>1, FailedSound
<1> QED
  BY <1>3, <1>4, <1>5, <1>6, <1>7, <1>8

LEMMA WithParameterSound ==
    ASSUME NEW q \in SoundQueries, NEW p \in Parameters
    PROVE  WithParameter(q, p) \in SoundQueries
<1>1. p.field \in STRING
  BY ParametersAssumption
<1>2. CASE q.error # "none"
  BY <1>2 DEF WithParameter
<1>3. CASE q.error = "none" /\ (p.name = "undecodable" \/ p.value \notin DOMAIN Decode)
  <2>1. WithParameter(q, p) = Failed(q, "BadValue")
    BY <1>3 DEF WithParameter
  <2> QED
    BY <2>1, FailedSound
<1>4. CASE q.error = "none" /\ ~(p.name = "undecodable" \/ p.value \notin DOMAIN Decode)
  <2>1. Decode[p.value] \in Text
    BY <1>4, OrderAssumption
  <2>2. WithParameter(q, p) = WithPredicate(q, p.field, SplitOperator(p), Decode[p.value])
        \/ WithParameter(q, p) = WithControl(q, p, Decode[p.value])
    BY <1>4 DEF WithParameter
  <2> QED
    BY <1>1, <2>1, <2>2, WithPredicateSound, WithControlSound
<1> QED
  BY <1>2, <1>3, <1>4

LEMMA ParseSound ==
    ASSUME NEW s \in Seq(Parameters)
    PROVE  Parse(s) \in SoundQueries
<1> DEFINE n == Len(s)
           Step(f) == [k \in 0..n |-> IF k = 0 THEN ParsedQuery ELSE WithParameter(f[k - 1], s[k])]
           parsed == CHOOSE f : f = Step(f)
<1>1. n \in Nat /\ \A i \in 1..n : s[i] \in Parameters
  BY LenProperties, ElementOfSeq
<1>2. Parse(s) = parsed[n]
  BY DEF Parse
<1> HIDE DEF n
<1>3. ParsedQuery \in SoundQueries
  <2>1. <<>> \in Seq(Predicate) /\ <<>> \in Seq(STRING) /\ DOMAIN <<>> = {}
    OBVIOUS
  <2>2. ParsedQuery \in ParsedQueries
    <3>1. -1 \in Int
      OBVIOUS
    <3> QED
      BY <2>1, <3>1 DEF ParsedQuery, ParsedQueries, Key
  <2>3. ParsedQuery.predicates = <<>>
    BY DEF ParsedQuery
  <2> QED
    BY <2>1, <2>2, <2>3 DEF SoundQueries
<1>4. PICK f \in [0..n -> SoundQueries] :
         /\ f[0] = ParsedQuery
         /\ \A i \in 1..n, j \in 0..n : i = j + 1 => f[i] = WithParameter(f[j], s[i])
  <2> DEFINE step == [i \in 1..n |-> [q \in SoundQueries |-> WithParameter(q, s[i])]]
  <2>1. step \in [1..n -> [SoundQueries -> SoundQueries]]
    BY <1>1, WithParameterSound
  <2>2. \A i \in 1..n, q \in SoundQueries : step[i][q] = WithParameter(q, s[i])
    OBVIOUS
  <2> HIDE DEF step
  <2>3. PICK f \in [0..n -> SoundQueries] : IsFold(f, ParsedQuery, n, step)
    BY <1>1, <1>3, <2>1, FoldExists
  <2>4. ASSUME NEW i \in 1..n, NEW j \in 0..n, i = j + 1 PROVE f[i] = WithParameter(f[j], s[i])
    <3>1. f[i] = step[i][f[j]]
      BY <2>3, <2>4 DEF IsFold
    <3> QED
      BY <2>2, <3>1
  <2> QED
    BY <2>3, <2>4 DEF IsFold
<1>5. parsed = Step(parsed)
  <2>1. ASSUME NEW k \in 0..n PROVE f[k] = Step(f)[k]
    <3>1. CASE k = 0
      BY <1>4, <3>1
    <3>2. CASE k # 0
      <4>1. k \in 1..n /\ k - 1 \in 0..n /\ k = (k - 1) + 1
        BY <1>1, <3>2
      <4> QED
        BY <1>4, <3>2, <4>1
    <3> QED
      BY <3>1, <3>2
  <2>2. f = Step(f)
    BY <2>1
  <2> HIDE DEF Step
  <2> QED
    BY <2>2
<1>6. parsed[0] = ParsedQuery
  <2>1. parsed[0] = Step(parsed)[0]
    BY <1>5
  <2> HIDE DEF parsed
  <2> QED
    BY <1>1, <2>1
<1>7. \A i \in 1..n, j \in 0..n : i = j + 1 => parsed[i] = WithParameter(parsed[j], s[i])
  <2> SUFFICES ASSUME NEW i \in 1..n, NEW j \in 0..n, i = j + 1
               PROVE  parsed[i] = WithParameter(parsed[j], s[i])
    OBVIOUS
  <2>1. parsed[i] = Step(parsed)[i]
    BY <1>5
  <2>2. i # 0 /\ i - 1 = j /\ i \in 0..n
    BY <1>1
  <2> HIDE DEF parsed
  <2> QED
    BY <2>1, <2>2
<1> HIDE DEF parsed
<1>8. n \in 0..n => parsed[n] \in SoundQueries
  <2> DEFINE S == {k \in Nat : k \in 0..n => parsed[k] \in SoundQueries}
  <2>1. 0 \in S
    BY <1>3, <1>6
  <2>2. ASSUME NEW j \in Nat, j \in S PROVE j + 1 \in S
    <3>1. PICK i \in Nat : i = j + 1
      OBVIOUS
    <3>2. ASSUME i \in 0..n PROVE parsed[i] \in SoundQueries
      <4>1. i \in 1..n /\ j \in 0..n
        BY <1>1, <3>1, <3>2
      <4>2. parsed[i] = WithParameter(parsed[j], s[i])
        BY <1>7, <3>1, <4>1
      <4>3. parsed[j] \in SoundQueries /\ s[i] \in Parameters
        BY <1>1, <2>2, <4>1
      <4> QED
        BY <4>2, <4>3, WithParameterSound
    <3> QED
      BY <3>1, <3>2
  <2> HIDE DEF S
  <2>3. Nat \subseteq S
    BY <2>1, <2>2, InductionSet
  <2> QED
    BY <1>1, <2>3 DEF S
<1> QED
  BY <1>1, <1>2, <1>8

-----------------------------------------------------------------------------
(* Every answer is one the standing vault has for what was asked.            *)

CliJson(q) == IF LoadError(q) # "none" THEN Fails(LoadError(q)) ELSE Ok(Execute(Store, q))
CliDocuments(q) == IF LoadError(q) # "none" THEN {Fails(LoadError(q))} ELSE Merged(q, "kind")
NotesFor(r) == GetNotes(DOMAIN Store, r.segments, r.ifNoneMatch, Store)

AnswersFit ==
    /\ vault \in Vaults
    /\ raw \in Seq(Parameters) /\ Len(raw) <= MaxParameters
    /\ json \in {NotAsked, HttpJson(Current)}
    /\ document \in {NotAsked} \cup HttpDocuments(Current)
    /\ cliJson \in {NotAsked, CliJson(Current)}
    /\ cliDocument \in {NotAsked} \cup CliDocuments(Current)
    /\ notes # NotAsked => \E r \in Requests : request = r.segments /\ notes = NotesFor(r)

LEMMA AnswersFitInit == Init => AnswersFit
<1>1. <<>> \in Seq(Parameters) /\ Len(<<>>) = 0 /\ 0 <= MaxParameters
  BY ParametersAssumption
<1> QED
  BY <1>1 DEF Init, AnswersFit

(* What an answer depends on stands still. *)
LEMMA SameAnswers ==
    ASSUME UNCHANGED <<vault, raw>>
    PROVE  /\ Current' = Current /\ HttpJson(Current)' = HttpJson(Current)
           /\ HttpDocuments(Current)' = HttpDocuments(Current)
           /\ CliJson(Current)' = CliJson(Current)
           /\ CliDocuments(Current)' = CliDocuments(Current)
<1>1. Store' = Store /\ Current' = Current /\ Parses(vault)' = Parses(vault)
  BY DEF Store, Parses, Current
<1>2. LoadError(Current)' = LoadError(Current)
  BY <1>1 DEF LoadError
<1>3. \A failure : Merged(Current, failure)' = Merged(Current, failure)
  BY <1>1 DEF Merged
<1> QED
  BY <1>1, <1>2, <1>3 DEF HttpJson, HttpDocuments, CliJson, CliDocuments

LEMMA SameNotes ==
    ASSUME UNCHANGED vault
    PROVE  \A r : NotesFor(r)' = NotesFor(r)
BY DEF NotesFor, Store, Parses

LEMMA AnswersFitStep == AnswersFit /\ [Next]_vars => AnswersFit'
<1> SUFFICES ASSUME AnswersFit, [Next]_vars PROVE AnswersFit'
  OBVIOUS
<1>1. vault' = vault
  BY DEF Next, vars, ReadPath, Compose, GetQuery, GetMerged, OneshotQuery, OneshotMerge
<1>2. ASSUME raw' = raw,
             json' \in {json, HttpJson(Current)}, document' \in {document} \cup HttpDocuments(Current),
             cliJson' \in {cliJson, CliJson(Current)},
             cliDocument' \in {cliDocument} \cup CliDocuments(Current),
             UNCHANGED <<request, notes>>
      PROVE  AnswersFit'
  BY <1>1, <1>2, SameAnswers, SameNotes DEF AnswersFit
<1>3. ASSUME NEW r \in Requests, ReadPath(r) PROVE AnswersFit'
  <2>1. request' = r.segments /\ notes' = NotesFor(r)' /\ UNCHANGED <<vault, raw, answers>>
    BY <1>3, SameNotes DEF ReadPath, NotesFor
  <2>2. UNCHANGED <<json, document, cliJson, cliDocument>>
    BY <2>1 DEF answers
  <2> QED
    BY <2>1, <2>2, SameAnswers DEF AnswersFit
<1>4. ASSUME NEW p \in Parameters, Compose(p) PROVE AnswersFit'
  <2>1. /\ answers[1] = NotAsked /\ answers[2] = NotAsked
        /\ answers[3] = NotAsked /\ answers[4] = NotAsked
    BY <1>4 DEF Compose, answers
  <2>2. /\ json = NotAsked /\ document = NotAsked
        /\ cliJson = NotAsked /\ cliDocument = NotAsked /\ notes = NotAsked
    BY <1>4, <2>1 DEF Compose, answers
  <2>3. UNCHANGED <<json, document, cliJson, cliDocument, notes, request>>
    BY <1>4 DEF Compose, answers
  <2>4. raw' \in Seq(Parameters) /\ Len(raw') <= MaxParameters
    <3>1. raw \in Seq(Parameters) /\ Len(raw) \in Nat /\ MaxParameters \in Nat
      BY LenProperties, ParametersAssumption DEF AnswersFit
    <3> QED
      BY <1>4, <3>1, AppendProperties DEF Compose
  <2> QED
    BY <1>1, <2>2, <2>3, <2>4 DEF AnswersFit
<1>5. CASE GetQuery
  BY <1>2, <1>5 DEF GetQuery, Current
<1>6. CASE GetMerged
  BY <1>2, <1>6 DEF GetMerged, Current
<1>7. CASE OneshotQuery
  BY <1>2, <1>7 DEF OneshotQuery, CliJson, Current
<1>8. CASE OneshotMerge
  BY <1>2, <1>8 DEF OneshotMerge, CliDocuments, Current
<1>9. CASE UNCHANGED vars
  BY <1>2, <1>9 DEF vars, answers
<1> QED
  BY <1>3, <1>4, <1>5, <1>6, <1>7, <1>8, <1>9 DEF Next

LEMMA Statuses ==
    /\ NotAsked.status = "not asked"
    /\ \A body : Ok(body).status = "ok"
    /\ \A why : Fails(why).status = why
BY DEF NotAsked, Ok, Fails

LEMMA MergedStatus ==
    ASSUME NEW q, NEW failure, NEW d \in Merged(q, failure)
    PROVE  d.status \in {"ok", failure}
BY DEF Merged, Ok, Fails

LEMMA AnswersTyped == AnswersFit => TypeOK
<1> SUFFICES ASSUME AnswersFit PROVE TypeOK
  OBVIOUS
<1>1. Current \in SoundQueries
  BY ParseSound DEF AnswersFit, Current
<1>2. Current \in ParsedQueries /\ \A p \in ToSet(Current.predicates) : p.op = "regex" => p.value \in Regex
  BY <1>1 DEF SoundQueries, ToSet
<1>3. json.status \in {"not asked", "ok", "400"}
  <2>1. HttpJson(Current).status \in {"ok", "400"}
    BY Statuses DEF HttpJson
  <2> QED
    BY <2>1, Statuses DEF AnswersFit
<1>4. LoadError(Current) \in {"none", "query", "scan"}
  BY DEF LoadError
<1>5. cliJson.status \in {"not asked", "ok", "query", "scan"}
  <2>1. CliJson(Current).status \in {"ok", "query", "scan"}
    BY <1>4, Statuses DEF CliJson
  <2> QED
    BY <2>1, Statuses DEF AnswersFit
<1>6. document.status \in {"not asked", "ok", "400"}
  <2>1. document \in HttpDocuments(Current) => document.status \in {"ok", "400"}
    BY Statuses, MergedStatus DEF HttpDocuments
  <2> QED
    BY <2>1, Statuses DEF AnswersFit
<1>7. cliDocument.status \in {"not asked", "ok", "query", "scan", "kind"}
  <2>1. cliDocument \in CliDocuments(Current) => cliDocument.status \in {"ok", "query", "scan", "kind"}
    BY <1>4, Statuses, MergedStatus DEF CliDocuments
  <2> QED
    BY <2>1, Statuses DEF AnswersFit
<1> QED
  BY <1>2, <1>3, <1>5, <1>6, <1>7 DEF TypeOK, AnswersFit

LEMMA AnswersAlwaysFit == Spec => []AnswersFit
<1> QED
  BY AnswersFitInit, AnswersFitStep, PTL DEF Spec

(* In every reachable state the query is one the parser can return, and each  *)
(* answer has a status a client can tell apart (parse, get_query, load).       *)
THEOREM ReadTypeCorrect == Spec => []TypeOK
<1> QED
  BY AnswersAlwaysFit, AnswersTyped, PTL

-----------------------------------------------------------------------------
(* A query narrowed by one predicate.                                        *)

\* The operators that take every value.
AnyValue == Operators \ {"regex", "exists"}

Pred(field, op, value) == [field |-> field, op |-> op, value |-> value]

(* It selects those of the notes selected before that match the predicate. *)
LEMMA Narrowed ==
    ASSUME NEW q \in ParsedQueries, NEW store, NEW field, NEW op \in AnyValue, NEW value
    PROVE  Matching(store, WithPredicate(q, field, op, value)) =
              {p \in Matching(store, q) :
                  PredicateMatch(Pred(field, op, value), store[p])}
<1> DEFINE new == Pred(field, op, value)
           narrow == WithPredicate(q, field, op, value)
<1>1. narrow = [q EXCEPT !.predicates = Append(@, new)]
  BY DEF WithPredicate, AnyValue, Pred
<1>2. /\ narrow.path = q.path /\ narrow.recursive = q.recursive
      /\ narrow.predicates = Append(q.predicates, new)
      /\ q.predicates \in Seq(Predicate)
  BY <1>1 DEF ParsedQueries
<1> HIDE DEF narrow, new
<1>3. /\ DOMAIN narrow.predicates = DOMAIN q.predicates \cup {Len(q.predicates) + 1}
      /\ \A i \in DOMAIN q.predicates : narrow.predicates[i] = q.predicates[i]
      /\ narrow.predicates[Len(q.predicates) + 1] = new
  BY <1>2, Appended
<1>4. \A p : PredicatesMatch(narrow.predicates, store[p]) <=>
               /\ PredicatesMatch(q.predicates, store[p])
               /\ PredicateMatch(new, store[p])
  BY <1>3 DEF PredicatesMatch
<1>5. Matching(store, narrow) = {p \in Matching(store, q) : PredicateMatch(new, store[p])}
  BY <1>2, <1>4 DEF Matching
<1> QED
  BY <1>5 DEF narrow, new

LEMMA WhereSelects ==
    ASSUME TypeOK, NEW field, NEW op \in AnyValue, NEW value, NEW p
    PROVE  p \in WhereSelected(field, op, value) <=>
              p \in Selected(Current) /\ PredicateMatch(Pred(field, op, value), Store[p])
<1>1. Current \in ParsedQueries
  BY DEF TypeOK
<1>2. Matching(Store, WithPredicate(Current, field, op, value)) =
         {r \in Matching(Store, Current) : PredicateMatch(Pred(field, op, value), Store[r])}
  BY <1>1, Narrowed
<1> QED
  BY <1>2 DEF WhereSelected, Selected, Where

-----------------------------------------------------------------------------
(* What the operators see of a value.                                        *)

LEMMA EqualityMatch ==
    ASSUME NEW field, NEW value, NEW fm
    PROVE  /\ PredicateMatch(Pred(field, "eq", value), fm) <=>
                 Lookup(fm, field) # Missing /\ MatchesEq(Lookup(fm, field), value)
           /\ PredicateMatch(Pred(field, "not", value), fm) <=>
                 Differs(Lookup(fm, field), value)
           /\ PredicateMatch(Pred(field, "in", value), fm) <=>
                 IsOneOf(Lookup(fm, field), Elements(CommaList[value]))
BY DEF PredicateMatch, Pred

LEMMA RangeMatch ==
    ASSUME NEW field, NEW op \in {"gt", "gte", "lt", "lte"}, NEW value, NEW fm
    PROVE  PredicateMatch(Pred(field, op, value), fm) <=>
              Lookup(fm, field) # Missing /\ NeedleCmp(Lookup(fm, field), value) \in Accepts(op)
BY DEF PredicateMatch, Pred

LEMMA NegationInState == TypeOK => NegationComplements
<1> SUFFICES ASSUME TypeOK, NEW f \in Fields, NEW v \in Text, NEW p
             PROVE  p \in WhereSelected(f, "not", v) <=>
                       p \in Selected(Current) /\ p \notin WhereSelected(f, "eq", v)
  BY Zenon DEF NegationComplements
<1>1. "eq" \in AnyValue /\ "not" \in AnyValue
  BY DEF AnyValue, Operators, OperatorSuffixes
<1>2. p \in WhereSelected(f, "not", v) <=>
         p \in Selected(Current) /\ PredicateMatch(Pred(f, "not", v), Store[p])
  BY <1>1, WhereSelects
<1>3. p \in WhereSelected(f, "eq", v) <=>
         p \in Selected(Current) /\ PredicateMatch(Pred(f, "eq", v), Store[p])
  BY <1>1, WhereSelects
<1>4. PredicateMatch(Pred(f, "not", v), Store[p]) <=> ~PredicateMatch(Pred(f, "eq", v), Store[p])
  BY EqualityMatch DEF Differs
<1> QED
  BY <1>2, <1>3, <1>4

(* An equality and its negation split every selection in two, whatever the    *)
(* types of the values and with missing keys (predicate_match, Eq and Not).    *)
THEOREM NegationSplits == Spec => []NegationComplements
<1> QED
  BY ReadTypeCorrect, NegationInState, PTL

LEMMA OneOfInState == TypeOK => OneOfIsUnion
<1> SUFFICES ASSUME TypeOK, NEW f \in Fields, NEW v \in Text
             PROVE  WhereSelected(f, "in", v) =
                       UNION {WhereSelected(f, "eq", needle) : needle \in ToSet(CommaList[v])}
  BY DEF OneOfIsUnion
<1>1. "eq" \in AnyValue /\ "in" \in AnyValue
  BY DEF AnyValue, Operators, OperatorSuffixes
<1>2. \A p : p \in WhereSelected(f, "in", v) <=>
         p \in Selected(Current) /\ PredicateMatch(Pred(f, "in", v), Store[p])
  BY <1>1, WhereSelects
<1>3. \A needle, p : p \in WhereSelected(f, "eq", needle) <=>
         p \in Selected(Current) /\ PredicateMatch(Pred(f, "eq", needle), Store[p])
  BY <1>1, WhereSelects
<1>4. ToSet(CommaList[v]) = Elements(CommaList[v])
  BY DEF ToSet, Elements
<1>5. ASSUME NEW p
      PROVE  PredicateMatch(Pred(f, "in", v), Store[p]) <=>
                \E needle \in ToSet(CommaList[v]) : PredicateMatch(Pred(f, "eq", needle), Store[p])
  <2>1. PredicateMatch(Pred(f, "in", v), Store[p]) <=>
           IsOneOf(Lookup(Store[p], f), Elements(CommaList[v]))
    BY EqualityMatch
  <2>2. \A needle : PredicateMatch(Pred(f, "eq", needle), Store[p]) <=>
           Lookup(Store[p], f) # Missing /\ MatchesEq(Lookup(Store[p], f), needle)
    BY EqualityMatch
  <2> QED
    BY <1>4, <2>1, <2>2 DEF IsOneOf
<1>6. \A p : p \in WhereSelected(f, "in", v) <=>
         \E needle \in ToSet(CommaList[v]) : p \in WhereSelected(f, "eq", needle)
  BY <1>2, <1>3, <1>5
<1> HIDE DEF WhereSelected
<1> QED
  BY <1>6

(* f__in=v,w is the union of f=v and f=w on scalars and on lists (comma_list). *)
THEOREM OneOfUnites == Spec => []OneOfIsUnion
<1> QED
  BY ReadTypeCorrect, OneOfInState, PTL

LEMMA SelectedNotes ==
    ASSUME vault \in Vaults, NEW q, NEW p \in Selected(q)
    PROVE  /\ p \in DOMAIN Store /\ p \in DOMAIN vault
           /\ \A key \in DOMAIN Store[p] : Coherent(Store[p][key])
<1>1. p \in DOMAIN Store
  BY DEF Selected, Matching
<1>2. p \in Parses(vault) /\ Store[p] = vault[p]
  BY <1>1 DEF Store
<1> QED
  BY <1>1, <1>2, VaultsAssumption DEF Parses

(* A value equals the needle that is its text; an instant is not before it. *)
LEMMA EqualToOwnText ==
    ASSUME NEW v, Coherent(v), v.type \in {"int", "float", "date", "datetime", "string"}
    PROVE  /\ NeedleCmp(v, v.text) \in {"equal", "greater"}
           /\ v.type # "datetime" \/ v.at = AsDatetime[v.text] =>
                 NeedleCmp(v, v.text) = "equal"
<1>1. v.text \in Text /\ TextRank[v.text] \in Nat
  BY OrderAssumption DEF Coherent
<1>2. CASE v.type = "string"
  BY <1>1, <1>2 DEF NeedleCmp, Numeric, Cmp
<1>3. CASE v.type \in {"int", "date"}
  BY <1>3 DEF NeedleCmp, Coherent, Cmp
<1>5. CASE v.type = "datetime"
  BY <1>5 DEF NeedleCmp, Coherent, Cmp
<1>4. CASE v.type = "float"
  <2>1. NeedleCmp(v, v.text) = FloatCmp(v.at, v.at)
    BY <1>4 DEF NeedleCmp, Numeric, AsF64, Coherent
  <2>2. v.at = NaN \/ v.at \in Int
    BY <1>4 DEF Coherent
  <2> QED
    BY <2>1, <2>2 DEF FloatCmp, Cmp
<1> QED
  BY <1>2, <1>3, <1>4, <1>5

LEMMA RangesInState == TypeOK => RangesPartition
<1> SUFFICES ASSUME TypeOK, NEW f \in Fields, NEW v \in Text
             PROVE  LET in(op) == WhereSelected(f, op, v) IN
                    /\ in("gt") \cap in("lte") = {} /\ in("gte") \cap in("lt") = {}
                    /\ in("gt") \cup in("lte") = in("gte") \cup in("lt")
                    /\ \A p \in in("eq") :
                          /\ Store[p][f].type \in {"int", "float", "date", "datetime", "string"} =>
                                p \in in("gte")
                          /\ \/ Store[p][f].type \in {"int", "float", "date", "string"}
                             \/ Store[p][f].type = "datetime" /\ Store[p][f].at = AsDatetime[v]
                             => p \in in("lte")
  BY Zenon DEF RangesPartition
<1> DEFINE in(op) == WhereSelected(f, op, v)
           value(p) == Lookup(Store[p], f)
           Comparable(p) == p \in Selected(Current) /\ value(p) # Missing
<1>1. /\ "eq" \in AnyValue
      /\ \A op \in {"gt", "gte", "lt", "lte"} : op \in AnyValue
  BY DEF AnyValue, Operators, OperatorSuffixes
<1>2. \A p : \A op \in {"gt", "gte", "lt", "lte"} :
         p \in in(op) <=> Comparable(p) /\ NeedleCmp(value(p), v) \in Accepts(op)
  BY <1>1, WhereSelects, RangeMatch
<1>3. /\ Accepts("gt") = {"greater"} /\ Accepts("gte") = {"greater", "equal"}
      /\ Accepts("lt") = {"less"} /\ Accepts("lte") = {"less", "equal"}
  BY DEF Accepts
<1>4. ASSUME NEW p \in in("eq"),
             Store[p][f].type \in {"int", "float", "date", "datetime", "string"}
      PROVE  /\ p \in in("gte")
             /\ Store[p][f].type # "datetime" \/ Store[p][f].at = AsDatetime[v] => p \in in("lte")
  <2>1. /\ p \in Selected(Current)
        /\ value(p) # Missing /\ MatchesEq(value(p), v)
    BY <1>1, WhereSelects, EqualityMatch
  <2>2. f \in DOMAIN Store[p] /\ value(p) = Store[p][f]
    BY <2>1 DEF Lookup
  <2>3. Coherent(value(p)) /\ value(p).text = v
    BY <1>4, <2>1, <2>2, SelectedNotes DEF MatchesEq, MatchesScalarEq, TypeOK
  <2>4. /\ NeedleCmp(value(p), v) \in {"equal", "greater"}
        /\ Store[p][f].type # "datetime" \/ Store[p][f].at = AsDatetime[v] =>
              NeedleCmp(value(p), v) = "equal"
    BY <1>4, <2>2, <2>3, EqualToOwnText
  <2> QED
    BY <1>2, <1>3, <2>1, <2>4
<1> HIDE DEF in, value, Comparable
<1>5. in("gt") \cap in("lte") = {} /\ in("gte") \cap in("lt") = {}
  BY <1>2, <1>3
<1>6. in("gt") \cup in("lte") = in("gte") \cup in("lt")
  BY <1>2, <1>3
<1> QED
  BY <1>4, <1>5, <1>6 DEF in

(* The four range operators see one comparison, and what equals the bound is  *)
(* within both closed ranges: for every value of every type, NaN included; an  *)
(* instant with a fraction of a second is later than its text (ordered_compare, *)
(* ord, matches_scalar_eq).                                                  *)
THEOREM RangesAgree == Spec => []RangesPartition
<1> QED
  BY ReadTypeCorrect, RangesInState, PTL

-----------------------------------------------------------------------------
(* Folders.                                                                  *)

Under(d, p) == Len(d) < Len(p) /\ \A i \in 1..Len(d) : d[i] = p[i]
IsFile(d, p) == Len(p) = Len(d) + 1

LEMMA PrefixIsUnder ==
    ASSUME NEW S, NEW d \in Seq(S), NEW p \in Seq(S)
    PROVE  /\ IsStrictPrefix(d, p) <=> Under(d, p)
           /\ IsPrefix(d, p) <=> Len(d) <= Len(p) /\ \A i \in 1..Len(d) : d[i] = p[i]
<1>1. Len(d) \in Nat /\ Len(p) \in Nat
  BY LenProperties
<1>2. \A i \in 1..Len(d) : d[i] \in S
  BY ElementOfSeq
<1>3. \A i \in 1..Len(p) : p[i] \in S
  BY ElementOfSeq
<1>4. /\ SubSeq(d, 1, Len(d)) \in Seq(S) /\ Len(SubSeq(d, 1, Len(d))) = Len(d)
      /\ \A i \in 1..Len(d) : SubSeq(d, 1, Len(d))[i] = d[i]
  BY <1>1, <1>2, SubSeqProperties
<1>5. ASSUME Len(d) <= Len(p)
      PROVE  /\ SubSeq(p, 1, Len(d)) \in Seq(S) /\ Len(SubSeq(p, 1, Len(d))) = Len(d)
             /\ \A i \in 1..Len(d) : SubSeq(p, 1, Len(d))[i] = p[i]
  <2>1. \A i \in 1..Len(d) : p[i] \in S
    BY <1>1, <1>3, <1>5
  <2> QED
    BY <1>1, <2>1, SubSeqProperties
<1>6. IsPrefix(d, p) <=> Len(d) <= Len(p) /\ \A i \in 1..Len(d) : d[i] = p[i]
  <2>1. CASE Len(d) <= Len(p)
    <3>1. SubSeq(d, 1, Len(d)) = SubSeq(p, 1, Len(d)) <=> \A i \in 1..Len(d) : d[i] = p[i]
      BY <1>4, <1>5, <2>1, SeqEqual
    <3> QED
      BY <2>1, <3>1 DEF IsPrefix
  <2>2. CASE ~(Len(d) <= Len(p))
    BY <2>2 DEF IsPrefix
  <2> QED
    BY <2>1, <2>2
<1>7. (Len(d) = Len(p) /\ \A i \in 1..Len(d) : d[i] = p[i]) => d = p
  BY SeqEqual
<1> QED
  BY <1>1, <1>6, <1>7 DEF IsStrictPrefix, Under

LEMMA PathsOfVault ==
    ASSUME vault \in Vaults, NEW p \in DOMAIN vault
    PROVE  /\ p \in Seq(STRING) /\ Len(p) \in Nat \ {0}
           /\ \A i \in 1..Len(p) : p[i] \in STRING
<1>1. p \in Seq(STRING) /\ p # <<>>
  BY VaultsAssumption, NameAssumption, SeqMonotonic
<1>2. Len(p) \in Nat /\ Len(p) # 0
  BY <1>1, LenProperties, EmptySeq
<1> QED
  BY <1>1, <1>2, ElementOfSeq

LEMMA FolderOfPath ==
    ASSUME vault \in Vaults, NEW p \in DOMAIN vault, NEW k \in 0..Len(p) - 1
    PROVE  /\ SubSeq(p, 1, k) \in Folders /\ SubSeq(p, 1, k) \in Seq(STRING)
           /\ Len(SubSeq(p, 1, k)) = k
           /\ \A i \in 1..k : SubSeq(p, 1, k)[i] = p[i]
<1>1. Len(p) \in Nat \ {0} /\ \A i \in 1..Len(p) : p[i] \in STRING
  BY PathsOfVault
<1>2. k \in Nat /\ k < Len(p) /\ \A i \in 1..k : p[i] \in STRING
  BY <1>1
<1>3. /\ SubSeq(p, 1, k) \in Seq(STRING) /\ Len(SubSeq(p, 1, k)) = k
      /\ \A i \in 1..k : SubSeq(p, 1, k)[i] = p[i]
  BY <1>2, SubSeqProperties
<1>4. SubSeq(p, 1, k) \in Folders
  BY DEF Folders
<1> QED
  BY <1>3, <1>4

LEMMA FolderIsSeq ==
    ASSUME vault \in Vaults, NEW d \in Folders
    PROVE  /\ d \in Seq(STRING) /\ Len(d) \in Nat
           /\ \E p \in DOMAIN vault : Under(d, p)
<1>0. PICK p \in DOMAIN vault : \E k \in 0..Len(p) - 1 : d = SubSeq(p, 1, k)
  BY DEF Folders
<1>1. PICK k \in 0..Len(p) - 1 : d = SubSeq(p, 1, k)
  BY <1>0
<1>2. Len(p) \in Nat /\ k \in Nat /\ k < Len(p)
  BY PathsOfVault
<1>3. d \in Seq(STRING) /\ Len(d) = k /\ \A i \in 1..k : d[i] = p[i]
  BY <1>1, FolderOfPath
<1> QED
  BY <1>2, <1>3 DEF Under

LEMMA BelowMatches ==
    ASSUME vault \in Vaults, NEW d \in Seq(STRING), NEW p \in DOMAIN vault
    PROVE  /\ PathMatches(p, d, TRUE) /\ p # d <=> Under(d, p)
           /\ PathMatches(p, d, FALSE) /\ p # d <=> Under(d, p) /\ IsFile(d, p)
<1>1. d \in Seq(STRING) /\ Len(d) \in Nat /\ DOMAIN d = 1..Len(d)
  BY LenProperties
<1>2. p \in Seq(STRING) /\ Len(p) \in Nat \ {0}
  BY PathsOfVault
<1>3. CASE d = <<>>
  <2>1. Len(d) = 0
    BY <1>3
  <2>2. p # d /\ Under(d, p)
    BY <1>2, <2>1 DEF Under
  <2> QED
    BY <1>3, <2>1, <2>2 DEF PathMatches, IsFile
<1>4. CASE d # <<>>
  <2>1. Under(d, p) => p # d
    BY <1>1 DEF Under
  <2> QED
    BY <1>1, <1>2, <1>4, <2>1 DEF PathMatches, Under, IsFile
<1> QED
  BY <1>3, <1>4

(* A folder is no note, so a prefix that is a folder matches by its names. *)
LEMMA FolderMatches ==
    ASSUME vault \in Vaults, NEW d \in Folders, NEW p \in DOMAIN vault
    PROVE  /\ PathMatches(p, d, TRUE) <=> Under(d, p)
           /\ PathMatches(p, d, FALSE) <=> Under(d, p) /\ Len(p) = Len(d) + 1
<1>1. d \in Seq(STRING) /\ Len(d) \in Nat
  BY FolderIsSeq
<1>2. p \in Seq(STRING) /\ Len(p) \in Nat \ {0}
  BY PathsOfVault
<1>3. d # p
  <2>1. PICK r \in DOMAIN vault : Under(d, r)
    BY FolderIsSeq
  <2>2. r \in Seq(STRING)
    BY PathsOfVault
  <2>3. IsStrictPrefix(d, r)
    BY <1>1, <2>1, <2>2, PrefixIsUnder
  <2> QED
    BY <2>3, VaultsAssumption
<1> QED
  BY <1>1, <1>3, BelowMatches DEF IsFile

LEMMA InFolderIsUnder ==
    ASSUME TypeOK, NEW d \in Folders, NEW p
    PROVE  /\ p \in InFolder(d, TRUE) <=>
                 /\ p \in DOMAIN Store /\ PredicatesMatch(Current.predicates, Store[p])
                 /\ Under(d, p)
           /\ p \in InFolder(d, FALSE) <=> p \in InFolder(d, TRUE) /\ Len(p) = Len(d) + 1
<1>1. vault \in Vaults /\ Current \in ParsedQueries
  BY DEF TypeOK
<1>2. ASSUME NEW r \in BOOLEAN
      PROVE  LET q == [Current EXCEPT !.path = d, !.recursive = r]
             IN  q.path = d /\ q.recursive = r /\ q.predicates = Current.predicates
  BY <1>1 DEF ParsedQueries
<1>3. \A r \in BOOLEAN :
         p \in InFolder(d, r) <=>
            /\ p \in DOMAIN Store /\ PredicatesMatch(Current.predicates, Store[p])
            /\ PathMatches(p, d, r)
  BY <1>2 DEF InFolder, Selected, Matching
<1>4. p \in DOMAIN Store => p \in DOMAIN vault
  BY DEF Store, Parses
<1> QED
  BY <1>1, <1>3, <1>4, FolderMatches

LEMMA FoldersInState == TypeOK => FoldersPartition
<1> SUFFICES ASSUME TypeOK, NEW d \in Folders
             PROVE  LET subfolders == {e \in Folders : Len(e) = Len(d) + 1 /\ IsPrefix(d, e)} IN
                    /\ InFolder(d, TRUE) =
                          InFolder(d, FALSE) \cup UNION {InFolder(e, TRUE) : e \in subfolders}
                    /\ \A e \in subfolders :
                          /\ InFolder(e, TRUE) \cap InFolder(d, FALSE) = {}
                          /\ \A g \in subfolders \ {e} :
                                InFolder(e, TRUE) \cap InFolder(g, TRUE) = {}
  BY DEF FoldersPartition
<1> DEFINE subfolders == {e \in Folders : Len(e) = Len(d) + 1 /\ IsPrefix(d, e)}
<1>1. vault \in Vaults
  BY DEF TypeOK
<1>2. d \in Seq(STRING) /\ Len(d) \in Nat
  BY <1>1, FolderIsSeq
<1>3. ASSUME NEW e \in subfolders
      PROVE  /\ e \in Folders /\ e \in Seq(STRING) /\ Len(e) = Len(d) + 1
             /\ \A i \in 1..Len(d) : d[i] = e[i]
  <2>1. e \in Folders /\ Len(e) = Len(d) + 1 /\ IsPrefix(d, e)
    OBVIOUS
  <2> QED
    BY <1>1, <1>2, <2>1, FolderIsSeq, PrefixIsUnder
<1>4. ASSUME NEW p \in InFolder(d, TRUE)
      PROVE  p \in InFolder(d, FALSE) \/ \E e \in subfolders : p \in InFolder(e, TRUE)
  <2> DEFINE e == SubSeq(p, 1, Len(d) + 1)
  <2>1. p \in DOMAIN vault /\ Under(d, p) /\ Len(p) \in Nat
    BY <1>1, InFolderIsUnder, PathsOfVault DEF Store, Parses
  <2>2. CASE Len(p) = Len(d) + 1
    BY <1>1, <2>2, InFolderIsUnder
  <2>3. CASE Len(p) # Len(d) + 1
    <3>1. Len(d) + 1 \in 0..Len(p) - 1
      BY <1>2, <2>1, <2>3 DEF Under
    <3>2. /\ e \in Folders /\ e \in Seq(STRING) /\ Len(e) = Len(d) + 1
          /\ \A i \in 1..Len(d) + 1 : e[i] = p[i]
      BY <1>1, <2>1, <3>1, FolderOfPath
    <3> HIDE DEF e
    <3>3. \A i \in 1..Len(d) : d[i] = e[i]
      BY <1>2, <2>1, <3>2 DEF Under
    <3>4. IsPrefix(d, e)
      BY <1>2, <3>2, <3>3, PrefixIsUnder
    <3>5. Under(e, p)
      BY <1>2, <3>1, <3>2, <2>1 DEF Under
    <3>6. p \in InFolder(e, TRUE)
      BY <1>1, <3>2, <3>5, InFolderIsUnder
    <3> QED
      BY <3>2, <3>4, <3>6
  <2> QED
    BY <2>2, <2>3
<1>5. ASSUME NEW e \in subfolders, NEW p \in InFolder(e, TRUE)
      PROVE  p \in InFolder(d, TRUE) /\ p \notin InFolder(d, FALSE)
  <2>1. Under(e, p) /\ p \in DOMAIN vault /\ Len(p) \in Nat
    BY <1>1, <1>3, InFolderIsUnder, PathsOfVault DEF Store, Parses
  <2>2. Under(d, p)
    BY <1>2, <1>3, <2>1 DEF Under
  <2>3. p \in InFolder(d, TRUE)
    BY <1>1, <1>3, <2>2, InFolderIsUnder
  <2>4. Len(p) # Len(d) + 1
    BY <1>2, <1>3, <2>1 DEF Under
  <2> QED
    BY <1>1, <2>3, <2>4, InFolderIsUnder
<1>6. ASSUME NEW e \in subfolders, NEW g \in subfolders \ {e}, NEW p \in InFolder(e, TRUE)
      PROVE  p \notin InFolder(g, TRUE)
  <2>1. SUFFICES ASSUME p \in InFolder(g, TRUE) PROVE FALSE
    OBVIOUS
  <2>2. Under(e, p) /\ Under(g, p)
    BY <1>1, <1>3, <2>1, InFolderIsUnder
  <2>3. /\ e \in Seq(STRING) /\ g \in Seq(STRING) /\ Len(e) = Len(g)
        /\ \A i \in 1..Len(e) : e[i] = g[i]
    BY <1>3, <2>2 DEF Under
  <2>4. e = g
    BY <2>3, SeqEqual
  <2> QED
    BY <2>4
<1>7. InFolder(d, FALSE) \subseteq InFolder(d, TRUE)
  BY InFolderIsUnder
<1> HIDE DEF subfolders
<1>8. InFolder(d, TRUE) = InFolder(d, FALSE) \cup UNION {InFolder(e, TRUE) : e \in subfolders}
  BY <1>4, <1>5, <1>7
<1>9. \A e \in subfolders :
         /\ InFolder(e, TRUE) \cap InFolder(d, FALSE) = {}
         /\ \A g \in subfolders \ {e} : InFolder(e, TRUE) \cap InFolder(g, TRUE) = {}
  BY <1>5, <1>6
<1> QED
  BY <1>8, <1>9 DEF subfolders

(* The answers for a folder, for its own notes and for its subfolders        *)
(* partition (path_matches).                                                 *)
THEOREM FoldersSplit == Spec => []FoldersPartition
<1> QED
  BY ReadTypeCorrect, FoldersInState, PTL

-----------------------------------------------------------------------------
(* The guard of the merged document.                                         *)

\* Every selected note has the kind key, with one text.
OneKind(q) ==
    \A p, r \in Selected(q) :
        /\ q.kind \in DOMAIN Store[p] \cap DOMAIN Store[r]
        /\ Store[p][q.kind].text = Store[r][q.kind].text

LEMMA GuardPasses ==
    ASSUME vault \in Vaults, NEW q, q.kind # ""
    PROVE  OneKind(q) <=> ~KindGuardFails(Store, q, Selected(q))
<1> DEFINE S == Selected(q)
           kind(p) == KindKey(Store, q, p)
           texts == {kind(p).text : p \in S}
<1>1. IsFiniteSet(S)
  <2>1. IsFiniteSet(DOMAIN vault) /\ S \subseteq DOMAIN vault
    BY SelectedNotes, VaultsAssumption
  <2> QED
    BY <2>1, FS_Subset
<1>2. IsFiniteSet(texts)
  <2> DEFINE text == [p \in S |-> kind(p).text]
  <2>1. texts = {text[p] : p \in S}
    OBVIOUS
  <2> HIDE DEF S, text, texts
  <2> QED
    BY <1>1, <2>1, FiniteImage
<1>3. Cardinality(texts) > 1 <=> \E p, r \in S : kind(p).text # kind(r).text
  <2>1. (\E s, t \in texts : s # t) <=> \E p, r \in S : kind(p).text # kind(r).text
    OBVIOUS
  <2> HIDE DEF texts, S, kind
  <2> QED
    BY <1>2, <2>1, MoreThanOne
<1>4. ASSUME NEW p \in S PROVE kind(p) = Missing <=> q.kind \notin DOMAIN Store[p]
  <2>1. CASE q.kind \in DOMAIN Store[p]
    <3>1. kind(p) = Store[p][q.kind]
      BY <2>1 DEF KindKey, Lookup
    <3>2. Coherent(kind(p))
      BY <2>1, <3>1, SelectedNotes
    <3>3. kind(p).type # Missing.type
      BY <3>2 DEF Coherent, Missing
    <3> QED
      BY <2>1, <3>3
  <2>2. CASE q.kind \notin DOMAIN Store[p]
    BY <2>2 DEF KindKey, Lookup
  <2> QED
    BY <2>1, <2>2
<1>5. \A p \in S : q.kind \in DOMAIN Store[p] => kind(p) = Store[p][q.kind]
  BY DEF KindKey, Lookup
<1>6. KindGuardFails(Store, q, S) <=>
         (\E p \in S : kind(p) = Missing) \/ Cardinality(texts) > 1
  BY DEF KindGuardFails
<1> HIDE DEF S, kind, texts
<1>7. OneKind(q) <=>
         \A p, r \in S : /\ q.kind \in DOMAIN Store[p] \cap DOMAIN Store[r]
                         /\ Store[p][q.kind].text = Store[r][q.kind].text
  BY DEF OneKind, S
<1>8. KindGuardFails(Store, q, S) <=> ~OneKind(q)
  BY <1>3, <1>4, <1>5, <1>6, <1>7
<1> QED
  BY <1>8 DEF S

LEMMA GuardInState == AnswersFit => GuardIgnoresLimit
<1> SUFFICES ASSUME AnswersFit, Current.error = "none", Current.kind # "",
                    document # NotAsked
             PROVE  (document.status = "ok") = OneKind(Current)
  BY DEF GuardIgnoresLimit, OneKind
<1>1. PICK d \in ExecuteMerge(Store, Current) :
         document = IF d.guard = "failed" THEN Fails("400") ELSE Ok(d.fragments)
  BY DEF AnswersFit, HttpDocuments, Merged
<1>2. d.guard = IF KindGuardFails(Store, Current, Selected(Current)) THEN "failed" ELSE "passed"
  <2>1. CASE KindGuardFails(Store, Current, Selected(Current))
    <3>1. d = Refused
      BY <2>1 DEF ExecuteMerge, Selected
    <3> QED
      BY <2>1, <3>1 DEF Refused
  <2>2. CASE ~KindGuardFails(Store, Current, Selected(Current))
    <3>1. PICK s : d = Document(s)
      BY <2>2 DEF ExecuteMerge, Selected
    <3>2. d.guard = "passed"
      BY <3>1 DEF Document
    <3> QED
      BY <2>2, <3>2
  <2> QED
    BY <2>1, <2>2
<1>3. document.status = "ok" <=> d.guard # "failed"
  BY <1>1 DEF Ok, Fails
<1>4. OneKind(Current) <=> ~KindGuardFails(Store, Current, Selected(Current))
  BY GuardPasses DEF AnswersFit
<1>5. OneKind(Current) \in BOOLEAN
  BY DEF OneKind
<1> QED
  BY <1>2, <1>3, <1>4, <1>5

(* The homogeneity guard of GET /query judges all selected notes, whatever the  *)
(* limit and the order (execute_merge).                                        *)
THEOREM GuardJudgesAll == Spec => []GuardIgnoresLimit
<1> QED
  BY AnswersAlwaysFit, GuardInState, PTL

-----------------------------------------------------------------------------
(* The JSON page.                                                            *)

LEMMA LimitedIs ==
    ASSUME NEW S, NEW s \in Seq(S), NEW limit \in Int
    PROVE  /\ Limited(s, limit) \in Seq(S)
           /\ Len(Limited(s, limit)) = IF limit >= 0 /\ Len(s) > limit THEN limit ELSE Len(s)
           /\ \A i \in 1..Len(Limited(s, limit)) : i \in 1..Len(s) /\ Limited(s, limit)[i] = s[i]
<1>1. Len(s) \in Nat /\ \A i \in 1..Len(s) : s[i] \in S
  BY LenProperties, ElementOfSeq
<1>2. CASE limit >= 0 /\ Len(s) > limit
  <2>1. Limited(s, limit) = SubSeq(s, 1, limit)
    BY <1>2 DEF Limited
  <2>2. 1 \in Int /\ \A i \in 1..limit : s[i] \in S
    BY <1>1, <1>2
  <2>3. /\ SubSeq(s, 1, limit) \in Seq(S) /\ Len(SubSeq(s, 1, limit)) = limit
        /\ \A i \in 1..limit : SubSeq(s, 1, limit)[i] = s[i]
    BY <1>2, <2>2, SubSeqProperties
  <2> QED
    BY <1>1, <1>2, <2>1, <2>3
<1>3. CASE ~(limit >= 0 /\ Len(s) > limit)
  BY <1>1, <1>3 DEF Limited
<1> QED
  BY <1>2, <1>3

LEMMA SelectedFinite ==
    ASSUME vault \in Vaults, NEW q
    PROVE  /\ IsFiniteSet(Matching(Store, q)) /\ Matching(Store, q) \subseteq DOMAIN vault
           /\ Matching(Store, q) \subseteq Path
<1>1. Matching(Store, q) \subseteq DOMAIN vault
  BY DEF Matching, Store, Parses
<1>2. IsFiniteSet(DOMAIN vault) /\ DOMAIN vault \subseteq Path
  BY VaultsAssumption
<1> QED
  BY <1>1, <1>2, FS_Subset

LEMMA SelectedInOrder ==
    ASSUME vault \in Vaults, NEW q
    PROVE  LET S == Matching(Store, q)
               s == InPathOrder(S)
           IN  /\ Cardinality(S) \in Nat /\ s \in Seq(S) /\ Len(s) = Cardinality(S)
<1> DEFINE S == Matching(Store, q)
<1>1. IsFiniteSet(S) /\ S \subseteq Path
  BY SelectedFinite
<1> HIDE DEF S
<1>2. /\ \A p \in S : PathRank[p] \in Nat
      /\ \A p, r \in S : PathRank[p] = PathRank[r] => p = r
  BY <1>1, OrderAssumption
<1>3. /\ Cardinality(S) \in Nat /\ InPathOrder(S) \in Seq(S)
      /\ Len(InPathOrder(S)) = Cardinality(S)
  BY <1>1, <1>2, SortedByRank DEF InPathOrder
<1> QED
  BY <1>3 DEF S

LEMMA PageOfAnswer == AnswersFit => PageBeginsTheAnswer
<1> SUFFICES ASSUME AnswersFit, json.status = "ok"
             PROVE  LET all == Execute(Store, [Current EXCEPT !.limit = -1]) IN
                    /\ IsPrefix(json.body.results, all.results)
                    /\ json.body.total = Len(all.results)
                    /\ json.body.truncated = (Len(json.body.results) < json.body.total)
  BY DEF PageBeginsTheAnswer
<1> DEFINE q == [Current EXCEPT !.limit = -1]
           S == Matching(Store, Current)
           s == InPathOrder(S)
           limit == Current.limit
<1>1. vault \in Vaults /\ Current \in ParsedQueries
  BY AnswersTyped DEF TypeOK
<1>2. json.body = Execute(Store, Current)
  <2>1. json = HttpJson(Current) /\ Current.error = "none"
    BY Statuses DEF AnswersFit, HttpJson
  <2> QED
    BY <2>1 DEF HttpJson, Ok
<1>3. q.limit = -1 /\ Matching(Store, q) = S /\ limit \in Int
  BY <1>1 DEF ParsedQueries, Matching
<1>4. s \in Seq(S) /\ Len(s) \in Nat
  BY <1>1, SelectedInOrder
<1>5. Execute(Store, q).results = s
  BY <1>3, <1>4 DEF Execute, Limited
<1>6. /\ Execute(Store, Current).results = Limited(s, limit)
      /\ Execute(Store, Current).total = Len(s)
      /\ Execute(Store, Current).truncated = (limit >= 0 /\ Len(s) > limit)
  BY DEF Execute
<1> HIDE DEF q, s, S, limit
<1>7. /\ Limited(s, limit) \in Seq(S)
      /\ Len(Limited(s, limit)) = IF limit >= 0 /\ Len(s) > limit THEN limit ELSE Len(s)
      /\ \A i \in 1..Len(Limited(s, limit)) : Limited(s, limit)[i] = s[i]
  BY <1>3, <1>4, LimitedIs
<1>8. Len(Limited(s, limit)) <= Len(s)
  BY <1>3, <1>4, <1>7
<1>9. IsPrefix(Limited(s, limit), s)
  BY <1>4, <1>7, <1>8, PrefixIsUnder
<1>10. (limit >= 0 /\ Len(s) > limit) = (Len(Limited(s, limit)) < Len(s))
  BY <1>3, <1>4, <1>7
<1>11. /\ IsPrefix(json.body.results, Execute(Store, q).results)
       /\ json.body.total = Len(Execute(Store, q).results)
       /\ json.body.truncated = (Len(json.body.results) < json.body.total)
  BY <1>2, <1>5, <1>6, <1>9, <1>10
<1> QED
  BY <1>11 DEF q

(* A page is where the whole answer begins, its total counts the whole answer,  *)
(* and it is truncated when and only when something is missing (execute).      *)
THEOREM PageBegins == Spec => []PageBeginsTheAnswer
<1> QED
  BY AnswersAlwaysFit, PageOfAnswer, PTL

-----------------------------------------------------------------------------
(* The merged document.                                                      *)

LEMMA OrderKeyIs ==
    ASSUME vault \in Vaults, NEW p \in Selected(Current)
    PROVE  LET k == OrderKey(Store, Current, p)
           IN  k # Missing => k \in OrderKeys /\ Coherent(k)
<1>1. CASE Current.order # "" /\ Current.order \in DOMAIN Store[p]
  <2>1. OrderKey(Store, Current, p) = Store[p][Current.order]
    BY <1>1 DEF OrderKey, Lookup
  <2> QED
    BY <1>1, <2>1, SelectedNotes DEF OrderKeys
<1>2. CASE ~(Current.order # "" /\ Current.order \in DOMAIN Store[p])
  BY <1>2 DEF OrderKey, Lookup
<1> QED
  BY <1>1, <1>2

(* One rung compares all the keys, so each has a place among them. *)
LEMMA KeysRanked ==
    ASSUME vault \in Vaults, OrderKeysAlike
    PROVE  \E rank \in [OrderKeys -> Int] : \A v, w \in OrderKeys :
              CompareValues(v, w) = Cmp(rank[v], rank[w])
<1>1. \A v \in OrderKeys : Coherent(v)
  BY OrderKeyIs DEF OrderKeys
<1>2. \A v \in OrderKeys : TextRank[v.text] \in Int
  BY <1>1, OrderAssumption DEF Coherent
<1>3. ASSUME \A v \in OrderKeys : v.at \in Int,
             \A v, w \in OrderKeys : CompareValues(v, w) = Cmp(v.at, w.at)
      PROVE  \E rank \in [OrderKeys -> Int] : \A v, w \in OrderKeys :
                CompareValues(v, w) = Cmp(rank[v], rank[w])
  <2> DEFINE rank == [v \in OrderKeys |-> v.at]
  <2>1. rank \in [OrderKeys -> Int] /\ \A v \in OrderKeys : rank[v] = v.at
    BY <1>3
  <2> HIDE DEF rank
  <2> QED
    BY <1>3, <2>1
<1>4. CASE \E type \in {"date", "datetime", "int"} : \A v \in OrderKeys : v.type = type
  <2>1. \A v \in OrderKeys : v.at \in Int
    BY <1>1, <1>4 DEF Coherent
  <2>2. \A v, w \in OrderKeys : CompareValues(v, w) = Cmp(v.at, w.at)
    BY <1>4 DEF CompareValues, BothType
  <2> QED
    BY <1>3, <2>1, <2>2
<1>5. CASE \A v \in OrderKeys : Numeric(v) /\ v.at # NaN /\ AsF64(v) = v.at
  <2>1. \A v \in OrderKeys : v.at \in Int
    BY <1>1, <1>5 DEF Coherent, Numeric
  <2>2. \A v, w \in OrderKeys : FloatCmp(v.at, w.at) = Cmp(v.at, w.at)
    BY <1>5 DEF FloatCmp
  <2>3. \A v, w \in OrderKeys : CompareValues(v, w) = Cmp(v.at, w.at)
    BY <1>5, <2>2 DEF CompareValues
  <2> QED
    BY <1>3, <2>1, <2>3
<1>6. CASE \A v \in OrderKeys : ~Numeric(v) /\ v.type \notin {"date", "datetime"}
  <2> DEFINE rank == [v \in OrderKeys |-> TextRank[v.text]]
  <2>1. rank \in [OrderKeys -> Int] /\ \A v \in OrderKeys : rank[v] = TextRank[v.text]
    BY <1>2
  <2>2. \A v, w \in OrderKeys : CompareValues(v, w) = Cmp(TextRank[v.text], TextRank[w.text])
    BY <1>6 DEF CompareValues, BothType, Numeric
  <2> HIDE DEF rank
  <2> QED
    BY <2>1, <2>2
<1> QED
  BY <1>4, <1>5, <1>6 DEF OrderKeysAlike, OneScale

\* The comparator as a set of pairs, as Sortings has it.
Less(S) == {e \in S \X S : Before(Store, Current, e[1], e[2])}

(* A missing key follows every other, in both directions. *)
LEMMA MissingAfter ==
    ASSUME NEW p, NEW r, OrderKey(Store, Current, p) # Missing, OrderKey(Store, Current, r) = Missing
    PROVE  Before(Store, Current, p, r) /\ ~Before(Store, Current, r, p)
BY DEF Before, OrderCmp, Cmp

LEMMA ComparatorOrders ==
    ASSUME vault \in Vaults, Current \in ParsedQueries, OrderKeysAlike
    PROVE  StrictOrder(Less(Selected(Current)), Selected(Current))
<1> DEFINE S == Selected(Current)
           k(p) == OrderKey(Store, Current, p)
           before(p, r) == Before(Store, Current, p, r)
<1>1. PICK rank \in [OrderKeys -> Int] : \A v, w \in OrderKeys :
         CompareValues(v, w) = Cmp(rank[v], rank[w])
  BY KeysRanked
<1>2. \A p \in S : k(p) # Missing => k(p) \in OrderKeys /\ rank[k(p)] \in Int
  BY <1>1, OrderKeyIs
<1>3. \A p \in S : PathRank[p] \in Int
  BY SelectedFinite, OrderAssumption DEF Selected
<1>4. \A p, r \in S : PathRank[p] = PathRank[r] => p = r
  BY SelectedFinite, OrderAssumption DEF Selected
<1>5. \A p, r \in S : k(p) = Missing /\ k(r) = Missing =>
         (before(p, r) <=> PathRank[p] < PathRank[r])
  BY DEF Before, OrderCmp, Cmp
<1>6. \A p, r \in S : k(p) = Missing /\ k(r) # Missing => ~before(p, r)
  BY MissingAfter
<1>7. \A p, r \in S : k(p) # Missing /\ k(r) = Missing => before(p, r)
  BY MissingAfter
<1>8. ASSUME NEW p \in S, NEW r \in S, k(p) # Missing, k(r) # Missing
      PROVE  before(p, r) <=>
                \/ IF Current.desc THEN rank[k(r)] < rank[k(p)] ELSE rank[k(p)] < rank[k(r)]
                \/ rank[k(p)] = rank[k(r)] /\ PathRank[p] < PathRank[r]
  <2>1. CompareValues(k(p), k(r)) = Cmp(rank[k(p)], rank[k(r)])
    BY <1>1, <1>2, <1>8
  <2>2. rank[k(p)] \in Int /\ rank[k(r)] \in Int
    BY <1>2, <1>8
  <2>3. OrderCmp(k(p), k(r), Current.desc) =
           IF Current.desc THEN Reversed(Cmp(rank[k(p)], rank[k(r)])) ELSE Cmp(rank[k(p)], rank[k(r)])
    BY <1>8, <2>1 DEF OrderCmp
  <2> HIDE DEF k
  <2>4. OrderCmp(k(p), k(r), Current.desc) = "less" <=>
           IF Current.desc THEN rank[k(r)] < rank[k(p)] ELSE rank[k(p)] < rank[k(r)]
    BY <2>2, <2>3 DEF Reversed, Cmp
  <2>5. OrderCmp(k(p), k(r), Current.desc) = "equal" <=> rank[k(p)] = rank[k(r)]
    BY <2>2, <2>3 DEF Reversed, Cmp
  <2> QED
    BY <2>4, <2>5 DEF Before, k
<1> HIDE DEF k, before, S
<1>9. \A p \in S : ~before(p, p)
  BY <1>2, <1>3, <1>5, <1>8
<1>10. ASSUME NEW p \in S, NEW r \in S, NEW s \in S, before(p, r), before(r, s)
       PROVE  before(p, s)
  <2>1. CASE k(r) = Missing
    BY <1>2, <1>3, <1>5, <1>6, <1>7, <1>10, <2>1
  <2>2. CASE k(r) # Missing
    <3>1. k(p) # Missing
      BY <1>6, <1>10, <2>2
    <3>2. CASE k(s) = Missing
      BY <1>7, <3>1, <3>2
    <3>3. CASE k(s) # Missing
      BY <1>2, <1>3, <1>8, <1>10, <2>2, <3>1, <3>3
    <3> QED
      BY <3>2, <3>3
  <2> QED
    BY <2>1, <2>2
<1>11. ASSUME NEW p \in S, NEW r \in S, p # r PROVE before(p, r) \/ before(r, p)
  <2>1. PathRank[p] < PathRank[r] \/ PathRank[r] < PathRank[p]
    BY <1>3, <1>4, <1>11
  <2>2. CASE k(p) = Missing \/ k(r) = Missing
    BY <1>5, <1>7, <2>1, <2>2
  <2>3. CASE k(p) # Missing /\ k(r) # Missing
    BY <1>2, <1>8, <2>1, <2>3
  <2> QED
    BY <2>2, <2>3
<1>12. \A p, r \in S : <<p, r>> \in Less(S) <=> before(p, r)
  BY DEF Less, before
<1>13. StrictOrder(Less(S), S)
  BY <1>9, <1>10, <1>11, <1>12 DEF StrictOrder
<1> QED
  BY <1>13 DEF S

\* The document there is then: the selected notes in order, up to the limit.
InOrder == SortedBy(Selected(Current), Less(Selected(Current)))
TheDocument == Limited(InOrder, Current.limit)

LEMMA OneDocument ==
    ASSUME vault \in Vaults, Current \in ParsedQueries, OrderKeysAlike, NEW failure
    PROVE  Merged(Current, failure) =
              {IF KindGuardFails(Store, Current, Selected(Current)) THEN Fails(failure)
               ELSE Ok(TheDocument)}
<1> DEFINE S == Selected(Current)
<1>1. Sortings(Store, Current, S) = {InOrder}
  <2>1. \A p, r, s \in S : <<p, r>> \in Less(S) /\ <<r, s>> \in Less(S) => <<p, s>> \in Less(S)
    BY ComparatorOrders DEF StrictOrder
  <2>2. Less(S) = {e \in S \X S : Before(Store, Current, e[1], e[2])}
    BY DEF Less
  <2>3. InOrder = SortedBy(S, Less(S))
    BY DEF InOrder
  <2> HIDE DEF S
  <2> QED
    BY <2>1, <2>2, <2>3, Zenon DEF Sortings
<1>2. CASE KindGuardFails(Store, Current, S)
  <2>1. ExecuteMerge(Store, Current) = {Refused}
    BY <1>2 DEF ExecuteMerge, Selected
  <2>2. Refused.guard = "failed"
    BY DEF Refused
  <2> QED
    BY <1>2, <2>1, <2>2 DEF Merged
<1>3. CASE ~KindGuardFails(Store, Current, S)
  <2>1. ExecuteMerge(Store, Current) = {Document(Limited(s, Current.limit)) : s \in Sortings(Store, Current, S)}
    BY <1>3 DEF ExecuteMerge, Selected
  <2>2. ExecuteMerge(Store, Current) = {Document(TheDocument)}
    BY <1>1, <2>1 DEF TheDocument
  <2>3. Document(TheDocument).guard = "passed" /\ Document(TheDocument).fragments = TheDocument
    BY DEF Document
  <2> QED
    BY <1>3, <2>2, <2>3 DEF Merged
<1> QED
  BY <1>2, <1>3

LEMMA InOrderIs ==
    ASSUME vault \in Vaults, Current \in ParsedQueries, OrderKeysAlike
    PROVE  LET S == Selected(Current)
               before(p, r) == Before(Store, Current, p, r)
           IN  /\ Cardinality(S) \in Nat
               /\ InOrder \in Seq(S) /\ Len(InOrder) = Cardinality(S)
               /\ \A p \in S : \E i \in 1..Len(InOrder) : InOrder[i] = p
               /\ \A i, j \in 1..Len(InOrder) :
                     InOrder[i] \in S /\ (i < j <=> before(InOrder[i], InOrder[j]))
<1> DEFINE S == Selected(Current)
<1>1. IsFiniteSet(S)
  BY SelectedFinite DEF Selected
<1>2. StrictOrder(Less(S), S)
  BY ComparatorOrders
<1>3. \A p, r \in S : <<p, r>> \in Less(S) <=> Before(Store, Current, p, r)
  BY DEF Less
<1>4. InOrder = SortedBy(S, Less(S))
  BY DEF InOrder
<1> HIDE DEF S
<1>5. /\ Cardinality(S) \in Nat
      /\ InOrder \in Seq(S) /\ Len(InOrder) = Cardinality(S)
      /\ \A p \in S : \E i \in 1..Len(InOrder) : InOrder[i] = p
      /\ \A i, j \in 1..Len(InOrder) : i < j <=> <<InOrder[i], InOrder[j]>> \in Less(S)
  BY <1>1, <1>2, <1>4, Sorted
<1>6. \A i \in 1..Len(InOrder) : InOrder[i] \in S
  BY <1>5, ElementOfSeq
<1> QED
  BY <1>3, <1>5, <1>6 DEF S

LEMMA DocumentIs ==
    ASSUME AnswersFit, OrderKeysAlike, document.status = "ok"
    PROVE  /\ document.body = TheDocument
           /\ \A i \in DOMAIN document.body :
                 i \in 1..Len(InOrder) /\ document.body[i] = InOrder[i]
           /\ DOMAIN document.body = 1..Len(document.body) /\ Len(document.body) \in Nat
           /\ Len(document.body) = IF Current.limit >= 0 /\ Len(InOrder) > Current.limit
                                   THEN Current.limit ELSE Len(InOrder)
<1>1. vault \in Vaults /\ Current \in ParsedQueries
  BY AnswersTyped DEF TypeOK
<1>2. document = Ok(TheDocument)
  <2>1. Current.error = "none" /\ document \in Merged(Current, "400")
    BY Statuses DEF AnswersFit, HttpDocuments
  <2>2. Merged(Current, "400") \in {{Fails("400")}, {Ok(TheDocument)}}
    BY <1>1, OneDocument
  <2>3. Fails("400") # document
    BY Statuses
  <2> QED
    BY <2>1, <2>2, <2>3
<1>3. document.body = TheDocument
  BY <1>2 DEF Ok
<1>4. InOrder \in Seq(Selected(Current)) /\ Current.limit \in Int
  BY <1>1, InOrderIs DEF ParsedQueries
<1>5. /\ TheDocument \in Seq(Selected(Current))
      /\ Len(TheDocument) = IF Current.limit >= 0 /\ Len(InOrder) > Current.limit
                            THEN Current.limit ELSE Len(InOrder)
      /\ \A i \in 1..Len(TheDocument) : i \in 1..Len(InOrder) /\ TheDocument[i] = InOrder[i]
  BY <1>4, LimitedIs DEF TheDocument
<1>6. DOMAIN TheDocument = 1..Len(TheDocument) /\ Len(TheDocument) \in Nat
  BY <1>5, LenProperties
<1> QED
  BY <1>3, <1>5, <1>6

LEMMA TopOfOrder == AnswersFit /\ OrderKeysAlike => KeepsTopN
<1> SUFFICES ASSUME AnswersFit, OrderKeysAlike, document.status = "ok" PROVE KeepsTopN
  BY DEF KeepsTopN, CutKeepsTop
<1> DEFINE S == Selected(Current)
           before(p, r) == Before(Store, Current, p, r)
           kept == document.body
<1>1. vault \in Vaults /\ Current \in ParsedQueries /\ Current.limit \in Int
  BY AnswersTyped DEF TypeOK, ParsedQueries
<1>2. /\ Cardinality(S) \in Nat /\ Len(InOrder) = Cardinality(S)
      /\ \A p \in S : \E i \in 1..Len(InOrder) : InOrder[i] = p
      /\ \A i, j \in 1..Len(InOrder) : i < j <=> before(InOrder[i], InOrder[j])
  BY <1>1, InOrderIs
<1>3. /\ \A i \in DOMAIN kept : i \in 1..Len(InOrder) /\ kept[i] = InOrder[i]
      /\ DOMAIN kept = 1..Len(kept)
      /\ Len(kept) = IF Current.limit >= 0 /\ Len(InOrder) > Current.limit
                     THEN Current.limit ELSE Len(InOrder)
  BY DocumentIs
<1>4. Len(kept) = Len(Execute(Store, Current).results)
  <2>1. /\ InPathOrder(S) \in Seq(S) /\ Len(InPathOrder(S)) = Cardinality(S)
        /\ Execute(Store, Current).results = Limited(InPathOrder(S), Current.limit)
    BY <1>1, SelectedInOrder DEF Selected, Execute
  <2> HIDE DEF kept, S
  <2> QED
    BY <1>1, <1>2, <1>3, <2>1, LimitedIs
<1> HIDE DEF before, S, kept
<1>5. \A i, j \in DOMAIN kept : i < j => ~before(kept[j], kept[i])
  BY <1>2, <1>3
<1>6. ASSUME NEW p \in S \ ToSet(kept), NEW i \in DOMAIN kept PROVE ~before(p, kept[i])
  <2>1. PICK k \in 1..Len(InOrder) : InOrder[k] = p
    BY <1>2
  <2>2. k \notin DOMAIN kept
    BY <1>3, <1>6, <2>1 DEF ToSet
  <2>3. i < k
    BY <1>1, <1>2, <1>3, <2>2
  <2> QED
    BY <1>2, <1>3, <2>1, <2>3
<1> QED
  BY <1>4, <1>5, <1>6 DEF KeepsTopN, CutKeepsTop, before, S, kept

LEMMA EarlierIsKept ==
    ASSUME AnswersFit, OrderKeysAlike, document.status = "ok",
           NEW p \in Selected(Current), NEW r \in Selected(Current), Before(Store, Current, p, r),
           NEW i \in DOMAIN document.body, document.body[i] = r
    PROVE  \E j \in 1..i - 1 : document.body[j] = p
<1>1. vault \in Vaults /\ Current \in ParsedQueries
  BY AnswersTyped DEF TypeOK
<1>2. i \in 1..Len(InOrder) /\ InOrder[i] = r
  BY DocumentIs
<1>3. PICK j \in 1..Len(InOrder) : InOrder[j] = p
  BY <1>1, InOrderIs
<1>4. j < i
  BY <1>1, <1>2, <1>3, InOrderIs
<1>5. j \in 1..i - 1 /\ j \in DOMAIN document.body
  <2>1. DOMAIN document.body = 1..Len(document.body) /\ Len(document.body) \in Nat
    BY DocumentIs
  <2>2. Len(InOrder) \in Nat
    BY <1>1, InOrderIs
  <2> QED
    BY <1>3, <1>4, <2>1, <2>2
<1>6. document.body[j] = p
  BY <1>3, <1>5, DocumentIs
<1> QED
  BY <1>5, <1>6

LEMMA MissingAtEnd == AnswersFit /\ OrderKeysAlike => MissingKeyLast
<1> SUFFICES ASSUME AnswersFit, OrderKeysAlike, document.status = "ok", Current.order # "",
                    NEW p \in Selected(Current), NEW r \in Selected(Current),
                    Current.order \in DOMAIN Store[p], Current.order \notin DOMAIN Store[r],
                    NEW i \in DOMAIN document.body, document.body[i] = r
             PROVE  \E j \in 1..i - 1 : document.body[j] = p
  BY DEF MissingKeyLast
<1>1. OrderKey(Store, Current, r) = Missing
  BY DEF OrderKey, Lookup
<1>2. OrderKey(Store, Current, p) = Store[p][Current.order]
  BY DEF OrderKey, Lookup
<1>3. Coherent(Store[p][Current.order])
  BY AnswersTyped, SelectedNotes DEF TypeOK
<1>4. OrderKey(Store, Current, p) # Missing
  <2>1. Store[p][Current.order].type # Missing.type
    BY <1>3 DEF Coherent, Missing
  <2> QED
    BY <1>2, <2>1
<1>5. Before(Store, Current, p, r)
  BY <1>1, <1>4, MissingAfter
<1> QED
  BY <1>5, EarlierIsKept

LEMMA AnswersAgree == AnswersFit /\ OrderKeysAlike => OfflineAgrees
<1> SUFFICES ASSUME AnswersFit, OrderKeysAlike PROVE OfflineAgrees
  OBVIOUS
<1>1. vault \in Vaults /\ Current \in ParsedQueries
  BY AnswersTyped DEF TypeOK
<1>2. Malformed \in Range(vault) <=> Parses(vault) # DOMAIN vault
  BY DEF Range, Parses
<1>3. /\ Current.error # "none" => LoadError(Current) = "query"
      /\ Current.error = "none" /\ Malformed \in Range(vault) => LoadError(Current) = "scan"
      /\ Current.error = "none" /\ Malformed \notin Range(vault) => LoadError(Current) = "none"
  BY <1>2 DEF LoadError
<1>4. Agree(json, cliJson)
  <2>1. SUFFICES ASSUME json # NotAsked, cliJson # NotAsked PROVE Agree(json, cliJson)
    BY DEF Agree
  <2>2. json = HttpJson(Current) /\ cliJson = CliJson(Current)
    BY <2>1 DEF AnswersFit
  <2>3. CASE Current.error # "none"
    <3>1. json.status = "400" /\ cliJson.status = "query"
      BY <1>3, <2>2, <2>3, Statuses DEF HttpJson, CliJson
    <3> QED
      BY <2>3, <3>1 DEF Agree
  <2>4. CASE Current.error = "none" /\ Malformed \in Range(vault)
    <3>1. cliJson.status = "scan"
      BY <1>3, <2>2, <2>4, Statuses DEF CliJson
    <3> QED
      BY <2>4, <3>1 DEF Agree
  <2>5. CASE Current.error = "none" /\ Malformed \notin Range(vault)
    <3>1. json = cliJson /\ json.status = "ok"
      BY <1>3, <2>2, <2>5, Statuses DEF HttpJson, CliJson
    <3> QED
      BY <2>5, <3>1 DEF Agree
  <2> QED
    BY <2>3, <2>4, <2>5
<1>5. Agree(document, cliDocument)
  <2>1. SUFFICES ASSUME document # NotAsked, cliDocument # NotAsked PROVE Agree(document, cliDocument)
    BY DEF Agree
  <2>2. document \in HttpDocuments(Current) /\ cliDocument \in CliDocuments(Current)
    BY <2>1 DEF AnswersFit
  <2>3. CASE Current.error # "none"
    <3>1. document.status = "400" /\ cliDocument.status = "query"
      BY <1>3, <2>2, <2>3, Statuses DEF HttpDocuments, CliDocuments
    <3> QED
      BY <2>3, <3>1 DEF Agree
  <2>4. CASE Current.error = "none" /\ Malformed \in Range(vault)
    <3>1. cliDocument.status = "scan"
      BY <1>3, <2>2, <2>4, Statuses DEF CliDocuments
    <3> QED
      BY <2>4, <3>1 DEF Agree
  <2>5. CASE Current.error = "none" /\ Malformed \notin Range(vault)
    <3>1. document \in Merged(Current, "400") /\ cliDocument \in Merged(Current, "kind")
      BY <1>3, <2>2, <2>5 DEF HttpDocuments, CliDocuments
    <3>2. CASE KindGuardFails(Store, Current, Selected(Current))
      <4>1. document.status = "400" /\ cliDocument.status = "kind"
        BY <1>1, <3>1, <3>2, OneDocument, Statuses
      <4> QED
        BY <2>5, <4>1 DEF Agree
    <3>3. CASE ~KindGuardFails(Store, Current, Selected(Current))
      <4>1. \A failure : Merged(Current, failure) = {Ok(TheDocument)}
        BY <1>1, <3>3, OneDocument
      <4>2. document = Ok(TheDocument) /\ cliDocument = Ok(TheDocument)
        BY <3>1, <4>1
      <4>3. document = cliDocument /\ document.status = "ok"
        BY <4>2, Statuses
      <4> QED
        BY <2>5, <4>3 DEF Agree
    <3> QED
      BY <3>2, <3>3
  <2> QED
    BY <2>3, <2>4, <2>5
<1> QED
  BY <1>4, <1>5 DEF OfflineAgrees

(* Wherever one rung of the ladder compares the order keys, the capped document  *)
(* is the top of the whole one by key and path, in either direction (order_cmp,  *)
(* execute_merge).  Of other keys it is false: the run on mixed keys shows it.   *)
THEOREM TopNKept == Spec => [](OrderKeysAlike => KeepsTopN)
<1> QED
  BY AnswersAlwaysFit, TopOfOrder, PTL

(* ... and the notes without the key are the last, so the cap takes them first. *)
THEOREM MissingFollow == Spec => [](OrderKeysAlike => MissingKeyLast)
<1> QED
  BY AnswersAlwaysFit, MissingAtEnd, PTL

(* ... and the subcommands answer what the daemon answers and refuse what it     *)
(* refuses, but for vaults with a file that does not parse (load, get_query).   *)
THEOREM OfflineSame == Spec => [](OrderKeysAlike => OfflineAgrees)
<1> QED
  BY AnswersAlwaysFit, AnswersAgree, PTL

-----------------------------------------------------------------------------
(* Folder listings.                                                          *)

Below(d) == {p \in DOMAIN Store : Under(d, p)}

LEMMA StoreIn == DOMAIN Store \subseteq DOMAIN vault
BY DEF Store, Parses

(* A path below a folder goes on with a name, which its entry shows. *)
LEMMA NameBelow ==
    ASSUME vault \in Vaults, NEW d \in Seq(STRING), NEW p \in DOMAIN vault, Under(d, p)
    PROVE  /\ Len(d) \in Nat /\ Len(p) \in Nat /\ Len(d) + 1 \in 1..Len(p)
           /\ p[Len(d) + 1] \in DOMAIN NameRank
           /\ NameRank[p[Len(d) + 1]] \in Nat
           /\ IsFile(d, p) => Last(p) = p[Len(d) + 1]
<1>1. p \in Seq(DOMAIN NameRank)
  BY VaultsAssumption
<1>2. Len(d) \in Nat /\ Len(p) \in Nat /\ Len(d) < Len(p)
  BY <1>1, LenProperties DEF Under
<1>3. Len(d) + 1 \in 1..Len(p)
  BY <1>2
<1>4. p[Len(d) + 1] \in DOMAIN NameRank
  BY <1>1, <1>3, ElementOfSeq
<1>5. NameRank[p[Len(d) + 1]] \in Nat
  BY <1>4, NameAssumption
<1> QED
  BY <1>2, <1>3, <1>4, <1>5 DEF IsFile, Last

LEMMA EntriesAre ==
    ASSUME vault \in Vaults, NEW d \in Seq(STRING)
    PROVE  Entries(DOMAIN Store, d) =
              {Entry(p[Len(d) + 1], IF IsFile(d, p) THEN "file" ELSE "dir") : p \in Below(d)}
<1>1. {q \in DOMAIN Store : IsStrictPrefix(d, q)} = Below(d)
  <2>1. \A q \in DOMAIN Store : IsStrictPrefix(d, q) <=> Under(d, q)
    BY StoreIn, PathsOfVault, PrefixIsUnder
  <2> QED
    BY <2>1 DEF Below
<1> QED
  BY <1>1 DEF Entries, IsFile

(* No name is both a note and a folder. *)
LEMMA OneEntryPerName ==
    ASSUME vault \in Vaults, NEW d \in Seq(STRING), NEW p \in Below(d), NEW r \in Below(d),
           p[Len(d) + 1] = r[Len(d) + 1], IsFile(d, p)
    PROVE  r = p
<1>1. p \in DOMAIN vault /\ r \in DOMAIN vault /\ Under(d, p) /\ Under(d, r)
  BY StoreIn DEF Below
<1>2. p \in Seq(STRING) /\ r \in Seq(STRING)
  BY <1>1, PathsOfVault
<1>3. Len(d) \in Nat /\ Len(p) = Len(d) + 1 /\ Len(r) \in Nat /\ Len(p) <= Len(r)
  BY <1>1, NameBelow DEF IsFile
<1>4. \A i \in 1..Len(p) : p[i] = r[i]
  <2>1. \A i \in 1..Len(p) : i \in 1..Len(d) \/ i = Len(d) + 1
    BY <1>3
  <2> QED
    BY <1>1, <2>1 DEF Under
<1>5. IsPrefix(p, r)
  BY <1>2, <1>3, <1>4, PrefixIsUnder
<1> QED
  BY <1>1, <1>5, VaultsAssumption DEF IsStrictPrefix

LEMMA ListedByName ==
    ASSUME vault \in Vaults, NEW d \in Seq(STRING)
    PROVE  LET E == Entries(DOMAIN Store, d)
               s == ByName(E)
           IN  /\ s \in Seq(E) /\ ToSet(s) = E
               /\ \A i, j \in DOMAIN s : i < j => NameRank[s[i].name] < NameRank[s[j].name]
<1> DEFINE E == Entries(DOMAIN Store, d)
           of == [p \in Below(d) |-> Entry(p[Len(d) + 1], IF IsFile(d, p) THEN "file" ELSE "dir")]
           rank == [e \in E |-> NameRank[e.name]]
<1>1. \A p \in Below(d) : of[p].name = p[Len(d) + 1] /\ of[p].type = IF IsFile(d, p) THEN "file" ELSE "dir"
  BY DEF Entry
<1>2. E = {of[p] : p \in Below(d)}
  BY EntriesAre
<1>3. IsFiniteSet(Below(d)) /\ Below(d) \subseteq DOMAIN vault
  BY StoreIn, VaultsAssumption, FS_Subset DEF Below
<1> HIDE DEF E, of
<1>4. IsFiniteSet(E)
  BY <1>2, <1>3, FiniteImage
<1>5. \A e \in E : rank[e] = NameRank[e.name] /\ NameRank[e.name] \in Nat
  <2>1. \A p \in Below(d) : NameRank[p[Len(d) + 1]] \in Nat
    BY <1>3, NameBelow DEF Below
  <2> QED
    BY <1>1, <1>2, <2>1
<1> HIDE DEF rank
<1>6. ASSUME NEW e \in E, NEW g \in E, rank[e] = rank[g] PROVE e = g
  <2>1. PICK p \in Below(d) : e = of[p]
    BY <1>2
  <2>2. PICK r \in Below(d) : g = of[r]
    BY <1>2
  <2>3. p[Len(d) + 1] \in DOMAIN NameRank /\ r[Len(d) + 1] \in DOMAIN NameRank
    BY <1>3, NameBelow DEF Below
  <2>4. p[Len(d) + 1] = r[Len(d) + 1]
    BY <1>1, <1>5, <1>6, <2>1, <2>2, <2>3, NameAssumption
  <2>5. IsFile(d, p) => r = p
    BY <2>4, OneEntryPerName
  <2>6. IsFile(d, r) => r = p
    BY <2>4, OneEntryPerName
  <2>7. IsFile(d, p) <=> IsFile(d, r)
    BY <2>5, <2>6
  <2> QED
    BY <2>1, <2>2, <2>4, <2>7 DEF of
<1>7. ByName(E) = Ascending(E, rank)
  BY DEF ByName, rank
<1>8. /\ ByName(E) \in Seq(E) /\ DOMAIN ByName(E) = 1..Cardinality(E)
      /\ \A e \in E : \E i \in 1..Cardinality(E) : ByName(E)[i] = e
      /\ \A i, j \in 1..Cardinality(E) :
            i < j <=> rank[ByName(E)[i]] < rank[ByName(E)[j]]
  BY <1>4, <1>5, <1>6, <1>7, SortedByRank
<1>9. \A i \in DOMAIN ByName(E) : ByName(E)[i] \in E
  BY <1>8, ElementOfSeq, LenProperties
<1>10. ToSet(ByName(E)) = E
  BY <1>8, <1>9 DEF ToSet
<1>11. \A i, j \in DOMAIN ByName(E) :
          i < j => NameRank[ByName(E)[i].name] < NameRank[ByName(E)[j].name]
  BY <1>5, <1>8, <1>9
<1> QED
  BY <1>8, <1>10, <1>11 DEF E

LEMMA ListFolderIs ==
    ASSUME vault \in Vaults, NEW d \in Seq(STRING)
    PROVE  LET listing == ListFolder(DOMAIN Store, d)
           IN  /\ d # <<>> /\ Below(d) = {} => listing.status = "404"
               /\ d = <<>> \/ Below(d) # {} =>
                     /\ listing.status = "ok" /\ listing.entries = ByName(Entries(DOMAIN Store, d))
                     /\ "entries" \in DOMAIN listing
<1>1. Entries(DOMAIN Store, d) = {} <=> Below(d) = {}
  BY EntriesAre
<1>2. CASE d # <<>> /\ Below(d) = {}
  <2>1. ListFolder(DOMAIN Store, d) = NotFound
    BY <1>1, <1>2 DEF ListFolder
  <2> QED
    BY <1>2, <2>1 DEF NotFound
<1>3. CASE d = <<>> \/ Below(d) # {}
  <2>1. ListFolder(DOMAIN Store, d) =
           [status |-> "ok", entries |-> ByName(Entries(DOMAIN Store, d))]
    BY <1>1, <1>3 DEF ListFolder
  <2> QED
    BY <1>3, <2>1
<1> QED
  BY <1>2, <1>3

LEMMA QueryBelow ==
    ASSUME vault \in Vaults, NEW d \in Seq(STRING), NEW r \in BOOLEAN
    PROVE  Matching(Store, [ParsedQuery EXCEPT !.path = d, !.recursive = r]) \ {d} =
              {p \in Below(d) : r \/ IsFile(d, p)}
<1> DEFINE q == [ParsedQuery EXCEPT !.path = d, !.recursive = r]
<1>1. q.path = d /\ q.recursive = r /\ q.predicates = <<>>
  BY DEF ParsedQuery
<1> HIDE DEF q
<1>2. Matching(Store, q) = {p \in DOMAIN Store : PathMatches(p, d, r)}
  BY <1>1 DEF Matching, PredicatesMatch
<1>3. \A p \in DOMAIN Store : PathMatches(p, d, r) /\ p # d <=> Under(d, p) /\ (r \/ IsFile(d, p))
  BY StoreIn, BelowMatches
<1>4. Matching(Store, q) \ {d} = {p \in Below(d) : r \/ IsFile(d, p)}
  BY <1>2, <1>3 DEF Below
<1> QED
  BY <1>4 DEF q

LEMMA ListingAgrees == vault \in Vaults => ListingIsQuery
<1> SUFFICES ASSUME vault \in Vaults, NEW d \in Folders \cup DOMAIN vault
             PROVE  LET listing == ListFolder(DOMAIN Store, d)
                        below(recursive) ==
                            Matching(Store, [ParsedQuery EXCEPT !.path = d, !.recursive = recursive])
                            \ {d}
                        entries == IF listing.status = "ok" THEN listing.entries ELSE <<>>
                        names(type) == {e.name : e \in {f \in ToSet(entries) : f.type = type}}
                    IN  /\ (listing.status = "404") = (d # <<>> /\ below(TRUE) = {})
                        /\ names("file") = {Last(p) : p \in below(FALSE)}
                        /\ names("dir") = {p[Len(d) + 1] : p \in below(TRUE) \ below(FALSE)}
                        /\ \A i, j \in DOMAIN entries :
                              i < j => NameRank[entries[i].name] < NameRank[entries[j].name]
  BY DEF ListingIsQuery
<1> DEFINE listing == ListFolder(DOMAIN Store, d)
           below(r) == Matching(Store, [ParsedQuery EXCEPT !.path = d, !.recursive = r]) \ {d}
           entries == IF listing.status = "ok" THEN listing.entries ELSE <<>>
           names(type) == {e.name : e \in {f \in ToSet(entries) : f.type = type}}
           E == Entries(DOMAIN Store, d)
<1>1. d \in Seq(STRING) /\ Len(d) \in Nat
  BY FolderIsSeq, PathsOfVault
<1>2. below(TRUE) = Below(d) /\ below(FALSE) = {p \in Below(d) : IsFile(d, p)}
  BY <1>1, QueryBelow
<1>3. /\ d # <<>> /\ Below(d) = {} => listing.status = "404"
      /\ d = <<>> \/ Below(d) # {} => listing.status = "ok" /\ listing.entries = ByName(E)
  BY <1>1, ListFolderIs
<1>4. E = {Entry(p[Len(d) + 1], IF IsFile(d, p) THEN "file" ELSE "dir") : p \in Below(d)}
  BY <1>1, EntriesAre
<1>5. /\ ToSet(ByName(E)) = E
      /\ \A i, j \in DOMAIN ByName(E) :
            i < j => NameRank[ByName(E)[i].name] < NameRank[ByName(E)[j].name]
  BY <1>1, ListedByName
<1>6. \A p \in Below(d) : IsFile(d, p) => Last(p) = p[Len(d) + 1]
  BY <1>1, StoreIn, NameBelow DEF Below
<1> HIDE DEF listing, below, E
<1>7. entries = IF d # <<>> /\ Below(d) = {} THEN <<>> ELSE ByName(E)
  BY <1>3
<1> HIDE DEF entries
<1>8. ToSet(entries) = E
  <2>1. CASE d # <<>> /\ Below(d) = {}
    BY <1>4, <1>7, <2>1 DEF ToSet
  <2>2. CASE ~(d # <<>> /\ Below(d) = {})
    BY <1>5, <1>7, <2>2
  <2> QED
    BY <2>1, <2>2
<1>9. (listing.status = "404") = (d # <<>> /\ below(TRUE) = {})
  BY <1>2, <1>3
<1>10. /\ names("file") = {p[Len(d) + 1] : p \in {r \in Below(d) : IsFile(d, r)}}
       /\ names("dir") = {p[Len(d) + 1] : p \in {r \in Below(d) : ~IsFile(d, r)}}
  <2> DEFINE type(p) == IF IsFile(d, p) THEN "file" ELSE "dir"
             of(p) == Entry(p[Len(d) + 1], type(p))
  <2>1. \A p \in Below(d) : of(p).name = p[Len(d) + 1] /\ of(p).type = type(p)
    BY DEF Entry
  <2>2. E = {of(p) : p \in Below(d)}
    BY <1>4
  <2> HIDE DEF of, type
  <2>3. \A t : {e \in E : e.type = t} = {of(p) : p \in {r \in Below(d) : type(r) = t}}
    BY <2>1, <2>2
  <2>4. ASSUME NEW t
        PROVE  names(t) = {p[Len(d) + 1] : p \in {r \in Below(d) : type(r) = t}}
    <3> DEFINE R == {r \in Below(d) : type(r) = t}
    <3>1. names(t) = {e.name : e \in {f \in E : f.type = t}}
      BY <1>8
    <3>2. {f \in E : f.type = t} = {of(p) : p \in R}
      BY <2>3
    <3>3. \A p \in R : of(p).name = p[Len(d) + 1]
      BY <2>1
    <3> HIDE DEF names, R
    <3>4. names(t) = {p[Len(d) + 1] : p \in R}
      BY <3>1, <3>2, <3>3
    <3> QED
      BY <3>4 DEF R
  <2>5. \A r : (type(r) = "file" <=> IsFile(d, r)) /\ (type(r) = "dir" <=> ~IsFile(d, r))
    BY DEF type
  <2>6. /\ {r \in Below(d) : type(r) = "file"} = {r \in Below(d) : IsFile(d, r)}
        /\ {r \in Below(d) : type(r) = "dir"} = {r \in Below(d) : ~IsFile(d, r)}
    BY <2>5
  <2> HIDE DEF names
  <2> QED
    BY <2>4, <2>6
<1>11. names("file") = {Last(p) : p \in below(FALSE)}
  BY <1>2, <1>6, <1>10
<1>12. names("dir") = {p[Len(d) + 1] : p \in below(TRUE) \ below(FALSE)}
  <2>1. below(TRUE) \ below(FALSE) = {r \in Below(d) : ~IsFile(d, r)}
    BY <1>2
  <2> QED
    BY <1>10, <2>1
<1>13. \A i, j \in DOMAIN entries :
          i < j => NameRank[entries[i].name] < NameRank[entries[j].name]
  BY <1>5, <1>7
<1> HIDE DEF names
<1>14. /\ (listing.status = "404") = (d # <<>> /\ below(TRUE) = {})
       /\ names("file") = {Last(p) : p \in below(FALSE)}
       /\ names("dir") = {p[Len(d) + 1] : p \in below(TRUE) \ below(FALSE)}
       /\ \A i, j \in DOMAIN entries :
             i < j => NameRank[entries[i].name] < NameRank[entries[j].name]
  BY <1>9, <1>11, <1>12, <1>13
<1> QED
  BY <1>14 DEF listing, below, entries, names, Zenon

-----------------------------------------------------------------------------
(* Reading paths.                                                            *)

Name == DOMAIN NameRank

\* The provers' encoding has no empty string; it is hidden behind a name.
Empty == ""

LEMMA NamesAreStrings ==
    ASSUME NEW s \in Seq(Name)
    PROVE  /\ s \in Seq(STRING) /\ Len(s) \in Nat /\ DOMAIN s = 1..Len(s)
           /\ \A i \in 1..Len(s) : s[i] \in Name /\ s[i] \notin NoName
<1>1. Name \subseteq STRING \ NoName
  BY NameAssumption DEF Name
<1>2. s \in Seq(STRING)
  BY <1>1, SeqMonotonic
<1>3. \A i \in 1..Len(s) : s[i] \in Name
  BY ElementOfSeq
<1> QED
  BY <1>1, <1>2, <1>3, LenProperties

(* Segments that each decode to one name decode to these names. *)
LEMMA DecodesTo ==
    ASSUME NEW decode, NEW X, NEW segments \in Seq(X), NEW T, NEW s \in Seq(T),
           Len(segments) = Len(s),
           \A i \in 1..Len(s) : segments[i] \in DOMAIN decode /\ decode[segments[i]] = <<s[i]>>
    PROVE  Decoded(segments, decode) = s
<1> DEFINE parts == [i \in DOMAIN segments |-> decode[segments[i]]]
<1>1. Len(s) \in Nat /\ DOMAIN segments = 1..Len(s) /\ \A i \in 1..Len(s) : s[i] \in T
  BY LenProperties, ElementOfSeq
<1>2. ToSet(segments) \subseteq DOMAIN decode
  BY <1>1 DEF ToSet
<1>3. Decoded(segments, decode) = FlattenSeq(parts)
  BY <1>2 DEF Decoded
<1>4. \A i \in 1..Len(s) : <<s[i]>> \in Seq(T)
  BY <1>1
<1>5. parts \in [1..Len(s) -> Seq(T)] /\ \A i \in 1..Len(s) : parts[i] = <<s[i]>>
  BY <1>1, <1>4
<1> HIDE DEF parts
<1>6. parts \in Seq(Seq(T)) /\ Len(parts) = Len(s)
  BY <1>1, <1>5, FunctionIsSeq
<1>7. FlattenSeq(parts) = s
  BY <1>5, <1>6, FlattenOnes
<1> QED
  BY <1>3, <1>7

(* What is assumed of names and of the empty segment. *)
LEMMA NamesDecode ==
    /\ Empty \in DOMAIN UrlDecode /\ UrlDecode[Empty] = <<Empty>>
    /\ \A n \in Name :
          /\ UrlEncode[n] \in DOMAIN UrlDecode /\ UrlDecode[UrlEncode[n]] = <<n>>
          /\ n \in DOMAIN PathDecode /\ PathDecode[n] = <<n>>
BY EncodeAssumption, DecodeAssumption, Zenon DEF Name, Empty

(* Nothing is trimmed from names. *)
LEMMA NamesResolve ==
    ASSUME NEW s \in Seq(Name), NEW folder \in BOOLEAN, s # <<>> \/ folder
    PROVE  Resolve(s, folder) = s /\ s # Invalid
<1>1. /\ s \in Seq(STRING) /\ Len(s) \in Nat /\ DOMAIN s = 1..Len(s)
      /\ \A i \in 1..Len(s) : s[i] \in Name /\ s[i] \notin NoName
  BY NamesAreStrings
<1>2. Decoded(s, PathDecode) = s
  <2>1. \A i \in 1..Len(s) : s[i] \in DOMAIN PathDecode /\ PathDecode[s[i]] = <<s[i]>>
    BY <1>1, NamesDecode
  <2> QED
    BY <2>1, DecodesTo
<1>3. s # Invalid
  <2>1. SUFFICES ASSUME s = Invalid PROVE FALSE
    OBVIOUS
  <2>2. Len(s) = 1 /\ s[1] = "/"
    BY <2>1 DEF Invalid
  <2>3. s[1] \in NoName
    BY <2>2 DEF NoName
  <2> QED
    BY <1>1, <2>2, <2>3
<1>4. Trimmed(s) = s
  <2> DEFINE leading == {k \in 0..Len(s) : \A i \in 1..k : s[i] = Empty}
  <2>1. leading = {0}
    <3>1. \A k \in 0..Len(s) : k # 0 => 1 \in 1..k /\ 1 \in 1..Len(s)
      BY <1>1
    <3>2. Empty \in NoName
      BY DEF NoName, Empty
    <3>3. 0 \in leading
      BY <1>1
    <3> QED
      BY <1>1, <3>1, <3>2, <3>3
  <2>2. Cardinality(leading) = 1
    BY <2>1, FS_Singleton
  <2>3. Trimmed(s) = SubSeq(s, 1, Len(s))
    BY <2>2, Zenon DEF Trimmed, Empty
  <2>4. /\ SubSeq(s, 1, Len(s)) \in Seq(STRING) /\ Len(SubSeq(s, 1, Len(s))) = Len(s)
        /\ \A i \in 1..Len(s) : SubSeq(s, 1, Len(s))[i] = s[i]
    <3>1. \A i \in 1..Len(s) : s[i] \in STRING
      BY <1>1, ElementOfSeq
    <3> QED
      BY <1>1, <3>1, SubSeqProperties
  <2> QED
    BY <1>1, <2>3, <2>4, SeqEqual
<1>5. ToSet(s) \cap NoName = {}
  BY <1>1 DEF ToSet
<1>6. ToSet(s) \cap {"", ".", ".."} = {}
  BY <1>5, Zenon DEF NoName
<1> QED
  BY <1>2, <1>3, <1>4, <1>6, Zenon DEF Resolve

LEMMA Reads ==
    ASSUME NEW s \in Seq(Name)
    PROVE  /\ Read(s, TRUE) = ListFolder(DOMAIN Store, s)
           /\ s # <<>> => Read(s, FALSE) = IF s \in DOMAIN Store THEN Ok(s) ELSE NotFound
<1> DEFINE written == [i \in DOMAIN s |-> UrlEncode[s[i]]]
           X == {UrlEncode[n] : n \in Name} \cup {Empty}
<1>1. /\ Len(s) \in Nat /\ DOMAIN s = 1..Len(s)
      /\ \A i \in 1..Len(s) : s[i] \in Name /\ s[i] # Empty
  BY NamesAreStrings DEF NoName, Empty
<1>2. /\ written \in Seq(X) /\ Len(written) = Len(s)
      /\ \A i \in 1..Len(s) : written[i] = UrlEncode[s[i]]
  <2>1. written \in [1..Len(s) -> X]
    BY <1>1
  <2>2. \A i \in 1..Len(s) : written[i] = UrlEncode[s[i]]
    BY <1>1
  <2> HIDE DEF written, X
  <2> QED
    BY <1>1, <2>1, <2>2, FunctionIsSeq
<1>3. Empty \in X
  OBVIOUS
<1> HIDE DEF written, X
<1>4. \A i \in 1..Len(s) : written[i] \in DOMAIN UrlDecode /\ UrlDecode[written[i]] = <<s[i]>>
  BY <1>1, <1>2, NamesDecode
<1>5. Decoded(written, UrlDecode) = s
  BY <1>2, <1>4, DecodesTo
<1>6. ASSUME NEW slash \in BOOLEAN
      PROVE  Read(s, slash) =
                GetNotes(DOMAIN Store, IF slash THEN Append(written, Empty) ELSE written, {}, Store)
  BY Zenon DEF Read, written, Empty
<1>7. Read(s, TRUE) = ListFolder(DOMAIN Store, s)
  <2> DEFINE T == Name \cup {Empty}
             segments == Append(written, Empty)
             names == Append(s, Empty)
  <2>1. s \in Seq(T) /\ Empty \in T
    BY SeqMonotonic
  <2> HIDE DEF T
  <2>2. /\ names \in Seq(T) /\ names # <<>> /\ Len(names) = Len(s) + 1
        /\ \A i \in 1..Len(s) : names[i] = s[i]
        /\ names[Len(s) + 1] = Empty
    BY <2>1, AppendProperties
  <2>3. /\ segments \in Seq(X) /\ Len(segments) = Len(s) + 1
        /\ \A i \in 1..Len(s) : segments[i] = written[i]
        /\ segments[Len(s) + 1] = Empty
    BY <1>2, <1>3, AppendProperties
  <2> HIDE DEF names, segments
  <2>4. Empty \in DOMAIN UrlDecode /\ UrlDecode[Empty] = <<Empty>>
    BY NamesDecode
  <2>5. ASSUME NEW i \in 1..Len(names)
        PROVE  segments[i] \in DOMAIN UrlDecode /\ UrlDecode[segments[i]] = <<names[i]>>
    <3>1. i \in 1..Len(s) \/ i = Len(s) + 1
      BY <1>1, <2>2
    <3> QED
      BY <1>4, <2>2, <2>3, <2>4, <3>1
  <2>6. Decoded(segments, UrlDecode) = names
    BY <2>2, <2>3, <2>5, DecodesTo
  <2>7. Last(names) = Empty
    BY <2>2 DEF Last
  <2>8. Front(names) = s
    <3>1. /\ SubSeq(names, 1, Len(s)) \in Seq(T) /\ Len(SubSeq(names, 1, Len(s))) = Len(s)
          /\ \A i \in 1..Len(s) : SubSeq(names, 1, Len(s))[i] = names[i]
      <4>1. \A i \in 1..Len(s) : names[i] \in T
        BY <2>1, <2>2, ElementOfSeq
      <4> QED
        BY <1>1, <4>1, SubSeqProperties
    <3>2. Front(names) = SubSeq(names, 1, Len(s))
      BY <1>1, <2>2 DEF Front
    <3> QED
      BY <2>1, <2>2, <3>1, <3>2, SeqEqual
  <2>9. Resolve(s, TRUE) = s /\ s # Invalid
    BY NamesResolve
  <2>10. names # Invalid
    <3>1. Len(Invalid) = 1 /\ Invalid[1] = "/"
      BY DEF Invalid
    <3>2. Empty # "/"
      BY Zenon DEF Empty
    <3> QED
      BY <1>1, <2>2, <3>1, <3>2
  <2> QED
    <3>1. Read(s, TRUE) = GetNotes(DOMAIN Store, segments, {}, Store)
      BY <1>6 DEF segments
    <3> QED
      BY <2>2, <2>6, <2>7, <2>8, <2>9, <2>10, <3>1, Zenon DEF GetNotes, Empty
<1>8. ASSUME s # <<>>
      PROVE  Read(s, FALSE) = IF s \in DOMAIN Store THEN Ok(s) ELSE NotFound
  <2>1. Last(s) # Empty
    <3>1. Len(s) \in 1..Len(s)
      BY <1>8, LastOfSeq
    <3> QED
      BY <1>1, <3>1 DEF Last
  <2>2. Resolve(s, FALSE) = s /\ s # Invalid
    BY <1>8, NamesResolve
  <2>3. ~EtagMatches({}, Store[s])
    BY DEF EtagMatches
  <2> QED
    <3>1. Read(s, FALSE) = GetNotes(DOMAIN Store, written, {}, Store)
      BY <1>6
    <3>2. GetNotes(DOMAIN Store, written, {}, Store) =
             IF s \notin DOMAIN Store THEN NotFound ELSE RespondNote(s, {}, Store[s])
      BY <1>5, <2>1, <2>2, Zenon DEF GetNotes, Empty
    <3> QED
      BY <2>3, <3>1, <3>2 DEF RespondNote, Ok
<1> QED
  BY <1>7, <1>8

LEMMA DecodedTyped ==
    ASSUME NEW decode \in {UrlDecode, PathDecode}, NEW segments \in Seq(STRING),
           Decoded(segments, decode) # Invalid
    PROVE  Decoded(segments, decode) \in Seq(STRING)
<1> DEFINE parts == [i \in DOMAIN segments |-> decode[segments[i]]]
<1>1. Len(segments) \in Nat /\ DOMAIN segments = 1..Len(segments)
  BY LenProperties
<1>2. ToSet(segments) \subseteq DOMAIN decode /\ Decoded(segments, decode) = FlattenSeq(parts)
  BY DEF Decoded
<1>3. \A segment \in DOMAIN decode : decode[segment] \in Seq(STRING)
  BY DecodeAssumption, Zenon
<1>4. parts \in [1..Len(segments) -> Seq(STRING)]
  BY <1>1, <1>2, <1>3 DEF ToSet
<1> HIDE DEF parts
<1>5. parts \in Seq(Seq(STRING)) /\ Len(parts) = Len(segments)
  BY <1>1, <1>4, FunctionIsSeq
<1>6. CASE parts = <<>>
  <2>1. Len(parts) = 0
    BY <1>6
  <2>2. FlattenSeq(parts) = <<>>
    BY <1>6, <2>1 DEF FlattenSeq
  <2> QED
    BY <1>2, <2>2
<1>7. CASE parts # <<>>
  <2>1. PICK f \in [0..Len(parts) -> Seq(STRING)] : FlattenSeq(parts) = f[Len(parts)]
    BY <1>5, <1>7, FlattenFold
  <2>2. Len(parts) \in 0..Len(parts)
    BY <1>1, <1>5
  <2> QED
    BY <1>2, <2>1, <2>2
<1> QED
  BY <1>6, <1>7

LEMMA TrimmedTyped ==
    ASSUME NEW names \in Seq(STRING)
    PROVE  Trimmed(names) \in Seq(STRING)
<1> DEFINE leading == {k \in 0..Len(names) : \A i \in 1..k : names[i] = Empty}
<1>1. Len(names) \in Nat /\ \A i \in 1..Len(names) : names[i] \in STRING
  BY LenProperties, ElementOfSeq
<1>2. 0 \in leading /\ leading \subseteq 0..Len(names)
  BY <1>1
<1>3. Trimmed(names) = SubSeq(names, Cardinality(leading), Len(names))
  BY Zenon DEF Trimmed, Empty
<1> HIDE DEF leading
<1>4. IsFiniteSet(leading)
  <2>1. IsFiniteSet(0..Len(names))
    BY <1>1, FS_Interval
  <2> QED
    BY <1>2, <2>1, FS_Subset
<1>5. Cardinality(leading) \in Nat /\ Cardinality(leading) # 0
  BY <1>2, <1>4, FS_CardinalityType, FS_EmptySet
<1>6. \A i \in Cardinality(leading)..Len(names) : names[i] \in STRING
  BY <1>1, <1>5
<1>7. SubSeq(names, Cardinality(leading), Len(names)) \in Seq(STRING)
  BY <1>1, <1>5, <1>6, SubSeqProperties
<1> QED
  BY <1>3, <1>7

LEMMA FrontTyped ==
    ASSUME NEW S, NEW s \in Seq(S), s # <<>>
    PROVE  Front(s) \in Seq(S)
<1>1. Len(s) \in Nat /\ \A i \in 1..Len(s) - 1 : s[i] \in S
  BY LenProperties, ElementOfSeq
<1>2. SubSeq(s, 1, Len(s) - 1) \in Seq(S)
  BY <1>1, SubSeqProperties
<1> QED
  BY <1>2 DEF Front

(* A listing that was answered is that of the folder that was resolved. *)
LEMMA ListingAsked ==
    ASSUME AnswersFit, "entries" \in DOMAIN notes
    PROVE  LET d == Resolve(Front(Decoded(request, UrlDecode)), TRUE)
           IN  d \in Seq(STRING) /\ notes = ListFolder(DOMAIN Store, d)
<1> DEFINE names == Decoded(request, UrlDecode)
           slash == names # <<>> /\ Last(names) = Empty
           path == Resolve(IF slash THEN Front(names) ELSE names, slash)
<1>1. "entries" \notin DOMAIN NotAsked
  BY DEF NotAsked
<1>2. PICK r \in Requests : request = r.segments /\ notes = NotesFor(r)
  BY <1>1 DEF AnswersFit
<1>3. request \in Seq(STRING)
  BY <1>2, RequestsAssumption
<1>4. notes = IF Invalid \in {names, path} THEN BadRequest
              ELSE IF slash THEN ListFolder(DOMAIN Store, path)
              ELSE IF path \notin DOMAIN Store THEN NotFound
              ELSE RespondNote(path, r.ifNoneMatch, Store[path])
  BY <1>2, Zenon DEF NotesFor, GetNotes, Empty
<1> HIDE DEF slash
<1>5. /\ "entries" \notin DOMAIN BadRequest /\ "entries" \notin DOMAIN NotFound
      /\ \A tags, etag : "entries" \notin DOMAIN RespondNote(path, tags, etag)
  BY DEF BadRequest, NotFound, RespondNote
<1> HIDE DEF path
<1>6. names # Invalid /\ path # Invalid /\ slash /\ notes = ListFolder(DOMAIN Store, path)
  BY <1>4, <1>5
<1>7. path = Resolve(Front(names), TRUE) /\ names # <<>>
  BY <1>6 DEF path, slash
<1>8. Front(names) \in Seq(STRING)
  BY <1>3, <1>6, <1>7, DecodedTyped, FrontTyped
<1> HIDE DEF names
<1>9. Decoded(Front(names), PathDecode) # Invalid /\ path = Trimmed(Decoded(Front(names), PathDecode))
  BY <1>6, <1>7, Zenon DEF Resolve
<1>10. path \in Seq(STRING)
  BY <1>8, <1>9, DecodedTyped, TrimmedTyped
<1> QED
  BY <1>6, <1>7, <1>10 DEF names

LEMMA FolderOfNames ==
    ASSUME vault \in Vaults, NEW p \in DOMAIN Store, NEW k \in 0..Len(p)
    PROVE  /\ p \in Seq(Name) /\ Len(p) \in Nat \ {0} /\ SubSeq(p, 1, k) \in Seq(Name)
           /\ Len(SubSeq(p, 1, k)) = k /\ \A i \in 1..k : SubSeq(p, 1, k)[i] = p[i]
           /\ k < Len(p) => Under(SubSeq(p, 1, k), p)
<1>1. p \in DOMAIN vault
  BY StoreIn
<1>2. p \in Seq(Name)
  BY <1>1, VaultsAssumption DEF Name
<1>3. Len(p) \in Nat \ {0}
  BY <1>1, PathsOfVault
<1>4. k \in Nat /\ k <= Len(p)
  BY <1>3
<1>5. \A i \in 1..k : p[i] \in Name
  <2>1. \A i \in 1..k : i \in 1..Len(p)
    BY <1>3, <1>4
  <2> QED
    BY <1>2, <2>1, ElementOfSeq
<1>6. /\ SubSeq(p, 1, k) \in Seq(Name) /\ Len(SubSeq(p, 1, k)) = k
      /\ \A i \in 1..k : SubSeq(p, 1, k)[i] = p[i]
  BY <1>4, <1>5, SubSeqProperties
<1> QED
  BY <1>2, <1>3, <1>6 DEF Under

(* Every folder on the way to a note is read, and its listing goes on.        *)
LEMMA WayToNote ==
    ASSUME vault \in Vaults, NEW p \in DOMAIN Store
    PROVE  /\ Read(p, FALSE) = Ok(p)
           /\ \A k \in 0..Len(p) - 1 :
                 LET listing == Read(SubSeq(p, 1, k), TRUE) IN
                 /\ listing.status = "ok"
                 /\ Entry(p[k + 1], IF k + 1 = Len(p) THEN "file" ELSE "dir") \in ToSet(listing.entries)
<1>1. p \in Seq(Name) /\ Len(p) \in Nat \ {0}
  <2>1. 0 \in 0..Len(p)
    BY StoreIn, PathsOfVault
  <2> QED
    BY <2>1, FolderOfNames
<1>2. Read(p, FALSE) = Ok(p)
  <2>1. p # <<>>
    BY <1>1
  <2> QED
    BY <1>1, <2>1, Reads
<1>3. ASSUME NEW k \in 0..Len(p) - 1
      PROVE  LET listing == Read(SubSeq(p, 1, k), TRUE) IN
             /\ listing.status = "ok"
             /\ Entry(p[k + 1], IF k + 1 = Len(p) THEN "file" ELSE "dir") \in ToSet(listing.entries)
  <2>1. k \in 0..Len(p) /\ k < Len(p)
    BY <1>1
  <2>2. PICK d : d = SubSeq(p, 1, k)
    OBVIOUS
  <2>3. d \in Seq(Name) /\ Len(d) = k /\ Under(d, p)
    BY <2>1, <2>2, FolderOfNames
  <2>4. p \in Below(d) /\ d \in Seq(STRING)
    BY <2>3, NamesAreStrings DEF Below
  <2>5. PICK listing : listing = Read(d, TRUE)
    OBVIOUS
  <2>6. listing = ListFolder(DOMAIN Store, d)
    BY <2>3, <2>5, Reads
  <2>7. listing.status = "ok" /\ listing.entries = ByName(Entries(DOMAIN Store, d))
    BY <2>4, <2>6, ListFolderIs
  <2>8. ToSet(listing.entries) = Entries(DOMAIN Store, d)
    BY <2>4, <2>7, ListedByName
  <2>9. Entry(p[k + 1], IF k + 1 = Len(p) THEN "file" ELSE "dir") \in Entries(DOMAIN Store, d)
    <3>1. Entry(p[Len(d) + 1], IF IsFile(d, p) THEN "file" ELSE "dir") \in Entries(DOMAIN Store, d)
      BY <2>4, EntriesAre
    <3>2. IsFile(d, p) <=> k + 1 = Len(p)
      BY <2>3 DEF IsFile
    <3> QED
      BY <2>3, <3>1, <3>2
  <2> QED
    BY <2>2, <2>5, <2>7, <2>8, <2>9
<1> QED
  BY <1>2, <1>3

(* Every entry of a listing leads to a note or to a folder.                   *)
LEMMA EntryLeads ==
    ASSUME vault \in Vaults, NEW d \in Seq(STRING), NEW entry \in Entries(DOMAIN Store, d)
    PROVE  Read(Append(d, entry.name), entry.type = "dir").status = "ok"
<1>1. PICK p \in Below(d) : entry = Entry(p[Len(d) + 1], IF IsFile(d, p) THEN "file" ELSE "dir")
  BY EntriesAre
<1>2. entry.name = p[Len(d) + 1] /\ (entry.type = "dir") = ~IsFile(d, p)
  BY <1>1 DEF Entry
<1>3. p \in DOMAIN Store /\ p \in DOMAIN vault /\ Under(d, p)
  BY StoreIn DEF Below
<1>4. Len(d) \in Nat /\ Len(p) \in Nat /\ Len(d) + 1 \in 1..Len(p)
  BY <1>3, NameBelow
<1>5. PICK k \in Nat : k = Len(d) + 1
  BY <1>4
<1>6. k \in 0..Len(p) /\ k <= Len(p)
  BY <1>4, <1>5
<1>7. /\ p \in Seq(Name) /\ SubSeq(p, 1, k) \in Seq(Name) /\ Len(SubSeq(p, 1, k)) = k
      /\ \A i \in 1..k : SubSeq(p, 1, k)[i] = p[i]
  BY <1>3, <1>6, FolderOfNames
<1>8. Append(d, entry.name) = SubSeq(p, 1, k)
  <2>1. entry.name \in STRING
    BY <1>2, <1>3, <1>4, PathsOfVault
  <2>2. /\ Append(d, entry.name) \in Seq(STRING) /\ Len(Append(d, entry.name)) = k
        /\ \A i \in 1..Len(d) : Append(d, entry.name)[i] = d[i]
        /\ Append(d, entry.name)[k] = entry.name
    BY <1>5, <2>1, AppendProperties
  <2>3. SubSeq(p, 1, k) \in Seq(STRING)
    BY <1>7, NamesAreStrings
  <2>4. ASSUME NEW i \in 1..k PROVE Append(d, entry.name)[i] = SubSeq(p, 1, k)[i]
    <3>1. i \in 1..Len(d) \/ i = k
      BY <1>4, <1>5
    <3> QED
      BY <1>2, <1>3, <1>5, <1>7, <2>2, <3>1 DEF Under
  <2> QED
    BY <1>7, <2>2, <2>3, <2>4, SeqEqual
<1>9. CASE IsFile(d, p)
  <2>1. SubSeq(p, 1, k) = p
    BY <1>5, <1>7, <1>9, SeqEqual DEF IsFile
  <2>2. Read(p, FALSE).status = "ok"
    BY <1>3, WayToNote, Statuses
  <2> QED
    BY <1>2, <1>8, <1>9, <2>1, <2>2
<1>10. CASE ~IsFile(d, p)
  <2>1. k \in 0..Len(p) - 1
    BY <1>4, <1>5, <1>10 DEF IsFile
  <2>2. Read(SubSeq(p, 1, k), TRUE).status = "ok"
    BY <1>3, <2>1, WayToNote
  <2> QED
    BY <1>2, <1>8, <1>10, <2>2
<1> QED
  BY <1>9, <1>10

LEMMA ListingsFollowed == AnswersFit => ListingsLead
<1> SUFFICES ASSUME AnswersFit PROVE ListingsLead
  OBVIOUS
<1>1. vault \in Vaults
  BY DEF AnswersFit
<1>2. ASSUME "entries" \in DOMAIN notes, NEW i \in DOMAIN notes.entries
      PROVE  LET folder == Resolve(Front(Decoded(request, UrlDecode)), TRUE)
                 entry == notes.entries[i]
             IN  Read(Append(folder, entry.name), entry.type = "dir").status = "ok"
  <2>1. PICK d : d = Resolve(Front(Decoded(request, UrlDecode)), TRUE)
    OBVIOUS
  <2>2. d \in Seq(STRING) /\ notes = ListFolder(DOMAIN Store, d)
    BY <1>2, <2>1, ListingAsked
  <2>3. notes.entries = ByName(Entries(DOMAIN Store, d))
    <3>1. "entries" \notin DOMAIN NotFound
      BY DEF NotFound
    <3>2. notes # NotFound
      BY <1>2, <3>1
    <3>3. notes = [status |-> "ok", entries |-> ByName(Entries(DOMAIN Store, d))]
      BY <2>2, <3>2 DEF ListFolder
    <3> QED
      BY <3>3
  <2>4. notes.entries[i] \in Entries(DOMAIN Store, d)
    <3>1. ToSet(notes.entries) = Entries(DOMAIN Store, d)
      BY <1>1, <2>2, <2>3, ListedByName
    <3> QED
      BY <1>2, <3>1 DEF ToSet
  <2>5. Read(Append(d, notes.entries[i].name), notes.entries[i].type = "dir").status = "ok"
    BY <1>1, <2>2, <2>4, EntryLeads
  <2> QED
    BY <2>1, <2>5
<1> QED
  BY <1>1, <1>2, WayToNote DEF ListingsLead

(* A listing and the query of its folder show the same notes, one entry for     *)
(* each name, and a folder is missing when and only when nothing is below it     *)
(* (list_folder, path_matches).                                              *)
THEOREM ListingsAreQueries == Spec => []ListingIsQuery
<1>1. AnswersFit => ListingIsQuery
  BY ListingAgrees DEF AnswersFit
<1> QED
  BY <1>1, AnswersAlwaysFit, PTL

(* From the root the listings lead to every note, and no entry leads nowhere,    *)
(* as long as no name holds a percent sign (get_notes, resolve_path decode twice). *)
THEOREM ListingsLeadToNotes == Spec => []ListingsLead
<1> QED
  BY AnswersAlwaysFit, ListingsFollowed, PTL

=============================================================================
