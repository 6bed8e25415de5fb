-------------------------- MODULE ReadProperties ---------------------------
(***************************************************************************)
(* What readers are promised: how the answers to related queries, to one     *)
(* query asked in four ways, and to reads of paths, hang together.           *)
(***************************************************************************)
EXTENDS ReadService

CONSTANTS
    Fields,         \* the dotted keys the properties ask about
    UrlEncode       \* names to the raw segments a client writes for them

\* Axum reads a name that a client writes.  Decoded once more it stays what it is:
\* no name holds a percent sign followed by two digits.
ASSUME EncodeAssumption ==
    /\ "" \in DOMAIN UrlDecode
    /\ \A n \in DOMAIN NameRank :
          /\ UrlEncode[n] \in DOMAIN UrlDecode /\ UrlDecode[UrlEncode[n]] = <<n>>
          /\ n \in DOMAIN PathDecode /\ PathDecode[n] = <<n>>

Current == Parse(raw)

\* The query composed so far, narrowed by one predicate on a decoded value.
Where(field, op, value) == WithPredicate(Current, field, op, value)

Selected(q) == Matching(Store, q)
WhereSelected(field, op, value) == Selected(Where(field, op, value))

\* What parse returns: a query it refuses keeps what was read before.
Predicate == [field : STRING, op : Operators, value : Text]
Key == STRING \cup {""}  \* the empty one is none
ParsedQueries ==
    [error : {"none", "UnknownOperator", "BadValue", "BadControl"}, predicates : Seq(Predicate),
     recursive : BOOLEAN, path : Seq(STRING), limit : Int, order : Key, desc : BOOLEAN,
     kind : Key]

\* Shape of the state: the vault is one of the instance's, the query string is
\* made of its parameters, a query that parses has only predicates that can be
\* evaluated, and every answer is one a client can tell apart.
TypeOK ==
    /\ vault \in Vaults
    /\ raw \in Seq(Parameters) /\ Len(raw) <= MaxParameters
    /\ Current \in ParsedQueries
    /\ \A p \in ToSet(Current.predicates) : p.op = "regex" => p.value \in Regex
    /\ json.status \in {"not asked", "ok", "400"}
    /\ document.status \in {"not asked", "ok", "400"}
    /\ cliJson.status \in {"not asked", "ok", "query", "scan"}
    /\ cliDocument.status \in {"not asked", "ok", "query", "scan", "kind"}

\* f=v and f__not=v split whatever else the query selects in two: no note is in
\* both answers, and a note without the key is in the second (query.rs, the arms
\* Eq and Not of predicate_match).
NegationComplements ==
    Current.error = "none" =>
        \A f \in Fields, v \in Text :
            WhereSelected(f, "not", v) = Selected(Current) \ WhereSelected(f, "eq", v)

\* f__in=v,w is the union of f=v and f=w, on scalars and on lists alike: the
\* "list-OR" of the User Manual is the equality of each needle (comma_list,
\* matches_eq).
OneOfIsUnion ==
    Current.error = "none" =>
        \A f \in Fields, v \in Text :
            WhereSelected(f, "in", v) =
                UNION {WhereSelected(f, "eq", needle) : needle \in ToSet(CommaList[v])}

\* The four range operators see one comparison: whatever > leaves out of the
\* comparable notes, <= takes, and so for >= and <; and a number, date or text
\* that equals the bound is within both closed ranges, whichever rung of
\* ordered_compare read it.  An instant equals its text in whole seconds and is
\* compared with its fraction: it is never before that text, and within <= of it
\* only without a fraction (matches_scalar_eq).
RangesPartition ==
    Current.error = "none" =>
        \A f \in Fields, v \in Text :
            LET in(op) == WhereSelected(f, op, v) IN
            /\ in("gt") \cap in("lte") = {} /\ in("gte") \cap in("lt") = {}
            /\ in("gt") \cup in("lte") = in("gte") \cup in("lt")
            /\ \A p \in in("eq") :
                  /\ Store[p][f].type \in {"int", "float", "date", "datetime", "string"} =>
                        p \in in("gte")
                  /\ \/ Store[p][f].type \in {"int", "float", "date", "string"}
                     \/ Store[p][f].type = "datetime" /\ Store[p][f].at = AsDatetime[v]
                     => p \in in("lte")

\* Folders partition: what a query selects below a folder is what it selects
\* directly in it and what it selects below each of its subfolders, and no two
\* of these overlap; `Projects` takes nothing from `Projects-old` (path_matches).
Folders == UNION {{SubSeq(p, 1, k) : k \in 0..Len(p) - 1} : p \in DOMAIN vault}
InFolder(d, recursive) == Selected([Current EXCEPT !.path = d, !.recursive = recursive])
FoldersPartition ==
    Current.error = "none" =>
        \A d \in Folders :
            LET subfolders == {e \in Folders : Len(e) = Len(d) + 1 /\ IsPrefix(d, e)} IN
            /\ InFolder(d, TRUE) =
                  InFolder(d, FALSE) \cup UNION {InFolder(e, TRUE) : e \in subfolders}
            /\ \A e \in subfolders :
                  /\ InFolder(e, TRUE) \cap InFolder(d, FALSE) = {}
                  /\ \A g \in subfolders \ {e} : InFolder(e, TRUE) \cap InFolder(g, TRUE) = {}

\* The JSON page is the beginning of the answer without a limit; the total does
\* not depend on the limit, and the answer says it is truncated exactly when
\* something is missing (execute).
PageBeginsTheAnswer ==
    json.status = "ok" =>
        LET all == Execute(Store, [Current EXCEPT !.limit = -1]) IN
        /\ IsPrefix(json.body.results, all.results)
        /\ json.body.total = Len(all.results)
        /\ json.body.truncated = (Len(json.body.results) < json.body.total)

\* __anw-limit keeps the top of the merged document by the order key, and not
\* more or fewer notes than the JSON page of the same query: no selected note
\* that is left out precedes one that is kept, and the kept ones are in order
\* (execute_merge, "the cap keeps the top-N by the order key").
CutKeepsTop ==
    document.status = "ok" =>
        \A p \in Selected(Current) \ ToSet(document.body), i \in DOMAIN document.body :
            ~Before(Store, Current, p, document.body[i])
KeepsTopN ==
    /\ CutKeepsTop
    /\ document.status = "ok" =>
          LET kept == document.body IN
          /\ Len(kept) = Len(Execute(Store, Current).results)
          /\ \A i, j \in DOMAIN kept : i < j => ~Before(Store, Current, kept[j], kept[i])

\* In both directions the notes without the order key follow all the others, so
\* a limit drops them first (order_cmp).
MissingKeyLast ==
    document.status = "ok" /\ Current.order # "" =>
        \A p, r \in Selected(Current) :
            /\ Current.order \in DOMAIN Store[p]
            /\ Current.order \notin DOMAIN Store[r]
            => \A i \in DOMAIN document.body :
                  document.body[i] = r => \E j \in 1..i - 1 : document.body[j] = p

\* The values of the order key that one rung of the ladder compares: dates, or
\* instants, or numbers on one scale, or none of these.
OrderKeys == {OrderKey(Store, Current, p) : p \in Selected(Current)} \ {Missing}
OrderKeysAlike ==
    \/ \E type \in {"date", "datetime"} : \A v \in OrderKeys : v.type = type
    \/ (\A v \in OrderKeys : Numeric(v)) /\ OneScale(OrderKeys)
    \/ \A v \in OrderKeys : ~Numeric(v) /\ v.type \notin {"date", "datetime"}

\* The homogeneity guard judges all selected notes and never the limit: a merge
\* is answered exactly when any two of them carry the kind key with one text.
GuardIgnoresLimit ==
    Current.error = "none" /\ Current.kind # "" /\ document # NotAsked =>
        (document.status = "ok") =
            \A p, r \in Selected(Current) :
                /\ Current.kind \in DOMAIN Store[p] \cap DOMAIN Store[r]
                /\ Store[p][Current.kind].text = Store[r][Current.kind].text

\* README, "Local generation": the subcommands answer what the daemon answers
\* for the same vault and query and refuse what it refuses; only where a file of
\* the vault does not parse they refuse every query (load).
Agree(http, cli) ==
    NotAsked \notin {http, cli} =>
        IF Current.error = "none" /\ Malformed \in Range(vault) THEN cli.status = "scan"
        ELSE IF http.status = "ok" THEN cli = http
        ELSE cli.status \in {"query", "kind"}
OfflineAgrees == Agree(json, cliJson) /\ Agree(document, cliDocument)

\* A folder listing and the query of the folder without recursion show the same
\* notes, one entry for each; a folder entry stands for notes further below; and
\* a folder is missing exactly when the query finds nothing below it, so that
\* list_folder and path_matches have one idea of a folder.
ListingIsQuery ==
    \A d \in Folders \cup DOMAIN vault :
        LET listing == ListFolder(DOMAIN Store, d)
            below(recursive) ==
                Matching(Store, [ParsedQuery EXCEPT !.path = d, !.recursive = recursive]) \ {d}
            entries == IF listing.status = "ok" THEN listing.entries ELSE <<>>
            names(type) == {e.name : e \in {f \in ToSet(entries) : f.type = type}}
        IN  /\ (listing.status = "404") = (d # <<>> /\ below(TRUE) = {})
            /\ names("file") = {Last(p) : p \in below(FALSE)}
            /\ names("dir") = {p[Len(d) + 1] : p \in below(TRUE) \ below(FALSE)}
            /\ \A i, j \in DOMAIN entries :
                  i < j => NameRank[entries[i].name] < NameRank[entries[j].name]

\* A client that starts at /notes/ and follows the entries of the listings comes
\* to every indexed note, and no entry leads nowhere (get_notes, resolve_path,
\* resolve_folder, list_folder).
Read(names, slash) ==
    LET segments == [i \in DOMAIN names |-> UrlEncode[names[i]]]
    IN  GetNotes(DOMAIN Store, IF slash THEN Append(segments, "") ELSE segments, {}, Store)
ListingsLead ==
    /\ \A p \in DOMAIN Store :
          /\ Read(p, FALSE) = Ok(p)
          /\ \A k \in 0..Len(p) - 1 :
                LET listing == Read(SubSeq(p, 1, k), TRUE) IN
                /\ listing.status = "ok"
                /\ Entry(p[k + 1], IF k + 1 = Len(p) THEN "file" ELSE "dir") \in ToSet(listing.entries)
    /\ "entries" \in DOMAIN notes =>
          \A i \in DOMAIN notes.entries :
              LET folder == Resolve(Front(Decoded(request, UrlDecode)), TRUE)
                  entry == notes.entries[i]
              IN  Read(Append(folder, entry.name), entry.type = "dir").status = "ok"

=============================================================================
