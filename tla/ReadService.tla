---------------------------- MODULE ReadService ----------------------------
(***************************************************************************)
(* Everything that reads notes: GET /notes/..., GET /query for JSON or, with *)
(* Accept: text/markdown, for the merged document (http.rs), and the         *)
(* subcommands `query` and `merge`, which walk the vault themselves          *)
(* (oneshot.rs).                                                            *)
(*                                                                         *)
(* The vault stands still: its files are those the daemon indexed when it    *)
(* started.  A client reads a path of it, or composes a query string         *)
(* parameter by parameter and then asks in any of the four ways.             *)
(***************************************************************************)
EXTENDS Query, HttpNotes, SequencesExt

CONSTANTS
    Vaults,         \* vaults: functions from paths to frontmatters or Malformed
    Parameters,     \* the parameters a client may write
    MaxParameters,  \* bound on the length of a query string
    Requests,       \* requests below /notes/: [segments, ifNoneMatch]
    Malformed       \* a file whose frontmatter does not parse

\* A value is what its text reads as, only that the text of an instant leaves out
\* the fraction of its second; a path is not empty, and a file is no directory.
Coherent(v) ==
    /\ v.type # "missing" /\ v.text \in Text
    /\ v.type = "date" => v.text \in DOMAIN AsDate /\ v.at = AsDate[v.text] /\ v.at \in Int
    /\ v.type = "datetime" =>
          /\ v.text \in DOMAIN AsDatetime /\ AsDatetime[v.text] <= v.at
          /\ AsDatetime[v.text] \in Int /\ v.at \in Int
    /\ v.type = "int" => v.text \in DOMAIN AsInt /\ v.at = AsInt[v.text] /\ v.at \in Int
    /\ v.type = "float" =>
          v.text \in DOMAIN AsFloat /\ v.at = AsFloat[v.text] /\ v.at \in Int \cup {NaN}

ASSUME VaultsAssumption ==
    \A files \in Vaults :
        /\ IsFiniteSet(DOMAIN files)
        /\ DOMAIN files \subseteq (Path \cap Seq(DOMAIN NameRank)) \ {<<>>}
        /\ \A p, r \in DOMAIN files : ~IsStrictPrefix(p, r)
        /\ \A p \in DOMAIN files :
              files[p] # Malformed => \A key \in DOMAIN files[p] : Coherent(files[p][key])

ASSUME ParametersAssumption ==
    /\ MaxParameters \in Nat
    /\ \A p \in Parameters : p.field \in STRING

ASSUME RequestsAssumption == \A r \in Requests : r.segments \in Seq(STRING)

VARIABLES
    vault,
    request, notes,       \* a request below /notes/ and its answer
    raw,                  \* the query string, a sequence of parameters
    json, document,       \* the answers of the daemon ...
    cliJson, cliDocument  \* ... and of the subcommands

answers == <<json, document, cliJson, cliDocument>>
vars == <<vault, request, notes, raw, answers>>

NotAsked == [status |-> "not asked", body |-> <<>>]

-----------------------------------------------------------------------------
Parses(files) == {p \in DOMAIN files : files[p] # Malformed}

\* vault::scan reports a file that does not parse and leaves it out; app.rs
\* logs the report and stores the rest.
Store == [p \in Parses(vault) |-> vault[p]]

Ok(body) == [status |-> "ok", body |-> body]
Fails(why) == [status |-> why, body |-> <<>>]

\* get_query: an error of the parser and one of the guard are both a 400.
HttpJson(q) == IF q.error # "none" THEN Fails("400") ELSE Ok(Execute(Store, q))

Merged(q, failure) ==
    {IF d.guard = "failed" THEN Fails(failure) ELSE Ok(d.fragments) : d \in ExecuteMerge(Store, q)}

HttpDocuments(q) == IF q.error # "none" THEN {Fails("400")} ELSE Merged(q, "400")

\* Deliberate mistake: a file that does not parse is skipped, as the daemon does.
LoadErrorQueryOnly(q) == IF q.error # "none" THEN "query" ELSE "none"

\* load: the query first; then one file that does not parse fails the whole run.
LoadError(q) ==
    IF q.error # "none" THEN "query"
    ELSE IF Parses(vault) # DOMAIN vault THEN "scan" ELSE "none"

-----------------------------------------------------------------------------
Init ==
    /\ vault \in Vaults
    /\ request = <<>> /\ notes = NotAsked
    /\ raw = <<>>
    /\ json = NotAsked /\ document = NotAsked
    /\ cliJson = NotAsked /\ cliDocument = NotAsked

\* The etag of a note is the hash of its bytes: its content.
ReadPath(r) ==
    /\ notes = NotAsked /\ raw = <<>>
    /\ \A i \in DOMAIN answers : answers[i] = NotAsked
    /\ request' = r.segments
    /\ notes' = GetNotes(DOMAIN Store, r.segments, r.ifNoneMatch, Store)
    /\ UNCHANGED <<vault, raw, answers>>

Compose(p) ==
    /\ notes = NotAsked
    /\ \A i \in DOMAIN answers : answers[i] = NotAsked
    /\ Len(raw) < MaxParameters
    /\ raw' = Append(raw, p)
    /\ UNCHANGED <<vault, request, notes, answers>>

GetQuery ==
    /\ notes = NotAsked /\ json = NotAsked
    /\ json' = HttpJson(Parse(raw))
    /\ UNCHANGED <<vault, request, notes, raw, document, cliJson, cliDocument>>

GetMerged ==
    /\ notes = NotAsked /\ document = NotAsked
    /\ document' \in HttpDocuments(Parse(raw))
    /\ UNCHANGED <<vault, request, notes, raw, json, cliJson, cliDocument>>

\* query_json
OneshotQuery ==
    /\ notes = NotAsked /\ cliJson = NotAsked
    /\ LET q == Parse(raw) IN
         cliJson' = IF LoadError(q) # "none" THEN Fails(LoadError(q)) ELSE Ok(Execute(Store, q))
    /\ UNCHANGED <<vault, request, notes, raw, json, document, cliDocument>>

\* merge
OneshotMerge ==
    /\ notes = NotAsked /\ cliDocument = NotAsked
    /\ LET q == Parse(raw) IN
         cliDocument' \in IF LoadError(q) # "none" THEN {Fails(LoadError(q))} ELSE Merged(q, "kind")
    /\ UNCHANGED <<vault, request, notes, raw, json, document, cliJson>>

Next ==
    \/ \E r \in Requests : ReadPath(r)
    \/ \E p \in Parameters : Compose(p)
    \/ GetQuery \/ GetMerged
    \/ OneshotQuery \/ OneshotMerge

Spec == Init /\ [][Next]_vars

=============================================================================
