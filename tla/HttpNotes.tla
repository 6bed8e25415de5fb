------------------------------ MODULE HttpNotes ------------------------------
(***************************************************************************)
(* GET /notes/...: one note, or the listing of a folder (http.rs).           *)
(*                                                                         *)
(* A request is the sequence of the raw segments after /notes/; a trailing   *)
(* slash is a last segment that is empty.  Decoding a segment gives names,   *)
(* more than one if it hides a slash.                                       *)
(***************************************************************************)
EXTENDS Ordering, SequencesExt

CONSTANTS
    UrlDecode,      \* axum's decoding: raw segments to sequences of names
    PathDecode,     \* http.rs's decoding of what is left, name by name
    NameRank,       \* [name -> Nat]: byte order
    AnyTag          \* the star of If-None-Match

\* A segment is at least one name, and nothing is encoded in an empty one.
ASSUME DecodeAssumption ==
    \A decode \in {UrlDecode, PathDecode} : \A segment \in DOMAIN decode :
        /\ decode[segment] \in Seq(STRING) \ {<<>>}
        /\ segment = "" => decode[segment] = <<"">>

\* What no file is named.
NoName == {"", ".", "..", "/"}

ASSUME NameAssumption ==
    /\ NameRank \in [DOMAIN NameRank -> Nat]
    /\ DOMAIN NameRank \subseteq STRING \ NoName
    /\ \A n, m \in DOMAIN NameRank : NameRank[n] = NameRank[m] => n = m

\* No name holds a slash.
Invalid == <<"/">>

Decoded(segments, decode) ==
    IF ToSet(segments) \subseteq DOMAIN decode
    THEN FlattenSeq([i \in DOMAIN segments |-> decode[segments[i]]])
    ELSE Invalid

\* trim_start_matches('/')
Trimmed(names) ==
    LET leading == {k \in 0..Len(names) : \A i \in 1..k : names[i] = ""}
    IN  SubSeq(names, Cardinality(leading), Len(names))

\* resolve_path and resolve_folder: only a folder may be the root.
Resolve(names, isFolder) ==
    LET path == Trimmed(Decoded(names, PathDecode)) IN
    IF \/ Decoded(names, PathDecode) = Invalid
       \/ path = <<>> /\ ~isFolder
       \/ ToSet(path) \cap {"", ".", ".."} # {}
    THEN Invalid ELSE path

NotFound == [status |-> "404", body |-> <<>>]
BadRequest == [status |-> "400", body |-> <<>>]

Entry(name, kind) == [name |-> name, type |-> kind]

Entries(paths, folder) ==
    {Entry(p[Len(folder) + 1], IF Len(p) = Len(folder) + 1 THEN "file" ELSE "dir") :
        p \in {q \in paths : IsStrictPrefix(folder, q)}}

\* No two entries have one name: a file is no directory.
ByName(entries) == Ascending(entries, [e \in entries |-> NameRank[e.name]])

\* Deliberate mistake: only notes directly in the folder make it exist.
ListFolderOfFiles(paths, folder) ==
    LET entries == {e \in Entries(paths, folder) : e.type = "file"} IN
    IF entries = {} /\ folder # <<>> THEN NotFound
    ELSE [status |-> "ok", entries |-> ByName(entries)]

\* A folder exists if a note is below it; the root always does.
ListFolder(paths, folder) ==
    LET entries == Entries(paths, folder) IN
    IF entries = {} /\ folder # <<>> THEN NotFound
    ELSE [status |-> "ok", entries |-> ByName(entries)]

\* etag_matches: a list of entity-tags, weak or strong, or the star.
EtagMatches(ifNoneMatch, etag) == {AnyTag, etag} \cap ifNoneMatch # {}

\* respond_note
RespondNote(path, ifNoneMatch, etag) ==
    IF EtagMatches(ifNoneMatch, etag) THEN [status |-> "304", body |-> <<>>]
    ELSE [status |-> "ok", body |-> path]

\* Deliberate mistake: the slash that asks for a folder is kept.
GetNotesSlashKept(paths, segments, ifNoneMatch, etag) ==
    LET names == Decoded(segments, UrlDecode)
        isFolder == names # <<>> /\ Last(names) = ""
        path == Resolve(names, isFolder)
    IN  IF Invalid \in {names, path} THEN BadRequest
        ELSE IF isFolder THEN ListFolder(paths, path)
        ELSE IF path \notin paths THEN NotFound
        ELSE RespondNote(path, ifNoneMatch, etag[path])

\* get_notes and list_root_folder: the slash is looked for after axum has
\* decoded the path and before it is decoded again.
GetNotes(paths, segments, ifNoneMatch, etag) ==
    LET names == Decoded(segments, UrlDecode)
        isFolder == names # <<>> /\ Last(names) = ""
        path == Resolve(IF isFolder THEN Front(names) ELSE names, isFolder)
    IN  IF Invalid \in {names, path} THEN BadRequest
        ELSE IF isFolder THEN ListFolder(paths, path)
        ELSE IF path \notin paths THEN NotFound
        ELSE RespondNote(path, ifNoneMatch, etag[path])

=============================================================================
