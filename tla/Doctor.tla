------------------------------- MODULE Doctor -------------------------------
(***************************************************************************)
(* `anwesen doctor`: the report on a vault, and what a clean one promises of  *)
(* the index built from it (doctor.rs, vault.rs, store.rs).                   *)
(*                                                                         *)
(* Authors write the files of a vault; then it stands still, doctor checks it *)
(* and the daemon indexes it.                                               *)
(***************************************************************************)
EXTENDS Frontmatter

CONSTANTS
    Contents,       \* [File -> the contents its author may give it]
    Walks           \* orders in which a walk may come to the files

ASSUME VaultAssumption ==
    /\ FilesBelow \in [Folder -> SUBSET File]
    /\ \A f \in File \ NonUtf8Path : NotePath[f] \in Path
    /\ \A w \in Walks : w \in Seq(File) /\ {w[i] : i \in DOMAIN w} = File
    /\ \A f \in File : \A content \in Contents[f] :
          LET parsed == Yaml(SplitFrontmatter(content.lines).yaml) IN
          /\ content.lines \in Seq(STRING)
          /\ parsed.root \in {"mapping", "other", "broken"}
          /\ parsed.root = "mapping" => parsed.entries \in Seq([key : STRING, node : Node])

VARIABLES
    files,          \* files on disk to their contents
    closed,         \* the directories that cannot be listed
    walk,           \* the order of the directory entries
    report,         \* what doctor printed
    store           \* the daemon's NoteStore

vars == <<files, closed, walk, report, store>>

DriftSamplesPerShape == 3

\* Deliberate mistake: numbers and strings are one shape.
ShapeOfScalars(v) ==
    CASE v.type \in {"int", "float", "string"} -> "string"
      [] v.type \in {"date", "datetime"} -> "date"
      [] v.type = "map" -> "mapping"
      [] OTHER -> v.type

ShapeOf(v) ==
    CASE v.type \in {"int", "float"} -> "number"
      [] v.type \in {"date", "datetime"} -> "date"
      [] v.type = "map" -> "mapping"
      [] OTHER -> v.type

\* Deliberate mistake: of the colliding notes only the first is looked at.
DetectPathCollisionsAdjacent(notes) ==
    {notes[i].path : i \in {j \in DOMAIN notes : j > 1 /\ notes[j].path = notes[j - 1].path}}

DetectPathCollisions(notes) ==
    {notes[i].path : i \in {j \in DOMAIN notes :
                               \E k \in DOMAIN notes : k # j /\ notes[k].path = notes[j].path}}

\* The notes that carry the key, and those with this shape, in the order of the scan.
Carrying(notes, key) == {i \in DOMAIN notes : key \in DOMAIN notes[i].frontmatter}

OfShape(notes, key, shape) ==
    Kept(notes, {i \in Carrying(notes, key) : ShapeOf(notes[i].frontmatter[key]) = shape})

Shapes(notes, key) == {ShapeOf(notes[i].frontmatter[key]) : i \in Carrying(notes, key)}

\* Deliberate mistake: the notes beyond the samples are not counted.
DriftShapeCapped(notes, key, shape) ==
    LET of == OfShape(notes, key, shape)
        first == SubSeq(of, 1, IF Len(of) < DriftSamplesPerShape THEN Len(of) ELSE DriftSamplesPerShape)
    IN  [count |-> Len(first), samples |-> [i \in DOMAIN first |-> first[i].path]]

DriftShape(notes, key, shape) ==
    LET of == OfShape(notes, key, shape)
        first == SubSeq(of, 1, IF Len(of) < DriftSamplesPerShape THEN Len(of) ELSE DriftSamplesPerShape)
    IN  [count |-> Len(of), samples |-> [i \in DOMAIN first |-> first[i].path]]

\* Top-level keys only.
DetectTypeDrift(notes) ==
    LET keys == UNION {DOMAIN notes[i].frontmatter : i \in DOMAIN notes}
    IN  [key \in {k \in keys : Cardinality(Shapes(notes, k)) > 1} |->
            [shape \in Shapes(notes, key) |-> DriftShape(notes, key, shape)]]

\* doctor::run
Run(scan) ==
    [noteCount |-> Len(scan.notes), issues |-> scan.issues, warnings |-> scan.warnings,
     pathCollisions |-> DetectPathCollisions(scan.notes),
     typeDrifts |-> DetectTypeDrift(scan.notes)]

IsClean(r) ==
    /\ r.issues = {} /\ r.warnings = {}
    /\ r.pathCollisions = {} /\ DOMAIN r.typeDrifts = {}

\* The report and the exit code of the subcommand.
Printed(r) == [exit |-> IF IsClean(r) THEN 0 ELSE 1, found |-> r]

NotRun == [exit |-> -1]

-----------------------------------------------------------------------------
Nothing == [f \in {} |-> {}]

Init ==
    /\ files = Nothing
    /\ closed \in SUBSET Folder /\ walk \in Walks
    /\ report = NotRun /\ store = Nothing

Write(f, content) ==
    /\ report = NotRun /\ store = Nothing
    /\ f \notin DOMAIN files
    /\ files' = [g \in DOMAIN files \cup {f} |-> IF g = f THEN content ELSE files[g]]
    /\ UNCHANGED <<closed, walk, report, store>>

\* run_and_render
RunDoctor ==
    /\ report = NotRun
    /\ report' = Printed(Run(Scan(walk, files, closed)))
    /\ UNCHANGED <<files, closed, walk, store>>

\* run_walk of the daemon, or load of a one-shot
Index ==
    /\ report # NotRun /\ store = Nothing /\ DOMAIN files # {}
    /\ store' = Replace(Scan(walk, files, closed).notes)
    /\ UNCHANGED <<files, closed, walk, report>>

Next ==
    \/ \E f \in File : \E content \in Contents[f] : Write(f, content)
    \/ RunDoctor
    \/ Index

Spec == Init /\ [][Next]_vars

-----------------------------------------------------------------------------
(* Properties. *)

(* Shape of the state: a note in the store sits at its own path, and its values *)
(* are of the nine types the query engine knows.                              *)
TypeOK ==
    /\ DOMAIN files \subseteq File /\ closed \subseteq Folder
    /\ report.exit \in {-1, 0, 1}
    /\ DOMAIN store \subseteq {NotePath[f] : f \in DOMAIN files}
    /\ \A p \in DOMAIN store :
          /\ store[p].path = p
          /\ \A key \in DOMAIN Resolved(store[p].frontmatter) :
                Resolved(store[p].frontmatter)[key].type \in
                    {"null", "bool", "int", "float", "string", "date", "datetime", "list", "map"}

\* A vault doctor passes is served whole and as written: a note for every file,
\* with the frontmatter and the body of that very file, and nothing else.  Two
\* files whose paths are one path over HTTP would leave one out without any log,
\* a directory that cannot be listed all that is below it (Report::is_clean, scan,
\* scan_one_audit, NoteStore::replace).
CleanVaultIsServed ==
    report.exit = 0 /\ store # Nothing =>
        /\ DOMAIN store = {NotePath[f] : f \in DOMAIN files}
        /\ \A f \in DOMAIN files : store[NotePath[f]] = ScanOne(f, files[f]).note

\* A key doctor does not report sorts: over notes that carry it with one shape
\* the comparator of the merge is transitive in both directions, so that
\* __anw-order has one result.  The rungs of compare_values mix types only
\* within a shape (detect_type_drift, shape_of, query.rs compare_values).  Doctor
\* does not see a NaN, nor a float beside an integer beyond 2^53, which equals
\* the float of its nearest neighbours (try_as_float): such keys are left out.
Served == [p \in DOMAIN store |-> Resolved(store[p].frontmatter)]
Keys == {key \in DOMAIN SplitAtDots :
            SplitAtDots[key] = <<key>> /\ \E p \in DOMAIN store : key \in DOMAIN store[p].frontmatter}
Sorts(notes, key) ==
    \A desc \in BOOLEAN :
        LET q == [ParsedQuery EXCEPT !.order = key, !.desc = desc] IN
        \A p, r, s \in DOMAIN notes :
            Before(notes, q, p, r) /\ Before(notes, q, r, s) => Before(notes, q, p, s)
CleanKeysSort ==
    store # Nothing =>
        LET notes == Served IN
        \A key \in Keys \ DOMAIN report.found.typeDrifts :
            OneScale({notes[p][key] : p \in {r \in DOMAIN notes : key \in DOMAIN notes[r]}})
                => Sorts(notes, key)

\* What the JSON of a note shows of a scalar can be asked for: the equality finds
\* the note again.  Floats are compared by another text than the one shown (1.0
\* prints as 1): they answer to the closed ranges instead; and JSON has no text but
\* null for a float that is not finite (Value::to_json, coerce_string, query.rs
\* canonical_string and ordered_compare).
Finds(notes, p, key, op, text) ==
    p \in Matching(notes, WithPredicate(ParsedQuery, key, op, text))
ShownIsFindable ==
    LET notes == Served IN
    \A p \in DOMAIN notes : \A key \in DOMAIN notes[p] :
        LET v == notes[p][key] IN
        CASE v.type \in {"list", "map"} -> TRUE
          [] v.type = "float" /\ v.text \in DOMAIN ShownFloat ->
               Finds(notes, p, key, "gte", Shown(v)) /\ Finds(notes, p, key, "lte", Shown(v))
          [] v.type = "float" /\ v.text \notin DOMAIN ShownFloat -> TRUE
          [] OTHER -> Finds(notes, p, key, "eq", Shown(v))

\* Where the block of a note ends: at the first closing line, so that the body
\* keeps its own rules, and a block that is not closed is body.  An empty block is
\* the exception: a marker on the second line closes nothing (the search is for a
\* newline before it, which is spent), so the block goes on to a later marker and
\* takes the text between with it (split_frontmatter; see README).
NothingLost ==
    \A f \in DOMAIN files :
        LET lines == files[f].lines
            body == ScanOne(f, files[f]).note.body
            head == SubSeq(lines, 1, Len(lines) - Len(body))
        IN  /\ IsSuffix(body, lines)
            /\ head = <<>> => \A i \in 3..Len(lines) : lines[1] = Marker => lines[i] # Marker
            /\ head # <<>> =>
                  /\ Len(head) > 2 /\ head[1] = Marker /\ Last(head) = Marker
                  /\ \A i \in 2..Len(head) - 1 : head[i] = Marker => i = 2

\* The report on a drifting key accounts for every note that carries it, and
\* shows notes of each shape to start from (detect_type_drift).
DriftAccountsForNotes ==
    report # NotRun =>
        LET notes == Scan(walk, files, closed).notes
            drifts == report.found.typeDrifts
        IN  \A key \in DOMAIN drifts :
              /\ {drifts[key][s].samples[1] : s \in DOMAIN drifts[key]} \subseteq
                    {notes[i].path : i \in DOMAIN notes}
              /\ MapThenSumSet(LAMBDA s : drifts[key][s].count, DOMAIN drifts[key]) =
                    Cardinality({i \in DOMAIN notes : key \in DOMAIN notes[i].frontmatter})

=============================================================================
