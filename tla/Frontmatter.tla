----------------------------- MODULE Frontmatter -----------------------------
(***************************************************************************)
(* vault.rs: from the bytes of a Markdown file to the note the index holds,  *)
(* its frontmatter block split off, parsed and coerced to typed values, and   *)
(* back to the JSON that readers are shown.                                  *)
(*                                                                         *)
(* A text is a sequence of lines.  What the YAML parser makes of a block is   *)
(* a constant; a YAML node is [yaml, at, text, items, entries], a number "int"  *)
(* if it fits i64; a value is Query's, a mapping with its `fields`.           *)
(***************************************************************************)
EXTENDS Query, SequencesExt

CONSTANTS
    File,           \* the .md files a walk reaches, by their path on disk
    NotePath,       \* [File -> Path]: with every backslash turned
    NonUtf8Path,    \* files whose path is not UTF-8
    Folder,         \* directories of the vault
    FilesBelow,     \* [Folder -> SUBSET File]
    Marker,         \* the line "---"
    BlankLine,      \* lines of white space
    Node,           \* the YAML nodes
    Nesting,        \* [Node -> Nat]: more than that of any node inside it
    Yaml(_),        \* lines to [root |-> "mapping", entries], "other" or "broken"
    ShownDate,      \* magnitudes of dates to their ISO text
    ShownInstant,   \* magnitudes of instants to their text, in UTC and whole seconds
    ShownFloat,     \* texts of finite floats to what JSON shows
    Debug,          \* [Node -> Text]: the debug text of its value
    SplitAtDots     \* the keys a query may name, to sequences of names

ASSUME NodeAssumption ==
    /\ Nesting \in [Node -> Nat] /\ Debug \in [Node -> Text]
    /\ \A n \in Node :
          /\ n.yaml \in {"null", "bool", "int", "float", "string", "sequence", "mapping", "tagged"}
          /\ n.text \in Text
          /\ n.yaml = "tagged" => Len(n.items) = 1
          /\ n.items \in Seq(Node)
          /\ \A i \in DOMAIN n.items : Nesting[n.items[i]] < Nesting[n]
          /\ n.entries \in Seq([key : STRING, node : Node])
          /\ \A i \in DOMAIN n.entries : Nesting[n.entries[i].node] < Nesting[n]
    /\ \A key \in DOMAIN SplitAtDots :
          SplitAtDots[key] \in Seq(STRING) /\ SplitAtDots[key] # <<>>

\* JSON writes a float so that it reads back.
ASSUME NumberAssumption ==
    \A n \in Node :
        /\ n.yaml = "int" => n.at \in Int
        /\ n.yaml = "float" => n.at \in Int \cup {NaN}
        /\ n.yaml = "float" /\ n.text \in DOMAIN ShownFloat =>
              ShownFloat[n.text] \in DOMAIN AsFloat /\ AsFloat[ShownFloat[n.text]] = n.at

\* Years have four digits: a later date or instant is not an earlier text.
ASSUME DateAssumption ==
    /\ AsDate \in [DOMAIN AsDate -> DOMAIN ShownDate]
    /\ AsDatetime \in [DOMAIN AsDatetime -> DOMAIN ShownInstant]
    /\ \A shown \in {ShownDate, ShownInstant} :
          /\ DOMAIN shown \subseteq Int /\ shown \in [DOMAIN shown -> Text]
          /\ \A a, b \in DOMAIN shown : a < b => TextRank[shown[a]] <= TextRank[shown[b]]
    /\ \A d \in DOMAIN ShownDate, t \in DOMAIN ShownInstant : ShownDate[d] # ShownInstant[t]

-----------------------------------------------------------------------------
(* split_frontmatter: the block ends at a line that is exactly the marker, and *)
(* one that opens right after the opening line does not end it.               *)

\* Deliberate mistake: a block that is not closed takes the whole text.
SplitUnclosedToEnd(src) ==
    LET closes == {i \in 3..Len(src) : src[i] = Marker} IN
    IF src = <<>> THEN [yaml |-> <<>>, body |-> src]
    ELSE IF src[1] # Marker THEN [yaml |-> <<>>, body |-> src]
    ELSE IF closes = {} THEN [yaml |-> <<>>, body |-> <<>>]
    ELSE [yaml |-> SubSeq(src, 2, Min(closes) - 1),
          body |-> SubSeq(src, Min(closes) + 1, Len(src))]

SplitFrontmatter(src) ==
    LET closes == {i \in 3..Len(src) : src[1] = Marker /\ src[i] = Marker} IN
    IF closes = {} THEN [yaml |-> <<>>, body |-> src]
    ELSE [yaml |-> SubSeq(src, 2, Min(closes) - 1),
          body |-> SubSeq(src, Min(closes) + 1, Len(src))]

-----------------------------------------------------------------------------
(* coerce: YAML nodes to typed values.                                       *)

Value(type, at, text) == [type |-> type, at |-> at, text |-> text, items |-> <<>>]

\* Deliberate mistake: an instant keeps the text and the offset it was written in.
CoerceStringAsWritten(s) ==
    IF s \in DOMAIN AsDate THEN Value("date", AsDate[s], s)
    ELSE IF s \in DOMAIN AsDatetime THEN Value("datetime", AsDatetime[s], s)
    ELSE Value("string", 0, s)

\* Quoted or not: a string that reads as a date or an instant is one.
CoerceString(s) ==
    IF s \in DOMAIN AsDate THEN Value("date", AsDate[s], ShownDate[AsDate[s]])
    ELSE IF s \in DOMAIN AsDatetime
    THEN Value("datetime", AsDatetime[s], ShownInstant[AsDatetime[s]])
    ELSE Value("string", 0, s)

\* Two YAML keys of one text are one key; the last entry wins.
Fields(coerced, entries) ==
    [k \in {entries[i].key : i \in DOMAIN entries} |->
        coerced[entries[Max({i \in DOMAIN entries : entries[i].key = k})].node]]

\* Deliberate mistake: a tag hides the value it stands before.
CoerceKeepsTag(coerced, node) ==
    CASE node.yaml = "string" -> CoerceString(node.text)
      [] OTHER -> [type |-> node.yaml, at |-> node.at, text |-> node.text, items |-> node.items,
                   fields |-> Fields(coerced, node.entries)]

\* coerce, given what it makes of the nodes inside
CoerceNode(coerced, node) ==
    CASE node.yaml \in {"null", "bool", "int", "float"} -> Value(node.yaml, node.at, node.text)
      [] node.yaml = "string" -> CoerceString(node.text)
      [] node.yaml = "sequence" ->
           [type |-> "list", at |-> 0, text |-> Debug[node],
            items |-> [i \in DOMAIN node.items |-> coerced[node.items[i]]]]
      [] node.yaml = "mapping" ->
           [type |-> "map", at |-> 0, text |-> Debug[node], items |-> <<>>,
            fields |-> Fields(coerced, node.entries)]
      [] node.yaml = "tagged" -> coerced[node.items[1]]

Coerce[node \in Node] == CoerceNode(Coerce, node)

\* What a document makes of a note: only a mapping has fields.
Parsed(document) ==
    [issue |-> IF document.root = "broken" THEN "FrontmatterParse" ELSE "none",
     warning |-> IF document.root = "other" THEN "FrontmatterNotMapping" ELSE "none",
     fields |-> Fields(Coerce, IF document.root = "mapping" THEN document.entries ELSE <<>>)]

\* parse_frontmatter_audit: a block of white space is an empty mapping.
ParseFrontmatter(yaml) ==
    Parsed(IF \A i \in DOMAIN yaml : yaml[i] \in BlankLine
           THEN [root |-> "mapping", entries |-> <<>>] ELSE Yaml(yaml))

-----------------------------------------------------------------------------
(* scan_one_audit: a file on disk is [readable, utf8, lines].                 *)

ScanOne(f, file) ==
    LET split == SplitFrontmatter(file.lines)
        parsed == ParseFrontmatter(split.yaml)
        issue == CASE ~file.readable -> "Io"
                   [] file.readable /\ ~file.utf8 -> "NonUtf8Body"
                   [] OTHER -> IF parsed.issue = "none" /\ f \in NonUtf8Path
                               THEN "NonUtf8Path" ELSE parsed.issue
    IN  [file |-> f, issue |-> issue, warning |-> parsed.warning,
         note |-> [path |-> NotePath[f], frontmatter |-> parsed.fields, body |-> split.body]]

\* One file that cannot be loaded costs no other its place.
Audit(scanned) ==
    LET loads == {i \in DOMAIN scanned : scanned[i].issue = "none"}
        loaded == Kept(scanned, loads)
    IN  [notes |-> [i \in DOMAIN loaded |-> loaded[i].note],
         issues |-> {<<scanned[i].file, scanned[i].issue>> : i \in DOMAIN scanned \ loads},
         warnings |-> {<<scanned[i].file, scanned[i].warning>> :
                          i \in {j \in loads : scanned[j].warning # "none"}}]

\* The files that are there, in the order of the walk.
ScanFiles(walk, files) ==
    LET reached == Kept(walk, {i \in DOMAIN walk : walk[i] \in DOMAIN files})
    IN  Audit([i \in DOMAIN reached |-> ScanOne(reached[i], files[reached[i]])])

\* The files that no directory of these hides.
Open(files, closed) ==
    [f \in DOMAIN files \ UNION {FilesBelow[d] : d \in closed} |-> files[f]]

\* scan: a directory that cannot be listed is an issue and hides what is below it.
Scan(walk, files, closed) ==
    LET found == ScanFiles(walk, Open(files, closed))
    IN  [found EXCEPT !.issues = @ \cup {<<d, "Io">> : d \in closed}]

-----------------------------------------------------------------------------
(* What readers of the index see of a note.                                  *)

\* lookup_dotted: every name but the last must lead to a mapping.
LookupDotted(fields, path) ==
    LET current[i \in 1..Len(path)] ==
            IF i = 1 THEN Lookup(fields, path[1])
            ELSE IF current[i - 1].type = "map" THEN Lookup(current[i - 1].fields, path[i])
            ELSE Missing
    IN  current[Len(path)]

\* The keys that lead somewhere, and where.
Resolved(fields) ==
    [key \in {k \in DOMAIN SplitAtDots : LookupDotted(fields, SplitAtDots[k]) # Missing} |->
        LookupDotted(fields, SplitAtDots[key])]

\* NoteStore::replace: of two notes with one path the later replaces the earlier.
Replace(notes) ==
    [p \in {notes[i].path : i \in DOMAIN notes} |->
        notes[Max({i \in DOMAIN notes : notes[i].path = p})]]

\* to_json, for a scalar: JSON has no text for a float that is not finite.
Shown(v) ==
    CASE v.type = "date" -> ShownDate[v.at]
      [] v.type = "datetime" -> ShownInstant[v.at]
      [] v.type = "float" -> IF v.text \in DOMAIN ShownFloat THEN ShownFloat[v.text] ELSE "null"
      [] OTHER -> v.text

=============================================================================
