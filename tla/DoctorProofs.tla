---------------------------- MODULE DoctorProofs ----------------------------
(***************************************************************************)
(* What a report of doctor promises of the index, and what the frontmatter   *)
(* makes of a file, for every vault and every order of the walk.             *)
(***************************************************************************)
EXTENDS Doctor, SequenceFacts, FiniteSetTheorems, SequenceTheorems, TLAPS

-----------------------------------------------------------------------------
(* The block and the body of a file.                                         *)

Whole(src, body) ==
    LET head == SubSeq(src, 1, Len(src) - Len(body)) IN
    /\ IsSuffix(body, src)
    /\ head = <<>> => \A i \in 3..Len(src) : src[1] = Marker => src[i] # Marker
    /\ head # <<>> =>
          /\ Len(head) > 2 /\ head[1] = Marker /\ Last(head) = Marker
          /\ \A i \in 2..Len(head) - 1 : head[i] = Marker => i = 2

LEMMA BodyIsTheRest ==
    ASSUME NEW src \in Seq(STRING)
    PROVE  Whole(src, SplitFrontmatter(src).body)
<1> DEFINE n == Len(src)
           closes == {i \in 3..n : src[1] = Marker /\ src[i] = Marker}
           body == SplitFrontmatter(src).body
<1>1. n \in Nat /\ SubSeq(src, 1, n) = src
  BY LenProperties, SubSeqFull
<1>2. CASE closes = {}
  <2>1. body = src
    BY <1>2 DEF SplitFrontmatter
  <2>2. SubSeq(src, 0 + 1, n) = src
    BY <1>1
  <2>3. IsSuffix(src, src)
    BY <1>1, <2>2, SuffixOf, 0 \in 0..n
  <2>4. SubSeq(src, 1, n - n) = <<>>
    BY <1>1, SubSeqEmpty
  <2>5. \A i \in 3..n : src[1] = Marker => src[i] # Marker
    BY <1>2
  <2> QED
    BY <2>1, <2>3, <2>4, <2>5 DEF Whole
<1>3. CASE closes # {}
  <2> DEFINE m == Min(closes)
  <2>1. m \in closes /\ \A i \in closes : m <= i
    BY <1>1, <1>3, FirstAndLast, closes \subseteq 1..n
  <2>2. body = SubSeq(src, m + 1, n)
    BY <1>3 DEF SplitFrontmatter
  <2>3. m \in 3..n /\ src[1] = Marker /\ src[m] = Marker
    BY <2>1
  <2>4. \A i \in 3..m - 1 : src[i] # Marker
    <3> SUFFICES ASSUME NEW i \in 3..m - 1, src[i] = Marker PROVE FALSE
      OBVIOUS
    <3>1. i \in closes
      BY <1>1, <2>3
    <3>2. m <= i
      BY <2>1, <3>1
    <3> QED
      BY <1>1, <2>3, <3>2
  <2> HIDE DEF m, body
  <2>5. m \in 0..n
    BY <1>1, <2>3
  <2>6. IsSuffix(body, src) /\ Len(body) = n - m
    BY <2>2, <2>5, SuffixOf
  <2> DEFINE head == SubSeq(src, 1, m)
  <2>7. head \in Seq(STRING) /\ Len(head) = m /\ \A i \in 1..m : head[i] = src[i]
    BY <2>5, FirstOfSeq
  <2> HIDE DEF head
  <2>8. Last(head) = head[m]
    BY <2>7 DEF Last
  <2>9. /\ 1 \in 1..m /\ m \in 1..m /\ m > 2
        /\ \A i \in 2..m - 1 : i \in 1..m /\ (i # 2 => i \in 3..m - 1)
    BY <1>1, <2>3
  <2>10. SubSeq(src, 1, Len(src) - Len(body)) = head
    <3>1. Len(src) - Len(body) = m
      BY <1>1, <2>3, <2>6
    <3> QED
      BY <3>1 DEF head
  <2>11. /\ Len(head) > 2 /\ head[1] = Marker /\ Last(head) = Marker
         /\ \A i \in 2..Len(head) - 1 : head[i] = Marker => i = 2
    BY <2>3, <2>4, <2>7, <2>8, <2>9
  <2>12. head # <<>>
    BY <2>11
  <2> QED
    BY <2>6, <2>10, <2>11, <2>12 DEF Whole, body
<1> QED
  BY <1>2, <1>3

-----------------------------------------------------------------------------
(* The notes of a scan are those of the files that load, and no others.       *)

Loads(f, fs) == ScanOne(f, fs[f]).issue = "none"

LEMMA KeptMembers ==
    ASSUME NEW S, NEW s \in Seq(S), NEW T \in SUBSET DOMAIN s
    PROVE  /\ Kept(s, T) \in Seq(S)
           /\ DOMAIN Kept(s, T) = 1..Len(Kept(s, T)) /\ Len(Kept(s, T)) \in Nat
           /\ \A k \in DOMAIN Kept(s, T) : \E i \in T : Kept(s, T)[k] = s[i]
           /\ \A i \in T : \E k \in DOMAIN Kept(s, T) : Kept(s, T)[k] = s[i]
<1> DEFINE n == Cardinality(T)
<1>1. /\ n \in Nat /\ Kept(s, T) \in Seq(S) /\ Len(Kept(s, T)) = n
      /\ \E at \in [1..n -> T] :
            /\ \A i \in T : \E k \in 1..n : at[k] = i
            /\ \A k \in 1..n : Kept(s, T)[k] = s[at[k]]
  BY KeptSeq
<1>2. DOMAIN Kept(s, T) = 1..n
  BY <1>1, LenProperties
<1> DEFINE kept == Kept(s, T)
<1> HIDE DEF n, kept
<1>3. PICK at \in [1..n -> T] :
         /\ \A i \in T : \E k \in 1..n : at[k] = i
         /\ \A k \in 1..n : kept[k] = s[at[k]]
  BY <1>1 DEF kept
<1>4. /\ \A k \in 1..n : \E i \in T : kept[k] = s[i]
      /\ \A i \in T : \E k \in 1..n : kept[k] = s[i]
  BY <1>3
<1>5. kept \in Seq(S) /\ DOMAIN kept = 1..n /\ Len(kept) = n /\ n \in Nat
  BY <1>1, <1>2 DEF kept
<1>6. /\ kept \in Seq(S) /\ DOMAIN kept = 1..Len(kept) /\ Len(kept) \in Nat
      /\ \A k \in DOMAIN kept : \E i \in T : kept[k] = s[i]
      /\ \A i \in T : \E k \in DOMAIN kept : kept[k] = s[i]
  BY <1>4, <1>5
<1> QED
  BY <1>6 DEF kept

LEMMA ScanIs ==
    ASSUME NEW w \in Seq(File), NEW fs
    PROVE  /\ ScanFiles(w, fs).notes \in Seq({ScanOne(f, fs[f]).note : f \in DOMAIN fs})
           /\ \A i \in DOMAIN ScanFiles(w, fs).notes : \E f \in DOMAIN fs :
                 Loads(f, fs) /\ ScanFiles(w, fs).notes[i] = ScanOne(f, fs[f]).note
           /\ \A j \in DOMAIN w : w[j] \in DOMAIN fs /\ Loads(w[j], fs) =>
                 \E i \in DOMAIN ScanFiles(w, fs).notes :
                    ScanFiles(w, fs).notes[i] = ScanOne(w[j], fs[w[j]]).note
           /\ ScanFiles(w, fs).issues = {} => \A j \in DOMAIN w : w[j] \in DOMAIN fs => Loads(w[j], fs)
<1> DEFINE T == {j \in DOMAIN w : w[j] \in DOMAIN fs}
           reached == Kept(w, T)
           scanned == [i \in DOMAIN reached |-> ScanOne(reached[i], fs[reached[i]])]
           A == {scanned[i] : i \in DOMAIN reached}
           loads == {i \in DOMAIN scanned : scanned[i].issue = "none"}
           loaded == Kept(scanned, loads)
           scan == ScanFiles(w, fs)
<1>1. /\ DOMAIN reached = 1..Len(reached) /\ Len(reached) \in Nat
      /\ \A k \in DOMAIN reached : reached[k] \in DOMAIN fs /\ \E j \in DOMAIN w : reached[k] = w[j]
      /\ \A j \in DOMAIN w : w[j] \in DOMAIN fs => \E k \in DOMAIN reached : reached[k] = w[j]
  <2>1. T \in SUBSET DOMAIN w
    OBVIOUS
  <2>2. /\ DOMAIN reached = 1..Len(reached) /\ Len(reached) \in Nat
        /\ \A k \in DOMAIN reached : \E i \in T : reached[k] = w[i]
        /\ \A i \in T : \E k \in DOMAIN reached : reached[k] = w[i]
    BY <2>1, KeptMembers
  <2> HIDE DEF reached
  <2> QED
    BY <2>2
<1>2. /\ scan.notes = [i \in DOMAIN loaded |-> loaded[i].note]
      /\ scan.issues = {<<scanned[i].file, scanned[i].issue>> : i \in DOMAIN scanned \ loads}
  BY DEF ScanFiles, Audit
<1> HIDE DEF reached, scan
<1>3. DOMAIN scanned = DOMAIN reached
  OBVIOUS
<1>4. \A k \in DOMAIN reached :
         scanned[k] = ScanOne(reached[k], fs[reached[k]]) /\ scanned[k] \in A
  OBVIOUS
<1>5. scanned \in Seq(A)
  <2> HIDE DEF A
  <2>1. scanned \in [1..Len(reached) -> A]
    BY <1>1, <1>3, <1>4
  <2> HIDE DEF scanned
  <2> QED
    BY <1>1, <2>1, FunctionIsSeq
<1> HIDE DEF scanned, A
<1>6. /\ DOMAIN loaded = 1..Len(loaded) /\ Len(loaded) \in Nat
      /\ \A k \in DOMAIN loaded : \E i \in loads : loaded[k] = scanned[i]
      /\ \A i \in loads : \E k \in DOMAIN loaded : loaded[k] = scanned[i]
  <2>1. loads \in SUBSET DOMAIN scanned
    OBVIOUS
  <2> QED
    BY <1>5, <2>1, KeptMembers
<1> HIDE DEF loaded
<1>7. DOMAIN scan.notes = DOMAIN loaded /\ \A k \in DOMAIN loaded : scan.notes[k] = loaded[k].note
  BY <1>2
<1>8. ASSUME NEW k \in DOMAIN scan.notes
      PROVE  \E f \in DOMAIN fs : Loads(f, fs) /\ scan.notes[k] = ScanOne(f, fs[f]).note
  <2>1. PICK i \in loads : loaded[k] = scanned[i]
    BY <1>6, <1>7
  <2>2. /\ i \in DOMAIN reached /\ reached[i] \in DOMAIN fs
        /\ scanned[i] = ScanOne(reached[i], fs[reached[i]]) /\ scanned[i].issue = "none"
    BY <1>1, <1>3, <1>4
  <2> QED
    BY <1>7, <2>1, <2>2 DEF Loads
<1>9. ASSUME NEW j \in DOMAIN w, w[j] \in DOMAIN fs, Loads(w[j], fs)
      PROVE  \E k \in DOMAIN scan.notes : scan.notes[k] = ScanOne(w[j], fs[w[j]]).note
  <2>1. PICK i \in DOMAIN reached : reached[i] = w[j]
    BY <1>1, <1>9
  <2>2. i \in loads
    BY <1>3, <1>4, <1>9, <2>1 DEF Loads
  <2>3. PICK k \in DOMAIN loaded : loaded[k] = scanned[i]
    BY <1>6, <2>2
  <2> QED
    BY <1>4, <1>7, <2>1, <2>3
<1>10. ASSUME scan.issues = {}, NEW j \in DOMAIN w, w[j] \in DOMAIN fs
       PROVE  Loads(w[j], fs)
  <2>1. PICK i \in DOMAIN reached : reached[i] = w[j]
    BY <1>1, <1>10
  <2>2. i \in DOMAIN scanned \ loads => <<scanned[i].file, scanned[i].issue>> \in scan.issues
    BY <1>2
  <2>3. i \in loads
    BY <1>3, <1>10, <2>1, <2>2
  <2> QED
    BY <1>4, <2>1, <2>3 DEF Loads
<1>11. scan.notes \in Seq({ScanOne(f, fs[f]).note : f \in DOMAIN fs})
  <2> DEFINE B == {ScanOne(f, fs[f]).note : f \in DOMAIN fs}
  <2>1. \A k \in DOMAIN scan.notes : scan.notes[k] \in B
    BY <1>8
  <2> HIDE DEF B
  <2>2. scan.notes \in [1..Len(loaded) -> B]
    BY <1>2, <1>6, <1>7, <2>1
  <2> QED
    BY <1>6, <2>2, FunctionIsSeq DEF B
<1> QED
  BY <1>8, <1>9, <1>10, <1>11 DEF scan

-----------------------------------------------------------------------------
(* The vault stands still once doctor has reported on it.                    *)

Reported(w, fs, dirs) == Printed(Run(Scan(w, fs, dirs)))

DoctorInv ==
    /\ DOMAIN files \subseteq File /\ \A f \in DOMAIN files : files[f] \in Contents[f]
    /\ closed \subseteq Folder /\ walk \in Walks
    /\ report \in {NotRun, Reported(walk, files, closed)}
    /\ store \in {Nothing, Replace(Scan(walk, files, closed).notes)}
    /\ store # Nothing => report # NotRun

(* The report and the index are of the vault as it stands.                   *)
LEMMA VaultStandsStill == Spec => []DoctorInv
<1>1. Init => DoctorInv
  <2>1. DOMAIN Nothing = {}
    BY DEF Nothing
  <2> QED
    BY <2>1 DEF Init, DoctorInv
<1>2. DoctorInv /\ [Next]_vars => DoctorInv'
  <2> SUFFICES ASSUME DoctorInv, [Next]_vars PROVE DoctorInv'
    OBVIOUS
  <2> USE DEF DoctorInv
  <2>1. ASSUME NEW f \in File, NEW content \in Contents[f], Write(f, content) PROVE DoctorInv'
    <3>1. /\ DOMAIN files' = DOMAIN files \cup {f}
          /\ \A g \in DOMAIN files' : files'[g] = IF g = f THEN content ELSE files[g]
      BY <2>1 DEF Write
    <3>2. DOMAIN files' \subseteq File /\ \A g \in DOMAIN files' : files'[g] \in Contents[g]
      BY <2>1, <3>1
    <3> QED
      BY <2>1, <3>2 DEF Write
  <2>2. CASE RunDoctor
    BY <2>2 DEF RunDoctor, Reported
  <2>3. CASE Index
    BY <2>3 DEF Index
  <2>4. CASE UNCHANGED vars
    BY <2>4 DEF vars
  <2> QED
    BY <2>1, <2>2, <2>3, <2>4 DEF Next
<1> QED
  BY <1>1, <1>2, PTL DEF Spec

(* Files are sequences of lines, and the walk comes to every one.            *)
LEMMA VaultFacts ==
    ASSUME DoctorInv
    PROVE  /\ walk \in Seq(File) /\ \A f \in DOMAIN files : \E j \in DOMAIN walk : walk[j] = f
           /\ \A f \in DOMAIN files : f \in File /\ files[f].lines \in Seq(STRING)
BY VaultAssumption DEF DoctorInv

\* The files the walk comes to.
Seen == Open(files, closed)

LEMMA SeenIs ==
    /\ DOMAIN Seen \subseteq DOMAIN files /\ \A f \in DOMAIN Seen : Seen[f] = files[f]
    /\ closed = {} => DOMAIN Seen = DOMAIN files
    /\ Scan(walk, files, closed).notes = ScanFiles(walk, Seen).notes
    /\ Scan(walk, files, closed).issues = {} =>
          closed = {} /\ ScanFiles(walk, Seen).issues = {}
<1>1. /\ DOMAIN Seen = DOMAIN files \ UNION {FilesBelow[d] : d \in closed}
      /\ \A f \in DOMAIN Seen : Seen[f] = files[f]
  BY DEF Seen, Open
<1>2. /\ Scan(walk, files, closed).notes = ScanFiles(walk, Seen).notes
      /\ Scan(walk, files, closed).issues =
            ScanFiles(walk, Seen).issues \cup {<<d, "Io">> : d \in closed}
  BY DEF Scan, ScanFiles, Audit, Seen
<1>3. Scan(walk, files, closed).issues = {} => closed = {}
  <2> SUFFICES ASSUME Scan(walk, files, closed).issues = {}, NEW d \in closed PROVE FALSE
    OBVIOUS
  <2>1. <<d, "Io">> \in Scan(walk, files, closed).issues
    BY <1>2
  <2> QED
    BY <2>1
<1>4. closed = {} => DOMAIN Seen = DOMAIN files
  BY <1>1
<1> QED
  BY <1>1, <1>2, <1>3, <1>4

(* Where the block of every file ends, and so what its body is: the block is the *)
(* lines up to the first closing one, only that an empty block does not end at  *)
(* its own closing line, the second of the file (split_frontmatter).           *)
THEOREM NoTextIsLost == Spec => []NothingLost
<1>1. DoctorInv => NothingLost
  <2> SUFFICES ASSUME DoctorInv, NEW f \in DOMAIN files
               PROVE  Whole(files[f].lines, ScanOne(f, files[f]).note.body)
    BY DEF NothingLost, Whole
  <2>1. files[f].lines \in Seq(STRING)
    BY VaultFacts
  <2>2. ScanOne(f, files[f]).note.body = SplitFrontmatter(files[f].lines).body
    BY DEF ScanOne
  <2> QED
    BY <2>1, <2>2, BodyIsTheRest
<1> QED
  BY <1>1, VaultStandsStill, PTL

-----------------------------------------------------------------------------
(* The index of a scan.                                                      *)

NoteOf(f, fs) == ScanOne(f, fs[f]).note

(* A note sits at its own path and is of a file that loads.                  *)
LEMMA ReplaceIs ==
    ASSUME NEW w \in Seq(File), NEW fs
    PROVE  \A p \in DOMAIN Replace(ScanFiles(w, fs).notes) :
              /\ Replace(ScanFiles(w, fs).notes)[p].path = p
              /\ \E f \in DOMAIN fs :
                    /\ Loads(f, fs) /\ p = NotePath[f]
                    /\ Replace(ScanFiles(w, fs).notes)[p] = NoteOf(f, fs)
<1> DEFINE notes == ScanFiles(w, fs).notes
           served == Replace(notes)
           At(p) == {i \in DOMAIN notes : notes[i].path = p}
<1>1. /\ notes \in Seq({ScanOne(f, fs[f]).note : f \in DOMAIN fs})
      /\ \A i \in DOMAIN notes : \E f \in DOMAIN fs :
            Loads(f, fs) /\ notes[i] = NoteOf(f, fs)
  BY ScanIs DEF NoteOf
<1>2. DOMAIN notes = 1..Len(notes) /\ Len(notes) \in Nat
  BY <1>1, LenProperties
<1>3. /\ DOMAIN served = {notes[i].path : i \in DOMAIN notes}
      /\ \A p \in DOMAIN served : served[p] = notes[Max(At(p))]
  BY DEF Replace
<1>4. \A f \in DOMAIN fs : NoteOf(f, fs).path = NotePath[f]
  BY DEF NoteOf, ScanOne
<1> SUFFICES ASSUME NEW p \in DOMAIN served
             PROVE  /\ served[p].path = p
                    /\ \E f \in DOMAIN fs :
                          Loads(f, fs) /\ p = NotePath[f] /\ served[p] = NoteOf(f, fs)
  OBVIOUS
<1> HIDE DEF notes, served
<1>5. Max(At(p)) \in At(p)
  <2>1. At(p) \subseteq 1..Len(notes) /\ At(p) # {}
    BY <1>2, <1>3
  <2> HIDE DEF At
  <2> QED
    BY <1>2, <2>1, FirstAndLast
<1>6. PICK i \in DOMAIN notes : served[p] = notes[i] /\ notes[i].path = p
  BY <1>3, <1>5
<1>7. PICK f \in DOMAIN fs : Loads(f, fs) /\ notes[i] = NoteOf(f, fs)
  BY <1>1
<1> QED
  BY <1>4, <1>6, <1>7

(* Where no path is shared, every file that loads is served as it was read.  *)
LEMMA ReplaceKeepsAll ==
    ASSUME NEW w \in Seq(File), NEW fs, DetectPathCollisions(ScanFiles(w, fs).notes) = {},
           NEW j \in DOMAIN w, w[j] \in DOMAIN fs, Loads(w[j], fs)
    PROVE  LET served == Replace(ScanFiles(w, fs).notes) IN
           NotePath[w[j]] \in DOMAIN served /\ served[NotePath[w[j]]] = NoteOf(w[j], fs)
<1> DEFINE notes == ScanFiles(w, fs).notes
           served == Replace(notes)
           p == NotePath[w[j]]
           at == {i \in DOMAIN notes : notes[i].path = p}
<1>1. /\ notes \in Seq({ScanOne(f, fs[f]).note : f \in DOMAIN fs})
      /\ \E i \in DOMAIN notes : notes[i] = NoteOf(w[j], fs)
  BY ScanIs DEF NoteOf
<1>2. DOMAIN notes = 1..Len(notes) /\ Len(notes) \in Nat
  BY <1>1, LenProperties
<1>3. NoteOf(w[j], fs).path = p
  BY DEF NoteOf, ScanOne
<1>4. PICK i \in DOMAIN notes : notes[i] = NoteOf(w[j], fs)
  BY <1>1
<1>5. \A k \in at : k = i
  <2> SUFFICES ASSUME NEW k \in at, k # i PROVE FALSE
    OBVIOUS
  <2>1. notes[i].path \in DetectPathCollisions(notes)
    BY <1>3, <1>4 DEF DetectPathCollisions
  <2> QED
    BY <2>1
<1>6. i \in at /\ p \in DOMAIN served /\ served[p] = notes[Max(at)]
  BY <1>3, <1>4 DEF Replace
<1> HIDE DEF notes, served, p
<1>7. Max(at) \in at
  <2>1. at \subseteq 1..Len(notes) /\ at # {}
    BY <1>2, <1>6
  <2> HIDE DEF at
  <2> QED
    BY <1>2, <2>1, FirstAndLast
<1>8. p \in DOMAIN served /\ served[p] = NoteOf(w[j], fs)
  BY <1>4, <1>5, <1>6, <1>7
<1> QED
  BY <1>8 DEF p, served, notes

(* A vault doctor passes is served whole and as written.                     *)
THEOREM CleanVaultServed == Spec => []CleanVaultIsServed
<1>1. DoctorInv => CleanVaultIsServed
  <2> SUFFICES ASSUME DoctorInv, report.exit = 0, store # Nothing
               PROVE  /\ DOMAIN store = {NotePath[f] : f \in DOMAIN files}
                      /\ \A f \in DOMAIN files : store[NotePath[f]] = NoteOf(f, files)
    BY DEF CleanVaultIsServed, NoteOf
  <2> DEFINE scan == Scan(walk, files, closed)
  <2>1. walk \in Seq(File) /\ \A f \in DOMAIN files : \E j \in DOMAIN walk : walk[j] = f
    BY VaultFacts
  <2>2. store = Replace(scan.notes)
    BY DEF DoctorInv
  <2>3. IsClean(Run(scan))
    <3>1. report # NotRun
      BY DEF NotRun
    <3> QED
      BY <3>1 DEF DoctorInv, Reported, Printed
  <2>4. scan.issues = {} /\ DetectPathCollisions(scan.notes) = {}
    BY <2>3 DEF IsClean, Run
  <2>7. /\ scan.notes = ScanFiles(walk, Seen).notes /\ ScanFiles(walk, Seen).issues = {}
        /\ DOMAIN Seen = DOMAIN files
        /\ \A f \in DOMAIN files : NoteOf(f, Seen) = NoteOf(f, files)
    BY <2>4, SeenIs DEF NoteOf
  <2> HIDE DEF scan
  <2>5. ASSUME NEW f \in DOMAIN files
        PROVE  NotePath[f] \in DOMAIN store /\ store[NotePath[f]] = NoteOf(f, files)
    <3>1. PICK j \in DOMAIN walk : walk[j] = f
      BY <2>1
    <3>2. walk[j] \in DOMAIN Seen /\ Loads(walk[j], Seen)
      BY <2>1, <2>7, <3>1, ScanIs
    <3>3. /\ NotePath[f] \in DOMAIN Replace(scan.notes)
          /\ Replace(scan.notes)[NotePath[f]] = NoteOf(f, Seen)
      BY <2>1, <2>4, <2>7, <3>1, <3>2, ReplaceKeepsAll
    <3> QED
      BY <2>2, <2>7, <3>3
  <2>6. \A p \in DOMAIN store : \E f \in DOMAIN files : p = NotePath[f]
    <3> DEFINE served == Replace(ScanFiles(walk, Seen).notes)
    <3>1. \A p \in DOMAIN served : \E f \in DOMAIN Seen :
             Loads(f, Seen) /\ p = NotePath[f] /\ served[p] = NoteOf(f, Seen)
      BY <2>1, ReplaceIs
    <3> HIDE DEF served
    <3>2. \A p \in DOMAIN served : \E f \in DOMAIN files : p = NotePath[f]
      BY <2>7, <3>1
    <3> QED
      BY <2>2, <2>7, <3>2 DEF served
  <2> QED
    BY <2>5, <2>6
<1> QED
  BY <1>1, VaultStandsStill, PTL

-----------------------------------------------------------------------------
(* What coerce makes of a node: the equation of Coerce has a solution, since   *)
(* a node is coerced from the nodes nested in it alone.                       *)

Within(node) == {n \in Node : Nesting[n] < Nesting[node]}

LEMMA Inside ==
    ASSUME NEW node \in Node
    PROVE  /\ \A i \in DOMAIN node.items : node.items[i] \in Within(node)
           /\ \A i \in DOMAIN node.entries : node.entries[i].node \in Within(node)
           /\ node.entries \in Seq([key : STRING, node : Node])
           /\ node.yaml = "tagged" => 1 \in DOMAIN node.items
<1>1. node.items \in Seq(Node) /\ node.entries \in Seq([key : STRING, node : Node])
  BY NodeAssumption
<1>2. /\ \A i \in DOMAIN node.items : Nesting[node.items[i]] < Nesting[node]
      /\ \A i \in DOMAIN node.entries : Nesting[node.entries[i].node] < Nesting[node]
      /\ node.yaml = "tagged" => Len(node.items) = 1
  BY NodeAssumption
<1>3. /\ DOMAIN node.items = 1..Len(node.items) /\ Len(node.items) \in Nat
      /\ DOMAIN node.entries = 1..Len(node.entries)
  BY <1>1, LenProperties
<1>4. \A i \in DOMAIN node.items : node.items[i] \in Node
  BY <1>1, <1>3, ElementOfSeq
<1>5. \A i \in DOMAIN node.entries : node.entries[i] \in [key : STRING, node : Node]
  BY <1>1, <1>3, ElementOfSeq
<1>6. \A i \in DOMAIN node.entries : node.entries[i].node \in Node
  BY <1>5
<1>7. node.yaml = "tagged" => 1 \in DOMAIN node.items
  <2>1. 1 \in 1..1
    OBVIOUS
  <2> QED
    BY <1>2, <1>3, <2>1, Zenon
<1> QED
  BY <1>1, <1>2, <1>4, <1>6, <1>7 DEF Within

(* The last entry of a key.                                                  *)
LEMMA LastEntry ==
    ASSUME NEW S, NEW entries \in Seq(S), NEW k \in {entries[i].key : i \in DOMAIN entries}
    PROVE  LET last == Max({i \in DOMAIN entries : entries[i].key = k}) IN
           last \in DOMAIN entries /\ entries[last].key = k
<1> DEFINE at == {i \in DOMAIN entries : entries[i].key = k}
<1>1. DOMAIN entries = 1..Len(entries) /\ Len(entries) \in Nat
  BY LenProperties
<1>2. at \subseteq 1..Len(entries) /\ at # {} /\ \A i \in at : i \in DOMAIN entries /\ entries[i].key = k
  BY <1>1
<1>3. Max(at) \in at
  <2> HIDE DEF at
  <2> QED
    BY <1>1, <1>2, FirstAndLast
<1> QED
  BY <1>2, <1>3

LEMMA SameFields ==
    ASSUME NEW S, NEW entries \in Seq(S), NEW g, NEW h,
           \A i \in DOMAIN entries : g[entries[i].node] = h[entries[i].node]
    PROVE  Fields(g, entries) = Fields(h, entries)
BY LastEntry DEF Fields

LEMMA CoercedFromWithin ==
    ASSUME NEW node \in Node, NEW g, NEW h, \A n \in Within(node) : g[n] = h[n]
    PROVE  CoerceNode(g, node) = CoerceNode(h, node)
<1>1. /\ \A i \in DOMAIN node.items : g[node.items[i]] = h[node.items[i]]
      /\ \A i \in DOMAIN node.entries : g[node.entries[i].node] = h[node.entries[i].node]
      /\ node.yaml = "tagged" => g[node.items[1]] = h[node.items[1]]
  BY Inside
<1>2. Fields(g, node.entries) = Fields(h, node.entries)
  BY <1>1, Inside, SameFields
<1>3. [i \in DOMAIN node.items |-> g[node.items[i]]] = [i \in DOMAIN node.items |-> h[node.items[i]]]
  BY <1>1
<1>4. node.yaml \in {"null", "bool", "int", "float", "string", "sequence", "mapping", "tagged"}
  BY NodeAssumption
<1>5. CASE node.yaml \in {"null", "bool", "int", "float"}
  BY <1>5 DEF CoerceNode
<1>6. CASE node.yaml = "string"
  BY <1>6 DEF CoerceNode
<1>7. CASE node.yaml = "sequence"
  BY <1>3, <1>7 DEF CoerceNode
<1>8. CASE node.yaml = "mapping"
  BY <1>2, <1>8 DEF CoerceNode
<1>9. CASE node.yaml = "tagged"
  BY <1>1, <1>9 DEF CoerceNode
<1> QED
  BY <1>4, <1>5, <1>6, <1>7, <1>8, <1>9

\* g coerces the nodes with fewer than k levels.
Coerces(g, k) == \A n \in Node : Nesting[n] < k => g[n] = CoerceNode(g, n)

LEMMA Levels == \A n \in Node : Nesting[n] \in Nat
BY NodeAssumption

LEMMA CoercesAgree ==
    ASSUME NEW k \in Nat, NEW g, NEW h, Coerces(g, k), Coerces(h, k)
    PROVE  \A n \in Node : Nesting[n] < k => g[n] = h[n]
<1> DEFINE S == {j \in Nat : \A n \in Node : Nesting[n] < j /\ Nesting[n] < k => g[n] = h[n]}
<1>1. 0 \in S
  BY Levels
<1>2. ASSUME NEW j \in Nat, j \in S PROVE j + 1 \in S
  <2> SUFFICES ASSUME NEW n \in Node, Nesting[n] < j + 1, Nesting[n] < k PROVE g[n] = h[n]
    OBVIOUS
  <2>1. \A m \in Within(n) : g[m] = h[m]
    BY <1>2, Levels DEF Within
  <2>2. CoerceNode(g, n) = CoerceNode(h, n)
    BY <2>1, CoercedFromWithin
  <2> QED
    BY <2>2 DEF Coerces
<1> HIDE DEF S
<1>3. k \in S
  BY <1>1, <1>2, InductionSet
<1> QED
  BY <1>3 DEF S

LEMMA CoercesExists ==
    ASSUME NEW k \in Nat
    PROVE  \E g : Coerces(g, k)
<1> DEFINE S == {j \in Nat : \E g : Coerces(g, j)}
<1>1. 0 \in S
  BY Levels DEF Coerces
<1>2. ASSUME NEW j \in Nat, j \in S PROVE j + 1 \in S
  <2>1. PICK g : Coerces(g, j)
    BY <1>2
  <2> DEFINE h == [n \in Node |-> CoerceNode(g, n)]
  <2>2. \A n \in Node : h[n] = CoerceNode(g, n)
    OBVIOUS
  <2> HIDE DEF h
  <2>3. ASSUME NEW n \in Node, Nesting[n] < j + 1 PROVE h[n] = CoerceNode(h, n)
    <3>1. \A m \in Within(n) : h[m] = g[m]
      BY <2>1, <2>2, <2>3, Levels DEF Within, Coerces
    <3>2. CoerceNode(h, n) = CoerceNode(g, n)
      BY <3>1, CoercedFromWithin
    <3> QED
      BY <2>2, <3>2
  <2>4. Coerces(h, j + 1)
    BY <2>3 DEF Coerces
  <2> QED
    BY <2>4
<1> HIDE DEF S
<1>3. k \in S
  BY <1>1, <1>2, InductionSet
<1> QED
  BY <1>3 DEF S

LEMMA CoerceIs == \A node \in Node : Coerce[node] = CoerceNode(Coerce, node)
<1> DEFINE level(k) == CHOOSE g : Coerces(g, k)
           c == [n \in Node |-> level(Nesting[n] + 1)[n]]
           Solves(g) == g = [node \in Node |-> CoerceNode(g, node)]
<1>1. \A k \in Nat : Coerces(level(k), k)
  BY CoercesExists
<1> HIDE DEF level
<1>2. \A n \in Node : c[n] = level(Nesting[n] + 1)[n]
  OBVIOUS
<1>3. ASSUME NEW n \in Node PROVE c[n] = CoerceNode(c, n)
  <2> DEFINE k == Nesting[n] + 1
  <2>1. k \in Nat /\ Nesting[n] < k
    BY Levels
  <2>2. level(k)[n] = CoerceNode(level(k), n)
    BY <1>1, <2>1 DEF Coerces
  <2>3. ASSUME NEW m \in Within(n) PROVE c[m] = level(k)[m]
    <3> DEFINE j == Nesting[m] + 1
    <3>1. j \in Nat /\ Nesting[m] < j /\ m \in Node /\ \A i \in Nat : i < j => i < k
      BY Levels DEF Within
    <3>2. Coerces(level(j), j) /\ Coerces(level(k), k)
      BY <1>1, <2>1, <3>1
    <3> HIDE DEF j, k
    <3>3. Coerces(level(k), j)
      BY <3>1, <3>2, Levels DEF Coerces
    <3>4. level(j)[m] = level(k)[m]
      BY <3>1, <3>2, <3>3, CoercesAgree
    <3> QED
      BY <1>2, <3>1, <3>4 DEF j
  <2> HIDE DEF c
  <2>4. CoerceNode(c, n) = CoerceNode(level(k), n)
    BY <2>3, CoercedFromWithin
  <2> QED
    BY <1>2, <2>2, <2>4
<1>4. Solves(c)
  <2>1. c = [n \in Node |-> c[n]]
    OBVIOUS
  <2> HIDE DEF c
  <2> QED
    BY <1>3, <2>1
<1>5. Coerce = CHOOSE g : Solves(g)
  BY DEF Coerce
<1> HIDE DEF c
<1>6. Solves(Coerce)
  <2> HIDE DEF Solves
  <2> QED
    BY <1>4, <1>5
<1> QED
  BY <1>6

-----------------------------------------------------------------------------
(* The values of a frontmatter.                                              *)

Types == {"null", "bool", "int", "float", "string", "date", "datetime", "list", "map"}
Values == {Coerce[n] : n \in Node}

\* A date or an instant is written as its magnitude is, a finite float reads back,
\* and what a mapping holds was coerced.
Sound(v) ==
    /\ v.type \in Types /\ v.text \in Text
    /\ v.type = "int" => v.at \in Int
    /\ v.type = "float" =>
          /\ v.at \in Int \cup {NaN}
          /\ v.text \in DOMAIN ShownFloat =>
                ShownFloat[v.text] \in DOMAIN AsFloat /\ AsFloat[ShownFloat[v.text]] = v.at
    /\ v.type = "date" => v.at \in DOMAIN ShownDate /\ v.text = ShownDate[v.at]
    /\ v.type = "datetime" => v.at \in DOMAIN ShownInstant /\ v.text = ShownInstant[v.at]
    /\ v.type = "map" => \A k \in DOMAIN v.fields : v.fields[k] \in Values

LEMMA CoerceStringSound ==
    ASSUME NEW s \in Text
    PROVE  Sound(CoerceString(s))
<1>1. /\ \A t \in DOMAIN AsDate : AsDate[t] \in DOMAIN ShownDate
      /\ \A t \in DOMAIN AsDatetime : AsDatetime[t] \in DOMAIN ShownInstant
  BY DateAssumption
<1>2. /\ ShownDate \in [DOMAIN ShownDate -> Text]
      /\ ShownInstant \in [DOMAIN ShownInstant -> Text]
  BY DateAssumption
<1>3. CASE s \in DOMAIN AsDate
  <2>1. CoerceString(s) = Value("date", AsDate[s], ShownDate[AsDate[s]])
    BY <1>3 DEF CoerceString
  <2> QED
    BY <1>1, <1>2, <1>3, <2>1 DEF Value, Sound, Types
<1>4. CASE s \notin DOMAIN AsDate /\ s \in DOMAIN AsDatetime
  <2>1. CoerceString(s) = Value("datetime", AsDatetime[s], ShownInstant[AsDatetime[s]])
    BY <1>4 DEF CoerceString
  <2> QED
    BY <1>1, <1>2, <1>4, <2>1 DEF Value, Sound, Types
<1>5. CASE s \notin DOMAIN AsDate /\ s \notin DOMAIN AsDatetime
  <2>1. CoerceString(s) = Value("string", 0, s)
    BY <1>5 DEF CoerceString
  <2> QED
    BY <2>1 DEF Value, Sound, Types
<1> QED
  BY <1>3, <1>4, <1>5

(* ... of the last entry of its key.                                         *)
LEMMA FieldsOfNodes ==
    ASSUME NEW entries \in Seq([key : STRING, node : Node])
    PROVE  \A k \in DOMAIN Fields(Coerce, entries) : Fields(Coerce, entries)[k] \in Values
<1> SUFFICES ASSUME NEW k \in {entries[i].key : i \in DOMAIN entries}
             PROVE  Fields(Coerce, entries)[k] \in Values
  BY DEF Fields
<1> DEFINE last == Max({i \in DOMAIN entries : entries[i].key = k})
<1>1. last \in DOMAIN entries
  BY LastEntry
<1>2. Fields(Coerce, entries)[k] = Coerce[entries[last].node]
  BY DEF Fields
<1> HIDE DEF last
<1>3. entries[last] \in [key : STRING, node : Node]
  BY <1>1, LenProperties, ElementOfSeq
<1>4. entries[last].node \in Node
  BY <1>3
<1> QED
  BY <1>2, <1>4 DEF Values

LEMMA CoercedSound == \A v \in Values : Sound(v)
<1> DEFINE S == {k \in Nat : \A n \in Node : Nesting[n] < k => Sound(Coerce[n])}
<1>1. 0 \in S
  BY Levels
<1>2. ASSUME NEW k \in Nat, k \in S PROVE k + 1 \in S
  <2> SUFFICES ASSUME NEW n \in Node, Nesting[n] < k + 1 PROVE Sound(Coerce[n])
    OBVIOUS
  <2>1. Coerce[n] = CoerceNode(Coerce, n)
    BY CoerceIs
  <2>2. /\ n.yaml \in {"null", "bool", "int", "float", "string", "sequence", "mapping", "tagged"}
        /\ n.text \in Text /\ Debug[n] \in Text
    BY NodeAssumption
  <2>3. CASE n.yaml \in {"null", "bool", "int", "float"}
    <3>1. Coerce[n] = Value(n.yaml, n.at, n.text)
      BY <2>1, <2>3 DEF CoerceNode
    <3> QED
      BY <2>2, <2>3, <3>1, NumberAssumption DEF Value, Sound, Types
  <2>4. CASE n.yaml = "string"
    <3>1. Coerce[n] = CoerceString(n.text)
      BY <2>1, <2>4 DEF CoerceNode
    <3> QED
      BY <2>2, <3>1, CoerceStringSound
  <2>5. CASE n.yaml = "sequence"
    <3>1. Coerce[n].type = "list" /\ Coerce[n].text = Debug[n]
      BY <2>1, <2>5 DEF CoerceNode
    <3> QED
      BY <2>2, <3>1 DEF Sound, Types
  <2>6. CASE n.yaml = "mapping"
    <3>1. /\ Coerce[n].type = "map" /\ Coerce[n].text = Debug[n]
          /\ Coerce[n].fields = Fields(Coerce, n.entries)
      BY <2>1, <2>6 DEF CoerceNode
    <3>2. \A f \in DOMAIN Coerce[n].fields : Coerce[n].fields[f] \in Values
      BY <3>1, Inside, FieldsOfNodes
    <3> QED
      BY <2>2, <3>1, <3>2 DEF Sound, Types
  <2>7. CASE n.yaml = "tagged"
    <3>1. Coerce[n] = Coerce[n.items[1]]
      BY <2>1, <2>7 DEF CoerceNode
    <3>2. n.items[1] \in Within(n)
      BY <2>7, Inside
    <3>3. Nesting[n.items[1]] < k /\ n.items[1] \in Node
      BY <3>2, Levels DEF Within
    <3> QED
      BY <1>2, <3>1, <3>3
  <2> QED
    BY <2>2, <2>3, <2>4, <2>5, <2>6, <2>7
<1> HIDE DEF S
<1>3. Nat \subseteq S
  BY <1>1, <1>2, InductionSet
<1>4. ASSUME NEW n \in Node PROVE Sound(Coerce[n])
  <2>1. Nesting[n] + 1 \in Nat /\ Nesting[n] < Nesting[n] + 1
    BY Levels
  <2>2. Nesting[n] + 1 \in S
    BY <1>3, <2>1
  <2> QED
    BY <2>1, <2>2 DEF S
<1> QED
  BY <1>4 DEF Values

-----------------------------------------------------------------------------
(* A dotted key leads to a value of the frontmatter or nowhere.              *)

Found == Values \cup {Missing}

LEMMA MissingIs == Missing.type = "missing" /\ Missing \notin Values
<1>1. Missing.type = "missing"
  BY Zenon DEF Missing
<1>2. "missing" \notin Types
  BY DEF Types
<1> QED
  BY <1>1, <1>2, CoercedSound DEF Sound

LEMMA DottedValue ==
    ASSUME NEW fields, \A k \in DOMAIN fields : fields[k] \in Values,
           NEW path \in Seq(STRING), path # <<>>
    PROVE  /\ LookupDotted(fields, path) \in Found
           /\ Len(path) = 1 => LookupDotted(fields, path) = Lookup(fields, path[1])
<1> DEFINE n == Len(path)
           Below(v, i) == IF v.type = "map" THEN Lookup(v.fields, path[i]) ELSE Missing
           Leads(g) == [i \in 1..n |-> IF i = 1 THEN Lookup(fields, path[1]) ELSE Below(g[i - 1], i)]
           current == CHOOSE g : g = Leads(g)
           step == [i \in 1..n |-> [v \in Found |->
                       IF i = 1 THEN Lookup(fields, path[1]) ELSE Below(v, i)]]
<1>1. n \in Nat /\ n # 0
  BY LenProperties, EmptySeq
<1>2. LookupDotted(fields, path) = current[n]
  BY DEF LookupDotted
<1>3. Missing \in Found /\ Missing.type # "map" /\ \A v \in Values : v \in Found
  BY MissingIs DEF Found
<1>4. Lookup(fields, path[1]) \in Found
  BY <1>3 DEF Lookup
<1>5. \A v \in Found, i \in 1..n : Below(v, i) \in Found
  <2> SUFFICES ASSUME NEW v \in Found, NEW i \in 1..n, v.type = "map"
               PROVE  Lookup(v.fields, path[i]) \in Found
    BY <1>3
  <2>1. \A k \in DOMAIN v.fields : v.fields[k] \in Values
    BY <1>3, CoercedSound DEF Sound, Found
  <2> QED
    BY <1>3, <2>1 DEF Lookup
<1>6. step \in [1..n -> [Found -> Found]]
  BY <1>4, <1>5
<1>7. \A i \in 1..n, v \in Found :
         step[i][v] = IF i = 1 THEN Lookup(fields, path[1]) ELSE Below(v, i)
  OBVIOUS
<1> HIDE DEF n, Below, step
<1>8. PICK f \in [0..n -> Found] : IsFold(f, Missing, n, step)
  BY <1>1, <1>3, <1>6, FoldExists
<1> DEFINE h == [i \in 1..n |-> f[i]]
<1>9. h = Leads(h)
  <2>1. ASSUME NEW i \in 1..n PROVE h[i] = Leads(h)[i]
    <3>1. i - 1 \in 0..n /\ i = (i - 1) + 1 /\ h[i] = f[i]
      BY <1>1
    <3>2. f[i] = step[i][f[i - 1]]
      BY <1>8, <3>1 DEF IsFold
    <3>3. f[i] = IF i = 1 THEN Lookup(fields, path[1]) ELSE Below(f[i - 1], i)
      BY <1>7, <3>1, <3>2
    <3>4. i # 1 => h[i - 1] = f[i - 1]
      BY <1>1
    <3> QED
      BY <3>1, <3>3, <3>4
  <2>2. DOMAIN h = 1..n /\ DOMAIN Leads(h) = 1..n
    OBVIOUS
  <2> QED
    BY <2>1
<1> HIDE DEF h
<1>10. current = Leads(current)
  <2> HIDE DEF Leads
  <2> QED
    BY <1>9
<1> HIDE DEF current
<1>11. ASSUME NEW g, g = Leads(g) PROVE \A i \in 1..n : g[i] = f[i]
  <2> DEFINE S == {i \in Nat : i \in 1..n => g[i] = f[i]}
  <2>1. 0 \in S
    OBVIOUS
  <2>2. ASSUME NEW j \in Nat, j \in S PROVE j + 1 \in S
    <3>1. PICK i \in Nat : i = j + 1
      OBVIOUS
    <3>2. ASSUME i \in 1..n PROVE g[i] = f[i]
      <4>1. g[i] = IF i = 1 THEN Lookup(fields, path[1]) ELSE Below(g[i - 1], i)
        BY <1>11, <3>2
      <4>2. j \in 0..n /\ i - 1 = j /\ (i # 1 => j \in 1..n)
        BY <1>1, <3>1, <3>2
      <4>3. f[i] = step[i][f[j]]
        BY <1>8, <3>1, <3>2, <4>2 DEF IsFold
      <4>4. f[i] = IF i = 1 THEN Lookup(fields, path[1]) ELSE Below(f[j], i)
        BY <1>7, <3>2, <4>2, <4>3
      <4> QED
        BY <2>2, <4>1, <4>2, <4>4
    <3> QED
      BY <3>1, <3>2
  <2> HIDE DEF S
  <2>3. Nat \subseteq S
    BY <2>1, <2>2, InductionSet
  <2> QED
    BY <2>3 DEF S
<1>12. current[n] = f[n] /\ f[n] \in Found
  <2> HIDE DEF Leads
  <2>1. \A i \in 1..n : current[i] = f[i]
    BY <1>10, <1>11
  <2> QED
    BY <1>1, <2>1
<1>13. n = 1 => current[n] = Lookup(fields, path[1])
  BY <1>1, <1>10
<1> QED
  BY <1>2, <1>12, <1>13 DEF n

-----------------------------------------------------------------------------
(* What readers see of a note.                                               *)

LEMMA FrontmatterOf ==
    ASSUME DoctorInv, NEW f \in DOMAIN files
    PROVE  \A k \in DOMAIN NoteOf(f, files).frontmatter : NoteOf(f, files).frontmatter[k] \in Values
<1> DEFINE yaml == SplitFrontmatter(files[f].lines).yaml
           blank == \A i \in DOMAIN yaml : yaml[i] \in BlankLine
           fields == ParseFrontmatter(yaml).fields
<1>1. NoteOf(f, files).frontmatter = fields
  BY DEF NoteOf, ScanOne
<1>2. /\ Yaml(yaml).root \in {"mapping", "other", "broken"}
      /\ Yaml(yaml).root = "mapping" => Yaml(yaml).entries \in Seq([key : STRING, node : Node])
  BY VaultAssumption DEF DoctorInv
<1> HIDE DEF yaml
<1>3. <<>> \in Seq([key : STRING, node : Node])
  OBVIOUS
<1>4. \/ fields = Fields(Coerce, <<>>)
      \/ Yaml(yaml).root = "mapping" /\ fields = Fields(Coerce, Yaml(yaml).entries)
  <2>1. CASE blank
    BY <2>1 DEF ParseFrontmatter, Parsed
  <2>2. CASE ~blank
    BY <2>2 DEF ParseFrontmatter, Parsed
  <2> QED
    BY <2>1, <2>2
<1> HIDE DEF fields
<1> QED
  BY <1>1, <1>2, <1>3, <1>4, FieldsOfNodes

LEMMA ResolvedValues ==
    ASSUME NEW fields, \A k \in DOMAIN fields : fields[k] \in Values
    PROVE  /\ DOMAIN Resolved(fields) \subseteq DOMAIN SplitAtDots
           /\ \A key \in DOMAIN Resolved(fields) : Resolved(fields)[key] \in Values
           /\ \A key \in DOMAIN SplitAtDots : SplitAtDots[key] = <<key>> =>
                 Lookup(Resolved(fields), key) = Lookup(fields, key)
<1>1. \A key \in DOMAIN SplitAtDots :
         /\ LookupDotted(fields, SplitAtDots[key]) \in Found
         /\ Len(SplitAtDots[key]) = 1 =>
               LookupDotted(fields, SplitAtDots[key]) = Lookup(fields, SplitAtDots[key][1])
  BY NodeAssumption, DottedValue
<1>2. /\ DOMAIN Resolved(fields) =
            {k \in DOMAIN SplitAtDots : LookupDotted(fields, SplitAtDots[k]) # Missing}
      /\ \A key \in DOMAIN Resolved(fields) :
            Resolved(fields)[key] = LookupDotted(fields, SplitAtDots[key])
  BY DEF Resolved
<1>3. ASSUME NEW key \in DOMAIN SplitAtDots, SplitAtDots[key] = <<key>>
      PROVE  Lookup(Resolved(fields), key) = Lookup(fields, key)
  <2>1. Len(<<key>>) = 1 /\ <<key>>[1] = key
    OBVIOUS
  <2>2. LookupDotted(fields, SplitAtDots[key]) = Lookup(fields, key)
    BY <1>1, <1>3, <2>1
  <2> QED
    BY <1>2, <2>2 DEF Lookup
<1> QED
  BY <1>1, <1>2, <1>3 DEF Found

LEMMA LoadedPath ==
    ASSUME NEW f \in File, NEW fs, Loads(f, fs)
    PROVE  NotePath[f] \in Path
<1>1. f \notin NonUtf8Path
  BY DEF Loads, ScanOne
<1> QED
  BY <1>1, VaultAssumption

(* The index holds notes of files that load, each at its path.               *)
LEMMA StoreIs ==
    ASSUME DoctorInv, NEW p \in DOMAIN store
    PROVE  /\ store[p].path = p /\ p \in Path
           /\ \E f \in DOMAIN Seen :
                 Loads(f, Seen) /\ p = NotePath[f] /\ store[p] = NoteOf(f, Seen)
           /\ \A k \in DOMAIN store[p].frontmatter : store[p].frontmatter[k] \in Values
<1> DEFINE served == Replace(ScanFiles(walk, Seen).notes)
<1>1. store = served
  <2>1. DOMAIN Nothing = {}
    BY DEF Nothing
  <2> QED
    BY <2>1, SeenIs DEF DoctorInv
<1>2. walk \in Seq(File) /\ \A f \in DOMAIN files : f \in File
  BY VaultFacts
<1>3. \A r \in DOMAIN served :
         /\ served[r].path = r
         /\ \E f \in DOMAIN Seen : /\ Loads(f, Seen) /\ r = NotePath[f]
                                   /\ served[r] = NoteOf(f, Seen)
  BY <1>2, ReplaceIs
<1> HIDE DEF served
<1>4. PICK f \in DOMAIN Seen : Loads(f, Seen) /\ p = NotePath[f] /\ store[p] = NoteOf(f, Seen)
  BY <1>1, <1>3
<1>7. f \in File /\ f \in DOMAIN files /\ NoteOf(f, Seen) = NoteOf(f, files)
  BY <1>2, <1>4, SeenIs DEF NoteOf
<1>5. p \in Path
  BY <1>4, <1>7, LoadedPath
<1>6. \A k \in DOMAIN store[p].frontmatter : store[p].frontmatter[k] \in Values
  BY <1>4, <1>7, FrontmatterOf
<1> QED
  BY <1>1, <1>3, <1>4, <1>5, <1>6

(* The exit codes of doctor, and the place and the types of what is served.  *)
THEOREM DoctorTypeCorrect == Spec => []TypeOK
<1>1. DoctorInv => TypeOK
  <2> SUFFICES ASSUME DoctorInv PROVE TypeOK
    OBVIOUS
  <2>1. report.exit \in {-1, 0, 1}
    BY DEF DoctorInv, Reported, Printed, NotRun
  <2>2. ASSUME NEW p \in DOMAIN store, NEW key \in DOMAIN Resolved(store[p].frontmatter)
        PROVE  Resolved(store[p].frontmatter)[key].type \in Types
    BY StoreIs, ResolvedValues, CoercedSound DEF Sound
  <2> QED
    BY <2>1, <2>2, StoreIs, SeenIs DEF TypeOK, DoctorInv, Types
<1> QED
  BY <1>1, VaultStandsStill, PTL

-----------------------------------------------------------------------------
(* What is shown of a value finds its note.                                  *)

(* The query of one clause selects the notes that match it.                  *)
LEMMA OneClause ==
    ASSUME NEW notes, NEW p \in DOMAIN notes, NEW key, NEW op \in Operators \ {"regex", "exists"},
           NEW text
    PROVE  Finds(notes, p, key, op, text) <=>
              PredicateMatch([field |-> key, op |-> op, value |-> text], notes[p])
<1> DEFINE new == [field |-> key, op |-> op, value |-> text]
           q == WithPredicate(ParsedQuery, key, op, text)
<1>1. q = [ParsedQuery EXCEPT !.predicates = Append(@, new)]
  BY DEF WithPredicate
<1>2. q.path = <<>> /\ q.recursive = TRUE /\ q.predicates = Append(<<>>, new)
  BY <1>1 DEF ParsedQuery
<1> HIDE DEF new, q
<1>3. Append(<<>>, new) = <<new>> /\ DOMAIN <<new>> = {1} /\ <<new>>[1] = new
  OBVIOUS
<1>4. PredicatesMatch(q.predicates, notes[p]) <=> PredicateMatch(new, notes[p])
  BY <1>2, <1>3 DEF PredicatesMatch
<1>5. PathMatches(p, q.path, q.recursive)
  BY <1>2 DEF PathMatches
<1>6. p \in Matching(notes, q) <=> PredicateMatch(new, notes[p])
  BY <1>4, <1>5 DEF Matching
<1> QED
  BY <1>6 DEF Finds, q, new

LEMMA ClauseOfEquality ==
    ASSUME NEW key, NEW text, NEW fm
    PROVE  PredicateMatch([field |-> key, op |-> "eq", value |-> text], fm) <=>
              Lookup(fm, key) # Missing /\ MatchesEq(Lookup(fm, key), text)
BY DEF PredicateMatch

LEMMA ClauseOfRange ==
    ASSUME NEW key, NEW op \in {"gte", "lte"}, NEW text, NEW fm
    PROVE  PredicateMatch([field |-> key, op |-> op, value |-> text], fm) <=>
              Lookup(fm, key) # Missing /\ NeedleCmp(Lookup(fm, key), text) \in Accepts(op)
BY DEF PredicateMatch

(* The index as the query engine sees it.                                    *)
LEMMA ServedIs ==
    ASSUME DoctorInv, NEW p \in DOMAIN Served
    PROVE  /\ p \in DOMAIN store /\ p \in Path
           /\ Served[p] = Resolved(store[p].frontmatter)
           /\ \A key \in DOMAIN Served[p] : Served[p][key] \in Values
BY StoreIs, ResolvedValues DEF Served

LEMMA ShownFinds ==
    ASSUME NEW v, Sound(v), v.type \notin {"float", "list", "map"}
    PROVE  MatchesEq(v, Shown(v))
<1>1. Shown(v) = v.text
  <2>1. CASE v.type = "date"
    BY <2>1 DEF Shown, Sound
  <2>2. CASE v.type = "datetime"
    BY <2>2 DEF Shown, Sound
  <2>3. CASE v.type \notin {"date", "datetime"}
    BY <2>3 DEF Shown
  <2> QED
    BY <2>1, <2>2, <2>3
<1> QED
  BY <1>1 DEF MatchesEq, MatchesScalarEq

LEMMA ShownFloatCompares ==
    ASSUME NEW v, Sound(v), v.type = "float", v.text \in DOMAIN ShownFloat
    PROVE  NeedleCmp(v, Shown(v)) = "equal"
<1>1. Shown(v) = ShownFloat[v.text]
  BY DEF Shown
<1>2. NeedleCmp(v, Shown(v)) = FloatCmp(v.at, v.at)
  BY <1>1 DEF NeedleCmp, Numeric, AsF64, Sound
<1>3. v.at = NaN \/ v.at \in Int
  BY DEF Sound
<1> QED
  BY <1>2, <1>3 DEF FloatCmp, Cmp

(* The scalar that a reader is shown can be asked for, and the note is found.  *)
THEOREM ShownFindsNote == Spec => []ShownIsFindable
<1>1. DoctorInv => ShownIsFindable
  <2> SUFFICES ASSUME DoctorInv, NEW p \in DOMAIN Served, NEW key \in DOMAIN Served[p]
               PROVE  LET v == Served[p][key] IN
                      CASE v.type \in {"list", "map"} -> TRUE
                        [] v.type = "float" /\ v.text \in DOMAIN ShownFloat ->
                             /\ Finds(Served, p, key, "gte", Shown(v))
                             /\ Finds(Served, p, key, "lte", Shown(v))
                        [] v.type = "float" /\ v.text \notin DOMAIN ShownFloat -> TRUE
                        [] OTHER -> Finds(Served, p, key, "eq", Shown(v))
    BY Zenon DEF ShownIsFindable
  <2> DEFINE notes == Served
             v == notes[p][key]
  <2>1. v \in Values
    BY ServedIs
  <2>2. Sound(v) /\ v # Missing /\ Lookup(notes[p], key) = v
    BY <2>1, CoercedSound, MissingIs DEF Lookup
  <2> HIDE DEF notes, v
  <2>3. {"eq", "gte", "lte"} \subseteq Operators \ {"regex", "exists"}
    BY DEF Operators, OperatorSuffixes
  <2>4. CASE v.type = "float" /\ v.text \in DOMAIN ShownFloat
    <3>1. NeedleCmp(v, Shown(v)) = "equal"
      BY <2>2, <2>4, ShownFloatCompares
    <3>2. "equal" \in Accepts("gte") /\ "equal" \in Accepts("lte")
      BY DEF Accepts
    <3>3. \A op \in {"gte", "lte"} : PredicateMatch([field |-> key, op |-> op, value |-> Shown(v)], notes[p])
      BY <2>2, <3>1, <3>2, ClauseOfRange
    <3>4. Finds(notes, p, key, "gte", Shown(v)) /\ Finds(notes, p, key, "lte", Shown(v))
      BY <2>3, <3>3, OneClause DEF notes
    <3> QED
      BY <2>4, <3>4 DEF v, notes
  <2>5. CASE v.type \notin {"float", "list", "map"}
    <3>1. MatchesEq(v, Shown(v))
      BY <2>2, <2>5, ShownFinds
    <3>2. PredicateMatch([field |-> key, op |-> "eq", value |-> Shown(v)], notes[p])
      BY <2>2, <3>1, ClauseOfEquality
    <3>3. Finds(notes, p, key, "eq", Shown(v))
      BY <2>3, <3>2, OneClause DEF notes
    <3> QED
      BY <2>5, <3>3 DEF v, notes
  <2>6. CASE v.type \in {"list", "map"} \/ (v.type = "float" /\ v.text \notin DOMAIN ShownFloat)
    BY <2>6 DEF v, notes
  <2> QED
    BY <2>4, <2>5, <2>6
<1> QED
  BY <1>1, VaultStandsStill, PTL

-----------------------------------------------------------------------------
(* The values of one shape have an order.                                    *)

InLex(x, y, v, w) == x[v] < x[w] \/ (x[v] = x[w] /\ y[v] < y[w])

\* compare_values compares the values of V by two ranks, the first one first.
Ranked(V, x, y) ==
    \A v, w \in V :
        /\ CompareValues(v, w) = "less" <=> InLex(x, y, v, w)
        /\ CompareValues(v, w) = "greater" <=> InLex(x, y, w, v)
        /\ CompareValues(v, w) \in {"less", "greater", "equal"}

LEMMA CmpIs ==
    ASSUME NEW a \in Int, NEW b \in Int
    PROVE  /\ Cmp(a, b) = "less" <=> a < b
           /\ Cmp(a, b) = "greater" <=> b < a
           /\ Cmp(a, b) \in {"less", "greater", "equal"}
BY DEF Cmp

LEMMA RankedByOne ==
    ASSUME NEW V, NEW x \in [V -> Int], \A v, w \in V : CompareValues(v, w) = Cmp(x[v], x[w])
    PROVE  \E y \in [V -> Int] : Ranked(V, x, y)
<1> DEFINE y == [v \in V |-> 0]
<1>1. y \in [V -> Int] /\ \A v, w \in V : ~(y[v] < y[w])
  OBVIOUS
<1> HIDE DEF y
<1>2. \A v, w \in V : InLex(x, y, v, w) <=> x[v] < x[w]
  BY <1>1 DEF InLex
<1>3. Ranked(V, x, y)
  BY <1>2, CmpIs DEF Ranked
<1> QED
  BY <1>1, <1>3

(* Dates and instants: by their text, then by their magnitude.               *)
LEMMA DatesRanked ==
    ASSUME NEW V, \A v \in V : Sound(v) /\ v.type \in {"date", "datetime"}
    PROVE  \E x, y \in [V -> Int] : Ranked(V, x, y)
<1> DEFINE x == [v \in V |-> TextRank[v.text]]
           y == [v \in V |-> v.at]
<1>1. \A v \in V : v.text \in Text /\ TextRank[v.text] \in Int
  BY OrderAssumption DEF Sound
<1>2. \A v \in V : v.at \in Int
  BY DateAssumption DEF Sound
<1>3. /\ x \in [V -> Int] /\ y \in [V -> Int]
      /\ \A v \in V : x[v] = TextRank[v.text] /\ y[v] = v.at
  BY <1>1, <1>2
<1> HIDE DEF x, y
<1>4. ASSUME NEW v \in V, NEW w \in V
      PROVE  /\ CompareValues(v, w) = "less" <=> InLex(x, y, v, w)
             /\ CompareValues(v, w) = "greater" <=> InLex(x, y, w, v)
             /\ CompareValues(v, w) \in {"less", "greater", "equal"}
  <2>1. CASE v.type = w.type
    <3>1. CompareValues(v, w) = Cmp(y[v], y[w])
      BY <1>3, <2>1 DEF CompareValues, BothType
    <3>2. PICK shown \in {ShownDate, ShownInstant} :
             /\ v.at \in DOMAIN shown /\ v.text = shown[v.at]
             /\ w.at \in DOMAIN shown /\ w.text = shown[w.at]
      BY <2>1 DEF Sound
    <3>3. \A a, b \in DOMAIN shown : a < b => TextRank[shown[a]] <= TextRank[shown[b]]
      BY DateAssumption
    <3>4. /\ y[v] < y[w] => x[v] <= x[w]
          /\ y[w] < y[v] => x[w] <= x[v]
          /\ y[v] = y[w] => x[v] = x[w]
      BY <1>3, <3>2, <3>3
    <3>5. x[v] \in Int /\ x[w] \in Int /\ y[v] \in Int /\ y[w] \in Int
      BY <1>3
    <3>6. (InLex(x, y, v, w) <=> y[v] < y[w]) /\ (InLex(x, y, w, v) <=> y[w] < y[v])
      BY <3>4, <3>5 DEF InLex
    <3> QED
      BY <3>1, <3>5, <3>6, CmpIs
  <2>2. CASE v.type # w.type
    <3>1. CompareValues(v, w) = Cmp(x[v], x[w])
      BY <1>3, <2>2 DEF CompareValues, BothType, Numeric
    <3>2. v.text # w.text
      BY <2>2, DateAssumption DEF Sound
    <3>3. x[v] # x[w]
      BY <1>1, <1>3, <3>2, OrderAssumption
    <3>4. x[v] \in Int /\ x[w] \in Int
      BY <1>3
    <3>5. (InLex(x, y, v, w) <=> x[v] < x[w]) /\ (InLex(x, y, w, v) <=> x[w] < x[v])
      BY <3>3, <3>4 DEF InLex
    <3> QED
      BY <3>1, <3>4, <3>5, CmpIs
  <2> QED
    BY <2>1, <2>2
<1>5. Ranked(V, x, y)
  BY <1>4 DEF Ranked
<1> QED
  BY <1>3, <1>5

LEMMA ShapeRanked ==
    ASSUME NEW V, \A v \in V : Sound(v), OneScale(V),
           NEW shape, \A v \in V : ShapeOf(v) = shape
    PROVE  \E x, y \in [V -> Int] : Ranked(V, x, y)
<1>1. \A v \in V : v.type \in Types /\ TextRank[v.text] \in Int
  BY OrderAssumption DEF Sound
<1>2. CASE shape = "number"
  <2> DEFINE x == [v \in V |-> v.at]
  <2>1. \A v \in V : Numeric(v) /\ v.type \notin {"date", "datetime"}
    BY <1>1, <1>2 DEF ShapeOf, Types, Numeric
  <2>2. \A v \in V : v.at \in Int
    BY <2>1 DEF Sound, Numeric, OneScale
  <2>3. x \in [V -> Int] /\ \A v \in V : x[v] = v.at
    BY <2>2
  <2>4. \A v, w \in V : CompareValues(v, w) = Cmp(v.at, w.at)
    <3>1. CASE \A v \in V : v.type = "int"
      BY <3>1 DEF CompareValues, BothType
    <3>2. CASE \A v \in V : v.at # NaN /\ AsF64(v) = v.at
      BY <2>1, <3>2 DEF CompareValues, BothType, FloatCmp
    <3> QED
      BY <2>1, <3>1, <3>2 DEF OneScale
  <2> HIDE DEF x
  <2> QED
    BY <2>3, <2>4, RankedByOne
<1>3. CASE shape = "date"
  <2>1. \A v \in V : v.type \in {"date", "datetime"}
    BY <1>1, <1>3 DEF ShapeOf, Types
  <2> QED
    BY <2>1, DatesRanked
<1>4. CASE shape \notin {"number", "date"}
  <2> DEFINE x == [v \in V |-> TextRank[v.text]]
  <2>1. \A v \in V : ~Numeric(v) /\ v.type \notin {"int", "date", "datetime"}
    BY <1>1, <1>4 DEF ShapeOf, Types, Numeric
  <2>2. x \in [V -> Int] /\ \A v \in V : x[v] = TextRank[v.text]
    BY <1>1
  <2>3. \A v, w \in V : CompareValues(v, w) = Cmp(TextRank[v.text], TextRank[w.text])
    BY <2>1 DEF CompareValues, BothType
  <2> HIDE DEF x
  <2> QED
    BY <2>2, <2>3, RankedByOne
<1> QED
  BY <1>2, <1>3, <1>4


LEMMA RankedSorts ==
    ASSUME NEW notes, DOMAIN notes \subseteq Path, NEW key, NEW V,
           \A p \in DOMAIN notes : key \in DOMAIN notes[p] => notes[p][key] \in V,
           NEW x \in [V -> Int], NEW y \in [V -> Int], Ranked(V, x, y)
    PROVE  Sorts(notes, key)
<1> SUFFICES ASSUME NEW desc \in BOOLEAN
             PROVE  LET q == [ParsedQuery EXCEPT !.order = key, !.desc = desc] IN
                    \A p, r, s \in DOMAIN notes :
                       Before(notes, q, p, r) /\ Before(notes, q, r, s) => Before(notes, q, p, s)
  BY Zenon DEF Sorts
<1> DEFINE q == [ParsedQuery EXCEPT !.order = key, !.desc = desc]
           D == DOMAIN notes
           k(p) == OrderKey(notes, q, p)
           m == [p \in D |-> IF k(p) = Missing THEN 1 ELSE 0]
           a == [p \in D |-> IF k(p) = Missing THEN 0 ELSE IF desc THEN 0 - x[k(p)] ELSE x[k(p)]]
           b == [p \in D |-> IF k(p) = Missing THEN 0 ELSE IF desc THEN 0 - y[k(p)] ELSE y[k(p)]]
           c == [p \in D |-> PathRank[p]]
           before(p, r) == Before(notes, q, p, r)
<1>1. q.desc = desc /\ q.order = key
  BY DEF ParsedQuery
<1>2. \A p \in D : k(p) # Missing => k(p) \in V
  BY <1>1 DEF OrderKey, Lookup
<1>3. \A p \in D : PathRank[p] \in Int
  BY OrderAssumption
<1>4. \A v \in V : x[v] \in Int /\ y[v] \in Int
  OBVIOUS
<1> HIDE DEF k, D
<1>5. \A p \in D : k(p) # Missing => x[k(p)] \in Int /\ y[k(p)] \in Int
  BY <1>2, <1>4
<1>6. m \in [D -> Int] /\ a \in [D -> Int] /\ b \in [D -> Int] /\ c \in [D -> Int]
  BY <1>3, <1>5
<1>7. \A p \in D :
         /\ m[p] = (IF k(p) = Missing THEN 1 ELSE 0) /\ c[p] = PathRank[p]
         /\ k(p) = Missing => a[p] = 0 /\ b[p] = 0
         /\ k(p) # Missing /\ desc => a[p] = 0 - x[k(p)] /\ b[p] = 0 - y[k(p)]
         /\ k(p) # Missing /\ ~desc => a[p] = x[k(p)] /\ b[p] = y[k(p)]
  OBVIOUS
<1> HIDE DEF m, a, b, c
<1>8. ASSUME NEW p \in D, NEW r \in D
      PROVE  before(p, r) <=>
                \/ m[p] < m[r]
                \/ m[p] = m[r] /\ a[p] < a[r]
                \/ m[p] = m[r] /\ a[p] = a[r] /\ b[p] < b[r]
                \/ m[p] = m[r] /\ a[p] = a[r] /\ b[p] = b[r] /\ c[p] < c[r]
  <2> DEFINE order == OrderCmp(k(p), k(r), desc)
  <2>1. before(p, r) <=> order = "less" \/ (order = "equal" /\ c[p] < c[r])
    BY <1>1, <1>7 DEF Before, k
  <2>2. CASE k(p) = Missing \/ k(r) = Missing
    <3>1. order = Cmp(m[p], m[r])
      BY <1>7, <2>2 DEF OrderCmp
    <3>2. order = "less" <=> m[p] < m[r]
      BY <1>6, <3>1, CmpIs
    <3>3. order = "equal" <=> m[p] = m[r]
      BY <1>7, <3>1 DEF Cmp
    <3>4. m[p] = m[r] => a[p] = a[r] /\ b[p] = b[r] /\ a[p] \in Int /\ b[p] \in Int
      BY <1>6, <1>7, <2>2
    <3> HIDE DEF order, before
    <3> QED
      BY <2>1, <3>2, <3>3, <3>4
  <2>3. CASE k(p) # Missing /\ k(r) # Missing
    <3> DEFINE v == k(p)
               w == k(r)
               base == CompareValues(v, w)
    <3>1. v \in V /\ w \in V
      BY <1>2, <2>3
    <3>2. /\ base = "less" <=> InLex(x, y, v, w)
          /\ base = "greater" <=> InLex(x, y, w, v)
          /\ base \in {"less", "greater", "equal"}
      BY <3>1 DEF Ranked
    <3>3. order = IF desc THEN Reversed(base) ELSE base
      BY <2>3 DEF OrderCmp
    <3>4. /\ m[p] = 0 /\ m[r] = 0
          /\ desc => /\ a[p] = 0 - x[v] /\ b[p] = 0 - y[v] /\ a[r] = 0 - x[w] /\ b[r] = 0 - y[w]
          /\ ~desc => a[p] = x[v] /\ b[p] = y[v] /\ a[r] = x[w] /\ b[r] = y[w]
      BY <1>7, <2>3
    <3>5. x[v] \in Int /\ y[v] \in Int /\ x[w] \in Int /\ y[w] \in Int
      BY <3>1
    <3> HIDE DEF order, before, base, v, w
    <3>6. /\ order = "less" <=> IF desc THEN InLex(x, y, w, v) ELSE InLex(x, y, v, w)
          /\ order = "equal" <=> ~InLex(x, y, w, v) /\ ~InLex(x, y, v, w)
      BY <3>2, <3>3, <3>5 DEF Reversed, InLex
    <3>7. order = "less" <=> a[p] < a[r] \/ (a[p] = a[r] /\ b[p] < b[r])
      BY <3>4, <3>5, <3>6 DEF InLex
    <3>8. order = "equal" <=> a[p] = a[r] /\ b[p] = b[r]
      BY <3>4, <3>5, <3>6 DEF InLex
    <3> QED
      BY <2>1, <3>4, <3>7, <3>8
  <2> QED
    BY <2>2, <2>3
<1> HIDE DEF before, q
<1>9. \A p, r, s \in D : before(p, r) /\ before(r, s) => before(p, s)
  <2> SUFFICES ASSUME NEW p \in D, NEW r \in D, NEW s \in D, before(p, r), before(r, s)
               PROVE  before(p, s)
    OBVIOUS
  <2>1. \A t \in D : m[t] \in Int /\ a[t] \in Int /\ b[t] \in Int /\ c[t] \in Int
    BY <1>6
  <2> QED
    BY <1>8, <2>1
<1> QED
  BY <1>9 DEF before, D, q

(* A key that is not reported has one shape in the index.                    *)
LEMMA OneShape ==
    ASSUME DoctorInv, store # Nothing, NEW key, key \notin DOMAIN report.found.typeDrifts,
           NEW p \in DOMAIN store, key \in DOMAIN store[p].frontmatter,
           NEW r \in DOMAIN store, key \in DOMAIN store[r].frontmatter
    PROVE  ShapeOf(store[p].frontmatter[key]) = ShapeOf(store[r].frontmatter[key])
<1> DEFINE notes == ScanFiles(walk, Seen).notes
           shape == [i \in Carrying(notes, key) |-> ShapeOf(notes[i].frontmatter[key])]
<1>1. /\ walk \in Seq(File) /\ \A f \in DOMAIN Seen : \E j \in DOMAIN walk : walk[j] = f
  BY VaultFacts, SeenIs
<1>2. DOMAIN notes = 1..Len(notes) /\ Len(notes) \in Nat
  BY <1>1, ScanIs, LenProperties
<1>3. report.found.typeDrifts = DetectTypeDrift(notes)
  BY SeenIs DEF DoctorInv, Reported, Printed, Run
<1>4. \A s \in DOMAIN store : \E i \in DOMAIN notes : notes[i] = store[s]
  <2> SUFFICES ASSUME NEW s \in DOMAIN store PROVE \E i \in DOMAIN notes : notes[i] = store[s]
    OBVIOUS
  <2>1. PICK f \in DOMAIN Seen : Loads(f, Seen) /\ store[s] = NoteOf(f, Seen)
    BY StoreIs
  <2>2. PICK j \in DOMAIN walk : walk[j] = f
    BY <1>1
  <2>3. \E i \in DOMAIN notes : notes[i] = ScanOne(walk[j], Seen[walk[j]]).note
    <3>1. \A k \in DOMAIN walk : walk[k] \in DOMAIN Seen /\ Loads(walk[k], Seen) =>
             \E i \in DOMAIN ScanFiles(walk, Seen).notes :
                ScanFiles(walk, Seen).notes[i] = ScanOne(walk[k], Seen[walk[k]]).note
      BY <1>1, ScanIs
    <3> HIDE DEF notes
    <3>2. walk[j] \in DOMAIN Seen /\ Loads(walk[j], Seen)
      BY <2>1, <2>2
    <3> QED
      BY <3>1, <3>2 DEF notes
  <2> QED
    BY <2>1, <2>2, <2>3 DEF NoteOf
<1> HIDE DEF notes
<1>5. PICK i \in DOMAIN notes : notes[i] = store[p]
  BY <1>4
<1>6. PICK j \in DOMAIN notes : notes[j] = store[r]
  BY <1>4
<1>7. i \in Carrying(notes, key) /\ j \in Carrying(notes, key)
  BY <1>5, <1>6 DEF Carrying
<1>8. ~(Cardinality(Shapes(notes, key)) > 1)
  <2>1. key \in UNION {DOMAIN notes[k].frontmatter : k \in DOMAIN notes}
    BY <1>5
  <2> QED
    BY <1>3, <2>1 DEF DetectTypeDrift
<1>9. IsFiniteSet(Carrying(notes, key))
  <2>1. IsFiniteSet(1..Len(notes))
    BY <1>2, FS_Interval
  <2> QED
    BY <1>2, <2>1, FS_Subset DEF Carrying
<1>10. Shapes(notes, key) = {shape[k] : k \in Carrying(notes, key)}
  BY DEF Shapes
<1>11. IsFiniteSet(Shapes(notes, key))
  <2> HIDE DEF shape
  <2> QED
    BY <1>9, <1>10, FiniteImage
<1>12. \A s, t \in Shapes(notes, key) : s = t
  BY <1>8, <1>11, MoreThanOne
<1>13. /\ ShapeOf(notes[i].frontmatter[key]) \in Shapes(notes, key)
       /\ ShapeOf(notes[j].frontmatter[key]) \in Shapes(notes, key)
  BY <1>7 DEF Shapes
<1> QED
  BY <1>5, <1>6, <1>12, <1>13

(* A key that doctor does not report sorts, in both directions.              *)
THEOREM UnreportedKeySorts == Spec => []CleanKeysSort
<1>1. DoctorInv => CleanKeysSort
  <2> SUFFICES ASSUME DoctorInv, store # Nothing,
                      NEW key \in Keys, key \notin DOMAIN report.found.typeDrifts,
                      OneScale({Served[p][key] :
                                   p \in {r \in DOMAIN Served : key \in DOMAIN Served[r]}})
               PROVE  Sorts(Served, key)
    BY DEF CleanKeysSort
  <2> DEFINE notes == Served
             V == {notes[p][key] : p \in {r \in DOMAIN notes : key \in DOMAIN notes[r]}}
  <2>1. key \in DOMAIN SplitAtDots /\ SplitAtDots[key] = <<key>>
    BY DEF Keys
  <2>2. DOMAIN notes = DOMAIN store
    BY DEF Served
  <2>3. ASSUME NEW p \in DOMAIN notes, key \in DOMAIN notes[p]
        PROVE  /\ p \in DOMAIN store /\ key \in DOMAIN store[p].frontmatter
               /\ notes[p][key] = store[p].frontmatter[key]
    <3>1. notes[p] = Resolved(store[p].frontmatter) /\ notes[p][key] \in Values
      BY <2>3, ServedIs
    <3>2. Lookup(notes[p], key) = Lookup(store[p].frontmatter, key)
      BY <2>1, <2>2, <3>1, StoreIs, ResolvedValues
    <3>3. Lookup(notes[p], key) = notes[p][key] /\ notes[p][key] # Missing
      BY <2>3, <3>1, MissingIs DEF Lookup
    <3> QED
      BY <2>2, <3>2, <3>3 DEF Lookup
  <2>4. OneScale(V) /\ \A v \in V : Sound(v)
    BY ServedIs, CoercedSound
  <2>5. \A v, w \in V : ShapeOf(v) = ShapeOf(w)
    <3> SUFFICES ASSUME NEW p \in DOMAIN notes, key \in DOMAIN notes[p],
                        NEW r \in DOMAIN notes, key \in DOMAIN notes[r]
                 PROVE  ShapeOf(notes[p][key]) = ShapeOf(notes[r][key])
      OBVIOUS
    <3> QED
      BY <2>3, OneShape
  <2>6. DOMAIN notes \subseteq Path
    BY ServedIs
  <2>7. \A p \in DOMAIN notes : key \in DOMAIN notes[p] => notes[p][key] \in V
    OBVIOUS
  <2> HIDE DEF V, notes
  <2>8. \E shape : \A v \in V : ShapeOf(v) = shape
    <3>1. CASE V = {}
      BY <3>1
    <3>2. CASE V # {}
      BY <2>5, <3>2
    <3> QED
      BY <3>1, <3>2
  <2>9. PICK x \in [V -> Int], y \in [V -> Int] : Ranked(V, x, y)
    BY <2>4, <2>8, ShapeRanked
  <2>10. Sorts(notes, key)
    BY <2>6, <2>7, <2>9, RankedSorts
  <2> QED
    BY <2>10 DEF notes
<1> QED
  BY <1>1, VaultStandsStill, PTL

-----------------------------------------------------------------------------
(* The counts of a drifting key.                                             *)

\* The sum of the counts, as MapThenSumSet takes it.
Total(c, S) ==
    LET iter[T \in SUBSET S] ==
            IF T = {} THEN 0
            ELSE LET x == CHOOSE x \in T : TRUE IN c[x].count + iter[T \ {x}]
    IN  iter[S]

(* The parts of a set add up to it.                                          *)
LEMMA SumOfParts ==
    ASSUME NEW C, IsFiniteSet(C), NEW S, IsFiniteSet(S), NEW h \in [C -> S], NEW c,
           \A x \in S : c[x].count = Cardinality({i \in C : h[i] = x})
    PROVE  Total(c, S) = Cardinality(C)
<1> DEFINE part(T) == {i \in C : h[i] \in T}
           Sum(g, T) == IF T = {} THEN 0
                        ELSE LET x == CHOOSE x \in T : TRUE IN c[x].count + g[T \ {x}]
           Solves(g) == g = [T \in SUBSET S |-> Sum(g, T)]
           iter == CHOOSE g : Solves(g)
           sizes == [T \in SUBSET S |-> Cardinality(part(T))]
<1>1. \A T : IsFiniteSet(part(T)) /\ Cardinality(part(T)) \in Nat
  BY FS_Subset, FS_CardinalityType
<1>2. ASSUME NEW T \in SUBSET S, NEW x \in T
      PROVE  Cardinality(part(T)) = c[x].count + Cardinality(part(T \ {x}))
  <2> DEFINE one == {i \in C : h[i] = x}
             rest == part(T \ {x})
  <2>1. part(T) = one \cup rest /\ one \cap rest = {}
    OBVIOUS
  <2>2. IsFiniteSet(one) /\ IsFiniteSet(rest)
    BY FS_Subset
  <2>3. c[x].count = Cardinality(one)
    BY <1>2
  <2> HIDE DEF one, rest
  <2>4. Cardinality(one \cup rest) = Cardinality(one) + Cardinality(rest) - Cardinality(one \cap rest)
    BY <2>2, FS_Union
  <2>5. Cardinality(one) \in Nat /\ Cardinality(rest) \in Nat /\ Cardinality(one \cap rest) = 0
    BY <2>1, <2>2, FS_CardinalityType, FS_EmptySet
  <2>6. Cardinality(one \cup rest) = Cardinality(one) + Cardinality(rest)
    BY <2>4, <2>5
  <2> QED
    BY <2>1, <2>3, <2>6 DEF rest
<1>3. Cardinality(part({})) = 0
  BY FS_EmptySet
<1>4. \A T \in SUBSET S : sizes[T] = Cardinality(part(T))
  OBVIOUS
<1> HIDE DEF part, sizes
<1>5. ASSUME NEW T \in SUBSET S, NEW g, T # {} => g[T \ {CHOOSE x \in T : TRUE}] =
                                                  Cardinality(part(T \ {CHOOSE x \in T : TRUE}))
      PROVE  Sum(g, T) = Cardinality(part(T))
  <2>1. CASE T = {}
    BY <1>3, <2>1
  <2>2. CASE T # {}
    <3>1. PICK x \in T : x = CHOOSE y \in T : TRUE
      BY <2>2
    <3> QED
      BY <1>2, <1>5, <2>2, <3>1
  <2> QED
    BY <2>1, <2>2
<1> HIDE DEF Sum
<1>6. Solves(sizes)
  <2>1. \A T \in SUBSET S : Sum(sizes, T) = sizes[T]
    BY <1>4, <1>5
  <2>2. sizes = [T \in SUBSET S |-> sizes[T]]
    BY DEF sizes
  <2> QED
    BY <2>1, <2>2
<1>7. Solves(iter)
  <2> HIDE DEF Solves
  <2> QED
    BY <1>6
<1> HIDE DEF iter
<1>8. \A T \in SUBSET S : iter[T] = Sum(iter, T)
  BY <1>7
<1> DEFINE K == {n \in Nat : \A T \in SUBSET S : Cardinality(T) <= n => iter[T] = Cardinality(part(T))}
<1>9. \A T \in SUBSET S : IsFiniteSet(T) /\ Cardinality(T) \in Nat
  BY FS_Subset, FS_CardinalityType
<1>10. 0 \in K
  <2> SUFFICES ASSUME NEW T \in SUBSET S, Cardinality(T) <= 0
               PROVE  iter[T] = Cardinality(part(T))
    OBVIOUS
  <2>1. T = {}
    BY <1>9, FS_EmptySet
  <2> QED
    BY <1>5, <1>8, <2>1
<1>11. ASSUME NEW n \in Nat, n \in K PROVE n + 1 \in K
  <2> SUFFICES ASSUME NEW T \in SUBSET S, Cardinality(T) <= n + 1
               PROVE  iter[T] = Cardinality(part(T))
    OBVIOUS
  <2>1. ASSUME T # {}
        PROVE  iter[T \ {CHOOSE x \in T : TRUE}] = Cardinality(part(T \ {CHOOSE x \in T : TRUE}))
    <3>1. PICK x \in T : x = CHOOSE y \in T : TRUE
      BY <2>1
    <3>2. Cardinality(T \ {x}) <= n /\ T \ {x} \in SUBSET S
      BY <1>9, FS_RemoveElement
    <3> QED
      BY <1>11, <3>1, <3>2
  <2> QED
    BY <1>5, <1>8, <2>1
<1> HIDE DEF K
<1>12. Cardinality(S) \in K
  BY <1>9, <1>10, <1>11, InductionSet
<1>13. iter[S] = Cardinality(part(S))
  BY <1>9, <1>12 DEF K
<1>14. part(S) = C
  BY DEF part
<1>15. Total(c, S) = iter[S]
  BY DEF Total, iter, Solves, Sum
<1> QED
  BY <1>13, <1>14, <1>15

LEMMA ShapeCounted ==
    ASSUME NEW S, NEW notes \in Seq(S), NEW key, NEW shape \in Shapes(notes, key)
    PROVE  LET d == DriftShape(notes, key, shape) IN
           /\ d.count = Cardinality({i \in Carrying(notes, key) :
                                        ShapeOf(notes[i].frontmatter[key]) = shape})
           /\ \E i \in DOMAIN notes : d.samples[1] = notes[i].path
<1> DEFINE T == {i \in Carrying(notes, key) : ShapeOf(notes[i].frontmatter[key]) = shape}
           of == OfShape(notes, key, shape)
           n == IF Len(of) < DriftSamplesPerShape THEN Len(of) ELSE DriftSamplesPerShape
           first == SubSeq(of, 1, n)
           d == DriftShape(notes, key, shape)
<1>1. T \in SUBSET DOMAIN notes /\ T # {}
  BY DEF Carrying, Shapes
<1>2. of = Kept(notes, T)
  BY DEF OfShape
<1>3. d.count = Len(of) /\ d.samples = [i \in DOMAIN first |-> first[i].path]
  BY DEF DriftShape
<1> HIDE DEF of, T, d
<1>4. of \in Seq(S) /\ Len(of) = Cardinality(T)
  BY <1>1, <1>2, KeptSeq
<1>5. /\ DOMAIN of = 1..Len(of) /\ Len(of) \in Nat
      /\ \A k \in DOMAIN of : \E i \in T : of[k] = notes[i]
      /\ \A i \in T : \E k \in DOMAIN of : of[k] = notes[i]
  BY <1>1, <1>2, KeptMembers
<1>6. Len(of) # 0 /\ 1 \in DOMAIN of
  BY <1>1, <1>5
<1>7. n \in 0..Len(of) /\ 1 \in 1..n
  BY <1>5, <1>6 DEF DriftSamplesPerShape
<1> HIDE DEF n
<1>8. first \in Seq(S) /\ Len(first) = n /\ \A i \in 1..n : first[i] = of[i]
  BY <1>4, <1>7, FirstOfSeq
<1>9. DOMAIN first = 1..n
  BY <1>8, LenProperties
<1> HIDE DEF first
<1>10. d.samples[1] = of[1].path
  BY <1>3, <1>7, <1>8, <1>9
<1>11. PICK i \in T : of[1] = notes[i]
  BY <1>5, <1>6
<1>12. d.count = Cardinality(T) /\ i \in DOMAIN notes /\ d.samples[1] = notes[i].path
  BY <1>1, <1>3, <1>4, <1>10, <1>11
<1> QED
  BY <1>12 DEF d, T

(* The counts of a drifting key add up to the notes that carry it.           *)
THEOREM DriftAccounts == Spec => []DriftAccountsForNotes
<1>1. DoctorInv => DriftAccountsForNotes
  <2> DEFINE notes == Scan(walk, files, closed).notes
             drifts == report.found.typeDrifts
  <2> SUFFICES ASSUME DoctorInv, report # NotRun, NEW key \in DOMAIN drifts
               PROVE  /\ {drifts[key][s].samples[1] : s \in DOMAIN drifts[key]} \subseteq
                            {notes[i].path : i \in DOMAIN notes}
                      /\ MapThenSumSet(LAMBDA s : drifts[key][s].count, DOMAIN drifts[key]) =
                            Cardinality({i \in DOMAIN notes : key \in DOMAIN notes[i].frontmatter})
    BY DEF DriftAccountsForNotes
  <2> DEFINE C == Carrying(notes, key)
             S == Shapes(notes, key)
             shape == [i \in C |-> ShapeOf(notes[i].frontmatter[key])]
             c == drifts[key]
  <2>1. notes \in Seq({ScanOne(f, Seen[f]).note : f \in DOMAIN Seen})
    BY VaultFacts, ScanIs, SeenIs
  <2>2. DOMAIN notes = 1..Len(notes) /\ Len(notes) \in Nat
    BY <2>1, LenProperties
  <2>3. drifts = DetectTypeDrift(notes)
    BY DEF DoctorInv, Reported, Printed, Run
  <2> HIDE DEF notes
  <2>4. DOMAIN c = S /\ \A s \in S : c[s] = DriftShape(notes, key, s)
    BY <2>3 DEF DetectTypeDrift
  <2>5. C = {i \in DOMAIN notes : key \in DOMAIN notes[i].frontmatter}
    BY DEF Carrying
  <2>6. S = {shape[i] : i \in C} /\ shape \in [C -> S]
    BY DEF Shapes
  <2>7. IsFiniteSet(C)
    <3>1. IsFiniteSet(1..Len(notes))
      BY <2>2, FS_Interval
    <3> QED
      BY <2>2, <2>5, <3>1, FS_Subset
  <2>8. \A s \in S :
           /\ c[s].count = Cardinality({i \in C : ShapeOf(notes[i].frontmatter[key]) = s})
           /\ \E i \in DOMAIN notes : c[s].samples[1] = notes[i].path
    BY <2>1, <2>4, ShapeCounted
  <2>9. \A i \in C : shape[i] = ShapeOf(notes[i].frontmatter[key])
    OBVIOUS
  <2> HIDE DEF C, S, shape
  <2>10. IsFiniteSet(S)
    BY <2>6, <2>7, FiniteImage
  <2>11. \A s \in S : c[s].count = Cardinality({i \in C : shape[i] = s})
    <3> SUFFICES ASSUME NEW s \in S PROVE c[s].count = Cardinality({i \in C : shape[i] = s})
      OBVIOUS
    <3>1. {i \in C : shape[i] = s} = {i \in C : ShapeOf(notes[i].frontmatter[key]) = s}
      BY <2>9
    <3> QED
      BY <2>8, <3>1
  <2> HIDE DEF c
  <2>12. Total(c, S) = Cardinality(C)
    BY <2>6, <2>7, <2>10, <2>11, SumOfParts
  <2>13. MapThenSumSet(LAMBDA s : drifts[key][s].count, DOMAIN drifts[key]) = Total(c, DOMAIN c)
    BY DEF MapThenSumSet, MapThenFoldSet, Total, c
  <2>14. {c[s].samples[1] : s \in S} \subseteq {notes[i].path : i \in DOMAIN notes}
    BY <2>8
  <2> QED
    BY <2>4, <2>5, <2>12, <2>13, <2>14 DEF c
<1> QED
  BY <1>1, VaultStandsStill, PTL

=============================================================================
