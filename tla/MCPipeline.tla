----------------------------- MODULE MCPipeline -----------------------------
(* Small instances of the index pipeline. *)
EXTENDS IndexPipelineSafety, TLC

CONSTANTS na, nb, nc, d1, d2, dx, v1, v2, bad, absent, root

\* A note in a directory.
OneTreeInside == (d1 :> {nb})

\* A note in a directory in a directory, and a note in a directory beside them.
DeepInside == (d1 :> {nb, dx} @@ dx :> {nb} @@ d2 :> {nc})

\* A note in the root, and a directory that holds no note of interest.
FlatInside == (d1 :> {})

\* A directory whose name has the suffix of a note.
SuffixInside == (dx :> {nb})
=============================================================================
