------------------------------ MODULE MCIndex ------------------------------
(* The instance of the index pipeline that is compared with VaultIndex. *)
EXTENDS MCPipeline, IndexRefinement
=============================================================================
