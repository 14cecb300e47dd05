-------------------------- MODULE MCRenderDataTable --------------------------
(* RenderDataTable on a few interchangeable paths. *)
EXTENDS RenderDataTable, TLC

PathSymmetry == Permutations(Paths)
=============================================================================
