------------------------- MODULE MCProjectionPipeline -------------------------
(***************************************************************************)
(* Values for model-checking ProjectionPipeline.                           *)
(***************************************************************************)
EXTENDS ProjectionPipeline

MCRebuildable == {"messages"}
=============================================================================
