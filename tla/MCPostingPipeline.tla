------------------------- MODULE MCPostingPipeline -------------------------
(* Instance of PostingPipeline for TLC: see pipeline.cfg.                   *)
EXTENDS PostingPipeline
=============================================================================
