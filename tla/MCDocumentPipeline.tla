------------------------- MODULE MCDocumentPipeline -------------------------
(***************************************************************************)
(* Instances of DocumentPipeline for TLC.  Documents and workers are model *)
(* values that nothing orders, so the safety runs use their symmetry.      *)
(***************************************************************************)
EXTENDS DocumentPipeline, TLC

Symmetry == Permutations(Documents) \cup Permutations(Workers)
=============================================================================
