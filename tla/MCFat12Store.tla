----------------------------- MODULE MCFat12Store -----------------------------
(* The instances of Fat12 as a file store. *)
EXTENDS MCFat12, Fat12Store
=============================================================================
