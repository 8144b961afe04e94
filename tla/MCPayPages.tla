----------------------------- MODULE MCPayPages -----------------------------
(* The model-checking run of PayPages. *)
EXTENDS PayPages
=============================================================================
