------------------------------ MODULE MCWebApp ------------------------------
(* The model-checking run of WebApp. *)
EXTENDS WebApp
=============================================================================
