----------------------------- MODULE MCHttpPool -----------------------------
(* Instances of HttpPool for TLC. *)
EXTENDS HttpPool, TLC

Interchangeable == Permutations(Requests)
=============================================================================
