------------------------------ MODULE MCOAuth ------------------------------
(***************************************************************************)
(* Small instances of OAuth: requests and grants are interchangeable.       *)
(***************************************************************************)
EXTENDS OAuth, TLC

Interchangeable == Permutations(Grants) \cup Permutations(Requests)
=============================================================================
