------------------------------ MODULE MCMembers ------------------------------
(***************************************************************************)
(* Small instances of Members.  Whoever may write, the users are            *)
(* interchangeable, as tenants and requests are.                            *)
(***************************************************************************)
EXTENDS Members, TLC

Interchangeable ==
    Permutations(Users) \cup Permutations(Tenants) \cup Permutations(Requests)
=============================================================================
