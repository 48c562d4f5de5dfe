------------------------------ MODULE MCSignIn ------------------------------
EXTENDS Admission, TLC

Interchangeable == Permutations(Requests) \cup Permutations(Browsers)
=============================================================================
