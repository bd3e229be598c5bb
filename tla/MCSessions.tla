------------------------------ MODULE MCSessions ------------------------------
(* The sign-in of one user for TLC.                                         *)
EXTENDS Sessions, TLC

\* Calls are interchangeable.
CallSymmetry == Permutations(Calls)
=============================================================================
