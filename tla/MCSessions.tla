------------------------------ MODULE MCSessions ------------------------------
(***************************************************************************)
(* Instance of Sessions: requests are interchangeable.                     *)
(***************************************************************************)
EXTENDS Sessions, TLC

Symmetry == Permutations(Calls)

=============================================================================
