---------------------------- MODULE MCOfflineClient ----------------------------
(***************************************************************************)
(* Instance of OfflineClient: processes are interchangeable.               *)
(***************************************************************************)
EXTENDS OfflineClient, TLC

Symmetry == Permutations(Procs)

=============================================================================
