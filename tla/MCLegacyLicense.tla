--------------------------- MODULE MCLegacyLicense ---------------------------
(***************************************************************************)
(* Instance of LegacyLicense: the first machine has two v1 hashes, the     *)
(* second has one.  Calls are interchangeable.                             *)
(***************************************************************************)
EXTENDS LegacyLicense, TLC

CONSTANTS m1, m2, f1, g1, f2

MCMachineOf == (f1 :> m1) @@ (g1 :> m1) @@ (f2 :> m2)
MCLegacyRow == (f1 :> 1) @@ (g1 :> 2) @@ (f2 :> 3)

\* What becomes of a plan change that the cutoff overtakes is explored when all
\* requests have been made; otherwise the cutoff comes without any act.
LateCutoff ==
  /\ fallback # fallback' => acts = 0 \/ (change.todo # {} /\ requests = MaxRequests)
  /\ acts # acts' => fallback

Symmetry == Permutations(Calls)

=============================================================================
