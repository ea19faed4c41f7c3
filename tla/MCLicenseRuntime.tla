-------------------------- MODULE MCLicenseRuntime --------------------------
(***************************************************************************)
(* Instance of LicenseRuntime: calls and rows are interchangeable.         *)
(***************************************************************************)
EXTENDS LicenseRuntime, TLC

Symmetries ==
  Permutations(Calls) \cup Permutations(DeviceIds) \cup Permutations(Fingerprints)

\* The plan starts at its largest and is resized from there.
FromLargest == \A size \in PlanSizes : size <= peak

\* No call but an activation arrives.
OnlyActivations ==
  \A c \in Calls : pc[c] = "idle" /\ pc'[c] # "idle" => \E f \in Fingerprints : Activate(c, f)

=============================================================================
