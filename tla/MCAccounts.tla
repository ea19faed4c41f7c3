------------------------------ MODULE MCAccounts ------------------------------
(***************************************************************************)
(* Instance of Accounts: requests, identities and emails are               *)
(* interchangeable.                                                        *)
(***************************************************************************)
EXTENDS Accounts, TLC

Symmetry == Permutations(Calls) \cup Permutations(Identities) \cup Permutations(Emails)

=============================================================================
