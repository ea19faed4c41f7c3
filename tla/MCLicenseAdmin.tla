---------------------------- MODULE MCLicenseAdmin ----------------------------
(***************************************************************************)
(* Instance of LicenseAdmin.  Calls are not declared interchangeable: the  *)
(* run checks a liveness property.                                         *)
(***************************************************************************)
EXTENDS LicenseAdmin

=============================================================================
