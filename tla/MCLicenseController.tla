------------------------ MODULE MCLicenseController ------------------------
(* The instance of LicenseController that TLC checks.                      *)
EXTENDS LicenseController
=============================================================================
