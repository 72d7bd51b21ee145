-------------------------- MODULE MCLicenseServer --------------------------
(* The instances of LicenseServer that TLC checks.                         *)
EXTENDS LicenseServer, TLC

CONSTANTS u1, u2, d1, d2, k1, k2, k3, w1, w2

OneUser == {u1}
TwoUsers == {u1, u2}
OneDevice == {d1}
TwoDevices == {d1, d2}
OneKey == {k1}
TwoKeys == {k1, k2}
ThreeKeys == {k1, k2, k3}
OneWorker == {w1}
TwoWorkers == {w1, w2}

\* Accounts, devices, keys and workers are interchangeable.
Symmetry ==
  Permutations(TwoUsers) \cup Permutations(TwoDevices) \cup Permutations(ThreeKeys)
    \cup Permutations(TwoWorkers)
=============================================================================
