------------------------------ MODULE MCVault ------------------------------
(***************************************************************************)
(* Small instances of VaultKeyStore.                                       *)
(***************************************************************************)
EXTENDS VaultKeyStore, TLC

CONSTANTS d1, d2, e1, e2, here, there

TwoDeks        == {d1, d2}
TwoEnrollments == {e1, e2}
TwoLocations   == {here, there}

Interchangeable ==
    Permutations(TwoDeks) \cup Permutations(TwoEnrollments) \cup Permutations(TwoLocations)
=============================================================================
