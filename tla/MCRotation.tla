----------------------------- MODULE MCRotation -----------------------------
(***************************************************************************)
(* A small instance of VaultRotation: two commands, each at either of two  *)
(* installations.                                                          *)
(***************************************************************************)
EXTENDS VaultRotation, TLC

CONSTANTS d1, here, there, p, q

NoEnrollments  == {}
OneDek         == {d1}
TwoLocations   == {here, there}
TwoProcs       == {p, q}

Interchangeable == Permutations(TwoProcs)
=============================================================================
