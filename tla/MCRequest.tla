------------------------------ MODULE MCRequest ------------------------------
(***************************************************************************)
(* Small instances of MessageRequest: a coordinator and two candidates.    *)
(* The candidates are interchangeable.                                     *)
(***************************************************************************)
EXTENDS MessageRequest, TLC

CONSTANTS coordinator, a1, a2

MCAgents   == {coordinator, a1, a2}
Candidates == Permutations({a1, a2})
=============================================================================
