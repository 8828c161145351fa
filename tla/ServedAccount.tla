--------------------------- MODULE ServedAccount ---------------------------
(***************************************************************************)
(* What moving an account promises to its owner: at most one cell serves   *)
(* the account at a time, and a cell that takes it up serves exactly what  *)
(* was last written anywhere.                                              *)
(***************************************************************************)
EXTENDS Naturals

CONSTANTS Cell, Home, None

VARIABLES
    home,  \* the cell that serves the account, or None
    data   \* the number of writes the account has seen

vars == <<home, data>>

Init == home = Home /\ data = 0

Write == home # None /\ data' = data + 1 /\ UNCHANGED home

Suspend == home # None /\ home' = None /\ UNCHANGED data

Resume(c) == home = None /\ home' = c /\ UNCHANGED data

Next == Write \/ Suspend \/ \E c \in Cell : Resume(c)

Spec == Init /\ [][Next]_vars
=============================================================================
