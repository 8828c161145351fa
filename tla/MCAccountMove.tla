--------------------------- MODULE MCAccountMove ---------------------------
(***************************************************************************)
(* A small instance of AccountMove: an account moved between two cells.    *)
(***************************************************************************)
EXTENDS AccountMove

CONSTANTS a, b

TwoCells == {a, b}
=============================================================================
