------------------------------ MODULE MCReceipt -------------------------------
(* Instances of the edge adapter for TLC.                                    *)
EXTENDS OutboundReceipt

CONSTANT s1
=============================================================================
