------------------------------ MODULE MCPipeline ------------------------------
(* Instances of the outbound path for TLC: one send of one account.          *)
EXTENDS AgentEmailOutboundPipeline

CONSTANTS s1, a1, box1, e1, w1, w2

OneOwner   == [s \in Sends |-> a1]
OneMailbox == [s \in Sends |-> box1]
=============================================================================
