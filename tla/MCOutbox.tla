------------------------------- MODULE MCOutbox -------------------------------
(* Instances of the outbox for TLC.                                          *)
EXTENDS AgentEmailOutbound

CONSTANTS s1, s2, a1, a2, box1, m1, e1, e2, e3

\* One account, one or two sends to one mailbox.
OneOwner   == [s \in Sends |-> a1]
OneMailbox == [s \in Sends |-> box1]

\* Two accounts, one send each.
TwoOwners  == [s \in Sends |-> IF s = s1 THEN a1 ELSE a2]
=============================================================================
