--------------------------- MODULE BoundedAssignment ---------------------------
(***************************************************************************)
(* What an open message request promises its coordinator, with no leases,  *)
(* deadlines or selections: while it lasts, agents are put to work within  *)
(* a capacity shared by work and results; a worker may lose its work at    *)
(* any moment; only a worker may deliver a result; a result stays; and     *)
(* when the request is over nobody works for it.                           *)
(***************************************************************************)
EXTENDS Naturals, FiniteSets

CONSTANT Agents  \* agents that may be put to work

VARIABLES
    capacity, \* bound of work and results together, set as it begins
    phase,    \* before, during or after the request
    workers,  \* agents with authority to work
    results   \* agents whose result was accepted

vars == <<capacity, phase, workers, results>>

Init == capacity = 0 /\ phase = "before" /\ workers = {} /\ results = {}

Begin ==
    /\ phase = "before" /\ phase' = "during"
    /\ capacity' \in Nat
    /\ UNCHANGED <<workers, results>>

\* New work goes to agents without work or result; others may lose theirs meanwhile.
Assign(agents) ==
    /\ phase = "during"
    /\ agents \cap (workers \cup results) = {}
    /\ \E kept \in SUBSET workers :
          /\ workers' = kept \cup agents
          /\ Cardinality(workers' \cup results) <= capacity
    /\ UNCHANGED <<capacity, phase, results>>

\* One worker at most delivers, others may lose their work, and the request may end.
Progress ==
    /\ phase = "during" /\ phase' \in {"during", "after"}
    /\ \E delivered \in SUBSET workers :
          /\ Cardinality(delivered) <= 1
          /\ results' = results \cup delivered
          /\ workers' \in SUBSET (workers \ delivered)
    /\ phase' = "after" => workers' = {}
    /\ UNCHANGED capacity

Next == Begin \/ Progress \/ \E agents \in SUBSET Agents : Assign(agents)

Spec == Init /\ [][Next]_vars

=============================================================================
