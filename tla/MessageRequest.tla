---------------------------- MODULE MessageRequest ----------------------------
(***************************************************************************)
(* One open message request of internal/store/message_request.go: a        *)
(* coordinator asks the agents of its realm for help, candidates offer or  *)
(* decline, the coordinator reserves some of them, and a selected agent    *)
(* claims, renews, releases or completes its work under a lease.  There is *)
(* no scheduler: deadlines take effect when some call touches the request. *)
(*                                                                         *)
(* Every call locks the request row, so a call is one action.  But every   *)
(* statement of a call reads clock_timestamp() for itself, so a deadline   *)
(* may pass between two statements of one call: an action reads the clock  *)
(* several times, in order, and leaves it at its last reading.             *)
(*                                                                         *)
(* Left out: messages and their bodies; calls repeated with their          *)
(* idempotency key, which change nothing; failure counts; the claim        *)
(* generation, which is 1 while a row is claimed; the retention that       *)
(* deletes closed requests; and calls answered with a conflict, which roll *)
(* back or commit only what Reconcile commits.                             *)
(***************************************************************************)
EXTENDS Integers, FiniteSets

CONSTANTS
    Agents,         \* agents of the realm
    Coordinator,    \* the agent that opens the request
    AssigneeLimits, \* max_assignees a caller asks for
    MaxSelections,  \* maxMessageRequestSelectionHistory
    OfferWindows,   \* offer windows a caller asks for
    Lifetimes,      \* lifetimes a caller asks for
    Leases,         \* reservation and lease durations a caller asks for
    Slip,           \* bound: ticks that pass within one call
    MaxTime         \* bound of the clock

ASSUME RequestAssumption ==
    /\ Coordinator \in Agents
    /\ IsFiniteSet(Agents)
    /\ AssigneeLimits \cup {MaxSelections} \subseteq Nat \ {0}
    /\ OfferWindows \subseteq Nat \ {0} /\ Lifetimes \subseteq Nat /\ Leases \subseteq Nat \ {0}
    /\ {Slip, MaxTime} \subseteq Nat

VARIABLES
    request,  \* the request with its candidates and claims
    live,     \* agents not deleted
    now

vars == <<request, live, now>>

-----------------------------------------------------------------------------
(* Rows *)

\* A request is absent, open, completed, cancelled or expired; a response none, pending,
\* offered or declined; a claim none, active, released, completed or cancelled.
ActiveStates == {"reserved", "claimed"}

\* A claim is named by the generation of its selection and its agent.
ClaimIds == (1 .. MaxSelections) \X Agents

NoClaim == [state |-> "none", lease |-> 0]

AbsentRequest ==
    [state |-> "absent", limit |-> 0, generation |-> 0, offerDeadline |-> 0, expiresAt |-> 0,
     response |-> [a \in Agents |-> "none"], claim |-> [i \in ClaimIds |-> NoClaim]]

ClaimsIn(r, states) == {i \in ClaimIds : r.claim[i].state \in states}

Active(r)    == ClaimsIn(r, ActiveStates)
LiveAt(r, t) == {i \in Active(r) : r.claim[i].lease > t}

\* Claims that use up capacity.
InUse(r, t) == ClaimsIn(r, {"completed"}) \cup LiveAt(r, t)

WithClaims(r, ids, state) ==
    [r EXCEPT !.claim = [i \in ClaimIds |->
        IF i \in ids THEN [state |-> state, lease |-> 0] ELSE r.claim[i]]]

WithLease(r, i, state, lease) == [r EXCEPT !.claim[i] = [state |-> state, lease |-> lease]]

EarlierOf(a, b) == IF a < b THEN a ELSE b

-----------------------------------------------------------------------------
(* Deadlines *)

OpenAt(r, t) == r.state = "open" /\ r.expiresAt > t

\* expireDueMessageRequestsTx
ExpireDue(r, t) ==
    IF r.state = "open" /\ r.expiresAt <= t
    THEN WithClaims([r EXCEPT !.state = "expired"], Active(r), "cancelled")
    ELSE r

CompleteIfSettled(r, t) ==
    IF OpenAt(r, t) /\ ClaimsIn(r, {"completed"}) # {} /\ Active(r) = {}
    THEN [r EXCEPT !.state = "completed"] ELSE r

\* settleMessageRequestClaimsTx: lapsed claims are cancelled at t, and at u a request
\* with a result and no work left is completed.  The query that looks for such a
\* request reads the clock first; finding none is the case of t at its reading.
SettleClaims(r, t, u) ==
    IF r.state # "open" THEN r
    ELSE CompleteIfSettled(WithClaims(r, Active(r) \ LiveAt(r, t), "cancelled"), u)

\* Clock readings of one call, in order.
Readings ==
    {c \in [1 .. 7 -> now .. EarlierOf(now + Slip, MaxTime)] :
        \A k \in 1 .. 6 : c[k] <= c[k + 1]}

\* reconcileMessageRequestsTx, from the k-th reading on
ReconciledFrom(r, c, k) == SettleClaims(ExpireDue(r, c[k]), c[k + 1], c[k + 2])

Reconciled(r, c) == ReconciledFrom(r, c, 1)

Commit(c, r) == request' = r /\ now' = c[7]

\* The call of a live agent finds an open request, and goes on with what
\* commitDueMessageRequestExpiryTx makes of it when that is still open.
Calling(a) == a \in live /\ OpenAt(request, now) /\ UNCHANGED live

-----------------------------------------------------------------------------
(* Calls of the coordinator *)

Open ==
    /\ Coordinator \in live /\ live # {Coordinator}
    /\ request.state = "absent"
    /\ \E window \in OfferWindows, lifetime \in Lifetimes, limit \in AssigneeLimits :
          /\ window < lifetime
          /\ request' = [AbsentRequest EXCEPT
                !.state = "open", !.limit = limit, !.offerDeadline = now + window, !.expiresAt = now + lifetime,
                !.response = [a \in Agents |->
                    IF a \in live \ {Coordinator} THEN "pending" ELSE "none"]]
    /\ UNCHANGED <<live, now>>

HistoryOpen(r) == r.generation < MaxSelections

\* The guard of the statement that advances the selection generation.
SelectionDue(r, t) ==
    /\ r.expiresAt > t
    /\ r.offerDeadline <= t \/ \A a \in Agents : r.response[a] # "pending"

CapacityBesideClaimed(selected, r, t) ==
    /\ \A a \in selected : r.response[a] = "offered" /\ a \in live
    /\ Cardinality(ClaimsIn(r, {"claimed", "completed"})) + Cardinality(selected) <= r.limit

CapacityFor(selected, r, t) ==
    /\ \A a \in selected : r.response[a] = "offered" /\ a \in live
    /\ Cardinality(InUse(r, t)) + Cardinality(selected) <= r.limit

NotAssigned(selected, r, t) == \A i \in InUse(r, t) : i[2] \notin selected

ReservePastExpiry(selected, lease, r, t) ==
    LET g == r.generation + 1 IN
    [r EXCEPT !.generation = g, !.claim = [i \in ClaimIds |->
        IF i[1] = g /\ i[2] \in selected
        THEN [state |-> "reserved", lease |-> t + lease] ELSE r.claim[i]]]

Reserve(selected, lease, r, t) ==
    LET g == r.generation + 1 IN
    [r EXCEPT !.generation = g, !.claim = [i \in ClaimIds |->
        IF i[1] = g /\ i[2] \in selected
        THEN [state |-> "reserved", lease |-> EarlierOf(r.expiresAt, t + lease)]
        ELSE r.claim[i]]]

Select(selected, lease) ==
    /\ Calling(Coordinator)
    /\ \E c \in Readings : LET r == Reconciled(request, c) IN
       /\ r.state = "open"
       /\ HistoryOpen(r)
       /\ CapacityFor(selected, r, c[4])
       /\ NotAssigned(selected, r, c[5])
       /\ SelectionDue(r, c[7])
       /\ Commit(c, Reserve(selected, lease, r, c[6]))

Cancel ==
    /\ Calling(Coordinator)
    /\ \E c \in Readings : LET r == Reconciled(request, c) IN
       /\ r.state = "open"
       /\ r.expiresAt > c[7]
       /\ Commit(c, WithClaims([r EXCEPT !.state = "cancelled"], Active(r), "cancelled"))

-----------------------------------------------------------------------------
(* Calls of a candidate *)

RespondUntilExpiry(a, response) ==
    /\ Calling(a)
    /\ request.response[a] = "pending"
    /\ \E c \in Readings : LET r == Reconciled(request, c) IN
       /\ r.state = "open"
       /\ r.expiresAt > c[7]
       /\ Commit(c, [r EXCEPT !.response[a] = response])

Respond(a, response) ==
    /\ Calling(a)
    /\ request.response[a] = "pending"
    /\ \E c \in Readings : LET r == Reconciled(request, c) IN
       /\ r.state = "open"
       /\ EarlierOf(r.offerDeadline, r.expiresAt) > c[7]
       /\ Commit(c, [r EXCEPT !.response[a] = response])

Offer(a)   == Respond(a, "offered")
Decline(a) == Respond(a, "declined")

-----------------------------------------------------------------------------
(* Calls of a selected agent *)

ClaimsOf(r, a) == {i \in ClaimIds : i[2] = a /\ r.claim[i].state # "none"}

\* Without a claim id the call works on the agent's latest claim.
LatestClaim(r, a) == CHOOSE i \in ClaimsOf(r, a) : \A j \in ClaimsOf(r, a) : j[1] <= i[1]

HoldsAt(r, i, state, t) ==
    /\ r.claim[i].state = state
    /\ r.claim[i].lease > t
    /\ OpenAt(r, t)

Claiming(a, lease) ==
    /\ Calling(a)
    /\ \E c \in Readings : LET r == Reconciled(request, c) IN
       /\ r.state = "open"
       /\ ClaimsOf(r, a) # {}
       /\ LET i == LatestClaim(r, a) IN
          /\ HoldsAt(r, i, "reserved", c[6])
          /\ Commit(c, WithLease(r, i, "claimed", EarlierOf(r.expiresAt, c[7] + lease)))

Renew(i, lease) ==
    /\ Calling(i[2])
    /\ HoldsAt(request, i, "claimed", now)
    /\ \E c \in Readings : LET r == Reconciled(request, c) IN
       /\ r.state = "open"
       /\ HoldsAt(r, i, "claimed", c[6])
       /\ Commit(c, WithLease(r, i, "claimed", EarlierOf(r.expiresAt, c[7] + lease)))

Release(i) ==
    /\ Calling(i[2])
    /\ HoldsAt(request, i, "claimed", now)
    /\ \E c \in Readings : LET r == Reconciled(request, c) IN
       /\ r.state = "open"
       /\ HoldsAt(r, i, "claimed", c[4])
       /\ Commit(c, SettleClaims(WithClaims(r, {i}, "released"), c[5], c[6]))

\* The claim completes at t, lapsed siblings are cancelled at u, and whether work
\* is left is asked at v.
FinishWork(r, i, t, u, v) ==
    LET done   == WithClaims(r, {i}, "completed")
        lapsed == Active(done) \ LiveAt(done, u)
        rest   == WithClaims(done, lapsed, "cancelled")
    IN IF LiveAt(rest, v) = {} /\ OpenAt(rest, t) THEN [rest EXCEPT !.state = "completed"]
       ELSE rest

Complete(i) ==
    /\ Calling(i[2])
    /\ HoldsAt(request, i, "claimed", now)
    /\ \E c \in Readings : LET r == Reconciled(request, c) IN
       /\ r.state = "open"
       /\ HoldsAt(r, i, "claimed", c[4])
       /\ Commit(c, FinishWork(r, i, c[5], c[6], c[7]))

-----------------------------------------------------------------------------
(* Everything else that touches a request *)

\* A read, a list, a call that lost its race, or the drain before an export.
Reconcile ==
    /\ request.state = "open"
    /\ \E c \in Readings : Commit(c, Reconciled(request, c))
    /\ UNCHANGED live

WithoutAgentsClaims(r, a) ==
    IF r.state # "open" THEN r
    ELSE IF a # Coordinator THEN WithClaims(r, {i \in Active(r) : i[2] = a}, "cancelled")
    ELSE WithClaims([r EXCEPT !.state = "cancelled"], Active(r), "cancelled")

\* cancelMessageRequestsForDeletedAgentTx, between its expiry and its settlement.
WithoutAgent(r, a) ==
    LET declined == [r EXCEPT !.response[a] = IF @ = "pending" THEN "declined" ELSE @]
        ofAgent  == {i \in Active(r) : i[2] = a}
    IN IF r.state # "open" THEN r
       ELSE IF a # Coordinator THEN WithClaims(declined, ofAgent, "cancelled")
       ELSE WithClaims([r EXCEPT !.state = "cancelled"], Active(r), "cancelled")

DeleteAgent(a) ==
    /\ a \in live
    /\ live' = live \ {a}
    /\ \E c \in Readings :
          Commit(c, SettleClaims(WithoutAgent(ExpireDue(request, c[1]), a), c[2], c[3]))

\* The account moves to another cell: the export drains due deadlines, unless it
\* streams a read-only snapshot or another call holds the row; the import cancels the
\* work under way (normalizeImportedMessageRequestClaim, import.go:1532-1563) and
\* drains once more.  It takes every request: ArchiveIsAccepted.
MoveAccount ==
    /\ request.state # "absent"
    /\ \E c \in Readings : \E exported \in {request, Reconciled(request, c)} :
          Commit(c, ReconciledFrom(WithClaims(exported, Active(exported), "cancelled"), c, 4))
    /\ UNCHANGED live

\* Time passes (bound: MaxTime).
Tick == now < MaxTime /\ now' = now + 1 /\ UNCHANGED <<request, live>>

-----------------------------------------------------------------------------
Init == request = AbsentRequest /\ live = Agents /\ now = 0

Next ==
    \/ Open \/ Cancel \/ Reconcile \/ MoveAccount \/ Tick
    \/ \E selected \in (SUBSET Agents) \ {{}}, lease \in Leases : Select(selected, lease)
    \/ \E a \in Agents : Offer(a) \/ Decline(a) \/ DeleteAgent(a)
    \/ \E a \in Agents, lease \in Leases : Claiming(a, lease)
    \/ \E i \in ClaimIds : Release(i) \/ Complete(i)
    \/ \E i \in ClaimIds, lease \in Leases : Renew(i, lease)

Spec == Init /\ [][Next]_vars

-----------------------------------------------------------------------------
(* Properties *)

\* Results and live work together never exceed max_assignees, however leases lapse
\* between the statements of a selection (SelectMessageRequest counts both).
CapacityHolds == Cardinality(InUse(request, now)) <= request.limit

Selection(r, g) == {i \in ClaimIds : i[1] = g /\ r.claim[i].state # "none"}

\* What the import demands of a request (validateImportedMessageRequest and
\* ...Candidate, ...Claim and ...Graph, import.go:7404-7819).
ArchiveAccepted(r) ==
    /\ r.state = "open" => Coordinator \in live
    /\ r.state = "open" => {a \in Agents : r.response[a] = "pending"} \subseteq live
    /\ \A i \in ClaimIds : r.claim[i].state # "none" => r.response[i[2]] = "offered"
    /\ \A g \in 1 .. MaxSelections :
          Cardinality(Selection(r, g)) \in (IF g <= r.generation THEN 1 .. r.limit ELSE {0})
    /\ Cardinality(ClaimsIn(r, {"completed"})) <= r.limit
    /\ r.state = "completed" => ClaimsIn(r, {"completed"}) # {}

\* Whatever calls and deletions led to it, the import accepts the request: no open
\* request has a deleted coordinator or waits for a deleted candidate, every claim was
\* offered for, and the selection history is contiguous (DeleteAgent, SelectMessageRequest).
ArchiveIsAccepted == ArchiveAccepted(request)

\* Once a selection is made no offer joins: the coordinator decided on the offers it
\* could see (offer_deadline in SelectMessageRequest and in OfferMessageRequest).
OffersFrozenBySelection ==
    [][request.generation > 0 =>
        \A a \in Agents : request'.response[a] = "offered" => request.response[a] = "offered"]_vars

\* CompleteMessageRequest makes the lapse of sibling work durable before it decides
\* that the batch is finished, so a completed request has no work left.
CompletedRequestsHoldNoWork == request.state = "completed" => Active(request) = {}

\* The request is a bounded assignment of work: authority is what a lease in the
\* future gives, and the request is over when it closes or its deadline passes.
Assignment == INSTANCE BoundedAssignment WITH
    capacity <- request.limit,
    phase    <- IF request.state = "absent" THEN "before"
                ELSE IF OpenAt(request, now) THEN "during" ELSE "after",
    workers  <- {i[2] : i \in LiveAt(request, now)},
    results  <- {i[2] : i \in ClaimsIn(request, {"completed"})}

\* MessageRequest implements BoundedAssignment: no call, deletion, move or lapse gives
\* authority past the deadline, takes a result back, or adds one of an agent that had
\* lost its lease.
ImplementsAssignment == Assignment!Spec

=============================================================================
