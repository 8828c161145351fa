---------------------- MODULE AgentEmailOutboundPipeline ----------------------
(***************************************************************************)
(* The whole outbound path: the outbox of a cell (AgentEmailOutbound), the *)
(* worker replicas of cmd/witself-worker that drain it, and the edge       *)
(* adapter with the provider behind it (OutboundReceipt), over one clock.  *)
(*                                                                         *)
(* A worker signs one request per claim, so requests are named by claim    *)
(* generations, and the provider message id of a request is the pair of    *)
(* its send and its name.                                                  *)
(***************************************************************************)
EXTENDS Integers, FiniteSets

CONSTANTS
    Sends, Accounts, DefaultAccounts, Mailboxes, NoMessageId, EventIds, Owner, Mailbox,
    MaxAttempts, WorkAge, LeaseDuration, MaxRetryDelay, ReconcileBatch,
    TTL, Window, MaxRepairDelay, Refusals, MaxTime, LastQueueTime,
    Workers,       \* worker replicas
    BatchTimeout   \* a worker stops calling this long after its claim

VARIABLES
    row, suppression, usage, receipts, active, sendAllowed, evacuating,  \* cell
    receipt, alarm, repair, call, provider, route,                       \* edge
    worker,                                                              \* what each replica is doing
    now

Requests == 1 .. MaxAttempts

Outbox == INSTANCE AgentEmailOutbound WITH MessageIds <- Sends \X Requests
Edge   == INSTANCE OutboundReceipt WITH LastSendTime <- MaxTime

cellVars == <<row, suppression, usage, receipts, active, sendAllowed, evacuating>>
edgeVars == <<receipt, alarm, repair, call, provider, route>>
vars == <<cellVars, edgeVars, worker, now>>

\* The work of a send ends, with every request signed for it, within the lifetime
\* of its first receipt: 72 hours, 5 minutes and the signature window against 7 days.
\* A worker calls only within its batch timeout (at most 5 minutes from a moment
\* before its claim), so never after the default lease of 5 minutes.
ASSUME PipelineAssumption ==
    /\ WorkAge + BatchTimeout + Window <= TTL
    /\ BatchTimeout < LeaseDuration
    /\ BatchTimeout \in Nat

\* What the outbox and the edge assume of these constants.
ASSUME PartsAssumption ==
    /\ Owner \in [Sends -> Accounts]
    /\ Mailbox \in [Sends -> Mailboxes]
    /\ DefaultAccounts \subseteq Accounts
    /\ NoMessageId \notin Sends \X Requests
    /\ {MaxAttempts, LeaseDuration, WorkAge, ReconcileBatch, TTL, MaxRepairDelay} \subseteq Nat \ {0}
    /\ {MaxRetryDelay, Window, MaxTime, LastQueueTime} \subseteq Nat
    /\ Refusals \subseteq {"retryable", "rejected"}

-----------------------------------------------------------------------------
(* cmd/witself-worker: processAgentEmailOutboundBatch, dispatchClaimedAgentEmail *)

NoWork == [pc |-> "idle", send |-> CHOOSE s \in Sends : TRUE, gen |-> 0, deadline |-> 0]

Idle(w) == worker' = [worker EXCEPT ![w] = NoWork]

Goes(w, pc) == worker' = [worker EXCEPT ![w].pc = pc]

\* The provider context of a batch is cancelled at its deadline.
Working(w, pc) == worker[w].pc = pc /\ now <= worker[w].deadline

WorkerReconciles(w) ==
    /\ worker[w].pc = "idle"
    /\ Outbox!Reconcile
    /\ UNCHANGED <<edgeVars, worker>>

WorkerClaims(w, s) ==
    /\ worker[w].pc = "idle"
    /\ Outbox!ClaimAgentEmailOutbound(s)
    /\ worker' = [worker EXCEPT ![w] = [pc |-> "claimed", send |-> s,
                    gen |-> row[s].generation + 1, deadline |-> now + BatchTimeout]]
    /\ UNCHANGED edgeVars

WorkerIsRefused(w) ==
    /\ Working(w, "claimed")
    /\ Outbox!StartRefused(worker[w].send, worker[w].gen)
    /\ Idle(w)
    /\ UNCHANGED edgeVars

WorkerStarts(w) ==
    /\ Working(w, "claimed")
    /\ Outbox!StartCrosses(worker[w].send, worker[w].gen)
    /\ Goes(w, "started")
    /\ UNCHANGED edgeVars

\* ErrAgentEmailOutboundProviderAlreadyStarted: replay the same envelope.
WorkerReplays(w) ==
    LET s == worker[w].send IN
    /\ Working(w, "claimed")
    /\ Outbox!HoldsFence(s, worker[w].gen)
    /\ row[s].state = "provider_started"
    /\ ~ Outbox!PolicyRefuses(s)
    /\ Goes(w, "started")
    /\ UNCHANGED <<cellVars, edgeVars, now>>

\* The provider-attempt rate limit refused the start.
WorkerIsRateLimited(w) ==
    LET s == worker[w].send IN
    /\ Working(w, "claimed")
    /\ row[s].state = "claimed" /\ ~ Outbox!PolicyRefuses(s)
    /\ \E retryAt \in now + 1 .. now + MaxRetryDelay :
          Outbox!RetryAgentEmailOutbound(s, worker[w].gen, FALSE, retryAt)
    /\ Idle(w)
    /\ UNCHANGED edgeVars

\* dispatch.Validate() refuses an envelope after the boundary was recorded.
WorkerFindsInvalid(w) ==
    /\ Working(w, "started")
    /\ Outbox!MarkAgentEmailOutboundAmbiguous(worker[w].send, worker[w].gen)
    /\ Idle(w)
    /\ UNCHANGED edgeVars

WorkerSends(w) ==
    /\ Working(w, "started")
    /\ Edge!SendRequest(worker[w].send, worker[w].gen)
    /\ Goes(w, "waiting")
    /\ UNCHANGED cellVars

\* The answer the client hands to the worker: what the edge said, or at any time a
\* timeout or a connection error, which are reported as ambiguous.
Heard(w) == {"ambiguous", call[worker[w].send][worker[w].gen].answer} \ {"none"}

\* Faulty: a timeout is settled like a refusal known to be safe.
SettlementForgettingTimeouts(w, answer) ==
    LET s == worker[w].send
        g == worker[w].gen IN
    CASE answer = "accepted"  ->
           Outbox!FinalizeAgentEmailOutbound(s, g, "accepted", <<s, call[s][g].copy>>)
      [] answer = "rejected"  -> Outbox!FinalizeAgentEmailOutbound(s, g, "rejected", NoMessageId)
      [] OTHER -> \E retryAt \in now + 1 .. now + MaxRetryDelay :
                     Outbox!RetryAgentEmailOutbound(s, g, FALSE, retryAt)

Settlement(w, answer) ==
    LET s == worker[w].send
        g == worker[w].gen IN
    CASE answer = "accepted"  ->
           Outbox!FinalizeAgentEmailOutbound(s, g, "accepted", <<s, call[s][g].copy>>)
      [] answer = "rejected"  -> Outbox!FinalizeAgentEmailOutbound(s, g, "rejected", NoMessageId)
      [] OTHER -> \E retryAt \in now + 1 .. now + MaxRetryDelay :
                     Outbox!RetryAgentEmailOutbound(s, g, answer = "ambiguous", retryAt)

WorkerSettles(w) ==
    /\ worker[w].pc = "waiting"
    /\ \E answer \in Heard(w) : Settlement(w, answer)
    /\ Idle(w)
    /\ UNCHANGED edgeVars

\* A crash, a database error or a lost claim: the worker drops what it was doing.
WorkerDrops(w) ==
    /\ worker[w].pc # "idle"
    /\ Idle(w)
    /\ UNCHANGED <<cellVars, edgeVars, now>>

WorkerStep(w) ==
    \/ WorkerReconciles(w) \/ \E s \in Sends : WorkerClaims(w, s)
    \/ WorkerIsRefused(w) \/ WorkerStarts(w) \/ WorkerReplays(w)
    \/ WorkerIsRateLimited(w) \/ WorkerFindsInvalid(w)
    \/ WorkerSends(w) \/ WorkerSettles(w) \/ WorkerDrops(w)

-----------------------------------------------------------------------------

\* The provider reports on messages it took; the edge forwards what it can route.
ProviderEvent ==
    /\ \E s \in Sends, q \in Requests, e \in EventIds, class \in Outbox!EventClasses :
          /\ Edge!ProviderAccepted(s, q) /\ route[s][q]
          /\ Outbox!ApplyAgentEmailOutboundProviderEvent(e, <<s, q>>, class)
    /\ UNCHANGED <<edgeVars, worker>>

Tick == /\ now < MaxTime
        /\ now' = now + 1
        /\ UNCHANGED <<cellVars, edgeVars, worker>>

Init == /\ Outbox!Init
        /\ Edge!InitEdge
        /\ worker = [w \in Workers |-> NoWork]

Next ==
    \/ (\E s \in Sends : Outbox!QueueAgentEmail(s)) /\ UNCHANGED <<edgeVars, worker>>
    \/ \E w \in Workers : WorkerStep(w)
    \/ Edge!EdgeStep /\ UNCHANGED <<cellVars, worker>>
    \/ ProviderEvent
    \/ Outbox!AccountStep /\ UNCHANGED <<edgeVars, worker>>
    \/ Tick

Spec == Init /\ [][Next]_vars

-----------------------------------------------------------------------------
(* Properties *)

Taken(s) == {q \in Requests : Edge!ProviderAccepted(s, q)}

\* Crashed and superseded workers, replays, lost answers, late requests and expiring
\* receipts never make the provider take a second copy of a send.
AtMostOneCopy == \A s \in Sends : Cardinality(Taken(s)) <= 1

\* What the cell records and bills as accepted is a message the provider took, under
\* the id it took it with.
RecordedSendsAreReal ==
    \A s \in Sends :
        /\ "accepted" \in row[s].stamps => \E q \in Taken(s) : row[s].msgid = <<s, q>>
        /\ s \in usage => Taken(s) # {}

\* Workers that start, lag or lose their lease never have a provider call open while
\* the account is frozen for a move (agent_email_outbound_worker.go, evacuation.go).
NoProviderCallInMovingAccount == Outbox!NoProviderCallInMovingAccount

\* Closed without ever having been accepted.
Unsent(s) == row[s].state \in {"canceled", "rejected", "failed"} /\ "accepted" \notin row[s].stamps

\* "Uncertain calls remain provider_started so the cell never forgets that a provider
\* boundary may already have been crossed" (agent_email_outbound_worker.go): a send
\* closed as canceled, rejected or failed without an acceptance was not taken.
UnsentWasNotTaken == \A s \in Sends : Unsent(s) => Taken(s) = {}

\* A refusal told to a later request overtook an earlier one: the front door answered
\* without looking at the receipt, or the earlier request could still be delivered when
\* the later one was signed.
Overtaken(s) ==
    \E p, q \in Requests :
        /\ q < p /\ call[s][q].phase # "idle"
        /\ call[s][p].answer \in {"retryable", "rejected"}
        /\ call[s][p].phase = "refused" \/ call[s][p].sentAt <= call[s][q].sentAt + Window

\* The path implements the logical send.  What the cell closed as unsent after such a
\* refusal counts as unknown: the violated UnsentWasNotTaken shows why.
Verdict(s) ==
    CASE row[s].state = "absent"      -> "absent"
      [] row[s].state = "ambiguous"   -> "unknown"
      [] "accepted" \in row[s].stamps -> "sent"
      [] Unsent(s)                    -> IF Overtaken(s) THEN "unknown" ELSE "unsent"
      [] OTHER                        -> "open"

Logical == INSTANCE LogicalSend WITH
    copies  <- [s \in Sends |-> Cardinality(Taken(s))],
    verdict <- [s \in Sends |-> Verdict(s)]

\* Every step of cell, workers, edge and provider is a step of one logical send or
\* leaves it alone: late requests, lost answers and superseded workers included, for
\* any signature window and any refusal of the front door.
ImplementsLogicalSend == Logical!Spec
=============================================================================
