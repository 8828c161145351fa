-------------------------- MODULE AgentEmailOutbound --------------------------
(***************************************************************************)
(* The PostgreSQL outbox of outbound agent email of one cell: the table    *)
(* agent_email_outbound_messages, the recipient suppressions, the provider *)
(* event receipts and the usage ledger, with one action per transaction of *)
(* internal/store/agent_email_outbound*.go.                                *)
(*                                                                         *)
(* The callers (workers, the event consumer) are not modelled here: a      *)
(* settlement may carry any claim fence the store ever issued, so the      *)
(* properties hold for late, duplicated and superseded callers alike.      *)
(*                                                                         *)
(* A send stands for one (owner, idempotency key); the advisory lock of    *)
(* queueAgentEmailDraft makes it one row.  Times are ticks of `now`, which *)
(* starts at 1, so that 0 stands for NULL.  claim_id is drawn together     *)
(* with a claim generation, so a claim is named by its generation.         *)
(***************************************************************************)
EXTENDS Integers, FiniteSets

CONSTANTS
    Sends,            \* rows, one per owner and idempotency key
    Accounts,         \* tenants of the cell
    DefaultAccounts,  \* accounts with is_default, which are never moved
    Mailboxes,        \* (account, recipient digest) keys of the suppressions
    MessageIds,       \* ids the provider may hand out
    NoMessageId,      \* provider_message_id = ''
    EventIds,         \* hashed provider event ids
    Owner,            \* account_id of a send
    Mailbox,          \* suppression key of a send
    MaxAttempts,      \* maximumAgentEmailOutboundAttempts
    WorkAge,          \* maximumAgentEmailOutboundWorkAge
    LeaseDuration,    \* worker lease
    MaxRetryDelay,    \* furthest retry_at a caller asks for
    ReconcileBatch,   \* limit of one reconcile statement
    MaxTime,          \* bound of the clock
    LastQueueTime     \* bound: nothing is queued later, so the bounded clock
                      \* can outlive the work age of every send

ASSUME OutboxAssumption ==
    /\ Owner \in [Sends -> Accounts]
    /\ Mailbox \in [Sends -> Mailboxes]
    /\ DefaultAccounts \subseteq Accounts
    /\ NoMessageId \notin MessageIds
    /\ {MaxAttempts, LeaseDuration, WorkAge, ReconcileBatch} \subseteq Nat \ {0}
    /\ {MaxRetryDelay, MaxTime, LastQueueTime} \subseteq Nat

VARIABLES
    row,          \* the outbox rows
    suppression,  \* reason recorded for each mailbox, "none" when absent
    usage,        \* sends whose email_sent:<id> usage event exists
    receipts,     \* agent_email_outbound_provider_events
    active,       \* accounts whose own status is active
    sendAllowed,  \* accounts whose feature, agent scope and send controls allow sending
    evacuating,   \* accounts carrying an evacuation marker
    now

vars == <<row, suppression, usage, receipts, active, sendAllowed, evacuating, now>>

-----------------------------------------------------------------------------
(* Rows *)

ActiveStates  == {"claimed", "provider_started"}
SentStates    == {"accepted", "delivered", "deferred"}
FailedStates  == {"bounced", "rejected", "failed"}
States        == {"absent", "queued", "ambiguous", "canceled"}
                   \cup ActiveStates \cup SentStates \cup FailedStates
ClosedStates  == States \ ({"absent", "queued"} \cup ActiveStates)
Reasons       == {"none", "hard_bounce", "complained"}

\* The nullable timestamp columns of a row; a row carries the set of those
\* that are not NULL.
Stamps == {"provider_started", "accepted", "delivered", "deferred",
           "failed", "ambiguous", "canceled"}

Row == [state: States, attempts: Nat, generation: Nat, claim: Nat,
        lease: Nat, next: Nat, queuedAt: Nat,
        msgid: MessageIds \cup {NoMessageId}, stamps: SUBSET Stamps]

AbsentRow == [state |-> "absent", attempts |-> 0, generation |-> 0, claim |-> 0,
              lease |-> 0, next |-> 0, queuedAt |-> 0,
              msgid |-> NoMessageId, stamps |-> {}]

LaterOf(a, b) == IF a < b THEN b ELSE a

\* Every update that ends a claim clears the fence columns together.
Released(r, state, stamps) ==
    [r EXCEPT !.state = state, !.claim = 0, !.lease = 0, !.next = 0, !.stamps = stamps]

\* Faulty: a known-safe retry forgets to clear provider_started_at.
RequeuedKeepingStart(r, retryAt) ==
    [Released(r, "queued", r.stamps) EXCEPT !.next = LaterOf(retryAt, now), !.msgid = NoMessageId]

Requeued(r, retryAt) ==
    [r EXCEPT !.state = "queued", !.claim = 0, !.lease = 0,
              !.next = LaterOf(retryAt, now), !.msgid = NoMessageId,
              !.stamps = @ \ {"provider_started"}]

Canceled(r) == Released(r, "canceled", r.stamps \cup {"canceled"})

MadeAmbiguous(r) == Released(r, "ambiguous", r.stamps \cup {"ambiguous"})

\* Faulty: a first answer of `delivered` or `deferred` leaves accepted_at NULL.
StampOfStateOnly(state) == IF state \in SentStates THEN {state} ELSE {"failed"}

StampOf(state) == IF state \in SentStates THEN {"accepted", state} ELSE {"failed"}

-----------------------------------------------------------------------------
(* Conditions shared by the transactions *)

AccountActive(a) == a \in active /\ a \notin evacuating

\* witself_tenant_evacuation_fence raises on any write to a marked account.
Writable(s) == Owner[s] \notin evacuating

PolicyRefuses(s) ==
    \/ ~ AccountActive(Owner[s])
    \/ Owner[s] \notin sendAllowed
    \/ suppression[Mailbox[s]] # "none"

HoldsFence(s, g) == row[s].claim = g /\ row[s].generation = g

\* Faulty: claims without a lease comparison, and without a state comparison.
LeaseAlwaysExpired(s) == row[s].state \in ActiveStates

LeaseColumnExpired(s) == row[s].lease <= now

LeaseExpired(s) == row[s].state \in ActiveStates /\ row[s].lease <= now

\* Faulty: the age budget is forgotten.
OutOfAttempts(s) == row[s].attempts >= MaxAttempts

Exhausted(s) == row[s].attempts >= MaxAttempts \/ row[s].queuedAt + WorkAge <= now

SuppressRecipient(s, reason) ==
    suppression' = [suppression EXCEPT
        ![Mailbox[s]] = IF @ = "complained" THEN @ ELSE reason]

-----------------------------------------------------------------------------
(* Transactions on the outbox *)

QueueAgentEmail(s) ==
    /\ row[s].state = "absent"
    /\ ~ PolicyRefuses(s)
    /\ now <= LastQueueTime
    /\ row' = [row EXCEPT ![s] = [AbsentRow EXCEPT
                 !.state = "queued", !.next = now, !.queuedAt = now]]
    /\ UNCHANGED <<suppression, usage, receipts, active, sendAllowed, evacuating, now>>

\* FOR UPDATE SKIP LOCKED: a claim takes the oldest claimable row no other
\* transaction holds locked, which may be any of them.
Claimable ==
    {s \in Sends : /\ AccountActive(Owner[s])
                   /\ \/ row[s].state = "queued" /\ row[s].next <= now
                      \/ LeaseExpired(s)
                   /\ ~ Exhausted(s)}

\* An expired claim that never reached the provider starts over; a row past the
\* provider boundary keeps its state and its provider_started_at.
ClaimAgentEmailOutbound(s) ==
    /\ s \in Claimable
    /\ LET r == row[s]
           crossed == r.state = "provider_started"
       IN row' = [row EXCEPT ![s] = [r EXCEPT
                    !.state = IF crossed THEN r.state ELSE "claimed",
                    !.attempts = r.attempts + 1,
                    !.generation = r.generation + 1,
                    !.claim = r.generation + 1,
                    !.lease = now + LeaseDuration,
                    !.next = 0,
                    !.msgid = NoMessageId,
                    !.stamps = IF crossed THEN r.stamps ELSE r.stamps \ {"provider_started"}]]
    /\ UNCHANGED <<suppression, usage, receipts, active, sendAllowed, evacuating, now>>

\* The last policy check refused: work that never crossed is canceled, work that
\* may have crossed is closed as ambiguous.
StartRefused(s, g) ==
    /\ HoldsFence(s, g)
    /\ row[s].state \in ActiveStates
    /\ PolicyRefuses(s)
    /\ Writable(s)
    /\ row' = [row EXCEPT ![s] = IF row[s].state = "provider_started"
                                 THEN MadeAmbiguous(row[s]) ELSE Canceled(row[s])]
    /\ UNCHANGED <<suppression, usage, receipts, active, sendAllowed, evacuating, now>>

\* The durable crossing of the provider boundary.  (A recovered provider_started
\* claim and a refused rate debit change no durable outbox state.)
StartCrosses(s, g) ==
    /\ HoldsFence(s, g)
    /\ row[s].state = "claimed"
    /\ ~ PolicyRefuses(s)
    /\ row[s].lease > now
    /\ row' = [row EXCEPT ![s] = [row[s] EXCEPT
                 !.state = "provider_started",
                 !.stamps = row[s].stamps \cup {"provider_started"}]]
    /\ UNCHANGED <<suppression, usage, receipts, active, sendAllowed, evacuating, now>>

StartAgentEmailOutboundProviderCall(s, g) == StartRefused(s, g) \/ StartCrosses(s, g)

\* Faulty: no unique index.
MessageIdUnchecked(s, m) == TRUE

\* The unique index on (provider, provider_message_id).
MessageIdFree(s, m) ==
    m = NoMessageId \/ \A t \in Sends \ {s} : row[t].msgid # m

FinalizeAgentEmailOutbound(s, g, result, m) ==
    /\ HoldsFence(s, g)
    /\ row[s].state = "provider_started"
    /\ Writable(s)
    /\ (m # NoMessageId) <=> (result \in SentStates)
    /\ MessageIdFree(s, m)
    /\ row' = [row EXCEPT ![s] =
                 [Released(row[s], result, row[s].stamps \cup StampOf(result)) EXCEPT !.msgid = m]]
    /\ IF result = "bounced" THEN SuppressRecipient(s, "hard_bounce")
       ELSE UNCHANGED suppression
    /\ usage' = IF result \in SentStates THEN usage \cup {s} ELSE usage
    /\ UNCHANGED <<receipts, active, sendAllowed, evacuating, now>>

\* A retry of a row still `claimed` needs a live lease; past the boundary the
\* fence alone decides.
RetryAccepted(s, g) ==
    /\ HoldsFence(s, g)
    /\ row[s].state \in ActiveStates
    /\ row[s].state = "claimed" => row[s].lease > now
    /\ Writable(s)

\* preserve: the caller says the provider outcome is unknown.
RetryAgentEmailOutbound(s, g, preserve, retryAt) ==
    /\ RetryAccepted(s, g)
    /\ preserve => row[s].state = "provider_started"
    /\ LET r == row[s] IN
       row' = [row EXCEPT ![s] =
         CASE Exhausted(s) /\ preserve -> [MadeAmbiguous(r) EXCEPT !.msgid = NoMessageId]
           [] Exhausted(s) /\ ~ preserve /\ r.state = "provider_started" ->
                [Released(r, "failed", r.stamps \cup {"failed"}) EXCEPT !.msgid = NoMessageId]
           [] Exhausted(s) /\ r.state = "claimed" -> Canceled(r)
           [] ~ Exhausted(s) /\ preserve -> [r EXCEPT !.lease = LaterOf(retryAt, now)]
           [] OTHER -> Requeued(r, retryAt)]
    /\ UNCHANGED <<suppression, usage, receipts, active, sendAllowed, evacuating, now>>

MarkAgentEmailOutboundAmbiguous(s, g) ==
    /\ HoldsFence(s, g)
    /\ row[s].state = "provider_started"
    /\ Writable(s)
    /\ row' = [row EXCEPT ![s] = [MadeAmbiguous(row[s]) EXCEPT !.msgid = NoMessageId]]
    /\ UNCHANGED <<suppression, usage, receipts, active, sendAllowed, evacuating, now>>

\* Exhausted work nobody holds a live lease on.
Overdue == {s \in Sends : /\ Exhausted(s)
                          /\ row[s].state = "queued" \/ LeaseExpired(s)}

\* One statement closes overdue rows of the whole cell, skipping rows another
\* transaction has locked; the tenant fence of a single row fails the statement.
ReconcileExhaustedAgentEmailOutbound(batch) ==
    /\ batch \subseteq Overdue /\ batch # {}
    /\ Cardinality(batch) <= ReconcileBatch
    /\ \A s \in batch : Writable(s)
    /\ row' = [s \in Sends |->
                 IF s \notin batch THEN row[s]
                 ELSE IF row[s].state = "provider_started"
                      THEN [MadeAmbiguous(row[s]) EXCEPT !.msgid = NoMessageId]
                      ELSE [Released(row[s], "canceled",
                                     (row[s].stamps \ {"provider_started"}) \cup {"canceled"})
                              EXCEPT !.msgid = NoMessageId]]
    /\ UNCHANGED <<suppression, usage, receipts, active, sendAllowed, evacuating, now>>

-----------------------------------------------------------------------------
(* Provider events: agentEmailOutboundProviderEventTransition as three tables *)

EventClasses == {"delivered", "deferred", "bounced", "failed", "rejected", "complained"}

\* Faulty: a bounce reported after delivery is ignored.
FoldsFromUndelivered(class) ==
    IF class = "complained" THEN SentStates \cup {"bounced"} ELSE {"accepted", "deferred"}

FoldsFrom(class) ==
    CASE class = "bounced"    -> {"accepted", "deferred", "delivered"}
      [] class = "complained" -> {"accepted", "deferred", "delivered", "bounced"}
      [] OTHER                -> {"accepted", "deferred"}

\* Faulty: the event class is stored as the state.
FoldsToClass(class) == class

FoldsTo(class) == IF class = "complained" THEN "failed" ELSE class

SuppressionReason(class) ==
    CASE class = "bounced"    -> "hard_bounce"
      [] class = "complained" -> "complained"
      [] OTHER                -> "none"

EventStamp(class) ==
    CASE class \in {"delivered", "deferred"} -> class
      [] OTHER                               -> "failed"

\* An event is matched to its row by provider message id and leaves a receipt;
\* a redelivered event id finds that receipt and changes nothing.
ApplyAgentEmailOutboundProviderEvent(e, m, class) ==
    \E s \in Sends :
        /\ \A rc \in receipts : rc.event # e
        /\ row[s].msgid = m /\ m # NoMessageId
        /\ Writable(s)
        /\ receipts' = receipts \cup {[event |-> e, send |-> s, msgid |-> m, class |-> class]}
        /\ row' = IF row[s].state \notin FoldsFrom(class) THEN row
                  ELSE [row EXCEPT ![s] = [row[s] EXCEPT
                          !.state = FoldsTo(class),
                          !.stamps = row[s].stamps \cup {EventStamp(class)}]]
        /\ IF SuppressionReason(class) = "none" THEN UNCHANGED suppression
           ELSE SuppressRecipient(s, SuppressionReason(class))
        /\ UNCHANGED <<usage, active, sendAllowed, evacuating, now>>

-----------------------------------------------------------------------------
(* Account lifecycle and operator controls, as the outbox reads them *)

Unmoved == <<row, suppression, usage, receipts, now>>

SuspendAccount(a) ==
    /\ a \in active \ evacuating
    /\ active' = active \ {a}
    /\ UNCHANGED <<Unmoved, sendAllowed, evacuating>>

ResumeAccount(a) ==
    /\ a \notin active \cup evacuating
    /\ active' = active \cup {a}
    /\ UNCHANGED <<Unmoved, sendAllowed, evacuating>>

DisableSend(a) ==
    /\ a \in sendAllowed \ evacuating
    /\ sendAllowed' = sendAllowed \ {a}
    /\ UNCHANGED <<Unmoved, active, evacuating>>

\* Enabling a send control needs an active account.
EnableSend(a) ==
    /\ a \notin sendAllowed /\ AccountActive(a)
    /\ sendAllowed' = sendAllowed \cup {a}
    /\ UNCHANGED <<Unmoved, active, evacuating>>

\* Faulty: the marker does not wait for provider calls to drain.
BeginAccountEvacuationUndrained(a) ==
    /\ a \notin DefaultAccounts \cup evacuating
    /\ evacuating' = evacuating \cup {a}
    /\ UNCHANGED <<Unmoved, active, sendAllowed>>

\* The marker is refused while a provider call of the account is in flight.
BeginAccountEvacuation(a) ==
    /\ a \notin DefaultAccounts \cup evacuating
    /\ \A s \in Sends : Owner[s] = a => row[s].state # "provider_started"
    /\ evacuating' = evacuating \cup {a}
    /\ UNCHANGED <<Unmoved, active, sendAllowed>>

AbortAccountEvacuation(a) ==
    /\ a \in evacuating
    /\ evacuating' = evacuating \ {a}
    /\ UNCHANGED <<Unmoved, active, sendAllowed>>

Tick == /\ now < MaxTime
        /\ now' = now + 1
        /\ UNCHANGED <<row, suppression, usage, receipts, active, sendAllowed, evacuating>>

-----------------------------------------------------------------------------

Init == /\ row = [s \in Sends |-> AbsentRow]
        /\ suppression = [m \in Mailboxes |-> "none"]
        /\ usage = {} /\ receipts = {}
        /\ active = Accounts /\ sendAllowed = Accounts /\ evacuating = {}
        /\ now = 1

\* The states a caller may finalize with (normalizeAgentEmailOutboundFinalizeInput).
Results == SentStates \cup FailedStates

\* A settlement under any claim ever issued for the send, current or superseded.
Settle(s, g) ==
    \/ StartAgentEmailOutboundProviderCall(s, g)
    \/ \E result \in Results, m \in MessageIds \cup {NoMessageId} :
          FinalizeAgentEmailOutbound(s, g, result, m)
    \/ \E preserve \in BOOLEAN, retryAt \in now .. now + MaxRetryDelay :
          RetryAgentEmailOutbound(s, g, preserve, retryAt)
    \/ MarkAgentEmailOutboundAmbiguous(s, g)

Reconcile == \E batch \in SUBSET Sends : ReconcileExhaustedAgentEmailOutbound(batch)

\* The statement when no other transaction holds an overdue row locked: it takes
\* the overdue rows in order, up to its limit.
WorkTime(s) == IF row[s].lease # 0 THEN row[s].lease ELSE row[s].next

FullReconcile ==
    \E batch \in SUBSET Overdue :
        /\ Cardinality(batch) = ReconcileBatch \/ batch = Overdue
        /\ \A s \in batch, t \in Overdue \ batch : WorkTime(s) <= WorkTime(t)
        /\ ReconcileExhaustedAgentEmailOutbound(batch)

AccountStep ==
    \E a \in Accounts :
        \/ SuspendAccount(a) \/ ResumeAccount(a)
        \/ DisableSend(a) \/ EnableSend(a)
        \/ BeginAccountEvacuation(a) \/ AbortAccountEvacuation(a)

Next ==
    \/ \E s \in Sends : QueueAgentEmail(s) \/ ClaimAgentEmailOutbound(s)
    \/ \E s \in Sends : \E g \in 1 .. row[s].generation : Settle(s, g)
    \/ Reconcile
    \/ \E e \in EventIds, m \in MessageIds, class \in EventClasses :
          ApplyAgentEmailOutboundProviderEvent(e, m, class)
    \/ AccountStep
    \/ Tick

Spec == Init /\ [][Next]_vars

\* Every worker replica runs a batch every two seconds, and each batch starts by
\* reconciling; row locks last one transaction; the clock advances.
FairSpec == Spec /\ WF_vars(FullReconcile) /\ WF_vars(Tick)

\* The same under strong fairness: even a reconcile that gets through whenever it
\* is possible again and again.
StubbornSpec == Spec /\ SF_vars(FullReconcile) /\ WF_vars(Tick)

-----------------------------------------------------------------------------
(* Properties *)

\* Every variable keeps its type.
TypeOK ==
    /\ row \in [Sends -> Row]
    /\ suppression \in [Mailboxes -> Reasons]
    /\ usage \subseteq Sends
    /\ receipts \subseteq [event: EventIds, send: Sends, msgid: MessageIds, class: EventClasses]
    /\ active \subseteq Accounts /\ sendAllowed \subseteq Accounts
    /\ evacuating \subseteq Accounts
    /\ now \in Nat \ {0}

\* The lifecycle CHECK of migration 0089 on one row.
TableCheck(r) ==
    /\ r.state = "queued" => r.claim = 0 /\ r.lease = 0 /\ r.next # 0 /\ r.stamps = {}
    /\ r.state \in ActiveStates =>
         /\ r.claim # 0 /\ r.generation >= 1 /\ r.lease # 0 /\ r.next = 0
         /\ r.stamps = IF r.state = "claimed" THEN {} ELSE {"provider_started"}
    /\ r.state \in ClosedStates => r.claim = 0 /\ r.lease = 0 /\ r.next = 0
    /\ r.state \in SentStates \cup FailedStates =>
         /\ "provider_started" \in r.stamps
         /\ r.stamps \cap {"ambiguous", "canceled"} = {}
    /\ r.state \in SentStates => r.msgid # NoMessageId /\ {"accepted", r.state} \subseteq r.stamps
    /\ r.state \in FailedStates => "failed" \in r.stamps
    /\ r.state = "ambiguous" =>
         {"provider_started", "ambiguous"} \subseteq r.stamps /\ "canceled" \notin r.stamps
    /\ r.state = "canceled" => r.stamps = {"canceled"}

\* Whatever sequence of claims, late settlements, reconciles and provider events a
\* row went through, no UPDATE of it is one the table's CHECK refuses (such a row
\* could never be settled again).
RowMeetsTableCheck == \A s \in Sends : TableCheck(row[s])

\* The email_sent usage event of a send exists exactly when its row was
\* accepted: no path bills a send that was never accepted, forgets one that was,
\* or loses the evidence when a later event fails or bounces it.
UsageMatchesAcceptance ==
    \A s \in Sends : s \in usage <=> "accepted" \in row[s].stamps

\* The provider's late word outlives every order of delivery: after a bounce was
\* folded the send is not shown as on its way or delivered, after a complaint it
\* is not shown as merely bounced either, and the mailbox stays suppressed at
\* least as strongly as the strongest signal received.
ComplaintsAndBouncesDominate ==
    \A rc \in receipts :
        /\ rc.class \in {"bounced", "complained"} =>
             /\ row[rc.send].state \notin SentStates
             /\ suppression[Mailbox[rc.send]] # "none"
        /\ rc.class = "complained" =>
             /\ row[rc.send].state # "bounced"
             /\ suppression[Mailbox[rc.send]] = "complained"

\* Provider events reach exactly one send: once an event for a provider message
\* was folded, that message id belongs to its send and to no other, whatever is
\* retried, reclaimed or finalized afterwards (an unmatched or mismatched id would
\* suppress the wrong person's mailbox).
EventsStayWithTheirSend ==
    \A rc \in receipts, s \in Sends : row[s].msgid = rc.msgid <=> s = rc.send

\* An account frozen for a move never owns a send past the provider boundary and
\* still unsettled: the archive can then requeue every unfinished send without
\* duplicating one (BeginAccountEvacuation drains provider_started first).
NoProviderCallInMovingAccount ==
    \A s \in Sends : Owner[s] \in evacuating => row[s].state # "provider_started"

\* Closed work never reopens, and after closing it moves only along the event
\* table: no late worker, reconcile or redelivered event changes it otherwise.
ClosedRowsOnlyFold ==
    [][\A s \in Sends :
         row[s].state \in ClosedStates /\ row'[s] # row[s] =>
            \E class \in EventClasses :
               /\ row[s].state \in FoldsFrom(class)
               /\ row'[s].state = FoldsTo(class)
               /\ row'[s].msgid = row[s].msgid]_vars

\* Nobody takes over a live lease: while the lease of a claim runs, its
\* generation stands.
LiveLeaseIsExclusive ==
    [][\A s \in Sends :
         row[s].state \in ActiveStates /\ row[s].lease > now =>
            row'[s].generation = row[s].generation]_vars

\* "Work closes after 12 attempts or 72 hours" (docs/agent-email.md): every queued
\* send of an account whose own moves come to an end is eventually closed, even if
\* no worker ever settles it, whatever the other accounts of the cell do.
WorkCloses ==
    \A s \in Sends :
        <>[](Owner[s] \notin evacuating) =>
            (row[s].state = "queued" ~> row[s].state \in ClosedStates)
=============================================================================
