---------------------------- MODULE OutboundReceipt ----------------------------
(***************************************************************************)
(* The edge adapter infra/cloudflare/agent-email-send: the front door      *)
(* (index.js) and, per send, the Durable Object OutboundReceipt with its   *)
(* alarm and the ProviderRoute objects it registers (dispatch.mjs).  The   *)
(* email provider behind EMAIL.send is external.                           *)
(*                                                                         *)
(* One Durable Object runs its handlers one after the other except where a *)
(* handler awaits something other than its own storage: EMAIL.send and the *)
(* fetch of registerProviderRoute.  A handler is cut there, and only there *)
(* (and where it may crash).                                               *)
(*                                                                         *)
(* A request stands for one signed envelope of a send.  The provider       *)
(* message id handed out for request q is named q; 0 stands for "none" and *)
(* for a NULL alarm.  Receipts written by earlier releases, a second       *)
(* digest for a send and the replay counters are left out.                 *)
(***************************************************************************)
EXTENDS Integers

CONSTANTS
    Sends,           \* send ids, one Durable Object each
    Requests,        \* names of the requests a cell may sign for a send
    TTL,             \* RECEIPT_IDEMPOTENCY_TTL_MS
    Window,          \* age at which a signature is refused as stale
    MaxRepairDelay,  \* ROUTE_REPAIR_MAX_DELAY_MS
    Refusals,        \* answers the front door may give a verified envelope
    MaxTime,         \* bound of the clock
    LastSendTime     \* bound: no request is signed later

ASSUME ReceiptAssumption ==
    /\ Requests \subseteq Nat \ {0}
    /\ {TTL, MaxRepairDelay} \subseteq Nat \ {0}
    /\ {Window, MaxTime, LastSendTime} \subseteq Nat
    /\ Refusals \subseteq {"retryable", "rejected"}

VARIABLES
    receipt,   \* storage key "receipt" of the Durable Object of a send
    alarm,     \* its alarm time
    repair,    \* its running alarm handler: the receipt it has read
    call,      \* each request and the handler serving it
    provider,  \* what the provider did with each request
    route,     \* [send][request]: the ProviderRoute of that message id exists
    now

edgeVars == <<receipt, alarm, repair, call, provider, route>>
vars == <<edgeVars, now>>

ReceiptStates == {"none", "provider_started", "retryable", "rejected", "ambiguous", "accepted"}
Answers       == {"none", "accepted", "rejected", "retryable", "ambiguous"}
Outcomes      == {"accepted", "limited", "rejected", "uncertain", "uncertain_accepted"}

NoReceipt == [state |-> "none", expires |-> 0, msgid |-> 0, pending |-> FALSE]

Live(s)    == receipt[s].state # "none" /\ receipt[s].expires > now
Expired(s) == receipt[s].state # "none" /\ receipt[s].expires <= now

\* Messages the provider took, whether or not it managed to say so.
ProviderAccepted(s, q) == provider[s][q] \in {"accepted", "uncertain_accepted"}

-----------------------------------------------------------------------------
(* Shared steps of the handlers *)

Replies(s, q, answer, m) ==
    call' = [call EXCEPT ![s][q].phase = "answered", ![s][q].answer = answer,
                         ![s][q].copy = m]

\* Faulty: an unresolved call is taken for a success.
OptimisticAnswerOf(r) ==
    IF r.state \in {"accepted", "provider_started"} THEN "accepted" ELSE r.state

\* The stored or derived answer of a receipt that is not (again) retryable.
AnswerOf(r) ==
    CASE r.msgid # 0          -> "accepted"
      [] r.state = "rejected" -> "rejected"
      [] OTHER                -> "ambiguous"

\* fenceExistingReceiptExpiry on a live receipt.
Fenced(s) == IF alarm[s] = 0 \/ alarm[s] > receipt[s].expires
             THEN receipt[s].expires ELSE alarm[s]

\* scheduleRouteRepair and scheduleExpiry, as persistAccepted chooses.
Scheduled(s, expires, pending) ==
    IF ~ pending THEN alarm' = [alarm EXCEPT ![s] = expires]
    ELSE \E d \in 1 .. MaxRepairDelay :
            alarm' = [alarm EXCEPT ![s] = IF now + d < expires THEN now + d ELSE expires]

\* deleteAll also clears the alarm.
Retire(s) == /\ receipt' = [receipt EXCEPT ![s] = NoReceipt]
             /\ alarm' = [alarm EXCEPT ![s] = 0]

\* receiptLineageMatches: the stored receipt is still the one `seen` was read from.
SameLineage(s, seen) ==
    /\ receipt[s].state \in {"provider_started", "accepted"}
    /\ receipt[s].msgid = seen.msgid /\ seen.msgid # 0
    /\ receipt[s].expires = seen.expires
    /\ receipt[s].expires > now

\* Faulty: the route outcome of this finalizer overwrites the stored one; it is ignored.
PersistAcceptedBlindly(s, seen, pending) ==
    IF SameLineage(s, seen)
    THEN /\ receipt' = [receipt EXCEPT ![s].state = "accepted", ![s].pending = pending]
         /\ Scheduled(s, receipt[s].expires, pending)
    ELSE UNCHANGED <<receipt, alarm>>

PersistAcceptedUnrouted(s, seen, pending) == PersistAcceptedBlindly(s, seen, FALSE)

\* persistAccepted: route_pending never returns to true once it was false.
PersistAccepted(s, seen, pending) ==
    IF SameLineage(s, seen)
    THEN LET still == pending /\ ~ (receipt[s].state = "accepted" /\ ~ receipt[s].pending)
         IN /\ receipt' = [receipt EXCEPT ![s].state = "accepted", ![s].pending = still]
            /\ Scheduled(s, receipt[s].expires, still)
    ELSE UNCHANGED <<receipt, alarm>>

\* registerProviderRoute: the route object may store the route and still fail to say so.
RegisterRoute(s, m, stored, ok) ==
    /\ ok => stored
    /\ route' = [route EXCEPT ![s][m] = @ \/ stored]

Seen(s) == [msgid |-> receipt[s].msgid, expires |-> receipt[s].expires]
NotSeen == [msgid |-> 0, expires |-> 0]

-----------------------------------------------------------------------------
(* The front door *)

Refuses(s, q, answer) ==
    call' = [call EXCEPT ![s][q].phase = "refused", ![s][q].answer = answer]

SendRequest(s, q) ==
    /\ call[s][q].phase = "idle"
    /\ now <= LastSendTime
    /\ call' = [call EXCEPT ![s][q].phase = "sent", ![s][q].sentAt = now]
    /\ UNCHANGED <<receipt, alarm, repair, provider, route, now>>

Delivered(s, q) == call[s][q].phase = "sent" /\ now <= call[s][q].sentAt + Window

\* Source limiter, body checks and signature (stale ones included) answer for an
\* unknown send id, which the cell's client reads as an unknown outcome.
FrontDoorFails(s, q) ==
    /\ call[s][q].phase = "sent"
    /\ Refuses(s, q, "ambiguous")
    /\ UNCHANGED <<receipt, alarm, repair, provider, route, now>>

\* A verified envelope may still be refused: shared limiter or DISPATCH_ENABLED
\* (retryable), account not allowed (rejected).
FrontDoorRefuses(s, q, answer) ==
    /\ Delivered(s, q)
    /\ answer \in Refusals
    /\ Refuses(s, q, answer)
    /\ UNCHANGED <<receipt, alarm, repair, provider, route, now>>

-----------------------------------------------------------------------------
(* OutboundReceipt.dispatch, up to its first await outside storage *)

\* An expired receipt is retired, never re-attempted, by the request that finds it.
DispatchRetires(s, q) ==
    /\ Delivered(s, q) /\ Expired(s)
    /\ Retire(s)
    /\ Replies(s, q, AnswerOf(receipt[s]), receipt[s].msgid)
    /\ UNCHANGED <<repair, provider, route, now>>

DispatchAnswersFromReceipt(s, q) ==
    /\ Delivered(s, q) /\ Live(s)
    /\ receipt[s].state # "retryable"
    /\ ~ (receipt[s].state = "provider_started" /\ receipt[s].msgid # 0)
    /\ IF receipt[s].pending THEN Scheduled(s, receipt[s].expires, TRUE)
       ELSE alarm' = [alarm EXCEPT ![s] = Fenced(s)]
    /\ Replies(s, q, AnswerOf(receipt[s]), receipt[s].msgid)
    /\ UNCHANGED <<receipt, repair, provider, route, now>>

\* Known acceptance whose finalization was interrupted: register the route again.
DispatchResumes(s, q) ==
    /\ Delivered(s, q) /\ Live(s)
    /\ receipt[s].state = "provider_started" /\ receipt[s].msgid # 0
    /\ alarm' = [alarm EXCEPT ![s] = Fenced(s)]
    /\ call' = [call EXCEPT ![s][q].phase = "registering", ![s][q].seen = Seen(s)]
    /\ UNCHANGED <<receipt, repair, provider, route, now>>

MayCallProvider(s) == receipt[s].state = "none" \/ (Live(s) /\ receipt[s].state = "retryable")

\* The EMAIL binding is missing.
DispatchUnavailable(s, q) ==
    /\ Delivered(s, q) /\ MayCallProvider(s)
    /\ alarm' = IF Live(s) THEN [alarm EXCEPT ![s] = Fenced(s)] ELSE alarm
    /\ Replies(s, q, "retryable", 0)
    /\ UNCHANGED <<receipt, repair, provider, route, now>>

\* Alarm, then durable provider_started, then EMAIL.send.
DispatchCallsProvider(s, q) ==
    /\ Delivered(s, q) /\ MayCallProvider(s)
    /\ alarm' = [alarm EXCEPT ![s] = now + TTL]
    /\ receipt' = [receipt EXCEPT ![s] =
                     [NoReceipt EXCEPT !.state = "provider_started", !.expires = now + TTL]]
    /\ provider' = [provider EXCEPT ![s][q] = "pending"]
    /\ call' = [call EXCEPT ![s][q].phase = "sending", ![s][q].calledAt = now,
                            ![s][q].seen = [NotSeen EXCEPT !.expires = now + TTL]]
    /\ UNCHANGED <<repair, route, now>>

\* A crash between the alarm and the durable provider_started.
DispatchCrashes(s, q) ==
    /\ Delivered(s, q) /\ MayCallProvider(s)
    /\ alarm' = [alarm EXCEPT ![s] = now + TTL]
    /\ call' = [call EXCEPT ![s][q].phase = "lost"]
    /\ UNCHANGED <<receipt, repair, provider, route, now>>

-----------------------------------------------------------------------------
(* After EMAIL.send *)

ProviderResolves(s, q) ==
    /\ provider[s][q] = "pending"
    /\ \E o \in Outcomes : provider' = [provider EXCEPT ![s][q] = o]
    /\ UNCHANGED <<receipt, alarm, repair, call, route, now>>

\* Faulty: an error without a known code counts as "not sent".
ProviderErrorAsRetryable(outcome) ==
    IF outcome = "rejected" THEN "rejected" ELSE "retryable"

\* providerError
ProviderError(outcome) ==
    CASE outcome = "limited"  -> "retryable"
      [] outcome = "rejected" -> "rejected"
      [] OTHER                -> "ambiguous"

\* A handler ends (or is ended by the platform) before its receipt expires.
InTime(s, q) == call[s][q].seen.expires > now

RecordProviderError(s, q) ==
    LET verdict == ProviderError(provider[s][q]) IN
    /\ call[s][q].phase = "sending" /\ InTime(s, q)
    /\ provider[s][q] \in Outcomes \ {"accepted"}
    /\ receipt' = [receipt EXCEPT ![s] = [NoReceipt EXCEPT
                     !.state = verdict, !.expires = call[s][q].seen.expires]]
    /\ alarm' = [alarm EXCEPT ![s] = call[s][q].seen.expires]
    /\ Replies(s, q, verdict, 0)
    /\ UNCHANGED <<repair, provider, route, now>>

RecordProviderAcceptance(s, q) ==
    /\ call[s][q].phase = "sending" /\ InTime(s, q)
    /\ provider[s][q] = "accepted"
    /\ receipt' = [receipt EXCEPT ![s] = [NoReceipt EXCEPT
                     !.state = "provider_started", !.msgid = q,
                     !.expires = call[s][q].seen.expires]]
    /\ call' = [call EXCEPT ![s][q].phase = "registering", ![s][q].seen.msgid = q]
    /\ UNCHANGED <<alarm, repair, provider, route, now>>

\* The route fetch returned: finalize and answer.
FinishAccepted(s, q, stored, ok) ==
    /\ call[s][q].phase = "registering"
    /\ RegisterRoute(s, call[s][q].seen.msgid, stored, ok)
    /\ PersistAccepted(s, call[s][q].seen, ~ ok)
    /\ Replies(s, q, "accepted", call[s][q].seen.msgid)
    /\ UNCHANGED <<repair, provider, now>>

\* The request, or the handler serving it, dies; its route may have been stored.
Lose(s, q, stored) ==
    /\ call[s][q].phase \in {"sent", "sending", "registering"}
    /\ call' = [call EXCEPT ![s][q].phase = "lost"]
    /\ IF call[s][q].phase = "registering"
       THEN RegisterRoute(s, call[s][q].seen.msgid, stored, FALSE)
       ELSE UNCHANGED route
    /\ UNCHANGED <<receipt, alarm, repair, provider, now>>

-----------------------------------------------------------------------------
(* The alarm of the Durable Object *)

\* Faulty: the expiry is not reinstalled.
AlarmFiresUnfenced(s) ==
    /\ alarm[s] # 0 /\ alarm[s] <= now
    /\ repair[s] = NotSeen
    /\ IF ~ Live(s)
       THEN Retire(s) /\ UNCHANGED repair
       ELSE /\ alarm' = [alarm EXCEPT ![s] = 0]
            /\ repair' = [repair EXCEPT ![s] = IF receipt[s].pending THEN Seen(s) ELSE NotSeen]
            /\ UNCHANGED receipt
    /\ UNCHANGED <<call, provider, route, now>>

\* The alarm is consumed as it fires; the fence reinstalls the expiry before any I/O.
AlarmFires(s) ==
    /\ alarm[s] # 0 /\ alarm[s] <= now
    /\ repair[s] = NotSeen
    /\ IF ~ Live(s)
       THEN /\ Retire(s)
            /\ UNCHANGED repair
       ELSE /\ alarm' = [alarm EXCEPT ![s] = receipt[s].expires]
            /\ repair' = [repair EXCEPT ![s] = IF receipt[s].pending THEN Seen(s) ELSE NotSeen]
            /\ UNCHANGED receipt
    /\ UNCHANGED <<call, provider, route, now>>

\* deleteExpiredReceipt on the receipt the alarm handler had read.
RetireIfExpired(s, seen) ==
    IF Expired(s) /\ Seen(s) = seen THEN Retire(s) ELSE UNCHANGED <<receipt, alarm>>

AlarmFinishes(s, stored, ok) ==
    LET seen == repair[s] IN
    /\ seen # NotSeen
    /\ repair' = [repair EXCEPT ![s] = NotSeen]
    /\ RegisterRoute(s, seen.msgid, stored, ok)
    /\ CASE ~ SameLineage(s, seen)  -> RetireIfExpired(s, seen)
         [] SameLineage(s, seen) /\ ok -> PersistAccepted(s, seen, FALSE)
         [] SameLineage(s, seen) /\ ~ ok /\ receipt[s].pending ->
              Scheduled(s, receipt[s].expires, TRUE) /\ UNCHANGED receipt
         [] OTHER -> UNCHANGED <<receipt, alarm>>
    /\ UNCHANGED <<call, provider, now>>

AlarmCrashes(s) ==
    /\ repair[s] # NotSeen
    /\ repair' = [repair EXCEPT ![s] = NotSeen]
    /\ UNCHANGED <<receipt, alarm, call, provider, route, now>>

\* The operator's receipt proof touches only the expiry fence (and a counter).
ReceiptReplay(s) ==
    /\ receipt[s].state # "none"
    /\ IF Expired(s) THEN Retire(s)
       ELSE alarm' = [alarm EXCEPT ![s] = Fenced(s)] /\ UNCHANGED receipt
    /\ UNCHANGED <<repair, call, provider, route, now>>

Tick == now < MaxTime /\ now' = now + 1 /\ UNCHANGED edgeVars

-----------------------------------------------------------------------------

InitEdge ==
    /\ receipt = [s \in Sends |-> NoReceipt]
    /\ alarm = [s \in Sends |-> 0]
    /\ repair = [s \in Sends |-> NotSeen]
    /\ call = [s \in Sends |-> [q \in Requests |->
                [phase |-> "idle", sentAt |-> 0, calledAt |-> 0,
                 seen |-> NotSeen, answer |-> "none", copy |-> 0]]]
    /\ provider = [s \in Sends |-> [q \in Requests |-> "none"]]
    /\ route = [s \in Sends |-> [q \in Requests |-> FALSE]]

Init == InitEdge /\ now = 1

FrontDoor(s, q) ==
    FrontDoorFails(s, q) \/ \E answer \in Refusals : FrontDoorRefuses(s, q, answer)

Dispatch(s, q) ==
    \/ DispatchRetires(s, q) \/ DispatchAnswersFromReceipt(s, q) \/ DispatchResumes(s, q)
    \/ DispatchUnavailable(s, q) \/ DispatchCallsProvider(s, q) \/ DispatchCrashes(s, q)
    \/ RecordProviderError(s, q) \/ RecordProviderAcceptance(s, q)
    \/ \E stored, ok \in BOOLEAN : FinishAccepted(s, q, stored, ok)
    \/ \E stored \in BOOLEAN : Lose(s, q, stored)

Alarm(s) ==
    \/ AlarmFires(s) \/ AlarmCrashes(s)
    \/ \E stored, ok \in BOOLEAN : AlarmFinishes(s, stored, ok)

\* Everything the edge and the provider do by themselves once requests are sent.
EdgeStep ==
    \E s \in Sends :
        \/ \E q \in Requests : FrontDoor(s, q) \/ Dispatch(s, q) \/ ProviderResolves(s, q)
        \/ Alarm(s) \/ ReceiptReplay(s)

Next == \/ \E s \in Sends, q \in Requests : SendRequest(s, q)
        \/ EdgeStep
        \/ Tick

Spec == Init /\ [][Next]_vars

\* The platform delivers alarms and time passes.
FairSpec == /\ Spec
            /\ WF_vars(Tick)
            /\ \A s \in Sends :
                 /\ WF_vars(AlarmFires(s))
                 /\ WF_vars(AlarmCrashes(s) \/ \E stored, ok \in BOOLEAN : AlarmFinishes(s, stored, ok))

-----------------------------------------------------------------------------
(* Properties *)

\* However requests, crashes, late provider answers and alarms interleave, the
\* provider takes two copies of a send only from calls at least one receipt
\* lifetime apart ("creating a second send", docs/agent-email.md).
OneAcceptancePerLifetime ==
    \A s \in Sends : \A p, q \in Requests :
        p # q /\ ProviderAccepted(s, p) /\ ProviderAccepted(s, q)
           => \/ call[s][p].calledAt + TTL <= call[s][q].calledAt
              \/ call[s][q].calledAt + TTL <= call[s][p].calledAt

\* An answer of the Durable Object is true of the provider when it is given:
\* "accepted" names a message it took, and "rejected" or "retryable" is said only when no call of the last
\* receipt lifetime took one or still may.
AnswersAreTrue ==
    [][\A s \in Sends : \A q \in Requests :
         call'[s][q].phase = "answered" /\ call[s][q].phase # "answered" =>
            LET answer == call'[s][q].answer
                copy == call'[s][q].copy IN
            /\ answer = "accepted" => copy \in Requests /\ ProviderAccepted(s, copy)
            /\ answer \in {"rejected", "retryable"} =>
                 \A p \in Requests :
                    provider[s][p] = "pending" \/ ProviderAccepted(s, p)
                       => call[s][p].calledAt + TTL <= now]_vars

\* A receipt is confirmed (accepted, nothing pending) only over a stored provider
\* route: otherwise the delivery events of that message could never be routed.
ConfirmedHasRoute ==
    \A s \in Sends :
        receipt[s].state = "accepted" /\ ~ receipt[s].pending => route[s][receipt[s].msgid]

\* No receipt is left without an alarm, whatever handler crashed: the object would
\* keep it for ever.
ReceiptHasAlarm == \A s \in Sends : receipt[s].state # "none" => alarm[s] # 0

\* "Route finalizers ... never change route_pending from false back to true, and
\* never resurrect a missing, expired, or replaced receipt" (adapter README): a
\* known acceptance stays until its own expiry, and keeps that expiry.
AcceptanceIsKept ==
    [][\A s \in Sends :
         receipt[s].msgid # 0 =>
            \/ /\ receipt'[s].msgid = receipt[s].msgid
               /\ receipt'[s].expires = receipt[s].expires
               /\ receipt[s].state = "accepted" => receipt'[s].state = "accepted"
               /\ receipt[s].state = "accepted" /\ ~ receipt[s].pending => ~ receipt'[s].pending
            \/ receipt'[s] = NoReceipt /\ receipt[s].expires <= now]_vars

\* Every receipt is eventually retired.
ReceiptsRetire ==
    \A s \in Sends : receipt[s].state # "none" ~> receipt[s].state = "none"
=============================================================================
