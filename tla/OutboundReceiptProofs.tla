------------------------ MODULE OutboundReceiptProofs ------------------------
(***************************************************************************)
(* Theorems about the edge adapter, for every set of sends and requests,   *)
(* every receipt lifetime, signature window and repair delay.              *)
(***************************************************************************)
EXTENDS OutboundReceipt, TLAPS

(* The inductive invariant, of each send by itself.                        *)

\* A copy of the send may have been taken, or may yet be, through this request.
Risky(s, q) == provider[s][q] = "pending" \/ ProviderAccepted(s, q)

\* A provider call of the last receipt lifetime whose outcome may still change
\* what a further request may do.
OpenCall(s, q) == /\ call[s][q].phase = "sending" \/ Risky(s, q)
                  /\ call[s][q].calledAt + TTL > now

Receipt == [state : ReceiptStates, expires : Nat, msgid : Requests \cup {0}, pending : BOOLEAN]
SeenReceipt == [msgid : Requests \cup {0}, expires : Nat]
Phases == {"idle", "sent", "refused", "sending", "registering", "answered", "lost"}
Handler == [phase : Phases, sentAt : Nat, calledAt : Nat, seen : SeenReceipt,
            answer : Answers, copy : Requests \cup {0}]

EdgeTypeOK ==
    /\ receipt \in [Sends -> Receipt]
    /\ alarm \in [Sends -> Nat]
    /\ repair \in [Sends -> SeenReceipt]
    /\ call \in [Sends -> [Requests -> Handler]]
    /\ provider \in [Sends -> [Requests -> {"none", "pending"} \cup Outcomes]]
    /\ route \in [Sends -> [Requests -> BOOLEAN]]
    /\ now \in Nat \ {0}

\* The receipt stands for the open call: it refuses further calls until the
\* lifetime of that call is over.
CallIsFenced(s) == \A q \in Requests : OpenCall(s, q) =>
    /\ receipt[s].state \in {"provider_started", "ambiguous", "accepted"}
    /\ receipt[s].expires = call[s][q].calledAt + TTL
    /\ call[s][q].phase = "sending" =>
           receipt[s].state = "provider_started" /\ receipt[s].msgid = 0

OneOpenCall(s) == \A p, q \in Requests : OpenCall(s, p) /\ OpenCall(s, q) => p = q

CallsAreApart(s) == \A p, q \in Requests :
    p # q /\ Risky(s, p) /\ Risky(s, q)
        => \/ call[s][p].calledAt + TTL <= call[s][q].calledAt
           \/ call[s][q].calledAt + TTL <= call[s][p].calledAt

\* What a handler carries over its awaits.
HandlerIsTruthful(s) == \A q \in Requests :
    /\ call[s][q].phase \in {"idle", "sent"} => provider[s][q] = "none"
    /\ call[s][q].phase = "sending" =>
           call[s][q].seen = [msgid |-> 0, expires |-> call[s][q].calledAt + TTL]
    /\ call[s][q].phase = "registering" =>
           call[s][q].seen.msgid \in Requests /\ ProviderAccepted(s, call[s][q].seen.msgid)

\* What the receipt says of an accepted message is so.
ReceiptIsTruthful(s) ==
    /\ receipt[s].msgid # 0 => /\ receipt[s].state \in {"provider_started", "accepted"}
                               /\ ProviderAccepted(s, receipt[s].msgid)
    /\ receipt[s].state = "accepted" => receipt[s].msgid # 0
    /\ receipt[s].state = "accepted" /\ ~ receipt[s].pending => route[s][receipt[s].msgid]
    /\ receipt[s].state # "none" => alarm[s] # 0

SendIsSound(s) ==
    /\ CallIsFenced(s) /\ OneOpenCall(s) /\ CallsAreApart(s)
    /\ HandlerIsTruthful(s) /\ ReceiptIsTruthful(s)

EdgeIsSound == EdgeTypeOK /\ \A s \in Sends : SendIsSound(s)

-----------------------------------------------------------------------------
(* Types *)

\* The constants as the proofs use them.
LEMMA EdgeNumbers ==
    /\ Requests \subseteq Nat \ {0} /\ 0 \notin Requests
    /\ TTL \in Nat \ {0} /\ MaxRepairDelay \in Nat /\ Window \in Nat
    /\ Refusals \subseteq Answers
BY ReceiptAssumption DEF Answers

\* An empty edge is well typed.
LEMMA EdgeTypeInit == InitEdge /\ now \in Nat \ {0} => EdgeTypeOK
BY EdgeNumbers DEF InitEdge, EdgeTypeOK, NoReceipt, NotSeen, Receipt, SeenReceipt, Handler,
   ReceiptStates, Answers, Phases

\* The alarm set for a pending or confirmed receipt is a time, and a real one.
LEMMA ScheduledAlarm ==
    ASSUME NEW s \in Sends, NEW expires \in Nat, NEW pending, EdgeTypeOK,
           Scheduled(s, expires, pending)
    PROVE  /\ alarm' \in [Sends -> Nat]
           /\ \A z \in Sends \ {s} : alarm'[z] = alarm[z]
           /\ expires # 0 => alarm'[s] # 0
<1> USE EdgeNumbers
<1>1. PICK x \in Nat : alarm' = [alarm EXCEPT ![s] = x] /\ (expires # 0 => x # 0)
  <2>1. CASE ~ pending
    BY <2>1 DEF Scheduled
  <2>2. CASE pending
    <3>1. PICK d \in 1 .. MaxRepairDelay :
             alarm' = [alarm EXCEPT ![s] = IF now + d < expires THEN now + d ELSE expires]
      BY <2>2 DEF Scheduled
    <3>2. d \in Nat /\ now \in Nat \ {0} /\ now + d \in Nat \ {0}
      BY DEF EdgeTypeOK
    <3> QED BY <3>1, <3>2
  <2> QED BY <2>1, <2>2
<1> QED BY <1>1 DEF EdgeTypeOK

\* A finalizer writes an accepted receipt over one of the same lineage, or nothing.
LEMMA PersistedReceipt ==
    ASSUME NEW s \in Sends, NEW seen \in SeenReceipt, NEW pending \in BOOLEAN, EdgeTypeOK,
           PersistAccepted(s, seen, pending)
    PROVE  /\ receipt' \in [Sends -> Receipt] /\ alarm' \in [Sends -> Nat]
           /\ \A z \in Sends \ {s} : receipt'[z] = receipt[z] /\ alarm'[z] = alarm[z]
           /\ \/ receipt'[s] = receipt[s] /\ alarm'[s] = alarm[s]
              \/ /\ SameLineage(s, seen) /\ alarm'[s] # 0
                 /\ receipt'[s] = [receipt[s] EXCEPT !.state = "accepted",
                      !.pending = pending /\ ~ (receipt[s].state = "accepted" /\ ~ receipt[s].pending)]
<1>1. CASE SameLineage(s, seen)
  <2> DEFINE still == pending /\ ~ (receipt[s].state = "accepted" /\ ~ receipt[s].pending)
  <2>1. /\ receipt' = [receipt EXCEPT ![s].state = "accepted", ![s].pending = still]
        /\ Scheduled(s, receipt[s].expires, still)
    BY <1>1 DEF PersistAccepted
  <2>2. receipt[s].expires \in Nat /\ receipt[s].expires # 0
    BY <1>1 DEF SameLineage, EdgeTypeOK, Receipt
  <2>3. still \in BOOLEAN /\ receipt[s].pending \in BOOLEAN
    BY DEF EdgeTypeOK, Receipt
  <2>4. /\ alarm' \in [Sends -> Nat] /\ alarm'[s] # 0
        /\ \A z \in Sends \ {s} : alarm'[z] = alarm[z]
    BY <2>1, <2>2, ScheduledAlarm
  <2>5. receipt'[s] = [receipt[s] EXCEPT !.state = "accepted", !.pending = still]
    BY <2>1 DEF EdgeTypeOK, Receipt
  <2>6. receipt'[s] \in Receipt
    <3>1. \A r \in Receipt, b \in BOOLEAN :
              [r EXCEPT !.state = "accepted", !.pending = b] \in Receipt
      BY DEF Receipt, ReceiptStates
    <3>2. receipt[s] \in Receipt
      BY DEF EdgeTypeOK
    <3> QED BY <2>3, <2>5, <3>1, <3>2
  <2>7. /\ receipt' = [receipt EXCEPT ![s] = receipt'[s]]
        /\ \A z \in Sends \ {s} : receipt'[z] = receipt[z]
    BY <2>1 DEF EdgeTypeOK
  <2>8. receipt' \in [Sends -> Receipt]
    BY <2>6, <2>7 DEF EdgeTypeOK
  <2> QED BY <1>1, <2>4, <2>5, <2>7, <2>8
<1>2. CASE ~ SameLineage(s, seen)
  BY <1>2 DEF PersistAccepted, EdgeTypeOK
<1> QED BY <1>1, <1>2

\* The handler of one request goes on as h, the others stay as they are.
Turns(s, q, h) ==
    /\ call' \in [Sends -> [Requests -> Handler]]
    /\ call'[s][q] = h
    /\ \A p \in Requests \ {q} : call'[s][p] = call[s][p]
    /\ \A z \in Sends \ {s} : call'[z] = call[z]

\* How the steps write the record of a handler.
LEMMA HandlerTurns ==
    ASSUME EdgeTypeOK, NEW s \in Sends, NEW q \in Requests, NEW h \in Handler,
           call' = [call EXCEPT ![s][q] = h]
    PROVE  Turns(s, q, h)
BY DEF EdgeTypeOK, Turns

LEMMA HandlerMoves ==
    ASSUME EdgeTypeOK, NEW s \in Sends, NEW q \in Requests, NEW phase \in Phases,
           call' = [call EXCEPT ![s][q].phase = phase]
    PROVE  Turns(s, q, [call[s][q] EXCEPT !.phase = phase])
<1> DEFINE h == [call[s][q] EXCEPT !.phase = phase]
<1>1. call[s][q] \in Handler
  BY DEF EdgeTypeOK
<1>3. h \in Handler
  BY <1>1 DEF Handler, Phases
<1>2. call' = [call EXCEPT ![s][q] = h]
  BY DEF EdgeTypeOK, Handler
<1> QED BY <1>2, <1>3, HandlerTurns

LEMMA HandlerIsRefused ==
    ASSUME EdgeTypeOK, NEW s \in Sends, NEW q \in Requests, NEW answer \in Answers,
           Refuses(s, q, answer)
    PROVE  Turns(s, q, [call[s][q] EXCEPT !.phase = "refused", !.answer = answer])
<1> DEFINE h == [call[s][q] EXCEPT !.phase = "refused", !.answer = answer]
<1>1. call[s][q] \in Handler
  BY DEF EdgeTypeOK
<1>3. h \in Handler
  BY <1>1 DEF Handler, Phases
<1>2. call' = [call EXCEPT ![s][q] = h]
  BY DEF EdgeTypeOK, Handler, Refuses
<1> QED BY <1>2, <1>3, HandlerTurns

LEMMA HandlerReplies ==
    ASSUME EdgeTypeOK, NEW s \in Sends, NEW q \in Requests, NEW answer \in Answers,
           NEW m \in Requests \cup {0}, Replies(s, q, answer, m)
    PROVE  Turns(s, q, [call[s][q] EXCEPT !.phase = "answered", !.answer = answer, !.copy = m])
<1> DEFINE h == [call[s][q] EXCEPT !.phase = "answered", !.answer = answer, !.copy = m]
<1>1. call[s][q] \in Handler
  BY DEF EdgeTypeOK
<1>3. h \in Handler
  BY <1>1 DEF Handler, Phases
<1>2. call' = [call EXCEPT ![s][q] = h]
  BY DEF EdgeTypeOK, Handler, Replies
<1> QED BY <1>2, <1>3, HandlerTurns

\* Routes are only added, and one that is reported as registered is there.
LEMMA RouteTypes ==
    ASSUME EdgeTypeOK, NEW s \in Sends, NEW m, NEW stored \in BOOLEAN, NEW ok \in BOOLEAN,
           RegisterRoute(s, m, stored, ok)
    PROVE  /\ route' \in [Sends -> [Requests -> BOOLEAN]]
           /\ \A z \in Sends \ {s} : route'[z] = route[z]
           /\ \A p \in Requests : route[s][p] => route'[s][p]
           /\ ok /\ m \in Requests => route'[s][m]
<1>1. \A b \in BOOLEAN : (b \/ stored) \in BOOLEAN
  OBVIOUS
<1>2. CASE m \in Requests
  <2>1. PICK b \in BOOLEAN : b = (route[s][m] \/ stored)
    BY <1>1
  <2>2. route' = [route EXCEPT ![s][m] = b]
    BY <2>1 DEF RegisterRoute
  <2>3. (route[s][m] => b) /\ (ok => b)
    BY <2>1 DEF RegisterRoute
  <2> QED BY <1>2, <2>2, <2>3 DEF EdgeTypeOK
<1>3. CASE m \notin Requests
  BY <1>3 DEF RegisterRoute, EdgeTypeOK
<1> QED BY <1>2, <1>3

\* The alarm handler that finishes leaves the receipt, sets another alarm for it,
\* retires it once it is over, or confirms it when its route was registered.
LEMMA AlarmOutcome ==
    ASSUME EdgeTypeOK, NEW s \in Sends, NEW stored \in BOOLEAN, NEW ok \in BOOLEAN,
           AlarmFinishes(s, stored, ok)
    PROVE  /\ receipt' \in [Sends -> Receipt] /\ alarm' \in [Sends -> Nat]
           /\ \A z \in Sends \ {s} : receipt'[z] = receipt[z] /\ alarm'[z] = alarm[z]
           /\ \/ receipt'[s] = receipt[s] /\ (alarm'[s] = alarm[s] \/ alarm'[s] # 0)
              \/ Expired(s) /\ receipt'[s] = NoReceipt /\ alarm'[s] = 0
              \/ /\ ok /\ SameLineage(s, repair[s]) /\ alarm'[s] # 0
                 /\ receipt'[s] = [receipt[s] EXCEPT !.state = "accepted", !.pending = FALSE]
<1> DEFINE seen == repair[s]
<1>1. CASE ~ SameLineage(s, seen)
  <2>1. RetireIfExpired(s, seen)
    BY <1>1 DEF AlarmFinishes
  <2>2. NoReceipt \in Receipt
    BY DEF NoReceipt, Receipt, ReceiptStates
  <2>3. CASE Expired(s) /\ Seen(s) = seen
    <3>1. receipt' = [receipt EXCEPT ![s] = NoReceipt] /\ alarm' = [alarm EXCEPT ![s] = 0]
      BY <2>1, <2>3 DEF RetireIfExpired, Retire
    <3> QED BY <2>2, <2>3, <3>1 DEF EdgeTypeOK
  <2>4. CASE ~ (Expired(s) /\ Seen(s) = seen)
    BY <2>1, <2>4 DEF RetireIfExpired, EdgeTypeOK
  <2> QED BY <2>3, <2>4
<1>2. CASE SameLineage(s, seen) /\ ok
  <2>1. PersistAccepted(s, seen, FALSE) /\ seen \in SeenReceipt
    BY <1>2 DEF AlarmFinishes, EdgeTypeOK
  <2>2. ~ (FALSE /\ ~ (receipt[s].state = "accepted" /\ ~ receipt[s].pending))
    OBVIOUS
  <2>3. \A b \in BOOLEAN : ~ b =>
          [receipt[s] EXCEPT !.state = "accepted", !.pending = b]
             = [receipt[s] EXCEPT !.state = "accepted", !.pending = FALSE]
    OBVIOUS
  <2>4. /\ receipt' \in [Sends -> Receipt] /\ alarm' \in [Sends -> Nat]
        /\ \A z \in Sends \ {s} : receipt'[z] = receipt[z] /\ alarm'[z] = alarm[z]
        /\ \/ receipt'[s] = receipt[s] /\ alarm'[s] = alarm[s]
           \/ /\ alarm'[s] # 0
              /\ receipt'[s] = [receipt[s] EXCEPT !.state = "accepted",
                   !.pending = FALSE /\ ~ (receipt[s].state = "accepted" /\ ~ receipt[s].pending)]
    BY <2>1, PersistedReceipt
  <2> QED BY <1>2, <2>2, <2>3, <2>4
<1>3. CASE SameLineage(s, seen) /\ ~ ok
  <2>1. \/ Scheduled(s, receipt[s].expires, TRUE) /\ UNCHANGED receipt
        \/ UNCHANGED <<receipt, alarm>>
    BY <1>3 DEF AlarmFinishes
  <2>2. receipt[s].expires \in Nat /\ receipt[s].expires # 0
    BY <1>3 DEF SameLineage, EdgeTypeOK, Receipt
  <2> QED BY <2>1, <2>2, ScheduledAlarm DEF EdgeTypeOK
<1> QED BY <1>1, <1>2, <1>3

\* Every step of a request keeps the types.
LEMMA EdgeTypeStep ==
    ASSUME EdgeTypeOK, NEW s \in Sends, NEW q \in Requests,
           SendRequest(s, q) \/ FrontDoor(s, q) \/ Dispatch(s, q) \/ ProviderResolves(s, q)
    PROVE  EdgeTypeOK'
<1> USE EdgeNumbers
<1>1. /\ receipt[s] \in Receipt /\ call[s][q] \in Handler /\ call[s][q].seen \in SeenReceipt
      /\ receipt[s].expires \in Nat /\ receipt[s].msgid \in Requests \cup {0}
      /\ repair[s] \in SeenReceipt /\ alarm[s] \in Nat /\ now + TTL \in Nat /\ now \in Nat
  BY DEF EdgeTypeOK, Receipt, Handler, SeenReceipt
<1>2. Seen(s) \in SeenReceipt /\ NotSeen \in SeenReceipt /\ NoReceipt \in Receipt
  BY <1>1 DEF Seen, NotSeen, NoReceipt, SeenReceipt, Receipt, ReceiptStates
<1>3. Fenced(s) \in Nat
  BY <1>1 DEF Fenced
<1>4. /\ AnswerOf(receipt[s]) \in Answers
      /\ {"sent", "refused", "answered", "registering", "sending", "lost"} \subseteq Phases
  BY DEF AnswerOf, Answers, Phases
<1>5. ASSUME SendRequest(s, q) PROVE EdgeTypeOK'
  BY <1>1, <1>4, <1>5 DEF SendRequest, EdgeTypeOK, Handler
<1>6. ASSUME FrontDoor(s, q) PROVE EdgeTypeOK'
  <2>1. PICK answer \in Answers : Refuses(s, q, answer)
    BY <1>6 DEF FrontDoor, FrontDoorFails, FrontDoorRefuses, Answers
  <2>2. call' \in [Sends -> [Requests -> Handler]]
    BY <2>1, HandlerIsRefused DEF Turns
  <2> QED BY <1>6, <2>2 DEF FrontDoor, FrontDoorFails, FrontDoorRefuses, EdgeTypeOK
<1>7. ASSUME DispatchRetires(s, q) PROVE EdgeTypeOK'
  <2>1. call' \in [Sends -> [Requests -> Handler]]
    BY <1>1, <1>4, <1>7, HandlerReplies DEF DispatchRetires, Turns
  <2> QED BY <1>2, <1>7, <2>1 DEF DispatchRetires, Retire, EdgeTypeOK
<1>8. ASSUME DispatchAnswersFromReceipt(s, q) PROVE EdgeTypeOK'
  <2>1. alarm' \in [Sends -> Nat]
    BY <1>1, <1>3, <1>8, ScheduledAlarm DEF DispatchAnswersFromReceipt, EdgeTypeOK
  <2>2. call' \in [Sends -> [Requests -> Handler]]
    BY <1>1, <1>4, <1>8, HandlerReplies DEF DispatchAnswersFromReceipt, Turns
  <2> QED BY <1>8, <2>1, <2>2 DEF DispatchAnswersFromReceipt, EdgeTypeOK
<1>9. ASSUME DispatchResumes(s, q) PROVE EdgeTypeOK'
  BY <1>1, <1>2, <1>3, <1>4, <1>9 DEF DispatchResumes, EdgeTypeOK, Handler
<1>10. ASSUME DispatchUnavailable(s, q) PROVE EdgeTypeOK'
  <2>1. call' \in [Sends -> [Requests -> Handler]]
    BY <1>10, HandlerReplies DEF DispatchUnavailable, Turns, Answers
  <2> QED BY <1>3, <1>10, <2>1 DEF DispatchUnavailable, EdgeTypeOK
<1>11. ASSUME DispatchCallsProvider(s, q) PROVE EdgeTypeOK'
  <2>1. [NoReceipt EXCEPT !.state = "provider_started", !.expires = now + TTL] \in Receipt
    BY <1>1 DEF NoReceipt, Receipt, ReceiptStates
  <2>2. [NotSeen EXCEPT !.expires = now + TTL] \in SeenReceipt
    BY <1>1 DEF NotSeen, SeenReceipt
  <2>3. call' \in [Sends -> [Requests -> Handler]]
    BY <1>1, <1>4, <1>11, <2>2 DEF DispatchCallsProvider, EdgeTypeOK, Handler
  <2> QED BY <1>1, <1>11, <2>1, <2>3 DEF DispatchCallsProvider, EdgeTypeOK
<1>12. ASSUME DispatchCrashes(s, q) PROVE EdgeTypeOK'
  BY <1>1, <1>4, <1>12 DEF DispatchCrashes, EdgeTypeOK, Handler
<1>13. ASSUME RecordProviderError(s, q) PROVE EdgeTypeOK'
  <2> DEFINE verdict == ProviderError(provider[s][q])
  <2>1. verdict \in {"retryable", "rejected", "ambiguous"} /\ verdict \in Answers
    BY DEF ProviderError, Answers
  <2>2. call[s][q].seen.expires \in Nat
    BY <1>1 DEF SeenReceipt
  <2>3. \A v \in {"retryable", "rejected", "ambiguous"}, t \in Nat :
          [NoReceipt EXCEPT !.state = v, !.expires = t] \in Receipt
    BY DEF NoReceipt, Receipt, ReceiptStates
  <2>4. call' \in [Sends -> [Requests -> Handler]]
    BY <1>13, <2>1, HandlerReplies DEF RecordProviderError, Turns
  <2> QED BY <1>13, <2>1, <2>2, <2>3, <2>4 DEF RecordProviderError, EdgeTypeOK
<1>14. ASSUME RecordProviderAcceptance(s, q) PROVE EdgeTypeOK'
  <2>1. call[s][q].seen.expires \in Nat
    BY <1>1 DEF SeenReceipt
  <2>2. \A t \in Nat :
          [NoReceipt EXCEPT !.state = "provider_started", !.msgid = q, !.expires = t] \in Receipt
    BY DEF NoReceipt, Receipt, ReceiptStates
  <2> DEFINE h == [call[s][q] EXCEPT !.phase = "registering", !.seen.msgid = q]
  <2>3. call' = [call EXCEPT ![s][q] = h]
    BY <1>1, <1>14 DEF RecordProviderAcceptance, EdgeTypeOK, Handler
  <2>4. h \in Handler
    BY <1>1 DEF Handler, Phases, SeenReceipt
  <2>5. call' \in [Sends -> [Requests -> Handler]]
    BY <2>3, <2>4, HandlerTurns DEF Turns
  <2> QED BY <1>14, <2>1, <2>2, <2>5 DEF RecordProviderAcceptance, EdgeTypeOK
<1>15. ASSUME NEW stored \in BOOLEAN, NEW ok \in BOOLEAN, FinishAccepted(s, q, stored, ok)
       PROVE  EdgeTypeOK'
  <2>1. call' \in [Sends -> [Requests -> Handler]]
    BY <1>1, <1>15, HandlerReplies DEF FinishAccepted, Turns, Answers, SeenReceipt
  <2>2. receipt' \in [Sends -> Receipt] /\ alarm' \in [Sends -> Nat]
    BY <1>1, <1>15, PersistedReceipt DEF FinishAccepted
  <2>3. route' \in [Sends -> [Requests -> BOOLEAN]]
    BY <1>15, RouteTypes DEF FinishAccepted
  <2> QED BY <1>15, <2>1, <2>2, <2>3 DEF FinishAccepted, EdgeTypeOK
<1>16. ASSUME NEW stored \in BOOLEAN, Lose(s, q, stored) PROVE EdgeTypeOK'
  <2>1. call' \in [Sends -> [Requests -> Handler]]
    BY <1>4, <1>16, HandlerMoves DEF Lose, Turns
  <2>2. route' \in [Sends -> [Requests -> BOOLEAN]]
    <3>1. CASE call[s][q].phase = "registering"
      BY <1>16, <3>1, RouteTypes DEF Lose
    <3>2. CASE call[s][q].phase # "registering"
      BY <1>16, <3>2 DEF Lose, EdgeTypeOK
    <3> QED BY <3>1, <3>2
  <2> QED BY <1>16, <2>1, <2>2 DEF Lose, EdgeTypeOK
<1>17. ASSUME ProviderResolves(s, q) PROVE EdgeTypeOK'
  BY <1>17 DEF ProviderResolves, EdgeTypeOK
<1> QED
  BY <1>5, <1>6, <1>7, <1>8, <1>9, <1>10, <1>11, <1>12, <1>13, <1>14, <1>15, <1>16, <1>17
     DEF Dispatch

\* So does every step of an alarm, and a replay of the receipt.
LEMMA AlarmTypeStep ==
    ASSUME EdgeTypeOK, NEW s \in Sends, Alarm(s) \/ ReceiptReplay(s)
    PROVE  EdgeTypeOK'
<1> USE EdgeNumbers
<1>1. /\ receipt[s] \in Receipt
      /\ receipt[s].expires \in Nat /\ receipt[s].msgid \in Requests \cup {0}
      /\ repair[s] \in SeenReceipt /\ alarm[s] \in Nat
  BY DEF EdgeTypeOK, Receipt, SeenReceipt
<1>2. Seen(s) \in SeenReceipt /\ NotSeen \in SeenReceipt /\ NoReceipt \in Receipt
  BY <1>1 DEF Seen, NotSeen, NoReceipt, SeenReceipt, Receipt, ReceiptStates
<1>3. Fenced(s) \in Nat
  BY <1>1 DEF Fenced
<1>4. ASSUME AlarmFires(s) PROVE EdgeTypeOK'
  <2>1. CASE ~ Live(s)
    <3>1. /\ receipt' = [receipt EXCEPT ![s] = NoReceipt] /\ alarm' = [alarm EXCEPT ![s] = 0]
          /\ UNCHANGED <<repair, call, provider, route, now>>
      BY <1>4, <2>1 DEF AlarmFires, Retire
    <3> QED BY <1>2, <3>1 DEF EdgeTypeOK
  <2>2. CASE Live(s)
    <3>1. (IF receipt[s].pending THEN Seen(s) ELSE NotSeen) \in SeenReceipt
      BY <1>2
    <3>2. PICK view \in SeenReceipt : repair' = [repair EXCEPT ![s] = view]
      BY <1>4, <2>2, <3>1 DEF AlarmFires
    <3> QED BY <1>1, <1>4, <2>2, <3>2 DEF AlarmFires, EdgeTypeOK
  <2> QED BY <2>1, <2>2
<1>5. ASSUME AlarmCrashes(s) PROVE EdgeTypeOK'
  BY <1>2, <1>5 DEF AlarmCrashes, EdgeTypeOK
<1>6. ASSUME NEW stored \in BOOLEAN, NEW ok \in BOOLEAN, AlarmFinishes(s, stored, ok)
       PROVE  EdgeTypeOK'
  <2>1. RegisterRoute(s, repair[s].msgid, stored, ok) /\ repair' = [repair EXCEPT ![s] = NotSeen]
    BY <1>6 DEF AlarmFinishes
  <2>2. route' \in [Sends -> [Requests -> BOOLEAN]]
    BY <2>1, RouteTypes
  <2>4. repair' \in [Sends -> SeenReceipt]
    BY <1>2, <2>1 DEF EdgeTypeOK
  <2>3. receipt' \in [Sends -> Receipt] /\ alarm' \in [Sends -> Nat]
    BY <1>6, AlarmOutcome
  <2>5. UNCHANGED <<call, provider, now>>
    BY <1>6 DEF AlarmFinishes
  <2> QED BY <2>2, <2>3, <2>4, <2>5 DEF EdgeTypeOK
<1>7. ASSUME ReceiptReplay(s) PROVE EdgeTypeOK'
  <2>1. receipt' \in [Sends -> Receipt]
    BY <1>2, <1>7 DEF ReceiptReplay, Retire, EdgeTypeOK
  <2>2. alarm' \in [Sends -> Nat]
    BY <1>3, <1>7 DEF ReceiptReplay, Retire, EdgeTypeOK
  <2>3. UNCHANGED <<repair, call, provider, route, now>>
    BY <1>7 DEF ReceiptReplay
  <2> QED BY <2>1, <2>2, <2>3 DEF EdgeTypeOK
<1> QED BY <1>4, <1>5, <1>6, <1>7 DEF Alarm

-----------------------------------------------------------------------------
(* Each send by itself *)

\* How a handler may go on without touching what the invariant says of its call.
HandlersGoOn(s) == \A q \in Requests :
    /\ call'[s][q].calledAt = call[s][q].calledAt
    /\ \/ call'[s][q].phase = call[s][q].phase /\ call'[s][q].seen = call[s][q].seen
       \/ call[s][q].phase = "idle" /\ call'[s][q].phase = "sent"
       \/ call'[s][q].phase \in {"refused", "answered", "lost"}
       \/ /\ call'[s][q].phase = "registering"
          /\ call'[s][q].seen.msgid \in Requests
          /\ ProviderAccepted(s, call'[s][q].seen.msgid)

RoutesStay(s) == \A q \in Requests : route[s][q] => route'[s][q]

LEMMA OneGoesOn ==
    ASSUME NEW s, NEW q \in Requests, NEW h, Turns(s, q, h),
           h.calledAt = call[s][q].calledAt,
           \/ call[s][q].phase = "idle" /\ h.phase = "sent"
           \/ h.phase \in {"refused", "answered", "lost"}
           \/ /\ h.phase = "registering" /\ h.seen.msgid \in Requests
              /\ ProviderAccepted(s, h.seen.msgid)
    PROVE  HandlersGoOn(s)
BY DEF Turns, HandlersGoOn

\* A step of one send is none of another's.
LEMMA OtherSend ==
    ASSUME NEW s, SendIsSound(s),
           receipt'[s] = receipt[s], alarm'[s] = alarm[s], call'[s] = call[s],
           provider'[s] = provider[s], route'[s] = route[s], now' = now
    PROVE  SendIsSound(s)'
BY DEF SendIsSound, CallIsFenced, OneOpenCall, CallsAreApart, HandlerIsTruthful,
       ReceiptIsTruthful, OpenCall, Risky, ProviderAccepted

\* Time only ends calls.
LEMMA TimePasses ==
    ASSUME EdgeTypeOK, NEW s \in Sends, SendIsSound(s), UNCHANGED edgeVars, now' = now + 1
    PROVE  SendIsSound(s)'
<1>1. \A q \in Requests : call[s][q].calledAt \in Nat /\ now \in Nat /\ TTL \in Nat
  BY EdgeNumbers DEF EdgeTypeOK, Handler
<1>2. \A q \in Requests : OpenCall(s, q)' => OpenCall(s, q)
  BY <1>1 DEF OpenCall, Risky, ProviderAccepted, edgeVars
<1> QED
  BY <1>2 DEF SendIsSound, CallIsFenced, OneOpenCall, CallsAreApart, HandlerIsTruthful,
     ReceiptIsTruthful, Risky, ProviderAccepted, edgeVars

\* While handlers go on, what they and the provider say of a call stays true.
LEMMA CallsGoOn ==
    ASSUME EdgeTypeOK, NEW s \in Sends, SendIsSound(s), HandlersGoOn(s),
           provider'[s] = provider[s], now' = now
    PROVE  /\ \A q \in Requests : /\ OpenCall(s, q)' => OpenCall(s, q)
                                  /\ Risky(s, q)' = Risky(s, q)
                                  /\ ProviderAccepted(s, q)' = ProviderAccepted(s, q)
                                  /\ call'[s][q].phase = "sending" => call[s][q].phase = "sending"
           /\ (OneOpenCall(s) /\ CallsAreApart(s) /\ HandlerIsTruthful(s))'
<1>1. \A q \in Requests : /\ ProviderAccepted(s, q)' = ProviderAccepted(s, q)
                          /\ Risky(s, q)' = Risky(s, q)
  BY DEF Risky, ProviderAccepted
<1>2. \A q \in Requests :
          /\ call'[s][q].calledAt = call[s][q].calledAt
          /\ call'[s][q].phase = "sending" =>
                call[s][q].phase = "sending" /\ call'[s][q].seen = call[s][q].seen
  BY DEF HandlersGoOn
<1>3. \A q \in Requests : OpenCall(s, q)' => OpenCall(s, q)
  BY <1>1, <1>2 DEF OpenCall
<1>4. (OneOpenCall(s) /\ CallsAreApart(s))'
  BY <1>1, <1>2, <1>3 DEF SendIsSound, OneOpenCall, CallsAreApart
<1>5. HandlerIsTruthful(s)'
  BY <1>2 DEF SendIsSound, HandlerIsTruthful, HandlersGoOn, ProviderAccepted
<1> QED BY <1>1, <1>2, <1>3, <1>4, <1>5

\* The receipt stays.
LEMMA ReceiptStays ==
    ASSUME EdgeTypeOK, NEW s \in Sends, SendIsSound(s), HandlersGoOn(s), RoutesStay(s),
           provider'[s] = provider[s], now' = now,
           receipt'[s] = receipt[s], receipt[s].state # "none" => alarm'[s] # 0
    PROVE  SendIsSound(s)'
<1>1. CallIsFenced(s)'
  BY CallsGoOn DEF SendIsSound, CallIsFenced, HandlersGoOn
<1>2. receipt[s].msgid \in Requests \cup {0}
  BY DEF EdgeTypeOK, Receipt
<1>3. ReceiptIsTruthful(s)'
  BY <1>2 DEF SendIsSound, ReceiptIsTruthful, ProviderAccepted, RoutesStay
<1> QED BY <1>1, <1>3, CallsGoOn DEF SendIsSound

\* A receipt that is over is retired, and no call is open behind it.
LEMMA ReceiptGoes ==
    ASSUME EdgeTypeOK, NEW s \in Sends, SendIsSound(s), HandlersGoOn(s), ~ Live(s),
           provider'[s] = provider[s], now' = now, receipt'[s] = NoReceipt
    PROVE  SendIsSound(s)'
<1>1. \A q \in Requests : ~ OpenCall(s, q)
  BY DEF SendIsSound, CallIsFenced, OpenCall, Live
<1>2. CallIsFenced(s)' /\ ReceiptIsTruthful(s)'
  BY <1>1, CallsGoOn DEF CallIsFenced, ReceiptIsTruthful, NoReceipt
<1> QED BY <1>2, CallsGoOn DEF SendIsSound

\* The receipt of an accepted message becomes a confirmed or a pending one.
LEMMA ReceiptFinalized ==
    ASSUME EdgeTypeOK, NEW s \in Sends, SendIsSound(s), HandlersGoOn(s), RoutesStay(s),
           provider'[s] = provider[s], now' = now,
           NEW seen, SameLineage(s, seen), alarm'[s] # 0, NEW pending \in BOOLEAN,
           receipt'[s] = [receipt[s] EXCEPT !.state = "accepted", !.pending = pending],
           ~ pending => \/ route'[s][receipt[s].msgid]
                        \/ receipt[s].state = "accepted" /\ ~ receipt[s].pending
    PROVE  SendIsSound(s)'
<1>1. /\ receipt[s].msgid \in Requests
      /\ receipt'[s].state = "accepted" /\ receipt'[s].pending = pending
      /\ receipt'[s].msgid = receipt[s].msgid /\ receipt'[s].expires = receipt[s].expires
  BY DEF EdgeTypeOK, Receipt, SameLineage
<1>2. CallIsFenced(s)'
  BY <1>1, CallsGoOn, EdgeNumbers DEF SendIsSound, CallIsFenced, HandlersGoOn
<1>3. ReceiptIsTruthful(s)'
  BY <1>1, EdgeNumbers DEF SendIsSound, ReceiptIsTruthful, ProviderAccepted, RoutesStay
<1> QED BY <1>2, <1>3, CallsGoOn DEF SendIsSound

\* A verified request calls the provider only over a receipt that stands for no call.
LEMMA CallBegins ==
    ASSUME EdgeTypeOK, NEW s \in Sends, NEW q \in Requests, SendIsSound(s),
           DispatchCallsProvider(s, q)
    PROVE  SendIsSound(s)'
<1> USE EdgeNumbers
<1>1. \A p \in Requests : ~ OpenCall(s, p) /\ call[s][p].calledAt \in Nat /\ now \in Nat
  <2>1. receipt[s].state \in {"none", "retryable"}
    BY DEF DispatchCallsProvider, MayCallProvider
  <2>2. \A p \in Requests : call[s][p].calledAt \in Nat /\ now \in Nat
    BY DEF EdgeTypeOK, Handler
  <2> QED BY <2>1, <2>2 DEF SendIsSound, CallIsFenced
<1>2. \A p \in Requests : Risky(s, p) => call[s][p].calledAt + TTL <= now
  BY <1>1 DEF OpenCall
<1>3. /\ call'[s][q].phase = "sending" /\ call'[s][q].calledAt = now
      /\ call'[s][q].seen = [msgid |-> 0, expires |-> now + TTL]
      /\ \A p \in Requests \ {q} : call'[s][p] = call[s][p]
  BY DEF DispatchCallsProvider, EdgeTypeOK, Handler, NotSeen
<1>4. /\ provider'[s][q] = "pending" /\ now' = now /\ route' = route
      /\ \A p \in Requests \ {q} : provider'[s][p] = provider[s][p]
      /\ alarm'[s] # 0
      /\ receipt'[s].state = "provider_started" /\ receipt'[s].msgid = 0
      /\ receipt'[s].expires = now + TTL
  BY <1>1 DEF DispatchCallsProvider, EdgeTypeOK, NoReceipt
<1>5. /\ Risky(s, q)' /\ \A p \in Requests \ {q} : /\ Risky(s, p)' = Risky(s, p)
                                                   /\ OpenCall(s, p)' = OpenCall(s, p)
  BY <1>3, <1>4 DEF Risky, OpenCall, ProviderAccepted
<1>6. CallIsFenced(s)' /\ OneOpenCall(s)'
  BY <1>1, <1>3, <1>4, <1>5 DEF CallIsFenced, OneOpenCall
<1>7. CallsAreApart(s)'
  BY <1>2, <1>3, <1>5 DEF CallsAreApart, SendIsSound
<1>8. HandlerIsTruthful(s)'
  <2>1. provider[s][q] = "none"
    BY DEF DispatchCallsProvider, Delivered, SendIsSound, HandlerIsTruthful
  <2>2. \A p \in Requests : ProviderAccepted(s, p) => ProviderAccepted(s, p)'
    BY <1>4, <2>1 DEF ProviderAccepted
  <2>3. ASSUME NEW p \in Requests \ {q}
        PROVE  (/\ call[s][p].phase \in {"idle", "sent"} => provider[s][p] = "none"
                /\ call[s][p].phase = "sending" =>
                      call[s][p].seen = [msgid |-> 0, expires |-> call[s][p].calledAt + TTL]
                /\ call[s][p].phase = "registering" =>
                      /\ call[s][p].seen.msgid \in Requests
                      /\ ProviderAccepted(s, call[s][p].seen.msgid))'
    <3>1. call'[s][p] = call[s][p] /\ provider'[s][p] = provider[s][p]
      BY <1>3, <1>4
    <3>2. call[s][p].phase = "registering" =>
              /\ call[s][p].seen.msgid \in Requests
              /\ ProviderAccepted(s, call[s][p].seen.msgid)
      BY DEF SendIsSound, HandlerIsTruthful
    <3> QED BY <2>2, <3>1, <3>2 DEF SendIsSound, HandlerIsTruthful, ProviderAccepted
  <2>4. call'[s][q].phase = "sending"
        /\ call'[s][q].seen = [msgid |-> 0, expires |-> call'[s][q].calledAt + TTL]
    BY <1>3
  <2> QED BY <2>3, <2>4 DEF HandlerIsTruthful
<1>9. ReceiptIsTruthful(s)'
  BY <1>4 DEF ReceiptIsTruthful
<1> QED BY <1>6, <1>7, <1>8, <1>9 DEF SendIsSound

\* What the handler of the open call records over its own receipt.
LEMMA OwnReceipt ==
    ASSUME EdgeTypeOK, NEW s \in Sends, NEW q \in Requests, SendIsSound(s),
           call[s][q].phase = "sending", InTime(s, q)
    PROVE  /\ OpenCall(s, q) /\ call[s][q].seen.msgid = 0
           /\ call[s][q].seen.expires = call[s][q].calledAt + TTL
           /\ receipt[s].state = "provider_started" /\ receipt[s].msgid = 0
           /\ \A p \in Requests \ {q} : ~ OpenCall(s, p)
           /\ alarm[s] # 0
<1>1. call[s][q].seen = [msgid |-> 0, expires |-> call[s][q].calledAt + TTL]
  BY DEF SendIsSound, HandlerIsTruthful
<1>2. OpenCall(s, q)
  BY <1>1 DEF OpenCall, InTime
<1> QED BY <1>1, <1>2 DEF SendIsSound, CallIsFenced, OneOpenCall, ReceiptIsTruthful

LEMMA CallFails ==
    ASSUME EdgeTypeOK, NEW s \in Sends, NEW q \in Requests, SendIsSound(s),
           RecordProviderError(s, q)
    PROVE  SendIsSound(s)'
<1> USE EdgeNumbers
<1> DEFINE verdict == ProviderError(provider[s][q])
<1>1. call[s][q].phase = "sending" /\ InTime(s, q)
  BY DEF RecordProviderError
<1>2. verdict \in Answers
  BY DEF ProviderError, Answers
<1>3. Turns(s, q, [call[s][q] EXCEPT !.phase = "answered", !.answer = verdict, !.copy = 0])
  BY <1>2, HandlerReplies DEF RecordProviderError
<1>4. HandlersGoOn(s) /\ provider'[s] = provider[s] /\ now' = now /\ route' = route
  <2>1. call[s][q] \in Handler
    BY DEF EdgeTypeOK
  <2>2. HandlersGoOn(s)
    BY <1>3, <2>1, OneGoesOn DEF Handler
  <2> QED BY <2>2 DEF RecordProviderError
<1>5. /\ receipt'[s].state = verdict /\ receipt'[s].expires = call[s][q].seen.expires
      /\ receipt'[s].msgid = 0 /\ alarm'[s] = call[s][q].seen.expires
  BY DEF RecordProviderError, EdgeTypeOK, NoReceipt
<1>6. verdict # "accepted" /\ verdict # "none"
  BY DEF ProviderError
<1>7. Risky(s, q) => verdict = "ambiguous"
  BY DEF ProviderError, Risky, ProviderAccepted, RecordProviderError, Outcomes
<1>8. call'[s][q].phase = "answered" /\ call'[s][q].calledAt = call[s][q].calledAt
  BY <1>3 DEF Turns, EdgeTypeOK, Handler
<1>9. CallIsFenced(s)'
  <2>1. ASSUME NEW p \in Requests, OpenCall(s, p)'
        PROVE  p = q /\ Risky(s, p)
    <3>1. OpenCall(s, p) /\ Risky(s, p)' = Risky(s, p)
      BY <1>4, <2>1, CallsGoOn
    <3>2. p = q
      BY <1>1, <3>1, OwnReceipt
    <3> QED BY <1>8, <2>1, <3>1, <3>2 DEF OpenCall
  <2> QED BY <1>1, <1>5, <1>7, <1>8, <2>1, OwnReceipt DEF CallIsFenced
<1>10. ReceiptIsTruthful(s)'
  <2>1. call[s][q].seen.expires # 0
    BY <1>1 DEF InTime, EdgeTypeOK
  <2> QED BY <1>5, <1>6, <2>1 DEF ReceiptIsTruthful
<1> QED BY <1>4, <1>9, <1>10, CallsGoOn DEF SendIsSound

LEMMA CallSucceeds ==
    ASSUME EdgeTypeOK, NEW s \in Sends, NEW q \in Requests, SendIsSound(s),
           RecordProviderAcceptance(s, q)
    PROVE  SendIsSound(s)'
<1> USE EdgeNumbers
<1>1. call[s][q].phase = "sending" /\ InTime(s, q) /\ ProviderAccepted(s, q)
  BY DEF RecordProviderAcceptance, ProviderAccepted
<1>2. /\ call'[s][q].phase = "registering" /\ call'[s][q].seen.msgid = q
      /\ call'[s][q].calledAt = call[s][q].calledAt
      /\ \A p \in Requests \ {q} : call'[s][p] = call[s][p]
  BY DEF RecordProviderAcceptance, EdgeTypeOK, Handler, SeenReceipt
<1>3. HandlersGoOn(s) /\ provider'[s] = provider[s] /\ now' = now /\ alarm' = alarm
  BY <1>1, <1>2 DEF HandlersGoOn, RecordProviderAcceptance, ProviderAccepted
<1>4. /\ receipt'[s].state = "provider_started" /\ receipt'[s].msgid = q
      /\ receipt'[s].expires = call[s][q].seen.expires
  BY DEF RecordProviderAcceptance, EdgeTypeOK, NoReceipt
<1>5. CallIsFenced(s)'
  <2>1. ASSUME NEW p \in Requests, OpenCall(s, p)'
        PROVE  p = q
    BY <1>1, <1>3, <2>1, OwnReceipt, CallsGoOn
  <2> QED BY <1>1, <1>2, <1>4, <2>1, OwnReceipt DEF CallIsFenced
<1>6. ReceiptIsTruthful(s)'
  BY <1>1, <1>3, <1>4, OwnReceipt DEF ReceiptIsTruthful, ProviderAccepted
<1> QED BY <1>3, <1>5, <1>6, CallsGoOn DEF SendIsSound

\* The provider makes up its mind about one call.
LEMMA CallResolves ==
    ASSUME EdgeTypeOK, NEW s \in Sends, NEW q \in Requests, SendIsSound(s),
           ProviderResolves(s, q)
    PROVE  SendIsSound(s)'
<1>1. /\ Risky(s, q) /\ UNCHANGED <<receipt, alarm, call, route, now>>
      /\ provider'[s][q] \in Outcomes
      /\ \A p \in Requests \ {q} : provider'[s][p] = provider[s][p]
      /\ provider[s][q] = "pending"
  BY DEF ProviderResolves, Risky, EdgeTypeOK
<1>2. \A p \in Requests : /\ Risky(s, p)' => Risky(s, p)
                          /\ OpenCall(s, p)' => OpenCall(s, p)
                          /\ ProviderAccepted(s, p) => ProviderAccepted(s, p)'
  BY <1>1 DEF Risky, OpenCall, ProviderAccepted
<1>3. CallIsFenced(s)' /\ OneOpenCall(s)' /\ CallsAreApart(s)'
  BY <1>1, <1>2 DEF SendIsSound, CallIsFenced, OneOpenCall, CallsAreApart
<1>4. HandlerIsTruthful(s)'
  BY <1>1, <1>2 DEF SendIsSound, HandlerIsTruthful
<1>5. ReceiptIsTruthful(s)'
  BY <1>1, <1>2 DEF SendIsSound, ReceiptIsTruthful, EdgeTypeOK, Receipt
<1> QED BY <1>3, <1>4, <1>5 DEF SendIsSound

\* A request that ends, or a handler that takes up a known acceptance.
LEMMA QuietRequest ==
    ASSUME EdgeTypeOK, NEW s \in Sends, NEW q \in Requests, SendIsSound(s),
           \/ SendRequest(s, q) \/ FrontDoor(s, q) \/ DispatchAnswersFromReceipt(s, q)
           \/ DispatchUnavailable(s, q) \/ DispatchCrashes(s, q)
           \/ DispatchResumes(s, q) \/ DispatchRetires(s, q)
    PROVE  SendIsSound(s)'
<1> USE EdgeNumbers
<1>1. /\ receipt[s] \in Receipt /\ call[s][q] \in Handler /\ now \in Nat \ {0}
      /\ receipt[s].expires \in Nat /\ receipt[s].msgid \in Requests \cup {0}
      /\ AnswerOf(receipt[s]) \in Answers /\ alarm[s] \in Nat
  BY DEF EdgeTypeOK, Receipt, AnswerOf, Answers
<1>2. receipt[s].state # "none" => alarm[s] # 0
  BY DEF SendIsSound, ReceiptIsTruthful
<1>3. Live(s) => Fenced(s) # 0 /\ receipt[s].expires # 0
  BY <1>1, <1>2 DEF Live, Fenced
<1>4. ASSUME SendRequest(s, q) PROVE SendIsSound(s)'
  <2>1. HandlersGoOn(s)
    BY <1>1, <1>4 DEF SendRequest, HandlersGoOn, EdgeTypeOK, Handler
  <2> QED BY <1>2, <1>4, <2>1, ReceiptStays DEF SendRequest, RoutesStay
<1>5. ASSUME FrontDoor(s, q) PROVE SendIsSound(s)'
  <2>1. PICK answer \in Answers : Refuses(s, q, answer)
    BY <1>5 DEF FrontDoor, FrontDoorFails, FrontDoorRefuses, Answers
  <2>2. HandlersGoOn(s)
    BY <1>1, <2>1, HandlerIsRefused, OneGoesOn DEF Handler
  <2>3. UNCHANGED <<receipt, alarm, repair, provider, route, now>>
    BY <1>5 DEF FrontDoor, FrontDoorFails, FrontDoorRefuses
  <2> QED BY <1>2, <2>2, <2>3, ReceiptStays DEF RoutesStay
<1>6. ASSUME DispatchAnswersFromReceipt(s, q) PROVE SendIsSound(s)'
  <2>1. Turns(s, q, [call[s][q] EXCEPT !.phase = "answered", !.answer = AnswerOf(receipt[s]),
                                       !.copy = receipt[s].msgid])
    BY <1>1, <1>6, HandlerReplies DEF DispatchAnswersFromReceipt
  <2>2. HandlersGoOn(s)
    BY <1>1, <2>1, OneGoesOn DEF Handler
  <2>3. alarm'[s] # 0
    BY <1>1, <1>3, <1>6, ScheduledAlarm DEF DispatchAnswersFromReceipt, EdgeTypeOK
  <2> QED BY <1>6, <2>2, <2>3, ReceiptStays DEF DispatchAnswersFromReceipt, RoutesStay
<1>7. ASSUME DispatchUnavailable(s, q) PROVE SendIsSound(s)'
  <2>1. Turns(s, q, [call[s][q] EXCEPT !.phase = "answered", !.answer = "retryable", !.copy = 0])
    BY <1>7, HandlerReplies DEF DispatchUnavailable, Answers
  <2>2. HandlersGoOn(s)
    BY <1>1, <2>1, OneGoesOn DEF Handler
  <2>3. receipt[s].state # "none" => alarm'[s] # 0
    BY <1>2, <1>3, <1>7 DEF DispatchUnavailable, EdgeTypeOK
  <2> QED BY <1>7, <2>2, <2>3, ReceiptStays DEF DispatchUnavailable, RoutesStay
<1>8. ASSUME DispatchCrashes(s, q) PROVE SendIsSound(s)'
  <2>1. HandlersGoOn(s)
    BY <1>1, <1>8, HandlerMoves, OneGoesOn DEF DispatchCrashes, Phases, Handler
  <2>2. alarm'[s] # 0
    BY <1>1, <1>8 DEF DispatchCrashes, EdgeTypeOK
  <2> QED BY <1>8, <2>1, <2>2, ReceiptStays DEF DispatchCrashes, RoutesStay
<1>9. ASSUME DispatchResumes(s, q) PROVE SendIsSound(s)'
  <2>1. receipt[s].msgid \in Requests /\ ProviderAccepted(s, receipt[s].msgid)
    BY <1>1, <1>9 DEF DispatchResumes, SendIsSound, ReceiptIsTruthful
  <2>2. /\ call'[s][q].phase = "registering" /\ call'[s][q].seen.msgid = receipt[s].msgid
        /\ call'[s][q].calledAt = call[s][q].calledAt
        /\ \A p \in Requests \ {q} : call'[s][p] = call[s][p]
    BY <1>9 DEF DispatchResumes, EdgeTypeOK, Handler, Seen
  <2>3. HandlersGoOn(s)
    BY <2>1, <2>2 DEF HandlersGoOn
  <2>4. alarm'[s] # 0
    BY <1>3, <1>9 DEF DispatchResumes, EdgeTypeOK
  <2> QED BY <1>9, <2>3, <2>4, ReceiptStays DEF DispatchResumes, RoutesStay
<1>10. ASSUME DispatchRetires(s, q) PROVE SendIsSound(s)'
  <2>1. Turns(s, q, [call[s][q] EXCEPT !.phase = "answered", !.answer = AnswerOf(receipt[s]),
                                       !.copy = receipt[s].msgid])
    BY <1>1, <1>10, HandlerReplies DEF DispatchRetires
  <2>2. HandlersGoOn(s)
    BY <1>1, <2>1, OneGoesOn DEF Handler
  <2>3. ~ Live(s) /\ receipt'[s] = NoReceipt
    BY <1>1, <1>10 DEF DispatchRetires, Expired, Live, Retire, EdgeTypeOK
  <2> QED BY <1>10, <2>2, <2>3, ReceiptGoes DEF DispatchRetires
<1> QED BY <1>4, <1>5, <1>6, <1>7, <1>8, <1>9, <1>10

\* The finalizer of a request, and a request that dies.
LEMMA RequestEnds ==
    ASSUME EdgeTypeOK, NEW s \in Sends, NEW q \in Requests, SendIsSound(s),
           NEW stored \in BOOLEAN, NEW ok \in BOOLEAN,
           FinishAccepted(s, q, stored, ok) \/ Lose(s, q, stored)
    PROVE  SendIsSound(s)'
<1> USE EdgeNumbers
<1>1. /\ call[s][q] \in Handler /\ call[s][q].seen \in SeenReceipt
      /\ call[s][q].seen.msgid \in Requests \cup {0}
      /\ receipt[s] \in Receipt /\ receipt[s].pending \in BOOLEAN
  BY DEF EdgeTypeOK, Handler, SeenReceipt, Receipt
<1>2. receipt[s].state # "none" => alarm[s] # 0
  BY DEF SendIsSound, ReceiptIsTruthful
<1>3. ASSUME FinishAccepted(s, q, stored, ok) PROVE SendIsSound(s)'
  <2> DEFINE seen == call[s][q].seen
  <2>1. Turns(s, q, [call[s][q] EXCEPT !.phase = "answered", !.answer = "accepted",
                                       !.copy = seen.msgid])
    BY <1>1, <1>3, HandlerReplies DEF FinishAccepted, Answers
  <2>2. HandlersGoOn(s)
    BY <1>1, <2>1, OneGoesOn DEF Handler
  <2>3. RoutesStay(s) /\ (ok /\ seen.msgid \in Requests => route'[s][seen.msgid])
    BY <1>3, RouteTypes DEF FinishAccepted, RoutesStay
  <2>4. provider'[s] = provider[s] /\ now' = now
    BY <1>3 DEF FinishAccepted
  <2>5. /\ PersistAccepted(s, seen, ~ ok) /\ (~ ok) \in BOOLEAN
        /\ \/ receipt'[s] = receipt[s] /\ alarm'[s] = alarm[s]
           \/ /\ SameLineage(s, seen) /\ alarm'[s] # 0
              /\ receipt'[s] = [receipt[s] EXCEPT !.state = "accepted",
                   !.pending = ~ ok /\ ~ (receipt[s].state = "accepted" /\ ~ receipt[s].pending)]
    BY <1>1, <1>3, PersistedReceipt DEF FinishAccepted
  <2>6. CASE receipt'[s] = receipt[s] /\ alarm'[s] = alarm[s]
    BY <1>2, <2>2, <2>3, <2>4, <2>6, ReceiptStays
  <2>7. CASE /\ SameLineage(s, seen) /\ alarm'[s] # 0
             /\ receipt'[s] = [receipt[s] EXCEPT !.state = "accepted",
                  !.pending = ~ ok /\ ~ (receipt[s].state = "accepted" /\ ~ receipt[s].pending)]
    <3>1. PICK pending \in BOOLEAN :
             pending = (~ ok /\ ~ (receipt[s].state = "accepted" /\ ~ receipt[s].pending))
      OBVIOUS
    <3>2. receipt'[s] = [receipt[s] EXCEPT !.state = "accepted", !.pending = pending]
      BY <2>7, <3>1
    <3>3. ~ pending => \/ route'[s][receipt[s].msgid]
                       \/ receipt[s].state = "accepted" /\ ~ receipt[s].pending
      BY <1>1, <2>3, <2>7, <3>1 DEF SameLineage
    <3> QED BY <2>2, <2>3, <2>4, <2>7, <3>2, <3>3, ReceiptFinalized
  <2> QED BY <2>5, <2>6, <2>7
<1>4. ASSUME Lose(s, q, stored) PROVE SendIsSound(s)'
  <2>1. HandlersGoOn(s)
    BY <1>1, <1>4, HandlerMoves, OneGoesOn DEF Lose, Phases, Handler
  <2>2. RoutesStay(s)
    <3>1. CASE call[s][q].phase = "registering"
      BY <1>4, <3>1, RouteTypes DEF Lose, RoutesStay
    <3>2. CASE call[s][q].phase # "registering"
      BY <1>4, <3>2 DEF Lose, RoutesStay
    <3> QED BY <3>1, <3>2
  <2> QED BY <1>2, <1>4, <2>1, <2>2, ReceiptStays DEF Lose
<1> QED BY <1>3, <1>4

\* The alarm and the operator's replay.
LEMMA AlarmSound ==
    ASSUME EdgeTypeOK, NEW s \in Sends, SendIsSound(s), Alarm(s) \/ ReceiptReplay(s)
    PROVE  SendIsSound(s)'
<1> USE EdgeNumbers
<1>1. /\ receipt[s] \in Receipt /\ repair[s] \in SeenReceipt /\ alarm[s] \in Nat
      /\ receipt[s].expires \in Nat /\ now \in Nat \ {0}
      /\ repair[s].msgid \in Requests \cup {0}
  BY DEF EdgeTypeOK, Receipt, SeenReceipt
<1>2. receipt[s].state # "none" => alarm[s] # 0
  BY DEF SendIsSound, ReceiptIsTruthful
<1>3. Live(s) => Fenced(s) # 0 /\ receipt[s].expires # 0
  BY <1>1, <1>2 DEF Live, Fenced
<1>4. call' = call /\ provider' = provider /\ now' = now /\ HandlersGoOn(s)
  <2>1. call' = call /\ provider' = provider /\ now' = now
    BY DEF Alarm, AlarmFires, AlarmCrashes, AlarmFinishes, ReceiptReplay
  <2> QED BY <2>1 DEF HandlersGoOn
<1>5. ASSUME AlarmFires(s) PROVE SendIsSound(s)'
  <2>1. CASE ~ Live(s)
    <3>1. receipt'[s] = NoReceipt
      BY <1>5, <2>1 DEF AlarmFires, Retire, EdgeTypeOK
    <3> QED BY <1>4, <2>1, <3>1, ReceiptGoes
  <2>2. CASE Live(s)
    <3>1. receipt' = receipt /\ alarm'[s] # 0 /\ route' = route
      BY <1>3, <1>5, <2>2 DEF AlarmFires, EdgeTypeOK
    <3> QED BY <1>4, <3>1, ReceiptStays DEF RoutesStay
  <2> QED BY <2>1, <2>2
<1>6. ASSUME AlarmCrashes(s) PROVE SendIsSound(s)'
  BY <1>2, <1>4, <1>6, ReceiptStays DEF AlarmCrashes, RoutesStay
<1>7. ASSUME NEW stored \in BOOLEAN, NEW ok \in BOOLEAN, AlarmFinishes(s, stored, ok)
      PROVE  SendIsSound(s)'
  <2>1. \/ receipt'[s] = receipt[s] /\ (alarm'[s] = alarm[s] \/ alarm'[s] # 0)
        \/ Expired(s) /\ receipt'[s] = NoReceipt /\ alarm'[s] = 0
        \/ /\ ok /\ SameLineage(s, repair[s]) /\ alarm'[s] # 0
           /\ receipt'[s] = [receipt[s] EXCEPT !.state = "accepted", !.pending = FALSE]
    BY <1>7, AlarmOutcome
  <2>2. /\ RoutesStay(s)
        /\ ok /\ repair[s].msgid \in Requests => route'[s][repair[s].msgid]
    <3>1. RegisterRoute(s, repair[s].msgid, stored, ok)
      BY <1>7 DEF AlarmFinishes
    <3> QED BY <3>1, RouteTypes DEF RoutesStay
  <2>3. CASE receipt'[s] = receipt[s] /\ (alarm'[s] = alarm[s] \/ alarm'[s] # 0)
    BY <1>2, <1>4, <2>2, <2>3, ReceiptStays
  <2>4. CASE Expired(s) /\ receipt'[s] = NoReceipt
    BY <1>1, <1>4, <2>4, ReceiptGoes DEF Expired, Live
  <2>5. CASE /\ ok /\ SameLineage(s, repair[s]) /\ alarm'[s] # 0
             /\ receipt'[s] = [receipt[s] EXCEPT !.state = "accepted", !.pending = FALSE]
    <3>1. route'[s][receipt[s].msgid]
      BY <1>1, <2>2, <2>5 DEF SameLineage
    <3> QED BY <1>4, <2>2, <2>5, <3>1, ReceiptFinalized
  <2> QED BY <2>1, <2>3, <2>4, <2>5
<1>8. ASSUME ReceiptReplay(s) PROVE SendIsSound(s)'
  <2>1. CASE Expired(s)
    <3>1. receipt'[s] = NoReceipt /\ ~ Live(s)
      BY <1>1, <1>8, <2>1 DEF ReceiptReplay, Retire, EdgeTypeOK, Expired, Live
    <3> QED BY <1>4, <3>1, ReceiptGoes
  <2>2. CASE ~ Expired(s)
    <3>1. receipt' = receipt /\ alarm'[s] # 0 /\ route' = route
      BY <1>1, <1>3, <1>8, <2>2 DEF ReceiptReplay, EdgeTypeOK, Expired, Live
    <3> QED BY <1>4, <3>1, ReceiptStays DEF RoutesStay
  <2> QED BY <2>1, <2>2
<1> QED BY <1>5, <1>6, <1>7, <1>8 DEF Alarm

\* What a step of one send leaves to the others.
Apart(s) == \A z \in Sends \ {s} :
    /\ receipt'[z] = receipt[z] /\ alarm'[z] = alarm[z] /\ call'[z] = call[z]
    /\ provider'[z] = provider[z] /\ route'[z] = route[z]

LEMMA RequestsApart ==
    ASSUME EdgeTypeOK, NEW s \in Sends, NEW q \in Requests,
           SendRequest(s, q) \/ FrontDoor(s, q) \/ Dispatch(s, q) \/ ProviderResolves(s, q)
    PROVE  Apart(s) /\ now' = now
<1>1. /\ receipt[s].expires \in Nat
      /\ call[s][q].seen \in SeenReceipt
  BY DEF EdgeTypeOK, Receipt, Handler
<1>2. SendRequest(s, q) \/ FrontDoor(s, q) \/ ProviderResolves(s, q) => Apart(s) /\ now' = now
  BY DEF SendRequest, FrontDoor, FrontDoorFails, FrontDoorRefuses, Refuses, ProviderResolves,
     Apart, EdgeTypeOK
<1>3. ASSUME DispatchAnswersFromReceipt(s, q) PROVE Apart(s) /\ now' = now
  <2>1. \A z \in Sends \ {s} : alarm'[z] = alarm[z]
    BY <1>1, <1>3, ScheduledAlarm DEF DispatchAnswersFromReceipt, EdgeTypeOK
  <2> QED BY <1>3, <2>1 DEF DispatchAnswersFromReceipt, Replies, Apart, EdgeTypeOK
<1>4. DispatchRetires(s, q) \/ DispatchResumes(s, q) \/ DispatchUnavailable(s, q)
        => Apart(s) /\ now' = now
  BY DEF DispatchRetires, Retire, DispatchResumes, DispatchUnavailable, Replies, Apart, EdgeTypeOK
<1>5. DispatchCallsProvider(s, q) \/ DispatchCrashes(s, q) => Apart(s) /\ now' = now
  BY DEF DispatchCallsProvider, DispatchCrashes, Apart, EdgeTypeOK
<1>6. RecordProviderError(s, q) \/ RecordProviderAcceptance(s, q) => Apart(s) /\ now' = now
  BY DEF RecordProviderError, RecordProviderAcceptance, Replies, Apart, EdgeTypeOK
<1>7. ASSUME NEW stored \in BOOLEAN, NEW ok \in BOOLEAN, FinishAccepted(s, q, stored, ok)
      PROVE  Apart(s) /\ now' = now
  <2>1. \A z \in Sends \ {s} : receipt'[z] = receipt[z] /\ alarm'[z] = alarm[z]
    BY <1>1, <1>7, PersistedReceipt DEF FinishAccepted
  <2>2. \A z \in Sends \ {s} : route'[z] = route[z]
    <3>1. PICK m : RegisterRoute(s, m, stored, ok)
      BY <1>7 DEF FinishAccepted
    <3> QED BY <1>7, <3>1, RouteTypes
  <2> QED BY <1>7, <2>1, <2>2 DEF FinishAccepted, Replies, Apart, EdgeTypeOK
<1>8. ASSUME NEW stored \in BOOLEAN, Lose(s, q, stored) PROVE Apart(s) /\ now' = now
  <2>1. \A z \in Sends \ {s} : route'[z] = route[z]
    <3>1. CASE call[s][q].phase = "registering"
      BY <1>8, <3>1, RouteTypes DEF Lose
    <3>2. CASE call[s][q].phase # "registering"
      BY <1>8, <3>2 DEF Lose
    <3> QED BY <3>1, <3>2
  <2> QED BY <1>8, <2>1 DEF Lose, Apart, EdgeTypeOK
<1> QED BY <1>2, <1>3, <1>4, <1>5, <1>6, <1>7, <1>8 DEF Dispatch

LEMMA AlarmsApart ==
    ASSUME EdgeTypeOK, NEW s \in Sends, Alarm(s) \/ ReceiptReplay(s)
    PROVE  Apart(s) /\ now' = now
<1>1. AlarmFires(s) \/ AlarmCrashes(s) \/ ReceiptReplay(s) => Apart(s) /\ now' = now
  BY DEF AlarmFires, AlarmCrashes, ReceiptReplay, Retire, Apart, EdgeTypeOK
<1>2. ASSUME NEW stored \in BOOLEAN, NEW ok \in BOOLEAN, AlarmFinishes(s, stored, ok)
      PROVE  Apart(s) /\ now' = now
  <2>1. \A z \in Sends \ {s} : receipt'[z] = receipt[z] /\ alarm'[z] = alarm[z]
    BY <1>2, AlarmOutcome
  <2>2. RegisterRoute(s, repair[s].msgid, stored, ok) /\ UNCHANGED <<call, provider, now>>
    BY <1>2 DEF AlarmFinishes
  <2>3. ASSUME NEW m, RegisterRoute(s, m, stored, ok)
        PROVE  \A z \in Sends \ {s} : route'[z] = route[z]
    BY ONLY EdgeTypeOK, <2>3, RouteTypes, s \in Sends, stored \in BOOLEAN, ok \in BOOLEAN
  <2>4. \A z \in Sends \ {s} : route'[z] = route[z]
    BY ONLY <2>2, <2>3
  <2> QED BY <2>1, <2>2, <2>4 DEF Apart
<1> QED BY <1>1, <1>2 DEF Alarm

\* A sound edge stays sound, whatever one of its sends does.
LEMMA RequestStep ==
    ASSUME EdgeIsSound, NEW s \in Sends, NEW q \in Requests,
           SendRequest(s, q) \/ FrontDoor(s, q) \/ Dispatch(s, q) \/ ProviderResolves(s, q)
    PROVE  EdgeIsSound'
<1>1. EdgeTypeOK /\ \A z \in Sends : SendIsSound(z)
  BY DEF EdgeIsSound
<1>2. EdgeTypeOK'
  BY <1>1, EdgeTypeStep
<1>3. SendIsSound(s)'
  <2>1. \/ SendRequest(s, q) \/ FrontDoor(s, q) \/ DispatchAnswersFromReceipt(s, q)
        \/ DispatchUnavailable(s, q) \/ DispatchCrashes(s, q)
        \/ DispatchResumes(s, q) \/ DispatchRetires(s, q)
        \/ DispatchCallsProvider(s, q) \/ RecordProviderError(s, q)
        \/ RecordProviderAcceptance(s, q) \/ ProviderResolves(s, q)
        \/ \E stored, ok \in BOOLEAN : FinishAccepted(s, q, stored, ok)
        \/ \E stored \in BOOLEAN : Lose(s, q, stored)
    BY DEF Dispatch
  <2> QED BY <1>1, <2>1, QuietRequest, CallBegins, CallFails, CallSucceeds, CallResolves,
             RequestEnds
<1>4. \A z \in Sends \ {s} : SendIsSound(z)'
  BY <1>1, RequestsApart, OtherSend DEF Apart
<1> QED BY <1>2, <1>3, <1>4 DEF EdgeIsSound

LEMMA AlarmStep ==
    ASSUME EdgeIsSound, NEW s \in Sends, Alarm(s) \/ ReceiptReplay(s)
    PROVE  EdgeIsSound'
<1>1. EdgeTypeOK /\ \A z \in Sends : SendIsSound(z)
  BY DEF EdgeIsSound
<1>2. EdgeTypeOK' /\ SendIsSound(s)'
  BY <1>1, AlarmTypeStep, AlarmSound
<1>3. \A z \in Sends \ {s} : SendIsSound(z)'
  BY <1>1, AlarmsApart, OtherSend DEF Apart
<1> QED BY <1>2, <1>3 DEF EdgeIsSound

\* The steps of the edge as the compositions use them.
LEMMA EdgeStepSound == EdgeIsSound /\ EdgeStep => EdgeIsSound'
BY RequestStep, AlarmStep DEF EdgeStep

\* Time, and a step that changes nothing of the edge.
LEMMA TickSound ==
    ASSUME EdgeIsSound, UNCHANGED edgeVars, now' = now + 1 \/ now' = now
    PROVE  EdgeIsSound'
<1>1. EdgeTypeOK' /\ EdgeTypeOK
  BY DEF EdgeIsSound, EdgeTypeOK, edgeVars
<1>2. ASSUME NEW s \in Sends PROVE SendIsSound(s)'
  BY <1>1, <1>2, TimePasses, OtherSend DEF EdgeIsSound, edgeVars
<1> QED BY <1>1, <1>2 DEF EdgeIsSound

LEMMA EdgeInitSound == InitEdge /\ now \in Nat \ {0} => EdgeIsSound
<1> SUFFICES ASSUME InitEdge, now \in Nat \ {0} PROVE EdgeIsSound
  OBVIOUS
<1>1. ASSUME NEW s \in Sends PROVE SendIsSound(s)
  BY <1>1 DEF InitEdge, SendIsSound, CallIsFenced, OneOpenCall, CallsAreApart, HandlerIsTruthful,
     ReceiptIsTruthful, OpenCall, Risky, ProviderAccepted, NoReceipt
<1> QED BY <1>1, EdgeTypeInit DEF EdgeIsSound

LEMMA NextSound == EdgeIsSound /\ [Next]_vars => EdgeIsSound'
<1> SUFFICES ASSUME EdgeIsSound, [Next]_vars PROVE EdgeIsSound'
  OBVIOUS
<1>1. CASE \E s \in Sends, q \in Requests : SendRequest(s, q)
  BY <1>1, RequestStep
<1>2. CASE EdgeStep
  BY <1>2, EdgeStepSound
<1>3. CASE Tick
  BY <1>3, TickSound DEF Tick
<1>4. CASE UNCHANGED vars
  BY <1>4, TickSound DEF vars
<1> QED BY <1>1, <1>2, <1>3, <1>4 DEF Next

-----------------------------------------------------------------------------
(* The answers of the Durable Object *)

\* The answer a handler gives is true of the provider.
AnswerIsTrue(s, answer, copy) ==
    /\ answer = "accepted" => copy \in Requests /\ ProviderAccepted(s, copy)
    /\ answer \in {"rejected", "retryable"} =>
          \A p \in Requests : Risky(s, p) => call[s][p].calledAt + TTL <= now

\* Where no call is open, every call that may have gone through is a lifetime old.
LEMMA NothingOpen ==
    ASSUME EdgeTypeOK, NEW s \in Sends, SendIsSound(s),
           receipt[s].state \notin {"provider_started", "ambiguous", "accepted"}
    PROVE  \A p \in Requests : Risky(s, p) => call[s][p].calledAt + TTL <= now
<1>1. \A p \in Requests : /\ ~ OpenCall(s, p)
                          /\ call[s][p].calledAt \in Nat /\ now \in Nat /\ TTL \in Nat
  BY EdgeNumbers DEF SendIsSound, CallIsFenced, EdgeTypeOK, Handler
<1> QED BY <1>1 DEF OpenCall

\* What the receipt answers for it.
LEMMA ReceiptAnswers ==
    ASSUME EdgeTypeOK, NEW s \in Sends, SendIsSound(s)
    PROVE  AnswerIsTrue(s, AnswerOf(receipt[s]), receipt[s].msgid)
<1>1. receipt[s].msgid \in Requests \cup {0}
  BY DEF EdgeTypeOK, Receipt
<1>2. AnswerOf(receipt[s]) = "accepted" => receipt[s].msgid # 0
  BY DEF AnswerOf
<1>3. AnswerOf(receipt[s]) \in {"rejected", "retryable"} => receipt[s].state = "rejected"
  BY DEF AnswerOf
<1>4. receipt[s].state = "rejected" =>
         \A p \in Requests : Risky(s, p) => call[s][p].calledAt + TTL <= now
  BY NothingOpen
<1> QED BY <1>1, <1>2, <1>3, <1>4 DEF AnswerIsTrue, SendIsSound, ReceiptIsTruthful

LEMMA AnswerGiven ==
    ASSUME EdgeIsSound, NEW s \in Sends, NEW q \in Requests, Dispatch(s, q),
           NEW p \in Requests, call'[s][p].phase = "answered", call[s][p].phase # "answered"
    PROVE  AnswerIsTrue(s, call'[s][p].answer, call'[s][p].copy)
<1> USE EdgeNumbers
<1>1. EdgeTypeOK /\ SendIsSound(s)
  BY DEF EdgeIsSound
<1>2. /\ call[s][q] \in Handler /\ call[s][q].seen.msgid \in Requests \cup {0}
      /\ receipt[s].msgid \in Requests \cup {0} /\ AnswerOf(receipt[s]) \in Answers
  BY <1>1 DEF EdgeTypeOK, Receipt, Handler, SeenReceipt, AnswerOf, Answers
<1>3. ASSUME NEW answer \in Answers, NEW m \in Requests \cup {0}, Replies(s, q, answer, m),
             AnswerIsTrue(s, answer, m)
      PROVE  AnswerIsTrue(s, call'[s][p].answer, call'[s][p].copy)
  <2>1. Turns(s, q, [call[s][q] EXCEPT !.phase = "answered", !.answer = answer, !.copy = m])
    BY <1>1, <1>3, HandlerReplies
  <2>2. p = q
    BY <2>1 DEF Turns
  <2>3. call'[s][p].answer = answer /\ call'[s][p].copy = m
    BY <1>2, <2>1, <2>2 DEF Turns, Handler
  <2> QED BY <1>3, <2>3
<1>4. CASE DispatchRetires(s, q) \/ DispatchAnswersFromReceipt(s, q)
  BY <1>1, <1>2, <1>3, <1>4, ReceiptAnswers DEF DispatchRetires, DispatchAnswersFromReceipt
<1>5. CASE DispatchUnavailable(s, q)
  <2>1. AnswerIsTrue(s, "retryable", 0)
    BY <1>1, <1>5, NothingOpen DEF AnswerIsTrue, DispatchUnavailable, MayCallProvider
  <2> QED BY <1>3, <1>5, <2>1 DEF DispatchUnavailable, Answers
<1>6. CASE RecordProviderError(s, q)
  <2> DEFINE verdict == ProviderError(provider[s][q])
  <2>1. /\ call[s][q].phase = "sending" /\ InTime(s, q)
        /\ provider[s][q] \in Outcomes \ {"accepted"} /\ Replies(s, q, verdict, 0)
    BY <1>6 DEF RecordProviderError
  <2>2. verdict \in Answers /\ verdict # "accepted"
    BY DEF ProviderError, Answers
  <2>3. verdict \in {"rejected", "retryable"} => ~ Risky(s, q)
    BY <2>1 DEF ProviderError, Risky, ProviderAccepted, Outcomes
  <2>4. \A r \in Requests \ {q} : Risky(s, r) => call[s][r].calledAt + TTL <= now
    <3>1. \A r \in Requests \ {q} : ~ OpenCall(s, r)
      BY <1>1, <2>1, OwnReceipt
    <3>2. \A r \in Requests : call[s][r] \in Handler
      BY <1>1 DEF EdgeTypeOK
    <3>3. \A r \in Requests : call[s][r].calledAt \in Nat /\ now \in Nat
      BY <1>1, <3>2 DEF EdgeTypeOK, Handler
    <3> QED BY <3>1, <3>3 DEF OpenCall
  <2>5. AnswerIsTrue(s, verdict, 0)
    BY <2>2, <2>3, <2>4 DEF AnswerIsTrue
  <2> QED BY <1>3, <2>1, <2>2, <2>5
<1>7. ASSUME NEW stored \in BOOLEAN, NEW ok \in BOOLEAN, FinishAccepted(s, q, stored, ok)
      PROVE  AnswerIsTrue(s, call'[s][p].answer, call'[s][p].copy)
  <2>1. AnswerIsTrue(s, "accepted", call[s][q].seen.msgid)
    BY <1>1, <1>7 DEF AnswerIsTrue, FinishAccepted, SendIsSound, HandlerIsTruthful
  <2> QED BY <1>2, <1>3, <1>7, <2>1 DEF FinishAccepted, Answers
<1>8. CASE RecordProviderAcceptance(s, q) \/ DispatchResumes(s, q)
  <2>1. call'[s][q].phase = "registering" /\ \A r \in Requests \ {q} : call'[s][r] = call[s][r]
    BY <1>1, <1>2, <1>8 DEF DispatchResumes, RecordProviderAcceptance, EdgeTypeOK, Handler
  <2> QED BY <2>1
<1>9. CASE DispatchCallsProvider(s, q)
  <2>1. call'[s][q].phase = "sending" /\ \A r \in Requests \ {q} : call'[s][r] = call[s][r]
    BY <1>1, <1>2, <1>9 DEF DispatchCallsProvider, EdgeTypeOK, Handler
  <2> QED BY <2>1
<1>10. CASE DispatchCrashes(s, q) \/ \E stored \in BOOLEAN : Lose(s, q, stored)
  <2>1. call' = [call EXCEPT ![s][q].phase = "lost"]
    BY <1>10 DEF DispatchCrashes, Lose
  <2>2. Turns(s, q, [call[s][q] EXCEPT !.phase = "lost"])
    BY <1>1, <2>1, HandlerMoves DEF Phases
  <2> QED BY <1>2, <2>2 DEF Turns, Handler
<1> QED BY <1>4, <1>5, <1>6, <1>7, <1>8, <1>9, <1>10 DEF Dispatch

LEMMA StepAnswersTruly ==
    ASSUME EdgeIsSound, [Next]_vars, NEW s \in Sends, NEW q \in Requests,
           call'[s][q].phase = "answered", call[s][q].phase # "answered"
    PROVE  AnswerIsTrue(s, call'[s][q].answer, call'[s][q].copy)
<1>1. EdgeTypeOK
  BY DEF EdgeIsSound
<1>2. ASSUME NEW z \in Sends, NEW p \in Requests,
             SendRequest(z, p) \/ FrontDoor(z, p) \/ ProviderResolves(z, p)
      PROVE  FALSE
  <2>1. CASE ProviderResolves(z, p)
    BY <2>1 DEF ProviderResolves
  <2>2. CASE SendRequest(z, p)
    BY <1>1, <2>2 DEF SendRequest, EdgeTypeOK, Handler
  <2>3. CASE FrontDoor(z, p)
    <3>1. PICK answer : Refuses(z, p, answer)
      BY <2>3 DEF FrontDoor, FrontDoorFails, FrontDoorRefuses
    <3> QED BY <1>1, <3>1 DEF Refuses, EdgeTypeOK, Handler
  <2> QED BY <1>2, <2>1, <2>2, <2>3
<1>3. ASSUME NEW z \in Sends, NEW p \in Requests, Dispatch(z, p)
      PROVE  z = s
  <2>1. z # s => call'[s] = call[s]
    BY <1>1, <1>3, RequestsApart DEF Apart
  <2> QED BY <2>1
<1>4. ASSUME NEW z \in Sends, Alarm(z) \/ ReceiptReplay(z) PROVE FALSE
  BY <1>4 DEF Alarm, AlarmFires, AlarmCrashes, AlarmFinishes, ReceiptReplay
<1>5. ~ Tick /\ ~ UNCHANGED vars
  BY DEF Tick, vars, edgeVars
<1>6. PICK z \in Sends, p \in Requests : Dispatch(z, p)
  BY <1>2, <1>4, <1>5 DEF Next, EdgeStep
<1> QED BY <1>3, <1>6, AnswerGiven

-----------------------------------------------------------------------------
(* What becomes of a known acceptance *)

\* The receipt r of an accepted message may become: itself, the finalized one, or none.
AcceptanceGoesOn(s, r) ==
    \/ /\ r.msgid = receipt[s].msgid
       /\ r.expires = receipt[s].expires
       /\ receipt[s].state = "accepted" => r.state = "accepted"
       /\ receipt[s].state = "accepted" /\ ~ receipt[s].pending => ~ r.pending
    \/ r = NoReceipt /\ receipt[s].expires <= now

LEMMA FinalizedGoesOn ==
    ASSUME NEW s \in Sends, EdgeTypeOK, NEW seen \in SeenReceipt, NEW pending \in BOOLEAN,
           PersistAccepted(s, seen, pending)
    PROVE  AcceptanceGoesOn(s, receipt'[s])
<1>1. receipt[s] \in Receipt
  BY DEF EdgeTypeOK
<1>2. \/ receipt'[s] = receipt[s] /\ alarm'[s] = alarm[s]
      \/ /\ SameLineage(s, seen) /\ alarm'[s] # 0
         /\ receipt'[s] = [receipt[s] EXCEPT !.state = "accepted",
              !.pending = pending /\ ~ (receipt[s].state = "accepted" /\ ~ receipt[s].pending)]
  BY PersistedReceipt, ZenonT(60)
<1>3. CASE receipt'[s] = receipt[s]
  BY <1>3 DEF AcceptanceGoesOn
<1>4. CASE receipt'[s] = [receipt[s] EXCEPT !.state = "accepted",
           !.pending = pending /\ ~ (receipt[s].state = "accepted" /\ ~ receipt[s].pending)]
  <2>1. PICK still \in BOOLEAN :
           still = (pending /\ ~ (receipt[s].state = "accepted" /\ ~ receipt[s].pending))
    OBVIOUS
  <2>2. /\ receipt'[s].state = "accepted" /\ receipt'[s].pending = still
        /\ receipt'[s].msgid = receipt[s].msgid /\ receipt'[s].expires = receipt[s].expires
    BY <1>1, <1>4, <2>1 DEF Receipt
  <2> QED BY <2>1, <2>2 DEF AcceptanceGoesOn
<1> QED BY <1>2, <1>3, <1>4

LEMMA RequestKeepsAcceptance ==
    ASSUME EdgeIsSound, NEW s \in Sends, NEW q \in Requests, receipt[s].msgid # 0,
           SendRequest(s, q) \/ FrontDoor(s, q) \/ Dispatch(s, q) \/ ProviderResolves(s, q)
    PROVE  AcceptanceGoesOn(s, receipt'[s])
<1>1. EdgeTypeOK /\ SendIsSound(s) /\ call[s][q].seen \in SeenReceipt
  BY DEF EdgeIsSound, EdgeTypeOK, Handler
<1>2. receipt[s].state \in {"provider_started", "accepted"}
  BY <1>1 DEF SendIsSound, ReceiptIsTruthful
<1>3. CASE receipt' = receipt
  BY <1>3 DEF AcceptanceGoesOn
<1>4. CASE DispatchRetires(s, q)
  <2>1. receipt'[s] = NoReceipt /\ receipt[s].expires <= now
    BY <1>1, <1>4 DEF DispatchRetires, Retire, Expired, EdgeTypeOK
  <2> QED BY <2>1 DEF AcceptanceGoesOn
<1>5. ~ DispatchCallsProvider(s, q)
  BY <1>2 DEF DispatchCallsProvider, MayCallProvider
<1>6. ~ RecordProviderError(s, q) /\ ~ RecordProviderAcceptance(s, q)
  BY <1>1, OwnReceipt DEF RecordProviderError, RecordProviderAcceptance
<1>7. ASSUME NEW stored \in BOOLEAN, NEW ok \in BOOLEAN, FinishAccepted(s, q, stored, ok)
      PROVE  AcceptanceGoesOn(s, receipt'[s])
  <2>1. PersistAccepted(s, call[s][q].seen, ~ ok) /\ (~ ok) \in BOOLEAN
    BY <1>7 DEF FinishAccepted
  <2> QED BY <1>1, <2>1, FinalizedGoesOn
<1>8. \/ receipt' = receipt \/ DispatchRetires(s, q) \/ DispatchCallsProvider(s, q)
      \/ RecordProviderError(s, q) \/ RecordProviderAcceptance(s, q)
      \/ \E stored, ok \in BOOLEAN : FinishAccepted(s, q, stored, ok)
  BY DEF SendRequest, FrontDoor, FrontDoorFails, FrontDoorRefuses, ProviderResolves, Dispatch,
     DispatchAnswersFromReceipt, DispatchResumes, DispatchUnavailable, DispatchCrashes, Lose
<1> QED BY <1>3, <1>4, <1>5, <1>6, <1>7, <1>8

LEMMA AlarmKeepsAcceptance ==
    ASSUME EdgeIsSound, NEW s \in Sends, receipt[s].msgid # 0, Alarm(s) \/ ReceiptReplay(s)
    PROVE  AcceptanceGoesOn(s, receipt'[s])
<1>1. EdgeTypeOK /\ receipt[s] \in Receipt /\ receipt[s].expires \in Nat /\ now \in Nat
  BY DEF EdgeIsSound, EdgeTypeOK, Receipt
<1>2. receipt[s].state # "none"
  BY DEF EdgeIsSound, SendIsSound, ReceiptIsTruthful
<1>3. CASE receipt'[s] = receipt[s]
  BY <1>3 DEF AcceptanceGoesOn
<1>4. CASE AlarmFires(s) \/ ReceiptReplay(s)
  <2>1. \/ receipt' = receipt
        \/ ~ Live(s) /\ receipt' = [receipt EXCEPT ![s] = NoReceipt]
    <3>1. Expired(s) => ~ Live(s)
      BY <1>1 DEF Expired, Live
    <3>2. AlarmFires(s) => receipt' = receipt \/ (~ Live(s) /\ Retire(s))
      BY DEF AlarmFires
    <3>3. ReceiptReplay(s) => receipt' = receipt \/ (Expired(s) /\ Retire(s))
      BY DEF ReceiptReplay
    <3> QED BY <1>4, <3>1, <3>2, <3>3 DEF Retire
  <2>2. \/ receipt'[s] = receipt[s]
        \/ receipt'[s] = NoReceipt /\ receipt[s].expires <= now
    BY <1>1, <1>2, <2>1 DEF Live, EdgeTypeOK
  <2> QED BY <2>2 DEF AcceptanceGoesOn
<1>5. CASE AlarmCrashes(s)
  BY <1>3, <1>5 DEF AlarmCrashes
<1>6. ASSUME NEW stored \in BOOLEAN, NEW ok \in BOOLEAN, AlarmFinishes(s, stored, ok)
      PROVE  AcceptanceGoesOn(s, receipt'[s])
  <2>1. \/ receipt'[s] = receipt[s]
        \/ Expired(s) /\ receipt'[s] = NoReceipt
        \/ receipt'[s] = [receipt[s] EXCEPT !.state = "accepted", !.pending = FALSE]
    BY <1>1, <1>6, AlarmOutcome
  <2>2. CASE receipt'[s] = [receipt[s] EXCEPT !.state = "accepted", !.pending = FALSE]
    BY <1>1, <2>2 DEF AcceptanceGoesOn, Receipt
  <2> QED BY <1>3, <2>1, <2>2 DEF Expired, AcceptanceGoesOn
<1> QED BY <1>4, <1>5, <1>6 DEF Alarm

LEMMA StepKeepsAcceptance ==
    ASSUME EdgeIsSound, [Next]_vars, NEW s \in Sends, receipt[s].msgid # 0
    PROVE  AcceptanceGoesOn(s, receipt'[s])
<1>1. EdgeTypeOK
  BY DEF EdgeIsSound
<1>2. CASE receipt'[s] = receipt[s]
  BY <1>2 DEF AcceptanceGoesOn
<1>3. ASSUME NEW z \in Sends, NEW q \in Requests,
             SendRequest(z, q) \/ FrontDoor(z, q) \/ Dispatch(z, q) \/ ProviderResolves(z, q)
      PROVE  AcceptanceGoesOn(s, receipt'[s])
  <2>1. z # s => receipt'[s] = receipt[s]
    BY <1>1, <1>3, RequestsApart DEF Apart
  <2> QED BY <1>2, <1>3, <2>1, RequestKeepsAcceptance
<1>4. ASSUME NEW z \in Sends, Alarm(z) \/ ReceiptReplay(z)
      PROVE  AcceptanceGoesOn(s, receipt'[s])
  <2>1. z # s => receipt'[s] = receipt[s]
    BY <1>1, <1>4, AlarmsApart DEF Apart
  <2> QED BY <1>2, <1>4, <2>1, AlarmKeepsAcceptance
<1>5. CASE Tick \/ UNCHANGED vars
  BY <1>2, <1>5 DEF Tick, vars, edgeVars
<1> QED BY <1>3, <1>4, <1>5 DEF Next, EdgeStep

-----------------------------------------------------------------------------
(* The theorems *)

\* In every reachable state the handlers, receipts, alarms and routes of every
\* send agree with what the provider was asked and did: the durable
\* provider_started fence of dispatch covers the one call that may still count.
THEOREM SoundEdge == Spec => []EdgeIsSound
<1>1. Init => EdgeIsSound
  BY EdgeInitSound DEF Init
<1> QED BY <1>1, NextSound, PTL DEF Spec

\* The fairness of the platform only removes behaviours.
THEOREM FairEdgeIsEdge == FairSpec => Spec
BY PTL DEF FairSpec

\* The provider takes two copies of a send only from calls a receipt lifetime
\* apart, however requests, crashes, late provider answers and alarms of
\* OutboundReceipt interleave.
THEOREM OneAcceptance == Spec => []OneAcceptancePerLifetime
<1>1. EdgeIsSound => OneAcceptancePerLifetime
  BY DEF EdgeIsSound, SendIsSound, CallsAreApart, OneAcceptancePerLifetime, Risky
<1> QED BY <1>1, SoundEdge, PTL

\* A confirmed receipt has its provider route: persistAccepted is told of a route
\* only after registerProviderRoute stored one under the same message id.
THEOREM ConfirmationHasRoute == Spec => []ConfirmedHasRoute
<1>1. EdgeIsSound => ConfirmedHasRoute
  BY DEF EdgeIsSound, SendIsSound, ReceiptIsTruthful, ConfirmedHasRoute
<1> QED BY <1>1, SoundEdge, PTL

\* No receipt outlives its alarm: every handler sets or keeps one before it can
\* crash with a receipt stored.
THEOREM ReceiptKeepsAlarm == Spec => []ReceiptHasAlarm
<1>1. EdgeIsSound => ReceiptHasAlarm
  BY DEF EdgeIsSound, SendIsSound, ReceiptIsTruthful, ReceiptHasAlarm
<1> QED BY <1>1, SoundEdge, PTL

\* Whatever dispatch answers, from the stored receipt, after the provider or
\* without calling it, is true of the provider when it is answered.
THEOREM TrueAnswers == Spec => AnswersAreTrue
<1>1. EdgeIsSound /\ [Next]_vars =>
        [\A s \in Sends : \A q \in Requests :
           call'[s][q].phase = "answered" /\ call[s][q].phase # "answered" =>
              LET answer == call'[s][q].answer
                  copy == call'[s][q].copy IN
              /\ answer = "accepted" => copy \in Requests /\ ProviderAccepted(s, copy)
              /\ answer \in {"rejected", "retryable"} =>
                   \A p \in Requests :
                      provider[s][p] = "pending" \/ ProviderAccepted(s, p)
                         => call[s][p].calledAt + TTL <= now]_vars
  BY StepAnswersTruly DEF AnswerIsTrue, Risky
<1> QED BY <1>1, SoundEdge, PTL DEF Spec, AnswersAreTrue

\* The finalizers, the alarm and the replay never move a known acceptance back,
\* never give it another expiry and never end it before that expiry.
THEOREM AcceptanceKept == Spec => AcceptanceIsKept
<1>1. EdgeIsSound /\ [Next]_vars =>
        [\A s \in Sends :
           receipt[s].msgid # 0 =>
              \/ /\ receipt'[s].msgid = receipt[s].msgid
                 /\ receipt'[s].expires = receipt[s].expires
                 /\ receipt[s].state = "accepted" => receipt'[s].state = "accepted"
                 /\ receipt[s].state = "accepted" /\ ~ receipt[s].pending => ~ receipt'[s].pending
              \/ receipt'[s] = NoReceipt /\ receipt[s].expires <= now]_vars
  BY StepKeepsAcceptance DEF AcceptanceGoesOn
<1> QED BY <1>1, SoundEdge, PTL DEF Spec, AcceptanceIsKept

-----------------------------------------------------------------------------
(* What each step makes of a request, for those who compose the edge with  *)
(* its callers.                                                            *)

Stays(s, q) == call'[s][q] = call[s][q] /\ provider'[s][q] = provider[s][q]

\* What the answer given in a step leaves alone.
Keeps(s, q) == /\ call'[s][q].sentAt = call[s][q].sentAt
               /\ call'[s][q].calledAt = call[s][q].calledAt
               /\ provider'[s][q] = provider[s][q]

Silent(s, q) == call'[s][q].answer = call[s][q].answer /\ call'[s][q].copy = call[s][q].copy

Signs(s, q) == /\ call[s][q].phase = "idle" /\ call'[s][q].phase = "sent"
               /\ call'[s][q].sentAt = now /\ call'[s][q].calledAt = call[s][q].calledAt
               /\ provider'[s][q] = provider[s][q] /\ Silent(s, q)

\* The provider is called in the window of the signature, while no other call is open.
Calls(s, q) == /\ Delivered(s, q) /\ \A p \in Requests : ~ OpenCall(s, p)
               /\ call'[s][q].phase = "sending" /\ call'[s][q].calledAt = now
               /\ call'[s][q].sentAt = call[s][q].sentAt
               /\ provider'[s][q] = "pending" /\ Silent(s, q)

Moves(s, q) == /\ call[s][q].phase \in {"sent", "sending", "registering"}
               /\ call'[s][q].phase \in {"registering", "lost"}
               /\ Keeps(s, q) /\ Silent(s, q)

Declines(s, q) == /\ call[s][q].phase = "sent" /\ call'[s][q].phase = "refused"
                  /\ \/ call'[s][q].answer = "ambiguous"
                     \/ call'[s][q].answer \in Refusals /\ Delivered(s, q)
                  /\ Keeps(s, q)

\* No other request has a call open.
OthersAreOver(s, q) == \A p \in Requests \ {q} : ~ OpenCall(s, p)

Tells(s, q) == /\ \/ Delivered(s, q)
                  \/ call[s][q].phase = "sending" /\ OpenCall(s, q)
                  \/ call[s][q].phase = "registering" /\ call'[s][q].answer = "accepted"
               /\ call'[s][q].phase = "answered"
               /\ AnswerIsTrue(s, call'[s][q].answer, call'[s][q].copy)
               /\ call'[s][q].answer \in {"rejected", "retryable"} => OthersAreOver(s, q)
               /\ Keeps(s, q)

Resolves(s, q) == /\ call'[s][q] = call[s][q]
                  /\ provider[s][q] = "pending" /\ provider'[s][q] \in Outcomes

\* A handler that writes one record touches no other request.
LEMMA TurnsOne ==
    ASSUME NEW s \in Sends, NEW q \in Requests, NEW h, Turns(s, q, h), provider' = provider
    PROVE  \A z \in Sends, p \in Requests : <<z, p>> # <<s, q>> => Stays(z, p)
BY DEF Turns, Stays

LEMMA RequestSigns ==
    ASSUME EdgeIsSound, NEW s \in Sends, NEW q \in Requests, SendRequest(s, q)
    PROVE  /\ Signs(s, q)
           /\ \A z \in Sends, p \in Requests : <<z, p>> # <<s, q>> => Stays(z, p)
<1>1. call \in [Sends -> [Requests -> Handler]]
  BY DEF EdgeIsSound, EdgeTypeOK
<1>2. call' = [call EXCEPT ![s][q].phase = "sent", ![s][q].sentAt = now]
      /\ provider' = provider /\ call[s][q].phase = "idle"
  BY DEF SendRequest
<1>3. call[s][q] \in Handler
  BY <1>1
<1>4. call'[s][q] = [call[s][q] EXCEPT !.phase = "sent", !.sentAt = now]
  BY <1>1, <1>2, <1>3 DEF Handler
<1>5. \A z \in Sends, p \in Requests : <<z, p>> # <<s, q>> => Stays(z, p)
  BY <1>1, <1>2 DEF Stays
<1> QED BY <1>2, <1>3, <1>4, <1>5 DEF Signs, Silent, Handler

LEMMA RequestIsDeclined ==
    ASSUME EdgeIsSound, NEW s \in Sends, NEW q \in Requests, FrontDoor(s, q)
    PROVE  /\ Declines(s, q)
           /\ \A z \in Sends, p \in Requests : <<z, p>> # <<s, q>> => Stays(z, p)
<1>1. EdgeTypeOK /\ call[s][q] \in Handler
  BY DEF EdgeIsSound, EdgeTypeOK
<1>2. PICK answer \in {"ambiguous"} \cup Refusals :
         Refuses(s, q, answer) /\ (answer = "ambiguous" \/ Delivered(s, q))
  BY DEF FrontDoor, FrontDoorFails, FrontDoorRefuses
<1>3. provider' = provider /\ call[s][q].phase = "sent"
  BY DEF FrontDoor, FrontDoorFails, FrontDoorRefuses, Delivered
<1>4. Turns(s, q, [call[s][q] EXCEPT !.phase = "refused", !.answer = answer])
  BY <1>1, <1>2, HandlerIsRefused, EdgeNumbers DEF Answers
<1>5. call'[s][q] = [call[s][q] EXCEPT !.phase = "refused", !.answer = answer]
  BY <1>4 DEF Turns
<1> QED BY <1>1, <1>2, <1>3, <1>4, <1>5, TurnsOne DEF Declines, Keeps, Handler

LEMMA RequestResolves ==
    ASSUME EdgeIsSound, NEW s \in Sends, NEW q \in Requests, ProviderResolves(s, q)
    PROVE  /\ Resolves(s, q)
           /\ \A z \in Sends, p \in Requests : <<z, p>> # <<s, q>> => Stays(z, p)
BY DEF EdgeIsSound, EdgeTypeOK, ProviderResolves, Resolves, Stays

\* A handler that answers.
LEMMA HandlerTells ==
    ASSUME EdgeIsSound, NEW s \in Sends, NEW q \in Requests, Dispatch(s, q),
           NEW answer \in Answers, NEW m \in Requests \cup {0}, Replies(s, q, answer, m),
           \/ Delivered(s, q)
           \/ call[s][q].phase = "sending" /\ OpenCall(s, q)
           \/ call[s][q].phase = "registering" /\ answer = "accepted",
           answer \in {"rejected", "retryable"} => OthersAreOver(s, q),
           provider' = provider
    PROVE  /\ Tells(s, q)
           /\ \A z \in Sends, p \in Requests : <<z, p>> # <<s, q>> => Stays(z, p)
<1>1. EdgeTypeOK /\ call[s][q] \in Handler
  BY DEF EdgeIsSound, EdgeTypeOK
<1>2. Turns(s, q, [call[s][q] EXCEPT !.phase = "answered", !.answer = answer, !.copy = m])
  BY <1>1, HandlerReplies
<1>3. call'[s][q] = [call[s][q] EXCEPT !.phase = "answered", !.answer = answer, !.copy = m]
  BY <1>2 DEF Turns
<1>4. call'[s][q].phase = "answered" /\ call'[s][q].answer = answer /\ Keeps(s, q)
  BY <1>1, <1>3 DEF Handler, Keeps
<1>5. AnswerIsTrue(s, call'[s][q].answer, call'[s][q].copy)
  <2>1. call[s][q].phase # "answered"
    BY DEF Delivered
  <2> QED BY <1>4, <2>1, AnswerGiven
<1> QED BY <1>2, <1>4, <1>5, TurnsOne DEF Tells

\* A handler that goes on without an answer.
LEMMA HandlerMovesOn ==
    ASSUME EdgeIsSound, NEW s \in Sends, NEW q \in Requests,
           call[s][q].phase \in {"sent", "sending", "registering"},
           NEW phase \in {"registering", "lost"}, NEW seen \in SeenReceipt,
           call' = [call EXCEPT ![s][q] = [call[s][q] EXCEPT !.phase = phase, !.seen = seen]],
           provider' = provider
    PROVE  /\ Moves(s, q)
           /\ \A z \in Sends, p \in Requests : <<z, p>> # <<s, q>> => Stays(z, p)
<1> DEFINE h == [call[s][q] EXCEPT !.phase = phase, !.seen = seen]
<1>1. EdgeTypeOK /\ call[s][q] \in Handler
  BY DEF EdgeIsSound, EdgeTypeOK
<1>2. h \in Handler
  BY <1>1 DEF Handler, Phases
<1>3. /\ h.phase = phase /\ h.sentAt = call[s][q].sentAt
      /\ h.calledAt = call[s][q].calledAt /\ h.answer = call[s][q].answer
      /\ h.copy = call[s][q].copy
  BY <1>1 DEF Handler
<1>4. call' = [call EXCEPT ![s][q] = h]
  OBVIOUS
<1> HIDE DEF h
<1>5. Turns(s, q, h)
  BY <1>1, <1>2, <1>4, HandlerTurns
<1>6. call'[s][q] = h /\ provider'[s][q] = provider[s][q]
  BY <1>5 DEF Turns
<1>7. Moves(s, q)
  BY <1>3, <1>6 DEF Moves, Keeps, Silent
<1> QED BY <1>5, <1>7, TurnsOne

LEMMA RequestCalls ==
    ASSUME EdgeIsSound, NEW s \in Sends, NEW q \in Requests, DispatchCallsProvider(s, q)
    PROVE  /\ Calls(s, q)
           /\ \A z \in Sends, p \in Requests : <<z, p>> # <<s, q>> => Stays(z, p)
<1>1. EdgeTypeOK /\ SendIsSound(s) /\ call[s][q] \in Handler
  BY DEF EdgeIsSound, EdgeTypeOK
<1>2. \A p \in Requests : ~ OpenCall(s, p)
  <2>1. receipt[s].state \in {"none", "retryable"}
    BY DEF DispatchCallsProvider, MayCallProvider
  <2> QED BY <1>1, <2>1 DEF SendIsSound, CallIsFenced
<1>3. /\ call'[s][q].phase = "sending" /\ call'[s][q].calledAt = now
      /\ call'[s][q].sentAt = call[s][q].sentAt /\ Silent(s, q)
  BY <1>1 DEF DispatchCallsProvider, EdgeTypeOK, Handler, Silent
<1>4. /\ \A z \in Sends, p \in Requests : <<z, p>> # <<s, q>> => call'[z][p] = call[z][p]
      /\ \A z \in Sends, p \in Requests : <<z, p>> # <<s, q>> => provider'[z][p] = provider[z][p]
      /\ provider'[s][q] = "pending" /\ Delivered(s, q)
  BY <1>1 DEF DispatchCallsProvider, EdgeTypeOK
<1> QED BY <1>2, <1>3, <1>4 DEF Calls, Stays

LEMMA RequestGoesOn ==
    ASSUME EdgeIsSound, NEW s \in Sends, NEW q \in Requests, Dispatch(s, q)
    PROVE  /\ Calls(s, q) \/ Moves(s, q) \/ Tells(s, q)
           /\ \A z \in Sends, p \in Requests : <<z, p>> # <<s, q>> => Stays(z, p)
<1> USE EdgeNumbers
<1>1. EdgeTypeOK /\ call[s][q] \in Handler /\ call[s][q].seen \in SeenReceipt
      /\ call[s][q].seen.msgid \in Requests \cup {0}
      /\ receipt[s] \in Receipt
  BY DEF EdgeIsSound, EdgeTypeOK, Handler, SeenReceipt
<1>2. /\ receipt[s].msgid \in Requests \cup {0} /\ receipt[s].expires \in Nat
      /\ AnswerOf(receipt[s]) \in Answers /\ Seen(s) \in SeenReceipt
  BY <1>1 DEF Receipt, SeenReceipt, Seen, AnswerOf, Answers
<1>3. CASE \/ DispatchRetires(s, q) \/ DispatchAnswersFromReceipt(s, q)
           \/ DispatchUnavailable(s, q) \/ RecordProviderError(s, q)
           \/ \E stored, ok \in BOOLEAN : FinishAccepted(s, q, stored, ok)
  <2>1. PICK answer \in Answers, m \in Requests \cup {0} :
           /\ Replies(s, q, answer, m)
           /\ \/ Delivered(s, q)
              \/ call[s][q].phase = "sending" /\ OpenCall(s, q)
              \/ call[s][q].phase = "registering" /\ answer = "accepted"
           /\ answer \in {"rejected", "retryable"} => OthersAreOver(s, q)
    <3>0. CallIsFenced(s) /\ OneOpenCall(s)
      BY DEF EdgeIsSound, SendIsSound
    <3>1. DispatchRetires(s, q) \/ DispatchAnswersFromReceipt(s, q)
             => Replies(s, q, AnswerOf(receipt[s]), receipt[s].msgid) /\ Delivered(s, q)
      BY DEF DispatchRetires, DispatchAnswersFromReceipt
    <3>2. DispatchUnavailable(s, q) => Replies(s, q, "retryable", 0) /\ Delivered(s, q)
      BY DEF DispatchUnavailable
    <3>3. RecordProviderError(s, q) =>
            /\ Replies(s, q, ProviderError(provider[s][q]), 0)
            /\ call[s][q].phase = "sending" /\ OpenCall(s, q)
      <4>1. call[s][q].phase = "sending" => call[s][q].seen.expires = call[s][q].calledAt + TTL
        <5>1. HandlerIsTruthful(s)
          BY DEF EdgeIsSound, SendIsSound
        <5>2. call[s][q].phase = "sending" =>
                call[s][q].seen = [msgid |-> 0, expires |-> call[s][q].calledAt + TTL]
          BY <5>1 DEF HandlerIsTruthful
        <5> QED BY <5>2
      <4>2. RecordProviderError(s, q) =>
              /\ Replies(s, q, ProviderError(provider[s][q]), 0)
              /\ call[s][q].phase = "sending" /\ call[s][q].seen.expires > now
        BY DEF RecordProviderError, InTime
      <4> QED BY <4>1, <4>2 DEF OpenCall
    <3>4. ProviderError(provider[s][q]) \in Answers /\ {"retryable", "accepted"} \subseteq Answers
      BY DEF ProviderError, Answers
    <3>5. \A stored, ok \in BOOLEAN : FinishAccepted(s, q, stored, ok)
             => Replies(s, q, "accepted", call[s][q].seen.msgid) /\ call[s][q].phase = "registering"
      BY DEF FinishAccepted
    <3>6. AnswerOf(receipt[s]) \in {"rejected", "retryable"} => OthersAreOver(s, q)
      BY <3>0 DEF AnswerOf, OthersAreOver, CallIsFenced
    <3>7. DispatchUnavailable(s, q) => OthersAreOver(s, q)
      BY <3>0 DEF DispatchUnavailable, MayCallProvider, OthersAreOver, CallIsFenced
    <3>8. OpenCall(s, q) => OthersAreOver(s, q)
      BY <3>0 DEF OthersAreOver, OneOpenCall
    <3> QED BY <1>1, <1>2, <1>3, <3>1, <3>2, <3>3, <3>4, <3>5, <3>6, <3>7, <3>8
  <2>2. provider' = provider
    BY <1>3 DEF DispatchRetires, DispatchAnswersFromReceipt, DispatchUnavailable,
                RecordProviderError, FinishAccepted
  <2> QED BY <2>1, <2>2, HandlerTells
<1>4. CASE \/ DispatchResumes(s, q) \/ DispatchCrashes(s, q) \/ RecordProviderAcceptance(s, q)
           \/ \E stored \in BOOLEAN : Lose(s, q, stored)
  <2>1. PICK phase \in {"registering", "lost"}, seen \in SeenReceipt :
           call' = [call EXCEPT ![s][q] = [call[s][q] EXCEPT !.phase = phase, !.seen = seen]]
    <3>1. DispatchResumes(s, q) =>
             call' = [call EXCEPT ![s][q] =
                        [call[s][q] EXCEPT !.phase = "registering", !.seen = Seen(s)]]
      BY <1>1 DEF DispatchResumes, EdgeTypeOK, Handler
    <3>2. DispatchCrashes(s, q) \/ (\E stored \in BOOLEAN : Lose(s, q, stored)) =>
             call' = [call EXCEPT ![s][q] =
                        [call[s][q] EXCEPT !.phase = "lost", !.seen = call[s][q].seen]]
      BY <1>1 DEF DispatchCrashes, Lose, EdgeTypeOK, Handler
    <3> DEFINE seen == [call[s][q].seen EXCEPT !.msgid = q]
    <3>3. seen \in SeenReceipt
      BY <1>1 DEF SeenReceipt
    <3>4. ASSUME RecordProviderAcceptance(s, q)
          PROVE  call' = [call EXCEPT ![s][q] =
                            [call[s][q] EXCEPT !.phase = "registering", !.seen = seen]]
      <4>1. call' = [call EXCEPT ![s][q].phase = "registering", ![s][q].seen.msgid = q]
        BY <3>4 DEF RecordProviderAcceptance
      <4> QED BY <1>1, <4>1 DEF EdgeTypeOK, Handler
    <3> HIDE DEF seen
    <3> QED BY <1>1, <1>2, <1>4, <3>1, <3>2, <3>3, <3>4
  <2>2. provider' = provider /\ call[s][q].phase \in {"sent", "sending", "registering"}
    BY <1>4 DEF DispatchResumes, DispatchCrashes, RecordProviderAcceptance, Lose, Delivered
  <2> QED BY <2>1, <2>2, HandlerMovesOn
<1> QED BY <1>3, <1>4, RequestCalls DEF Dispatch

\* A step of the edge moves one request or none.
LEMMA EdgeMovesOne ==
    ASSUME EdgeIsSound, EdgeStep
    PROVE  /\ now' = now
           /\ \/ \A z \in Sends, p \in Requests : Stays(z, p)
              \/ \E s \in Sends, q \in Requests :
                    /\ \/ Calls(s, q) \/ Moves(s, q) \/ Declines(s, q)
                       \/ Tells(s, q) \/ Resolves(s, q)
                    /\ \A z \in Sends, p \in Requests : <<z, p>> # <<s, q>> => Stays(z, p)
<1>1. ASSUME NEW s \in Sends, NEW q \in Requests,
             FrontDoor(s, q) \/ Dispatch(s, q) \/ ProviderResolves(s, q)
      PROVE  /\ now' = now
             /\ \/ Calls(s, q) \/ Moves(s, q) \/ Declines(s, q)
                \/ Tells(s, q) \/ Resolves(s, q)
             /\ \A z \in Sends, p \in Requests : <<z, p>> # <<s, q>> => Stays(z, p)
  <2>1. now' = now
    BY <1>1, RequestsApart DEF EdgeIsSound
  <2> QED BY <1>1, <2>1, RequestIsDeclined, RequestGoesOn, RequestResolves
<1>2. ASSUME NEW s \in Sends, Alarm(s) \/ ReceiptReplay(s)
      PROVE  now' = now /\ \A z \in Sends, p \in Requests : Stays(z, p)
  BY <1>2 DEF Alarm, AlarmFires, AlarmCrashes, AlarmFinishes, ReceiptReplay, Stays
<1> QED BY <1>1, <1>2 DEF EdgeStep

==============================================================================
