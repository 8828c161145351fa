----------------------- MODULE AgentEmailOutboundProofs -----------------------
(***************************************************************************)
(* Theorems about the outbox, for every set of sends, accounts and         *)
(* provider events and every budget.                                       *)
(***************************************************************************)
EXTENDS AgentEmailOutbound, TLAPS

(* Shapes of the rows the transactions write *)

\* A released row is a row with the state and the stamps it was given.
LEMMA ReleasedRow ==
    ASSUME NEW r \in Row, NEW st \in States, NEW sp \in SUBSET Stamps
    PROVE  /\ Released(r, st, sp) \in Row
           /\ Released(r, st, sp) = [r EXCEPT !.state = st, !.claim = 0, !.lease = 0,
                                              !.next = 0, !.stamps = sp]
BY DEF Released, Row

\* A requeued row is a row, whatever moment the caller asked for.
LEMMA RequeuedRow ==
    ASSUME NEW r \in Row, NEW retryAt \in Nat, now \in Nat
    PROVE  Requeued(r, retryAt) \in Row
BY DEF Requeued, Row, LaterOf, States, ActiveStates, SentStates, FailedStates

\* cancelAgentEmailOutboundClaimTx leaves a well-typed row.
LEMMA CanceledRow ==
    ASSUME NEW r \in Row
    PROVE  Canceled(r) \in Row
BY ReleasedRow DEF Canceled, Row, States, Stamps

\* markAgentEmailOutboundAmbiguousTx leaves a well-typed row.
LEMMA AmbiguousRow ==
    ASSUME NEW r \in Row
    PROVE  MadeAmbiguous(r) \in Row
BY ReleasedRow DEF MadeAmbiguous, Row, States, Stamps

-----------------------------------------------------------------------------
(* Types *)

\* The initial state is well typed.
LEMMA TypeInit == Init => TypeOK
BY OutboxAssumption
   DEF Init, TypeOK, AbsentRow, Row, States, ActiveStates, SentStates, FailedStates, Reasons

\* Every transaction keeps the types.
LEMMA TypeStep == TypeOK /\ [Next]_vars => TypeOK'
<1> SUFFICES ASSUME TypeOK, [Next]_vars PROVE TypeOK'
  OBVIOUS
<1> USE OutboxAssumption DEF TypeOK
<1>1. ASSUME NEW s \in Sends, QueueAgentEmail(s) PROVE TypeOK'
  BY <1>1 DEF QueueAgentEmail, AbsentRow, Row, States
<1>2. ASSUME NEW s \in Sends, ClaimAgentEmailOutbound(s) PROVE TypeOK'
  <2> DEFINE r  == row[s]
             st == IF r.state = "provider_started" THEN r.state ELSE "claimed"
             sp == IF r.state = "provider_started" THEN r.stamps
                   ELSE r.stamps \ {"provider_started"}
             claimed == [r EXCEPT !.state = st, !.attempts = r.attempts + 1,
                !.generation = r.generation + 1, !.claim = r.generation + 1,
                !.lease = now + LeaseDuration, !.next = 0,
                !.msgid = NoMessageId, !.stamps = sp]
  <2>1. now + LeaseDuration \in Nat /\ r \in Row
    OBVIOUS
  <2>2. st \in States
    BY DEF States, ActiveStates
  <2>3. sp \in SUBSET Stamps
    BY <2>1 DEF Row
  <2>4. row' = [row EXCEPT ![s] = claimed]
    BY <1>2 DEF ClaimAgentEmailOutbound
  <2>5. claimed \in Row
    <3>1. r.attempts + 1 \in Nat /\ r.generation + 1 \in Nat
      BY <2>1 DEF Row
    <3> HIDE DEF r, st, sp
    <3> QED  BY <2>1, <2>2, <2>3, <3>1 DEF Row
  <2> QED  BY <1>2, <2>4, <2>5 DEF ClaimAgentEmailOutbound
<1>3. ASSUME NEW s \in Sends, NEW g \in 1 .. row[s].generation, Settle(s, g) PROVE TypeOK'
  <2>1. CASE StartRefused(s, g)
    BY <2>1, CanceledRow, AmbiguousRow DEF StartRefused
  <2>2. CASE StartCrosses(s, g)
    <3>1. [row[s] EXCEPT !.state = "provider_started",
                         !.stamps = row[s].stamps \cup {"provider_started"}] \in Row
      <4>1. /\ "provider_started" \in States
            /\ row[s].stamps \cup {"provider_started"} \in SUBSET Stamps
        BY DEF Row, States, ActiveStates, Stamps
      <4> QED  BY <4>1 DEF Row
    <3> QED  BY <2>2, <3>1 DEF StartCrosses
  <2>3. ASSUME NEW result \in Results, NEW m \in MessageIds \cup {NoMessageId},
               FinalizeAgentEmailOutbound(s, g, result, m)
        PROVE  TypeOK'
    <3>1. result \in States /\ StampOf(result) \subseteq Stamps
      BY DEF Results, StampOf, States, Stamps, SentStates, FailedStates
    <3>2. row[s].stamps \cup StampOf(result) \in SUBSET Stamps
      BY <3>1 DEF Row
    <3>3. row' \in [Sends -> Row]
      <4> DEFINE released == Released(row[s], result, row[s].stamps \cup StampOf(result))
      <4>1. released \in Row
        BY <3>1, <3>2, ReleasedRow
      <4>2. row' = [row EXCEPT ![s] = [released EXCEPT !.msgid = m]]
        BY <2>3 DEF FinalizeAgentEmailOutbound
      <4>3. [released EXCEPT !.msgid = m] \in Row
        <5> HIDE DEF released
        <5> QED  BY <4>1 DEF Row
      <4> QED  BY <4>2, <4>3
    <3>4. suppression' \in [Mailboxes -> Reasons]
      BY <2>3 DEF FinalizeAgentEmailOutbound, SuppressRecipient, Reasons
    <3> QED  BY <2>3, <3>3, <3>4 DEF FinalizeAgentEmailOutbound
  <2>4. ASSUME NEW preserve \in BOOLEAN, NEW retryAt \in now .. now + MaxRetryDelay,
               RetryAgentEmailOutbound(s, g, preserve, retryAt)
        PROVE  TypeOK'
    <3>1. retryAt \in Nat
      OBVIOUS
    <3>2. [row[s] EXCEPT !.lease = LaterOf(retryAt, now)] \in Row
      BY <3>1 DEF Row, LaterOf
    <3>3. [Released(row[s], "failed", row[s].stamps \cup {"failed"}) EXCEPT !.msgid = NoMessageId] \in Row
      <4>1. "failed" \in States /\ row[s].stamps \cup {"failed"} \in SUBSET Stamps
        BY DEF Row, States, FailedStates, Stamps
      <4>2. Released(row[s], "failed", row[s].stamps \cup {"failed"}) \in Row
        BY <4>1, ReleasedRow
      <4> QED  BY <4>2 DEF Row
    <3>4. [MadeAmbiguous(row[s]) EXCEPT !.msgid = NoMessageId] \in Row
      BY AmbiguousRow DEF Row
    <3>5. row' \in [Sends -> Row]
      BY <2>4, <3>1, <3>2, <3>3, <3>4, CanceledRow, RequeuedRow DEF RetryAgentEmailOutbound
    <3> QED  BY <2>4, <3>5 DEF RetryAgentEmailOutbound
  <2>5. CASE MarkAgentEmailOutboundAmbiguous(s, g)
    BY <2>5, AmbiguousRow DEF MarkAgentEmailOutboundAmbiguous, Row
  <2> QED
    BY <1>3, <2>1, <2>2, <2>3, <2>4, <2>5 DEF Settle, StartAgentEmailOutboundProviderCall
<1>4. ASSUME Reconcile PROVE TypeOK'
  <2>1. PICK batch \in SUBSET Sends : ReconcileExhaustedAgentEmailOutbound(batch)
    BY <1>4 DEF Reconcile
  <2>2. ASSUME NEW s \in Sends
        PROVE  /\ [MadeAmbiguous(row[s]) EXCEPT !.msgid = NoMessageId] \in Row
               /\ [Released(row[s], "canceled",
                            (row[s].stamps \ {"provider_started"}) \cup {"canceled"})
                     EXCEPT !.msgid = NoMessageId] \in Row
    <3>1. /\ "canceled" \in States
          /\ (row[s].stamps \ {"provider_started"}) \cup {"canceled"} \in SUBSET Stamps
      BY DEF Row, States, Stamps
    <3>2. Released(row[s], "canceled",
                   (row[s].stamps \ {"provider_started"}) \cup {"canceled"}) \in Row
      BY <3>1, ReleasedRow
    <3> QED  BY <3>2, AmbiguousRow DEF Row
  <2> QED  BY <2>1, <2>2 DEF ReconcileExhaustedAgentEmailOutbound
<1>5. ASSUME NEW e \in EventIds, NEW m \in MessageIds, NEW class \in EventClasses,
             ApplyAgentEmailOutboundProviderEvent(e, m, class)
      PROVE  TypeOK'
  <2>1. FoldsTo(class) \in States /\ EventStamp(class) \in Stamps
    BY DEF EventClasses, FoldsTo, EventStamp, States, SentStates, FailedStates, Stamps
  <2>2. ASSUME NEW s \in Sends
        PROVE  [row[s] EXCEPT !.state = FoldsTo(class),
                              !.stamps = row[s].stamps \cup {EventStamp(class)}] \in Row
    BY <2>1 DEF Row
  <2>4. row' \in [Sends -> Row]
    BY <1>5, <2>2 DEF ApplyAgentEmailOutboundProviderEvent
  <2>3. suppression' \in [Mailboxes -> Reasons]
    BY <1>5 DEF ApplyAgentEmailOutboundProviderEvent, SuppressRecipient, SuppressionReason, Reasons
  <2>5. receipts' \subseteq [event: EventIds, send: Sends, msgid: MessageIds, class: EventClasses]
    BY <1>5 DEF ApplyAgentEmailOutboundProviderEvent
  <2> QED  BY <1>5, <2>3, <2>4, <2>5 DEF ApplyAgentEmailOutboundProviderEvent
<1>6. ASSUME AccountStep PROVE TypeOK'
  BY <1>6 DEF AccountStep, SuspendAccount, ResumeAccount, DisableSend, EnableSend,
              BeginAccountEvacuation, AbortAccountEvacuation, Unmoved
<1>7. CASE Tick
  BY <1>7 DEF Tick
<1>8. CASE UNCHANGED vars
  BY <1>8 DEF vars
<1> QED
  BY <1>1, <1>2, <1>3, <1>4, <1>5, <1>6, <1>7, <1>8 DEF Next

\* Type correctness: no sequence of transactions leaves the columns' ranges.
THEOREM TypeCorrect == Spec => []TypeOK
  BY TypeInit, TypeStep, PTL DEF Spec

-----------------------------------------------------------------------------
(* Rows *)

\* A row nobody queued is blank, and only an answered row carries a provider
\* message id.
AnsweredRow(r) ==
    /\ r.state = "absent" => r.stamps = {} /\ r.msgid = NoMessageId
    /\ r.msgid # NoMessageId => r.state \in SentStates \cup FailedStates

AnsweredRows == \A s \in Sends : AnsweredRow(row[s])

SoundRow(r) == TableCheck(r) /\ AnsweredRow(r)

SoundRows == \A s \in Sends : SoundRow(row[s])

\* An update of one row by a sound row keeps all rows sound.
LEMMA OneRow ==
    ASSUME SoundRows, row \in [Sends -> Row], NEW s \in Sends, NEW r,
           row' = [row EXCEPT ![s] = r], SoundRow(r)
    PROVE  SoundRows'
BY DEF SoundRows, SoundRow, TableCheck, AnsweredRow

\* Closing an unanswered row keeps it sound, in the three ways a row is closed.
LEMMA ClosedRow ==
    ASSUME NEW r \in Row, SoundRow(r), r.state \in {"queued", "claimed", "provider_started"}
    PROVE  /\ r.state # "provider_started" => SoundRow(Canceled(r))
           /\ r.state # "provider_started" =>
                SoundRow([Released(r, "canceled", (r.stamps \ {"provider_started"}) \cup {"canceled"})
                            EXCEPT !.msgid = NoMessageId])
           /\ r.state = "provider_started" =>
                /\ SoundRow(MadeAmbiguous(r))
                /\ SoundRow([MadeAmbiguous(r) EXCEPT !.msgid = NoMessageId])
                /\ SoundRow([Released(r, "failed", r.stamps \cup {"failed"})
                               EXCEPT !.msgid = NoMessageId])
BY DEF Canceled, MadeAmbiguous, Released, SoundRow, TableCheck, AnsweredRow, Row,
       ActiveStates, SentStates, FailedStates, ClosedStates, States

\* Before anything is queued there is no row to refuse.
LEMMA SoundInit == Init => SoundRows
BY DEF Init, SoundRows, SoundRow, AbsentRow, TableCheck, AnsweredRow,
       ActiveStates, SentStates, FailedStates, ClosedStates, States

\* Every transaction of the outbox writes rows the CHECK accepts, late callers and
\* redelivered events included.
LEMMA SoundStep == TypeOK /\ SoundRows /\ [Next]_vars => SoundRows'
<1> SUFFICES ASSUME TypeOK, SoundRows, [Next]_vars PROVE SoundRows'
  OBVIOUS
<1> USE OutboxAssumption
<1>0. /\ row \in [Sends -> Row]
      /\ now \in Nat /\ now # 0
      /\ \A s \in Sends : row[s] \in Row /\ SoundRow(row[s])
  BY DEF TypeOK, SoundRows
<1>1. ASSUME NEW s \in Sends, QueueAgentEmail(s) PROVE SoundRows'
  <2>1. SoundRow([AbsentRow EXCEPT !.state = "queued", !.next = now, !.queuedAt = now])
    BY <1>0 DEF AbsentRow, SoundRow, TableCheck, AnsweredRow,
                ActiveStates, SentStates, FailedStates, ClosedStates, States
  <2> QED  BY <1>0, <1>1, <2>1, OneRow DEF QueueAgentEmail
<1>2. ASSUME NEW s \in Sends, ClaimAgentEmailOutbound(s) PROVE SoundRows'
  <2> DEFINE r  == row[s]
             st == IF r.state = "provider_started" THEN r.state ELSE "claimed"
             sp == IF r.state = "provider_started" THEN r.stamps
                   ELSE r.stamps \ {"provider_started"}
             claimed == [r EXCEPT !.state = st, !.attempts = r.attempts + 1,
                !.generation = r.generation + 1, !.claim = r.generation + 1,
                !.lease = now + LeaseDuration, !.next = 0,
                !.msgid = NoMessageId, !.stamps = sp]
  <2>1. row' = [row EXCEPT ![s] = claimed]
    BY <1>2 DEF ClaimAgentEmailOutbound
  <2>2. r.state \in {"queued", "claimed", "provider_started"}
    BY <1>2 DEF ClaimAgentEmailOutbound, Claimable, LeaseExpired, ActiveStates
  <2>3. /\ st \in ActiveStates
        /\ sp = IF st = "claimed" THEN {} ELSE {"provider_started"}
    BY <1>0, <2>2 DEF SoundRow, TableCheck, ActiveStates
  <2>4. now + LeaseDuration # 0 /\ r.generation + 1 >= 1 /\ r.generation + 1 # 0
    BY <1>0 DEF Row
  <2>5. SoundRow(claimed)
    <3>1. r \in Row
      BY <1>0
    <3> HIDE DEF st, sp, r
    <3> QED  BY <2>3, <2>4, <3>1 DEF SoundRow, TableCheck, AnsweredRow, Row,
                ActiveStates, SentStates, FailedStates, ClosedStates, States
  <2> QED  BY <1>0, <2>1, <2>5, OneRow
<1>3. ASSUME NEW s \in Sends, NEW g \in 1 .. row[s].generation, Settle(s, g) PROVE SoundRows'
  <2>0. row[s] \in Row /\ SoundRow(row[s])
    BY <1>0
  <2>1. CASE StartRefused(s, g)
    BY <1>0, <2>0, <2>1, OneRow, ClosedRow DEF StartRefused, ActiveStates
  <2>2. CASE StartCrosses(s, g)
    <3>1. SoundRow([row[s] EXCEPT !.state = "provider_started",
                                  !.stamps = row[s].stamps \cup {"provider_started"}])
      BY <2>0, <2>2 DEF StartCrosses, SoundRow, TableCheck, AnsweredRow, Row,
         ActiveStates, SentStates, FailedStates, ClosedStates, States
    <3> QED  BY <1>0, <2>2, <3>1, OneRow DEF StartCrosses
  <2>3. ASSUME NEW result \in Results, NEW m \in MessageIds \cup {NoMessageId},
               FinalizeAgentEmailOutbound(s, g, result, m)
        PROVE  SoundRows'
    <3>1. SoundRow([Released(row[s], result, row[s].stamps \cup StampOf(result)) EXCEPT !.msgid = m])
      BY <2>0, <2>3 DEF FinalizeAgentEmailOutbound, Results, StampOf, Released,
         SoundRow, TableCheck, AnsweredRow, Row,
         ActiveStates, SentStates, FailedStates, ClosedStates, States
    <3> QED  BY <1>0, <2>3, <3>1, OneRow DEF FinalizeAgentEmailOutbound
  <2>4. ASSUME NEW preserve \in BOOLEAN, NEW retryAt \in now .. now + MaxRetryDelay,
               RetryAgentEmailOutbound(s, g, preserve, retryAt)
        PROVE  SoundRows'
    <3>1. /\ row[s].state \in {"claimed", "provider_started"}
          /\ preserve => row[s].state = "provider_started"
      BY <2>4 DEF RetryAgentEmailOutbound, RetryAccepted, ActiveStates
    <3>2. LaterOf(retryAt, now) \in Nat /\ LaterOf(retryAt, now) # 0
      BY <1>0 DEF LaterOf
    <3>3. preserve => SoundRow([row[s] EXCEPT !.lease = LaterOf(retryAt, now)])
      BY <2>0, <3>1, <3>2 DEF SoundRow, TableCheck, AnsweredRow, Row,
         ActiveStates, SentStates, FailedStates, ClosedStates, States
    <3>4. SoundRow(Requeued(row[s], retryAt))
      BY <2>0, <3>1, <3>2 DEF Requeued, SoundRow, TableCheck, AnsweredRow, Row,
         ActiveStates, SentStates, FailedStates, ClosedStates, States
    <3>5. PICK r : row' = [row EXCEPT ![s] = r] /\ SoundRow(r)
      BY <2>0, <2>4, <3>1, <3>3, <3>4, ClosedRow DEF RetryAgentEmailOutbound
    <3> QED  BY <1>0, <3>5, OneRow
  <2>5. CASE MarkAgentEmailOutboundAmbiguous(s, g)
    BY <1>0, <2>0, <2>5, OneRow, ClosedRow DEF MarkAgentEmailOutboundAmbiguous
  <2> QED
    BY <1>3, <2>1, <2>2, <2>3, <2>4, <2>5 DEF Settle, StartAgentEmailOutboundProviderCall
<1>4. ASSUME Reconcile PROVE SoundRows'
  <2>1. PICK batch \in SUBSET Sends : ReconcileExhaustedAgentEmailOutbound(batch)
    BY <1>4 DEF Reconcile
  <2>2. ASSUME NEW s \in Sends PROVE SoundRow(row'[s])
    <3>1. CASE s \notin batch
      BY <1>0, <2>1, <3>1 DEF ReconcileExhaustedAgentEmailOutbound
    <3>2. CASE s \in batch
      <4>1. row[s].state \in {"queued", "claimed", "provider_started"}
        BY <2>1, <3>2 DEF ReconcileExhaustedAgentEmailOutbound, Overdue, LeaseExpired, ActiveStates
      <4> QED  BY <1>0, <2>1, <3>2, <4>1, ClosedRow DEF ReconcileExhaustedAgentEmailOutbound
    <3> QED  BY <3>1, <3>2
  <2> QED  BY <2>2 DEF SoundRows, SoundRow, TableCheck, AnsweredRow
<1>5. ASSUME NEW e \in EventIds, NEW m \in MessageIds, NEW class \in EventClasses,
             ApplyAgentEmailOutboundProviderEvent(e, m, class)
      PROVE  SoundRows'
  <2>1. ASSUME NEW s \in Sends, row[s].state \in FoldsFrom(class)
        PROVE  SoundRow([row[s] EXCEPT !.state = FoldsTo(class),
                                       !.stamps = row[s].stamps \cup {EventStamp(class)}])
    BY <1>0, <2>1 DEF EventClasses, FoldsFrom, FoldsTo, EventStamp,
       SoundRow, TableCheck, AnsweredRow, Row,
       ActiveStates, SentStates, FailedStates, ClosedStates, States
  <2>2. PICK s \in Sends :
          row' = IF row[s].state \notin FoldsFrom(class) THEN row
                 ELSE [row EXCEPT ![s] = [row[s] EXCEPT
                         !.state = FoldsTo(class),
                         !.stamps = row[s].stamps \cup {EventStamp(class)}]]
    BY <1>5 DEF ApplyAgentEmailOutboundProviderEvent
  <2>3. CASE row' = row
    BY <2>3 DEF SoundRows, SoundRow, TableCheck, AnsweredRow
  <2> QED  BY <1>0, <2>1, <2>2, <2>3, OneRow
<1>6. CASE row' = row
  BY <1>6 DEF SoundRows, SoundRow, TableCheck, AnsweredRow
<1>7. ASSUME AccountStep PROVE row' = row
  BY <1>7 DEF AccountStep, SuspendAccount, ResumeAccount, DisableSend, EnableSend,
              BeginAccountEvacuation, AbortAccountEvacuation, Unmoved
<1> QED
  BY <1>1, <1>2, <1>3, <1>4, <1>5, <1>6, <1>7 DEF Next, Tick, vars

\* No sequence of claims, late settlements, reconciles and provider events produces
\* a row that the table's lifecycle CHECK would refuse.
THEOREM RowsMeetTableCheck == Spec => []RowMeetsTableCheck
<1>1. TypeOK /\ SoundRows => RowMeetsTableCheck
  BY DEF SoundRows, SoundRow, RowMeetsTableCheck
<1> QED
  BY <1>1, TypeCorrect, SoundInit, SoundStep, PTL DEF Spec

-----------------------------------------------------------------------------
(* Usage and account moves *)

Ledger == UsageMatchesAcceptance /\ NoProviderCallInMovingAccount

Accepted(r) == "accepted" \in r.stamps

\* An update of one row that neither accepts nor un-accepts it, and crosses the
\* provider boundary only outside a moving account.
LEMMA OneRowLedger ==
    ASSUME Ledger, row \in [Sends -> Row], NEW s \in Sends, NEW r,
           row' = [row EXCEPT ![s] = r], usage' = usage, evacuating' = evacuating,
           Accepted(r) <=> Accepted(row[s]),
           r.state = "provider_started" => Owner[s] \notin evacuating
    PROVE  Ledger'
BY DEF Ledger, UsageMatchesAcceptance, NoProviderCallInMovingAccount, Accepted

\* An unfinished row was never accepted, and closing it unanswered does not accept it.
LEMMA UnfinishedRow ==
    ASSUME NEW r \in Row, SoundRow(r),
           r.state \in {"absent", "queued", "claimed", "provider_started"}
    PROVE  /\ ~ Accepted(r)
           /\ ~ Accepted(Canceled(r)) /\ Canceled(r).state = "canceled"
           /\ ~ Accepted(MadeAmbiguous(r)) /\ MadeAmbiguous(r).state = "ambiguous"
BY DEF Accepted, Canceled, MadeAmbiguous, Released, SoundRow, TableCheck, AnsweredRow, Row,
       ActiveStates

\* Before anything is queued nothing is billed and nothing is in flight.
LEMMA LedgerInit == Init => Ledger
BY DEF Init, Ledger, UsageMatchesAcceptance, NoProviderCallInMovingAccount, AbsentRow

\* Every transaction keeps billing and acceptance in step, and no transaction takes
\* a send of a moving account past the provider boundary.
LEMMA LedgerStep == TypeOK /\ SoundRows /\ Ledger /\ [Next]_vars => Ledger'
<1> SUFFICES ASSUME TypeOK, SoundRows, Ledger, [Next]_vars PROVE Ledger'
  OBVIOUS
<1> USE OutboxAssumption
<1>0. /\ row \in [Sends -> Row]
      /\ \A s \in Sends : row[s] \in Row /\ SoundRow(row[s])
  BY DEF TypeOK, SoundRows
<1>1. ASSUME NEW s \in Sends, QueueAgentEmail(s) PROVE Ledger'
  <2> DEFINE r == [AbsentRow EXCEPT !.state = "queued", !.next = now, !.queuedAt = now]
  <2>1. ~ Accepted(r) /\ r.state = "queued"
    BY DEF AbsentRow, Accepted
  <2>2. ~ Accepted(row[s])
    BY <1>0, <1>1, UnfinishedRow DEF QueueAgentEmail
  <2>3. row' = [row EXCEPT ![s] = r] /\ usage' = usage /\ evacuating' = evacuating
    BY <1>1 DEF QueueAgentEmail
  <2> QED
    <3> HIDE DEF r
    <3> QED  BY <1>0, <2>1, <2>2, <2>3, OneRowLedger
<1>2. ASSUME NEW s \in Sends, ClaimAgentEmailOutbound(s) PROVE Ledger'
  <2>1. row[s].state \in {"queued", "claimed", "provider_started"} /\ Owner[s] \notin evacuating
    BY <1>2 DEF ClaimAgentEmailOutbound, Claimable, LeaseExpired, ActiveStates, AccountActive
  <2>2. ~ Accepted(row[s])
    BY <1>0, <2>1, UnfinishedRow
  <2> DEFINE crossed == row[s].state = "provider_started"
             r == [row[s] EXCEPT
                    !.state = IF crossed THEN row[s].state ELSE "claimed",
                    !.attempts = row[s].attempts + 1,
                    !.generation = row[s].generation + 1,
                    !.claim = row[s].generation + 1,
                    !.lease = now + LeaseDuration,
                    !.next = 0,
                    !.msgid = NoMessageId,
                    !.stamps = IF crossed THEN row[s].stamps
                               ELSE row[s].stamps \ {"provider_started"}]
  <2>3. row' = [row EXCEPT ![s] = r] /\ usage' = usage /\ evacuating' = evacuating
    BY <1>2 DEF ClaimAgentEmailOutbound
  <2>4. ~ Accepted(r)
    BY <1>0, <2>2 DEF Accepted, Row
  <2> HIDE DEF r
  <2> QED  BY <1>0, <2>1, <2>2, <2>3, <2>4, OneRowLedger
<1>3. ASSUME NEW s \in Sends, NEW g \in 1 .. row[s].generation, Settle(s, g) PROVE Ledger'
  <2>0. row[s] \in Row /\ SoundRow(row[s])
    BY <1>0
  <2>1. CASE StartRefused(s, g)
    <3> DEFINE r == IF row[s].state = "provider_started"
                    THEN MadeAmbiguous(row[s]) ELSE Canceled(row[s])
    <3>1. row[s].state \in {"claimed", "provider_started"}
      BY <2>1 DEF StartRefused, ActiveStates
    <3>2. ~ Accepted(row[s]) /\ ~ Accepted(r) /\ r.state # "provider_started"
      BY <2>0, <3>1, UnfinishedRow
    <3>3. row' = [row EXCEPT ![s] = r] /\ usage' = usage /\ evacuating' = evacuating
      BY <2>1 DEF StartRefused
    <3> QED
      <4> HIDE DEF r
      <4> QED  BY <1>0, <3>2, <3>3, OneRowLedger
  <2>2. CASE StartCrosses(s, g)
    <3> DEFINE r == [row[s] EXCEPT !.state = "provider_started",
                                   !.stamps = row[s].stamps \cup {"provider_started"}]
    <3>1. Accepted(r) <=> Accepted(row[s])
      BY <2>0 DEF Accepted, Row
    <3>2. Owner[s] \notin evacuating
      BY <2>2 DEF StartCrosses, PolicyRefuses, AccountActive
    <3>3. row' = [row EXCEPT ![s] = r] /\ usage' = usage /\ evacuating' = evacuating
      BY <2>2 DEF StartCrosses
    <3> QED
      <4> HIDE DEF r
      <4> QED  BY <1>0, <3>1, <3>2, <3>3, OneRowLedger
  <2>3. ASSUME NEW result \in Results, NEW m \in MessageIds \cup {NoMessageId},
               FinalizeAgentEmailOutbound(s, g, result, m)
        PROVE  Ledger'
    <3> DEFINE r == [Released(row[s], result, row[s].stamps \cup StampOf(result)) EXCEPT !.msgid = m]
    <3>1. row' = [row EXCEPT ![s] = r] /\ evacuating' = evacuating
          /\ usage' = IF result \in SentStates THEN usage \cup {s} ELSE usage
      BY <2>3 DEF FinalizeAgentEmailOutbound
    <3>2. ~ Accepted(row[s])
      BY <2>0, <2>3, UnfinishedRow DEF FinalizeAgentEmailOutbound
    <3>3. (Accepted(r) <=> result \in SentStates) /\ r.state # "provider_started"
      BY <2>0, <3>2 DEF Accepted, Released, Row, StampOf, Results, SentStates, FailedStates
    <3> QED
      <4> HIDE DEF r
      <4> QED  BY <1>0, <3>1, <3>2, <3>3
                 DEF Ledger, UsageMatchesAcceptance, NoProviderCallInMovingAccount, Accepted
  <2>4. ASSUME NEW preserve \in BOOLEAN, NEW retryAt \in now .. now + MaxRetryDelay,
               RetryAgentEmailOutbound(s, g, preserve, retryAt)
        PROVE  Ledger'
    <3>1. row[s].state \in {"claimed", "provider_started"} /\ Owner[s] \notin evacuating
      BY <2>4 DEF RetryAgentEmailOutbound, RetryAccepted, ActiveStates, Writable
    <3>2. ~ Accepted(row[s])
      BY <2>0, <3>1, UnfinishedRow
    <3>3. /\ ~ Accepted([MadeAmbiguous(row[s]) EXCEPT !.msgid = NoMessageId])
          /\ ~ Accepted([Released(row[s], "failed", row[s].stamps \cup {"failed"})
                           EXCEPT !.msgid = NoMessageId])
          /\ ~ Accepted(Canceled(row[s]))
          /\ ~ Accepted([row[s] EXCEPT !.lease = LaterOf(retryAt, now)])
          /\ ~ Accepted(Requeued(row[s], retryAt))
      BY <2>0, <3>2 DEF Accepted, MadeAmbiguous, Canceled, Requeued, Released, Row
    <3>4. PICK r : row' = [row EXCEPT ![s] = r] /\ ~ Accepted(r)
      BY <2>4, <3>3 DEF RetryAgentEmailOutbound
    <3> QED  BY <1>0, <2>4, <3>1, <3>2, <3>4, OneRowLedger DEF RetryAgentEmailOutbound
  <2>5. CASE MarkAgentEmailOutboundAmbiguous(s, g)
    <3> DEFINE r == [MadeAmbiguous(row[s]) EXCEPT !.msgid = NoMessageId]
    <3>1. ~ Accepted(row[s])
      BY <2>0, <2>5, UnfinishedRow DEF MarkAgentEmailOutboundAmbiguous
    <3>2. ~ Accepted(r) /\ r.state # "provider_started"
      BY <2>0, <3>1 DEF Accepted, MadeAmbiguous, Released, Row
    <3>3. row' = [row EXCEPT ![s] = r] /\ usage' = usage /\ evacuating' = evacuating
      BY <2>5 DEF MarkAgentEmailOutboundAmbiguous
    <3> QED
      <4> HIDE DEF r
      <4> QED  BY <1>0, <3>1, <3>2, <3>3, OneRowLedger
  <2> QED
    BY <1>3, <2>1, <2>2, <2>3, <2>4, <2>5 DEF Settle, StartAgentEmailOutboundProviderCall
<1>4. ASSUME Reconcile PROVE Ledger'
  <2>1. PICK batch \in SUBSET Sends : ReconcileExhaustedAgentEmailOutbound(batch)
    BY <1>4 DEF Reconcile
  <2>2. usage' = usage /\ evacuating' = evacuating
    BY <2>1 DEF ReconcileExhaustedAgentEmailOutbound
  <2>3. ASSUME NEW s \in Sends
        PROVE  /\ Accepted(row'[s]) <=> Accepted(row[s])
               /\ row'[s].state = "provider_started" => row[s].state = "provider_started"
    <3>1. CASE s \notin batch
      BY <1>0, <2>1, <3>1 DEF ReconcileExhaustedAgentEmailOutbound
    <3>2. CASE s \in batch
      <4>1. row[s].state \in {"queued", "claimed", "provider_started"}
        BY <2>1, <3>2 DEF ReconcileExhaustedAgentEmailOutbound, Overdue, LeaseExpired, ActiveStates
      <4>2. ~ Accepted(row[s])
        BY <1>0, <4>1, UnfinishedRow
      <4>3. \/ row'[s] = [MadeAmbiguous(row[s]) EXCEPT !.msgid = NoMessageId]
            \/ row'[s] = [Released(row[s], "canceled",
                            (row[s].stamps \ {"provider_started"}) \cup {"canceled"})
                            EXCEPT !.msgid = NoMessageId]
        BY <2>1, <3>2 DEF ReconcileExhaustedAgentEmailOutbound
      <4>4. row[s] \in Row
        BY <1>0
      <4>5. row[s].stamps \in SUBSET Stamps
        BY <4>4 DEF Row
      <4>6. ASSUME NEW state \in {"ambiguous", "canceled"}, NEW stamps \in SUBSET Stamps,
                   "accepted" \notin stamps,
                   row'[s] = [Released(row[s], state, stamps) EXCEPT !.msgid = NoMessageId]
            PROVE  ~ Accepted(row'[s]) /\ row'[s].state # "provider_started"
        BY <4>4, <4>6 DEF Accepted, Released, Row
      <4>7. ~ Accepted(row'[s]) /\ row'[s].state # "provider_started"
        BY <4>2, <4>3, <4>5, <4>6 DEF Accepted, MadeAmbiguous, Stamps
      <4> QED  BY <4>2, <4>7
    <3> QED  BY <3>1, <3>2
  <2> QED
    BY <2>2, <2>3 DEF Ledger, UsageMatchesAcceptance, NoProviderCallInMovingAccount, Accepted
<1>5. ASSUME NEW e \in EventIds, NEW m \in MessageIds, NEW class \in EventClasses,
             ApplyAgentEmailOutboundProviderEvent(e, m, class)
      PROVE  Ledger'
  <2>1. PICK s \in Sends :
          row' = IF row[s].state \notin FoldsFrom(class) THEN row
                 ELSE [row EXCEPT ![s] = [row[s] EXCEPT
                         !.state = FoldsTo(class),
                         !.stamps = row[s].stamps \cup {EventStamp(class)}]]
    BY <1>5 DEF ApplyAgentEmailOutboundProviderEvent
  <2>2. usage' = usage /\ evacuating' = evacuating
    BY <1>5 DEF ApplyAgentEmailOutboundProviderEvent
  <2> DEFINE r == [row[s] EXCEPT !.state = FoldsTo(class),
                                 !.stamps = row[s].stamps \cup {EventStamp(class)}]
  <2>3. (Accepted(r) <=> Accepted(row[s])) /\ r.state # "provider_started"
    BY <1>0 DEF Accepted, Row, EventClasses, EventStamp, FoldsTo
  <2>4. CASE row' = row
    BY <2>2, <2>4 DEF Ledger, UsageMatchesAcceptance, NoProviderCallInMovingAccount
  <2>5. CASE row' = [row EXCEPT ![s] = r]
    <3> HIDE DEF r
    <3> QED  BY <1>0, <2>2, <2>3, <2>5, OneRowLedger
  <2> QED  BY <2>1, <2>4, <2>5
<1>6. CASE AccountStep
  <2>1. row' = row /\ usage' = usage
    BY <1>6 DEF AccountStep, SuspendAccount, ResumeAccount, DisableSend, EnableSend,
                BeginAccountEvacuation, AbortAccountEvacuation, Unmoved
  <2>2. ASSUME NEW s \in Sends, Owner[s] \in evacuating', row[s].state = "provider_started"
        PROVE  Owner[s] \in evacuating
    BY <1>6, <2>2 DEF AccountStep, SuspendAccount, ResumeAccount, DisableSend, EnableSend,
                      BeginAccountEvacuation, AbortAccountEvacuation
  <2> QED
    BY <2>1, <2>2 DEF Ledger, UsageMatchesAcceptance, NoProviderCallInMovingAccount
<1>7. CASE UNCHANGED <<row, usage, evacuating>>
  BY <1>7 DEF Ledger, UsageMatchesAcceptance, NoProviderCallInMovingAccount
<1> QED
  BY <1>1, <1>2, <1>3, <1>4, <1>5, <1>6, <1>7 DEF Next, Tick, vars

\* Exactly the accepted sends are billed, whatever happens to them before and after.
THEOREM UsageIsAcceptance == Spec => []UsageMatchesAcceptance
<1>1. Ledger => UsageMatchesAcceptance
  BY DEF Ledger
<1> QED
  BY <1>1, TypeCorrect, TypeStep, SoundInit, SoundStep, LedgerInit, LedgerStep, PTL DEF Spec

\* A moving account never owns an unsettled provider call.
THEOREM MovingAccountsAreDrained == Spec => []NoProviderCallInMovingAccount
<1>1. Ledger => NoProviderCallInMovingAccount
  BY DEF Ledger
<1> QED
  BY <1>1, TypeCorrect, TypeStep, SoundInit, SoundStep, LedgerInit, LedgerStep, PTL DEF Spec

-----------------------------------------------------------------------------
(* What a single transaction may never do *)

\* A transaction that writes one row can change only that row.
LEMMA OneRowChanges ==
    ASSUME row \in [Sends -> Row], NEW s \in Sends, NEW r, row' = [row EXCEPT ![s] = r],
           NEW t \in Sends, t # s
    PROVE  row'[t] = row[t]
OBVIOUS

\* A live claim is only ever replaced by its own settlement: no claim, reconcile
\* or event raises the generation of a row whose lease still runs.
LEMMA LeaseStep ==
    TypeOK /\ [Next]_vars =>
        \A s \in Sends : row[s].state \in ActiveStates /\ row[s].lease > now =>
            row'[s].generation = row[s].generation
<1> SUFFICES ASSUME TypeOK, [Next]_vars, NEW s \in Sends,
                    row[s].state \in ActiveStates, row[s].lease > now
             PROVE  row'[s].generation = row[s].generation
  OBVIOUS
<1>0. /\ row \in [Sends -> Row] /\ row[s] \in Row /\ now \in Nat
      /\ row[s].lease \in Nat /\ ~ (row[s].lease <= now)
  BY DEF TypeOK, Row
<1>1. ASSUME NEW t \in Sends, QueueAgentEmail(t) PROVE row'[s].generation = row[s].generation
  <2>1. t # s
    BY <1>1 DEF QueueAgentEmail, ActiveStates
  <2> QED  BY <1>0, <1>1, <2>1, OneRowChanges DEF QueueAgentEmail
<1>2. ASSUME NEW t \in Sends, ClaimAgentEmailOutbound(t)
      PROVE  row'[s].generation = row[s].generation
  <2>1. t # s
    BY <1>0, <1>2 DEF ClaimAgentEmailOutbound, Claimable, LeaseExpired, ActiveStates
  <2> QED  BY <1>0, <1>2, <2>1, OneRowChanges DEF ClaimAgentEmailOutbound
<1>3. ASSUME NEW t \in Sends, NEW g \in 1 .. row[t].generation, Settle(t, g)
      PROVE  row'[s].generation = row[s].generation
  <2>0. \A r : row' = [row EXCEPT ![t] = r] /\ r.generation = row[t].generation
               => row'[s].generation = row[s].generation
    BY <1>0
  <2>1. /\ MadeAmbiguous(row[t]).generation = row[t].generation
        /\ Canceled(row[t]).generation = row[t].generation
        /\ \A st, sp : Released(row[t], st, sp).generation = row[t].generation
        /\ \A m : [MadeAmbiguous(row[t]) EXCEPT !.msgid = m].generation = row[t].generation
        /\ \A m, st, sp : [Released(row[t], st, sp) EXCEPT !.msgid = m].generation
                             = row[t].generation
        /\ \A at : Requeued(row[t], at).generation = row[t].generation
        /\ \A l : [row[t] EXCEPT !.lease = l].generation = row[t].generation
    <3>1. row[t] \in Row
      BY <1>0
    <3> QED  BY <3>1 DEF MadeAmbiguous, Canceled, Released, Requeued, Row
  <2>2. CASE StartRefused(t, g)
    BY <2>0, <2>1, <2>2 DEF StartRefused
  <2>3. CASE StartCrosses(t, g)
    <3>1. row[t] \in Row
      BY <1>0
    <3> QED  BY <2>0, <2>3, <3>1 DEF StartCrosses, Row
  <2>4. ASSUME NEW result \in Results, NEW m \in MessageIds \cup {NoMessageId},
               FinalizeAgentEmailOutbound(t, g, result, m)
        PROVE  row'[s].generation = row[s].generation
    BY <2>0, <2>1, <2>4 DEF FinalizeAgentEmailOutbound
  <2>5. ASSUME NEW preserve \in BOOLEAN, NEW retryAt \in now .. now + MaxRetryDelay,
               RetryAgentEmailOutbound(t, g, preserve, retryAt)
        PROVE  row'[s].generation = row[s].generation
    BY <2>0, <2>1, <2>5 DEF RetryAgentEmailOutbound
  <2>6. CASE MarkAgentEmailOutboundAmbiguous(t, g)
    BY <2>0, <2>1, <2>6 DEF MarkAgentEmailOutboundAmbiguous
  <2> QED
    BY <1>3, <2>2, <2>3, <2>4, <2>5, <2>6 DEF Settle, StartAgentEmailOutboundProviderCall
<1>4. ASSUME Reconcile PROVE row'[s].generation = row[s].generation
  <2>1. PICK batch \in SUBSET Sends : ReconcileExhaustedAgentEmailOutbound(batch)
    BY <1>4 DEF Reconcile
  <2>2. s \notin batch
    BY <1>0, <2>1 DEF ReconcileExhaustedAgentEmailOutbound, Overdue, LeaseExpired, ActiveStates
  <2> QED  BY <2>1, <2>2 DEF ReconcileExhaustedAgentEmailOutbound
<1>5. ASSUME NEW e \in EventIds, NEW m \in MessageIds, NEW class \in EventClasses,
             ApplyAgentEmailOutboundProviderEvent(e, m, class)
      PROVE  row'[s].generation = row[s].generation
  <2>1. PICK t \in Sends :
          row' = IF row[t].state \notin FoldsFrom(class) THEN row
                 ELSE [row EXCEPT ![t] = [row[t] EXCEPT
                         !.state = FoldsTo(class),
                         !.stamps = row[t].stamps \cup {EventStamp(class)}]]
    BY <1>5 DEF ApplyAgentEmailOutboundProviderEvent
  <2>2. row[t] \in Row
    BY <1>0
  <2> QED  BY <1>0, <2>1, <2>2 DEF Row
<1>6. CASE row' = row
  BY <1>6
<1>7. ASSUME AccountStep PROVE row' = row
  BY <1>7 DEF AccountStep, SuspendAccount, ResumeAccount, DisableSend, EnableSend,
              BeginAccountEvacuation, AbortAccountEvacuation, Unmoved
<1> QED
  BY <1>1, <1>2, <1>3, <1>4, <1>5, <1>6, <1>7 DEF Next, Tick, vars

\* Nobody takes over a live lease, however many workers, retries and reconciles run.
THEOREM LeasesAreExclusive == Spec => LiveLeaseIsExclusive
<1>1. TypeOK /\ [Next]_vars =>
        [\A s \in Sends : row[s].state \in ActiveStates /\ row[s].lease > now =>
            row'[s].generation = row[s].generation]_vars
  BY LeaseStep
<1> QED
  BY <1>1, TypeCorrect, PTL DEF Spec, LiveLeaseIsExclusive

\* Only a provider event changes a closed row, and only along the event table: no
\* claim, settlement or reconcile finds one.
LEMMA ClosedStep ==
    TypeOK /\ [Next]_vars =>
        \A s \in Sends : row[s].state \in ClosedStates /\ row'[s] # row[s] =>
            \E class \in EventClasses :
               /\ row[s].state \in FoldsFrom(class)
               /\ row'[s].state = FoldsTo(class)
               /\ row'[s].msgid = row[s].msgid
<1> SUFFICES ASSUME TypeOK, [Next]_vars, NEW s \in Sends,
                    row[s].state \in ClosedStates, row'[s] # row[s]
             PROVE  \E class \in EventClasses :
                       /\ row[s].state \in FoldsFrom(class)
                       /\ row'[s].state = FoldsTo(class)
                       /\ row'[s].msgid = row[s].msgid
  OBVIOUS
<1>0. /\ row \in [Sends -> Row]
      /\ row[s].state \notin {"absent", "queued", "claimed", "provider_started"}
  BY DEF TypeOK, ClosedStates, States, ActiveStates
<1>1. ASSUME NEW t \in Sends, QueueAgentEmail(t) PROVE FALSE
  <2>1. t # s
    BY <1>0, <1>1 DEF QueueAgentEmail
  <2> QED  BY <1>0, <1>1, <2>1, OneRowChanges DEF QueueAgentEmail
<1>2. ASSUME NEW t \in Sends, ClaimAgentEmailOutbound(t) PROVE FALSE
  <2>1. t # s
    BY <1>0, <1>2 DEF ClaimAgentEmailOutbound, Claimable, LeaseExpired, ActiveStates
  <2> QED  BY <1>0, <1>2, <2>1, OneRowChanges DEF ClaimAgentEmailOutbound
<1>3. ASSUME NEW t \in Sends, NEW g \in 1 .. row[t].generation, Settle(t, g) PROVE FALSE
  <2>1. row[t].state \in {"claimed", "provider_started"}
    BY <1>3 DEF Settle, StartAgentEmailOutboundProviderCall, StartRefused, StartCrosses,
       FinalizeAgentEmailOutbound, RetryAgentEmailOutbound, RetryAccepted,
       MarkAgentEmailOutboundAmbiguous, ActiveStates
  <2>2. t # s
    BY <1>0, <2>1
  <2>3. row'[s] = row[s]
    BY <1>0, <1>3, <2>2, OneRowChanges
       DEF Settle, StartAgentEmailOutboundProviderCall, StartRefused, StartCrosses,
       FinalizeAgentEmailOutbound, RetryAgentEmailOutbound, MarkAgentEmailOutboundAmbiguous
  <2> QED  BY <2>3
<1>4. ASSUME Reconcile PROVE FALSE
  <2>1. PICK batch \in SUBSET Sends : ReconcileExhaustedAgentEmailOutbound(batch)
    BY <1>4 DEF Reconcile
  <2>2. s \notin batch
    BY <1>0, <2>1 DEF ReconcileExhaustedAgentEmailOutbound, Overdue, LeaseExpired, ActiveStates
  <2> QED  BY <2>1, <2>2 DEF ReconcileExhaustedAgentEmailOutbound
<1>5. ASSUME NEW e \in EventIds, NEW m \in MessageIds, NEW class \in EventClasses,
             ApplyAgentEmailOutboundProviderEvent(e, m, class)
      PROVE  /\ row[s].state \in FoldsFrom(class)
             /\ row'[s].state = FoldsTo(class)
             /\ row'[s].msgid = row[s].msgid
  <2>1. PICK t \in Sends :
          row' = IF row[t].state \notin FoldsFrom(class) THEN row
                 ELSE [row EXCEPT ![t] = [row[t] EXCEPT
                         !.state = FoldsTo(class),
                         !.stamps = row[t].stamps \cup {EventStamp(class)}]]
    BY <1>5 DEF ApplyAgentEmailOutboundProviderEvent
  <2>2. row[s] \in Row
    BY <1>0
  <2>3. row[t].state \in FoldsFrom(class) /\ t = s
    BY <1>0, <2>1, OneRowChanges
  <2> QED  BY <1>0, <2>1, <2>2, <2>3 DEF Row
<1>6. row' # row
  OBVIOUS
<1>7. ASSUME AccountStep PROVE row' = row
  BY <1>7 DEF AccountStep, SuspendAccount, ResumeAccount, DisableSend, EnableSend,
              BeginAccountEvacuation, AbortAccountEvacuation, Unmoved
<1> QED
  BY <1>1, <1>2, <1>3, <1>4, <1>5, <1>6, <1>7 DEF Next, Tick, vars

\* Closed work never reopens, whichever late worker, reconcile or redelivered event
\* arrives.
THEOREM ClosedStaysClosed == Spec => ClosedRowsOnlyFold
<1>1. TypeOK /\ [Next]_vars =>
        [\A s \in Sends : row[s].state \in ClosedStates /\ row'[s] # row[s] =>
            \E class \in EventClasses :
               /\ row[s].state \in FoldsFrom(class)
               /\ row'[s].state = FoldsTo(class)
               /\ row'[s].msgid = row[s].msgid]_vars
  BY ClosedStep
<1> QED
  BY <1>1, TypeCorrect, PTL DEF Spec, ClosedRowsOnlyFold

-----------------------------------------------------------------------------
(* Provider events *)

UniqueIds == \A s, t \in Sends : s # t /\ row[s].msgid # NoMessageId
                                    => row[t].msgid # row[s].msgid

FoldedSends == \A rc \in receipts :
                  row[rc.send].msgid = rc.msgid /\ row[rc.send].state \in ClosedStates

Matched == UniqueIds /\ FoldedSends

\* A transaction keeps or clears provider message ids, except for the finalization
\* that stores a free one.
LEMMA IdsChange ==
    ASSUME TypeOK, [Next]_vars
    PROVE  \/ \A t \in Sends : row'[t].msgid \in {row[t].msgid, NoMessageId}
           \/ \E s \in Sends, m \in MessageIds :
                 /\ MessageIdFree(s, m) /\ row'[s].msgid = m
                 /\ \A t \in Sends \ {s} : row'[t] = row[t]
<1> DEFINE Kept == \A t \in Sends : row'[t].msgid \in {row[t].msgid, NoMessageId}
           Stored == \E s \in Sends, m \in MessageIds :
                        /\ MessageIdFree(s, m) /\ row'[s].msgid = m
                        /\ \A t \in Sends \ {s} : row'[t] = row[t]
<1> SUFFICES Kept \/ Stored
  OBVIOUS
<1>0. /\ row \in [Sends -> Row] /\ \A t \in Sends : row[t] \in Row
  BY DEF TypeOK
<1>a. \A s \in Sends : \A r : row' = [row EXCEPT ![s] = r] /\ r.msgid \in {row[s].msgid, NoMessageId}
        => Kept
  BY <1>0
<1>b. \A s \in Sends :
        /\ MadeAmbiguous(row[s]).msgid = row[s].msgid
        /\ Canceled(row[s]).msgid = row[s].msgid
        /\ \A m : [MadeAmbiguous(row[s]) EXCEPT !.msgid = m].msgid = m
        /\ \A m, st, sp : [Released(row[s], st, sp) EXCEPT !.msgid = m].msgid = m
        /\ \A at : Requeued(row[s], at).msgid = NoMessageId
        /\ \A l : [row[s] EXCEPT !.lease = l].msgid = row[s].msgid
  BY <1>0 DEF MadeAmbiguous, Canceled, Released, Requeued, Row
<1>1. ASSUME NEW s \in Sends, QueueAgentEmail(s) PROVE Kept
  <2> DEFINE r == [AbsentRow EXCEPT !.state = "queued", !.next = now, !.queuedAt = now]
  <2>1. row' = [row EXCEPT ![s] = r]
    BY <1>1 DEF QueueAgentEmail
  <2>2. r.msgid = NoMessageId
    BY DEF AbsentRow
  <2> HIDE DEF r
  <2> QED  BY <1>a, <2>1, <2>2
<1>2. ASSUME NEW s \in Sends, ClaimAgentEmailOutbound(s) PROVE Kept
  <2>1. row[s] \in Row
    BY <1>0
  <2> QED  BY <1>0, <1>2, <2>1 DEF ClaimAgentEmailOutbound, Row
<1>3. ASSUME NEW s \in Sends, NEW g \in 1 .. row[s].generation, Settle(s, g) PROVE Kept \/ Stored
  <2>1. CASE StartRefused(s, g)
    BY <1>a, <1>b, <2>1 DEF StartRefused
  <2>2. CASE StartCrosses(s, g)
    <3>1. row[s] \in Row
      BY <1>0
    <3> QED  BY <1>0, <2>2, <3>1 DEF StartCrosses, Row
  <2>3. ASSUME NEW result \in Results, NEW m \in MessageIds \cup {NoMessageId},
               FinalizeAgentEmailOutbound(s, g, result, m)
        PROVE  Kept \/ Stored
    <3> DEFINE r == [Released(row[s], result, row[s].stamps \cup StampOf(result)) EXCEPT !.msgid = m]
    <3>1. row' = [row EXCEPT ![s] = r] /\ MessageIdFree(s, m)
      BY <2>3 DEF FinalizeAgentEmailOutbound
    <3>2. r.msgid = m
      BY <1>b
    <3> HIDE DEF r
    <3>3. CASE m = NoMessageId
      BY <1>a, <3>1, <3>2, <3>3
    <3>4. CASE m \in MessageIds
      <4>1. row'[s].msgid = m /\ \A t \in Sends \ {s} : row'[t] = row[t]
        BY <1>0, <3>1, <3>2
      <4> QED  BY <3>1, <3>4, <4>1
    <3> QED  BY <3>3, <3>4
  <2>4. ASSUME NEW preserve \in BOOLEAN, NEW retryAt \in now .. now + MaxRetryDelay,
               RetryAgentEmailOutbound(s, g, preserve, retryAt)
        PROVE  Kept
    BY <1>a, <1>b, <2>4 DEF RetryAgentEmailOutbound
  <2>5. CASE MarkAgentEmailOutboundAmbiguous(s, g)
    BY <1>a, <1>b, <2>5 DEF MarkAgentEmailOutboundAmbiguous
  <2> QED
    BY <1>3, <2>1, <2>2, <2>3, <2>4, <2>5 DEF Settle, StartAgentEmailOutboundProviderCall
<1>4. ASSUME Reconcile PROVE Kept
  <2>1. PICK batch \in SUBSET Sends : ReconcileExhaustedAgentEmailOutbound(batch)
    BY <1>4 DEF Reconcile
  <2>2. ASSUME NEW s \in Sends PROVE row'[s].msgid \in {row[s].msgid, NoMessageId}
    <3>1. \/ row'[s] = row[s]
          \/ \E st, sp : row'[s] = [Released(row[s], st, sp) EXCEPT !.msgid = NoMessageId]
          \/ row'[s] = [MadeAmbiguous(row[s]) EXCEPT !.msgid = NoMessageId]
      BY <2>1 DEF ReconcileExhaustedAgentEmailOutbound
    <3>2. ASSUME NEW st, NEW sp,
                 row'[s] = [Released(row[s], st, sp) EXCEPT !.msgid = NoMessageId]
          PROVE  row'[s].msgid = NoMessageId
      BY <1>b, <3>2
    <3> QED  BY <1>b, <3>1, <3>2
  <2> QED  BY <2>2
<1>5. ASSUME NEW e \in EventIds, NEW m \in MessageIds, NEW class \in EventClasses,
             ApplyAgentEmailOutboundProviderEvent(e, m, class)
      PROVE  Kept
  <2>1. PICK t \in Sends :
          row' = IF row[t].state \notin FoldsFrom(class) THEN row
                 ELSE [row EXCEPT ![t] = [row[t] EXCEPT
                         !.state = FoldsTo(class),
                         !.stamps = row[t].stamps \cup {EventStamp(class)}]]
    BY <1>5 DEF ApplyAgentEmailOutboundProviderEvent
  <2>2. row[t] \in Row
    BY <1>0
  <2> QED  BY <1>0, <2>1, <2>2 DEF Row
<1>6. CASE row' = row
  BY <1>6
<1>7. ASSUME AccountStep PROVE row' = row
  BY <1>7 DEF AccountStep, SuspendAccount, ResumeAccount, DisableSend, EnableSend,
              BeginAccountEvacuation, AbortAccountEvacuation, Unmoved
<1> QED
  BY <1>1, <1>2, <1>3, <1>4, <1>5, <1>6, <1>7 DEF Next, Tick, vars

\* Receipts are only ever added, by an event matched to its row by message id.
LEMMA ReceiptsGrow ==
    ASSUME [Next]_vars, receipts' # receipts
    PROVE  \E e \in EventIds, m \in MessageIds, class \in EventClasses :
              ApplyAgentEmailOutboundProviderEvent(e, m, class)
BY DEF Next, QueueAgentEmail, ClaimAgentEmailOutbound, Settle,
   StartAgentEmailOutboundProviderCall, StartRefused, StartCrosses, FinalizeAgentEmailOutbound,
   RetryAgentEmailOutbound, MarkAgentEmailOutboundAmbiguous, Reconcile,
   ReconcileExhaustedAgentEmailOutbound, AccountStep, SuspendAccount, ResumeAccount,
   DisableSend, EnableSend, BeginAccountEvacuation, AbortAccountEvacuation, Unmoved, Tick, vars

\* Before anything is queued no message id is stored and no event received.
LEMMA MatchedInit == Init => Matched
BY DEF Init, Matched, UniqueIds, FoldedSends, AbsentRow

\* No finalization, retry, reclaim or event lets two sends share a provider message
\* id, or takes the id of a folded event away from its send.
LEMMA MatchedStep == TypeOK /\ SoundRows /\ Matched /\ [Next]_vars => Matched'
<1> SUFFICES ASSUME TypeOK, SoundRows, Matched, [Next]_vars PROVE Matched'
  OBVIOUS
<1>0. /\ row \in [Sends -> Row]
      /\ \A rc \in receipts : rc.send \in Sends
      /\ NoMessageId \notin MessageIds
  BY OutboxAssumption DEF TypeOK
<1>1. UniqueIds'
  <2>1. CASE \A t \in Sends : row'[t].msgid \in {row[t].msgid, NoMessageId}
    BY <2>1 DEF Matched, UniqueIds
  <2>2. CASE \E s \in Sends, m \in MessageIds :
                /\ MessageIdFree(s, m) /\ row'[s].msgid = m
                /\ \A t \in Sends \ {s} : row'[t] = row[t]
    <3>1. PICK s \in Sends, m \in MessageIds :
             /\ MessageIdFree(s, m) /\ row'[s].msgid = m
             /\ \A t \in Sends \ {s} : row'[t] = row[t]
      BY <2>2
    <3>2. \A t \in Sends \ {s} : row[t].msgid # m
      BY <1>0, <3>1 DEF MessageIdFree
    <3> QED  BY <3>1, <3>2 DEF Matched, UniqueIds
  <2> QED  BY <2>1, <2>2, IdsChange
<1>2. ASSUME NEW rc \in receipts
      PROVE  row'[rc.send].msgid = rc.msgid /\ row'[rc.send].state \in ClosedStates
  <2>1. row[rc.send].msgid = rc.msgid /\ row[rc.send].state \in ClosedStates /\ rc.send \in Sends
    BY <1>0, <1>2 DEF Matched, FoldedSends
  <2>2. CASE row'[rc.send] = row[rc.send]
    BY <2>1, <2>2
  <2>3. CASE row'[rc.send] # row[rc.send]
    <3>1. PICK class \in EventClasses :
             row'[rc.send].state = FoldsTo(class) /\ row'[rc.send].msgid = row[rc.send].msgid
      BY <2>1, <2>3, ClosedStep
    <3>2. FoldsTo(class) \in ClosedStates
      BY DEF EventClasses, FoldsTo, ClosedStates, States, ActiveStates, SentStates, FailedStates
    <3> QED  BY <2>1, <3>1, <3>2
  <2> QED  BY <2>2, <2>3
<1>3. ASSUME NEW e \in EventIds, NEW m \in MessageIds, NEW class \in EventClasses,
             ApplyAgentEmailOutboundProviderEvent(e, m, class)
      PROVE  FoldedSends'
  <2>1. PICK s \in Sends :
          /\ row[s].msgid = m /\ m # NoMessageId
          /\ receipts' = receipts \cup {[event |-> e, send |-> s, msgid |-> m, class |-> class]}
          /\ row' = IF row[s].state \notin FoldsFrom(class) THEN row
                    ELSE [row EXCEPT ![s] = [row[s] EXCEPT
                            !.state = FoldsTo(class),
                            !.stamps = row[s].stamps \cup {EventStamp(class)}]]
    BY <1>3 DEF ApplyAgentEmailOutboundProviderEvent
  <2>2. row[s].state \in ClosedStates /\ row[s] \in Row
    BY <1>0, <2>1 DEF SoundRows, SoundRow, AnsweredRow, ClosedStates, States, ActiveStates,
                      SentStates, FailedStates
  <2>3. FoldsTo(class) \in ClosedStates
    BY DEF EventClasses, FoldsTo, ClosedStates, States, ActiveStates, SentStates, FailedStates
  <2>4. row'[s].msgid = m /\ row'[s].state \in ClosedStates
    BY <1>0, <2>1, <2>2, <2>3 DEF Row
  <2> QED  BY <1>2, <2>1, <2>4 DEF FoldedSends
<1>4. ASSUME receipts' = receipts PROVE FoldedSends'
  BY <1>2, <1>4 DEF FoldedSends
<1> QED
  BY <1>1, <1>3, <1>4, ReceiptsGrow DEF Matched

\* Provider events reach exactly one send, whatever is retried or reclaimed around them.
THEOREM EventsReachOneSend == Spec => []EventsStayWithTheirSend
<1>1. TypeOK /\ Matched => EventsStayWithTheirSend
  <2> SUFFICES ASSUME TypeOK, Matched, NEW rc \in receipts, NEW s \in Sends
               PROVE  row[s].msgid = rc.msgid <=> s = rc.send
    BY DEF EventsStayWithTheirSend
  <2>1. rc.send \in Sends /\ rc.msgid # NoMessageId /\ row[rc.send].msgid = rc.msgid
    BY OutboxAssumption DEF TypeOK, Matched, FoldedSends
  <2> QED  BY <2>1 DEF Matched, UniqueIds
<1> QED
  BY <1>1, TypeCorrect, SoundInit, SoundStep, MatchedInit, MatchedStep, PTL DEF Spec

\* A suppression is never lifted or weakened.
LEMMA SuppressionsHold ==
    ASSUME TypeOK, [Next]_vars, NEW m \in Mailboxes
    PROVE  /\ suppression[m] # "none" => suppression'[m] # "none"
           /\ suppression[m] = "complained" => suppression'[m] = "complained"
<1>1. suppression \in [Mailboxes -> Reasons]
  BY DEF TypeOK
<1>2. ASSUME NEW s \in Sends, NEW reason \in {"hard_bounce", "complained"},
             SuppressRecipient(s, reason)
      PROVE  /\ suppression[m] # "none" => suppression'[m] # "none"
             /\ suppression[m] = "complained" => suppression'[m] = "complained"
  <2>1. CASE m = Mailbox[s]
    BY <1>1, <1>2, <2>1 DEF SuppressRecipient
  <2>2. CASE m # Mailbox[s]
    BY <1>1, <1>2, <2>2 DEF SuppressRecipient
  <2> QED  BY <2>1, <2>2
<1>3. ASSUME NEW e \in EventIds, NEW id \in MessageIds, NEW class \in EventClasses,
             ApplyAgentEmailOutboundProviderEvent(e, id, class)
      PROVE  \/ suppression' = suppression
             \/ \E s \in Sends, reason \in {"hard_bounce", "complained"} :
                   SuppressRecipient(s, reason)
  <2>1. SuppressionReason(class) \in {"none", "hard_bounce", "complained"}
    BY DEF SuppressionReason
  <2> QED  BY <1>3, <2>1 DEF ApplyAgentEmailOutboundProviderEvent
<1>4. ASSUME NEW s \in Sends, NEW g \in 1 .. row[s].generation, Settle(s, g)
      PROVE  suppression' = suppression \/ SuppressRecipient(s, "hard_bounce")
  BY <1>4 DEF Settle, StartAgentEmailOutboundProviderCall, StartRefused, StartCrosses,
     FinalizeAgentEmailOutbound, RetryAgentEmailOutbound, MarkAgentEmailOutboundAmbiguous
<1>5. \/ suppression' = suppression
      \/ \E s \in Sends, reason \in {"hard_bounce", "complained"} : SuppressRecipient(s, reason)
  BY <1>3, <1>4 DEF Next, QueueAgentEmail, ClaimAgentEmailOutbound, Reconcile,
     ReconcileExhaustedAgentEmailOutbound, AccountStep, SuspendAccount, ResumeAccount,
     DisableSend, EnableSend, BeginAccountEvacuation, AbortAccountEvacuation, Unmoved, Tick, vars
<1>6. CASE suppression' = suppression
  BY <1>6
<1>7. CASE \E s \in Sends, reason \in {"hard_bounce", "complained"} : SuppressRecipient(s, reason)
  BY <1>2, <1>7
<1> QED  BY <1>5, <1>6, <1>7

\* One transaction, whichever it is, keeps the strongest signal of every folded event.
LEMMA DominanceStep ==
    TypeOK /\ SoundRows /\ Matched /\ ComplaintsAndBouncesDominate /\ [Next]_vars
        => ComplaintsAndBouncesDominate'
<1> SUFFICES ASSUME TypeOK, SoundRows, Matched, ComplaintsAndBouncesDominate, [Next]_vars
             PROVE  ComplaintsAndBouncesDominate'
  OBVIOUS
<1> DEFINE Dominates(rc, rows, supp) ==
             /\ rc.class \in {"bounced", "complained"} =>
                  rows[rc.send].state \notin SentStates /\ supp[Mailbox[rc.send]] # "none"
             /\ rc.class = "complained" =>
                  rows[rc.send].state # "bounced" /\ supp[Mailbox[rc.send]] = "complained"
<1>0. /\ row \in [Sends -> Row] /\ suppression \in [Mailboxes -> Reasons]
      /\ \A rc \in receipts : rc.send \in Sends /\ rc.class \in EventClasses
      /\ \A s \in Sends : Mailbox[s] \in Mailboxes
  BY OutboxAssumption DEF TypeOK
<1>1. ASSUME NEW rc \in receipts PROVE Dominates(rc, row', suppression')
  <2>1. rc.send \in Sends /\ row[rc.send].state \in ClosedStates /\ Dominates(rc, row, suppression)
    BY <1>0 DEF Matched, FoldedSends, ComplaintsAndBouncesDominate
  <2>2. /\ suppression[Mailbox[rc.send]] # "none" => suppression'[Mailbox[rc.send]] # "none"
        /\ suppression[Mailbox[rc.send]] = "complained"
             => suppression'[Mailbox[rc.send]] = "complained"
    BY <1>0, <2>1, SuppressionsHold
  <2>3. CASE row'[rc.send] = row[rc.send]
    BY <2>1, <2>2, <2>3
  <2>4. CASE row'[rc.send] # row[rc.send]
    <3>1. PICK class \in EventClasses :
             row[rc.send].state \in FoldsFrom(class) /\ row'[rc.send].state = FoldsTo(class)
      BY <2>1, <2>4, ClosedStep
    <3>2. rc.class \in {"bounced", "complained"} =>
             row[rc.send].state = "bounced" /\ class = "complained"
      BY <2>1, <3>1 DEF EventClasses, FoldsFrom, SentStates
    <3>3. rc.class \in {"bounced", "complained"} =>
             rc.class = "bounced" /\ row'[rc.send].state = "failed"
      BY <2>1, <3>1, <3>2 DEF FoldsTo
    <3> QED  BY <2>1, <2>2, <3>3 DEF SentStates
  <2> QED  BY <2>3, <2>4
<1>2. ASSUME NEW e \in EventIds, NEW m \in MessageIds, NEW class \in EventClasses,
             ApplyAgentEmailOutboundProviderEvent(e, m, class)
      PROVE  \A rc \in receipts' : Dominates(rc, row', suppression')
  <2>1. PICK s \in Sends :
          /\ receipts' = receipts \cup {[event |-> e, send |-> s, msgid |-> m, class |-> class]}
          /\ row' = IF row[s].state \notin FoldsFrom(class) THEN row
                    ELSE [row EXCEPT ![s] = [row[s] EXCEPT
                            !.state = FoldsTo(class),
                            !.stamps = row[s].stamps \cup {EventStamp(class)}]]
          /\ IF SuppressionReason(class) = "none" THEN suppression' = suppression
             ELSE SuppressRecipient(s, SuppressionReason(class))
    BY <1>2 DEF ApplyAgentEmailOutboundProviderEvent
  <2>2. row[s] \in Row /\ Mailbox[s] \in Mailboxes
    BY <1>0
  <2>3. row'[s].state = IF row[s].state \notin FoldsFrom(class) THEN row[s].state
                        ELSE FoldsTo(class)
    BY <1>0, <2>1, <2>2 DEF Row
  <2>4. /\ class = "bounced" => row'[s].state \notin SentStates
        /\ class = "complained" => row'[s].state \notin SentStates \cup {"bounced"}
    BY <2>3 DEF FoldsFrom, FoldsTo, SentStates
  <2>5. /\ class = "bounced" => suppression'[Mailbox[s]] # "none"
        /\ class = "complained" => suppression'[Mailbox[s]] = "complained"
    BY <1>0, <2>1, <2>2 DEF SuppressionReason, SuppressRecipient
  <2>6. Dominates([event |-> e, send |-> s, msgid |-> m, class |-> class], row', suppression')
    BY <2>4, <2>5
  <2> QED  BY <1>1, <2>1, <2>6
<1>3. \A rc \in receipts' : Dominates(rc, row', suppression')
  BY <1>1, <1>2, ReceiptsGrow
<1> QED  BY <1>3 DEF ComplaintsAndBouncesDominate

\* Whatever order events, retries and finalizations arrive in, a bounce or complaint
\* is never shown as delivered and its mailbox stays suppressed.
THEOREM StrongestSignalWins == Spec => []ComplaintsAndBouncesDominate
<1>1. Init => ComplaintsAndBouncesDominate
  BY DEF Init, ComplaintsAndBouncesDominate
<1> QED
  BY <1>1, TypeCorrect, SoundInit, SoundStep, MatchedInit, MatchedStep, DominanceStep, PTL
     DEF Spec

-----------------------------------------------------------------------------
(* What each transaction makes of its row, for those who compose the       *)
(* outbox with its callers.                                                *)

\* What every transaction but a claim leaves alone.
Counts(t, u) == u.generation = t.generation /\ u.attempts = t.attempts /\ u.queuedAt = t.queuedAt

Unanswered(u) == u.msgid = NoMessageId /\ ~ Accepted(u)

Queues(t, u) == /\ t.state = "absent" /\ u.state = "queued" /\ Unanswered(u)
                /\ u.generation = 0 /\ u.attempts = 0 /\ u.queuedAt = now

Claims(t, u) ==
    /\ t.state = "queued" \/ (t.state \in ActiveStates /\ t.lease <= now)
    /\ t.attempts < MaxAttempts /\ now < t.queuedAt + WorkAge
    /\ u.state \in ActiveStates
    /\ u.state = "provider_started" <=> t.state = "provider_started"
    /\ u.generation = t.generation + 1 /\ u.attempts = t.attempts + 1
    /\ u.queuedAt = t.queuedAt
    /\ u.claim = u.generation /\ u.lease = now + LeaseDuration /\ Unanswered(u)

Crosses(t, u) == /\ Counts(t, u) /\ t.state = "claimed" /\ u.state = "provider_started"
                 /\ u.claim = t.claim /\ u.lease = t.lease /\ Unanswered(u)

\* Work ends without an answer.
Closes(t, u) == /\ Counts(t, u) /\ t.state \in {"queued"} \cup ActiveStates
                /\ u.state = (IF t.state = "provider_started" THEN "ambiguous" ELSE "canceled")
                /\ Unanswered(u)

\* The caller says that the provider has not taken the send.
GivesUp(t, u) == /\ Counts(t, u) /\ t.state \in ActiveStates
                 /\ u.state \in {"queued", "failed", "rejected"} /\ Unanswered(u)

Waits(t, u) == /\ Counts(t, u) /\ t.state = "provider_started" /\ u.state = t.state
               /\ u.claim = t.claim /\ Unanswered(u)

Accepts(t, u, m) == /\ Counts(t, u) /\ t.state = "provider_started"
                    /\ u.state = "accepted" /\ u.msgid = m /\ Accepted(u)

Folds(t, u) == /\ Counts(t, u) /\ t.state \in SentStates \cup {"bounced"}
               /\ u.state \in SentStates \cup FailedStates
               /\ u.msgid = t.msgid /\ (Accepted(u) <=> Accepted(t))

\* Only the row of s is written.
Alone(s) == \A z \in Sends \ {s} : row'[z] = row[z]

\* An unfinished row has no answer.
LEMMA UnfinishedIsUnanswered ==
    ASSUME NEW r \in Row, SoundRow(r), r.state \in {"queued"} \cup ActiveStates
    PROVE  Unanswered(r)
BY DEF SoundRow, TableCheck, AnsweredRow, Unanswered, Accepted, ActiveStates, SentStates,
       FailedStates, Row

\* The rows that the closing and requeueing updates write.
LEMMA EndedRows ==
    ASSUME TypeOK, NEW r \in Row, SoundRow(r), r.state \in {"queued"} \cup ActiveStates,
           NEW retryAt \in Nat
    PROVE  /\ r.state # "provider_started" => Closes(r, Canceled(r))
           /\ r.state # "provider_started" =>
                Closes(r, [Released(r, "canceled", (r.stamps \ {"provider_started"}) \cup {"canceled"})
                             EXCEPT !.msgid = NoMessageId])
           /\ r.state = "provider_started" =>
                /\ Closes(r, MadeAmbiguous(r))
                /\ Closes(r, [MadeAmbiguous(r) EXCEPT !.msgid = NoMessageId])
                /\ GivesUp(r, [Released(r, "failed", r.stamps \cup {"failed"})
                                 EXCEPT !.msgid = NoMessageId])
                /\ GivesUp(r, [Released(r, "rejected", r.stamps \cup StampOf("rejected"))
                                 EXCEPT !.msgid = NoMessageId])
                /\ \A lease : Waits(r, [r EXCEPT !.lease = lease])
           /\ r.state \in ActiveStates => GivesUp(r, Requeued(r, retryAt))
<1>1. Unanswered(r)
  BY UnfinishedIsUnanswered
<1> QED BY <1>1 DEF Closes, GivesUp, Waits, Counts, Unanswered, Accepted, Canceled, MadeAmbiguous,
           Released, Requeued, StampOf, SentStates, ActiveStates, Row

LEMMA QueueRow ==
    ASSUME TypeOK, NEW s \in Sends, QueueAgentEmail(s)
    PROVE  Alone(s) /\ Queues(row[s], row'[s])
BY DEF TypeOK, QueueAgentEmail, Alone, Queues, AbsentRow, Unanswered, Accepted

LEMMA ClaimRow ==
    ASSUME TypeOK, SoundRows, NEW s \in Sends, ClaimAgentEmailOutbound(s)
    PROVE  Alone(s) /\ Claims(row[s], row'[s])
<1> DEFINE r  == row[s]
           st == IF r.state = "provider_started" THEN r.state ELSE "claimed"
           sp == IF r.state = "provider_started" THEN r.stamps ELSE r.stamps \ {"provider_started"}
<1>1. r \in Row /\ SoundRow(r) /\ now \in Nat /\ MaxAttempts \in Nat /\ WorkAge \in Nat
  BY OutboxAssumption DEF TypeOK, SoundRows
<1>2. /\ r.state = "queued" \/ (r.state \in ActiveStates /\ r.lease <= now)
      /\ r.attempts < MaxAttempts /\ now < r.queuedAt + WorkAge
  BY <1>1 DEF ClaimAgentEmailOutbound, Claimable, Exhausted, LeaseExpired, Row
<1>3. "accepted" \notin sp
  BY <1>1, <1>2, UnfinishedIsUnanswered DEF Unanswered, Accepted
<1>4. row' = [row EXCEPT ![s] = [r EXCEPT
                 !.state = st, !.attempts = r.attempts + 1, !.generation = r.generation + 1,
                 !.claim = r.generation + 1, !.lease = now + LeaseDuration, !.next = 0,
                 !.msgid = NoMessageId, !.stamps = sp]]
  BY DEF ClaimAgentEmailOutbound
<1>5. /\ row'[s].state = st /\ row'[s].attempts = r.attempts + 1
      /\ row'[s].generation = r.generation + 1 /\ row'[s].claim = r.generation + 1
      /\ row'[s].lease = now + LeaseDuration /\ row'[s].msgid = NoMessageId
      /\ row'[s].stamps = sp /\ row'[s].queuedAt = r.queuedAt
      /\ Alone(s)
  <2> HIDE DEF st, sp
  <2> QED BY <1>1, <1>4 DEF TypeOK, Alone, Row
<1> QED BY <1>2, <1>3, <1>5 DEF Claims, Unanswered, Accepted, ActiveStates

\* A row that is written is the one the transaction made.
LEMMA WrittenRow ==
    ASSUME TypeOK, NEW s \in Sends, NEW r, row' = [row EXCEPT ![s] = r]
    PROVE  Alone(s) /\ row'[s] = r
BY DEF TypeOK, Alone

LEMMA RefusedRow ==
    ASSUME TypeOK, SoundRows, NEW s \in Sends, NEW g, StartRefused(s, g)
    PROVE  Alone(s) /\ Closes(row[s], row'[s]) /\ row[s].claim = g /\ row[s].generation = g
<1>1. row[s] \in Row /\ SoundRow(row[s]) /\ row[s].state \in ActiveStates
  BY DEF TypeOK, SoundRows, StartRefused
<1>2. row' = [row EXCEPT ![s] = IF row[s].state = "provider_started"
                                THEN MadeAmbiguous(row[s]) ELSE Canceled(row[s])]
  BY DEF StartRefused
<1> QED BY <1>1, <1>2, WrittenRow, EndedRows DEF StartRefused, HoldsFence

LEMMA CrossedRow ==
    ASSUME TypeOK, SoundRows, NEW s \in Sends, NEW g, StartCrosses(s, g)
    PROVE  /\ Alone(s) /\ Crosses(row[s], row'[s])
           /\ row[s].claim = g /\ row[s].generation = g /\ row[s].lease > now
<1>1. row[s] \in Row /\ SoundRow(row[s]) /\ row[s].state = "claimed"
  BY DEF TypeOK, SoundRows, StartCrosses
<1>2. Unanswered(row[s])
  BY <1>1, UnfinishedIsUnanswered DEF ActiveStates
<1>3. row' = [row EXCEPT ![s] = [row[s] EXCEPT !.state = "provider_started",
                 !.stamps = row[s].stamps \cup {"provider_started"}]]
  BY DEF StartCrosses
<1>4. /\ Alone(s)
      /\ row'[s] = [row[s] EXCEPT !.state = "provider_started",
                      !.stamps = row[s].stamps \cup {"provider_started"}]
  BY <1>3, WrittenRow
<1>5. /\ row'[s].state = "provider_started" /\ row'[s].msgid = row[s].msgid
      /\ row'[s].stamps = row[s].stamps \cup {"provider_started"}
      /\ row'[s].generation = row[s].generation /\ row'[s].attempts = row[s].attempts
      /\ row'[s].queuedAt = row[s].queuedAt
      /\ row'[s].claim = row[s].claim /\ row'[s].lease = row[s].lease
  BY <1>1, <1>4 DEF Row
<1>6. row[s].claim = g /\ row[s].generation = g /\ row[s].lease > now
  BY DEF StartCrosses, HoldsFence
<1> QED BY <1>1, <1>2, <1>4, <1>5, <1>6 DEF Crosses, Counts, Unanswered, Accepted

LEMMA AcceptedRow ==
    ASSUME TypeOK, SoundRows, NEW s \in Sends, NEW g, NEW m \in MessageIds,
           FinalizeAgentEmailOutbound(s, g, "accepted", m)
    PROVE  /\ Alone(s) /\ Accepts(row[s], row'[s], m)
           /\ row[s].claim = g /\ row[s].generation = g
<1>1. row[s] \in Row /\ row[s].state = "provider_started"
  BY DEF TypeOK, FinalizeAgentEmailOutbound
<1>2. /\ Alone(s)
      /\ row'[s] = [Released(row[s], "accepted", row[s].stamps \cup StampOf("accepted"))
                      EXCEPT !.msgid = m]
  BY WrittenRow DEF FinalizeAgentEmailOutbound
<1>3. /\ row'[s].state = "accepted" /\ row'[s].msgid = m
      /\ row'[s].stamps = row[s].stamps \cup StampOf("accepted")
      /\ row'[s].generation = row[s].generation /\ row'[s].attempts = row[s].attempts
      /\ row'[s].queuedAt = row[s].queuedAt
  BY <1>1, <1>2 DEF Released, Row
<1>4. row[s].claim = g /\ row[s].generation = g
  BY DEF FinalizeAgentEmailOutbound, HoldsFence
<1> QED BY <1>1, <1>2, <1>3, <1>4 DEF Accepts, Counts, Accepted, StampOf, SentStates

LEMMA RejectedRow ==
    ASSUME TypeOK, SoundRows, NEW s \in Sends, NEW g,
           FinalizeAgentEmailOutbound(s, g, "rejected", NoMessageId)
    PROVE  /\ Alone(s) /\ GivesUp(row[s], row'[s]) /\ row[s].state = "provider_started"
           /\ row[s].claim = g /\ row[s].generation = g
<1>1. row[s] \in Row /\ SoundRow(row[s]) /\ row[s].state = "provider_started"
  BY DEF TypeOK, SoundRows, FinalizeAgentEmailOutbound
<1>2. /\ Alone(s)
      /\ row'[s] = [Released(row[s], "rejected", row[s].stamps \cup StampOf("rejected"))
                      EXCEPT !.msgid = NoMessageId]
  BY WrittenRow DEF FinalizeAgentEmailOutbound
<1> QED BY <1>1, <1>2, EndedRows DEF FinalizeAgentEmailOutbound, HoldsFence, ActiveStates

\* A retry that preserves the boundary closes the row or waits past the moment it was
\* given; any other gives the claim up, or closes a row that was not started.
LEMMA RetriedRow ==
    ASSUME TypeOK, SoundRows, NEW s \in Sends, NEW g, NEW preserve \in BOOLEAN,
           NEW retryAt \in Nat, retryAt > now, RetryAgentEmailOutbound(s, g, preserve, retryAt)
    PROVE  /\ Alone(s) /\ row[s].claim = g /\ row[s].generation = g
           /\ row[s].state \in ActiveStates
           /\ preserve => \/ Closes(row[s], row'[s]) /\ row[s].state = "provider_started"
                          \/ Waits(row[s], row'[s]) /\ row'[s].lease = retryAt
           /\ ~ preserve => \/ Closes(row[s], row'[s]) /\ row[s].state = "claimed"
                            \/ GivesUp(row[s], row'[s])
<1> DEFINE t == row[s]
<1>1. /\ t \in Row /\ SoundRow(t) /\ t.state \in ActiveStates
      /\ preserve => t.state = "provider_started"
      /\ t.claim = g /\ t.generation = g
  BY DEF TypeOK, SoundRows, RetryAgentEmailOutbound, RetryAccepted, HoldsFence
<1>2. LaterOf(retryAt, now) = retryAt
  BY DEF LaterOf, TypeOK
<1> DEFINE r == CASE Exhausted(s) /\ preserve -> [MadeAmbiguous(t) EXCEPT !.msgid = NoMessageId]
           [] Exhausted(s) /\ ~ preserve /\ t.state = "provider_started" ->
                [Released(t, "failed", t.stamps \cup {"failed"}) EXCEPT !.msgid = NoMessageId]
           [] Exhausted(s) /\ t.state = "claimed" -> Canceled(t)
           [] ~ Exhausted(s) /\ preserve -> [t EXCEPT !.lease = LaterOf(retryAt, now)]
           [] OTHER -> Requeued(t, retryAt)
<1>3. Alone(s) /\ row'[s] = r
  <2>1. row' = [row EXCEPT ![s] = r]
    BY DEF RetryAgentEmailOutbound
  <2> HIDE DEF r
  <2> QED BY <2>1, WrittenRow
<1>4. CASE Exhausted(s) /\ preserve
  BY <1>1, <1>3, <1>4, EndedRows
<1>5. CASE Exhausted(s) /\ ~ preserve /\ t.state = "provider_started"
  BY <1>1, <1>3, <1>5, EndedRows
<1>6. CASE Exhausted(s) /\ ~ preserve /\ t.state = "claimed"
  BY <1>1, <1>3, <1>6, EndedRows
<1>7. CASE ~ Exhausted(s) /\ preserve
  <2>1. row'[s] = [t EXCEPT !.lease = retryAt]
    BY <1>2, <1>3, <1>7
  <2>2. Waits(t, [t EXCEPT !.lease = retryAt])
    BY <1>1, <1>7, EndedRows
  <2> QED BY <1>1, <1>3, <1>7, <2>1, <2>2 DEF Row
<1>8. CASE ~ Exhausted(s) /\ ~ preserve
  <2>1. row'[s] = Requeued(t, retryAt)
    BY <1>3, <1>8
  <2> QED BY <1>1, <1>3, <1>8, <2>1, EndedRows
<1>9. t.state \in {"claimed", "provider_started"}
  BY <1>1 DEF ActiveStates
<1> QED BY <1>4, <1>5, <1>6, <1>7, <1>8, <1>9

LEMMA AmbiguousRowClosed ==
    ASSUME TypeOK, SoundRows, NEW s \in Sends, NEW g, MarkAgentEmailOutboundAmbiguous(s, g)
    PROVE  /\ Alone(s) /\ Closes(row[s], row'[s]) /\ row[s].state = "provider_started"
           /\ row[s].claim = g /\ row[s].generation = g
<1>1. row[s] \in Row /\ SoundRow(row[s]) /\ row[s].state = "provider_started"
  BY DEF TypeOK, SoundRows, MarkAgentEmailOutboundAmbiguous
<1>2. Alone(s) /\ row'[s] = [MadeAmbiguous(row[s]) EXCEPT !.msgid = NoMessageId]
  BY WrittenRow DEF MarkAgentEmailOutboundAmbiguous
<1> QED BY <1>1, <1>2, EndedRows DEF MarkAgentEmailOutboundAmbiguous, HoldsFence, ActiveStates

\* A reconcile closes the rows that nobody works on, and no other.
LEMMA ReconciledRow ==
    ASSUME TypeOK, SoundRows, Reconcile, NEW s \in Sends
    PROVE  \/ row'[s] = row[s]
           \/ /\ Closes(row[s], row'[s])
              /\ row[s].state = "queued" \/ row[s].lease <= now
<1>1. PICK batch \in SUBSET Sends : ReconcileExhaustedAgentEmailOutbound(batch)
  BY DEF Reconcile
<1>2. row[s] \in Row /\ SoundRow(row[s])
  BY DEF TypeOK, SoundRows
<1>3. CASE s \notin batch
  BY <1>1, <1>3 DEF ReconcileExhaustedAgentEmailOutbound
<1>4. CASE s \in batch
  <2>1. row[s].state = "queued" \/ (row[s].state \in ActiveStates /\ row[s].lease <= now)
    BY <1>1, <1>4 DEF ReconcileExhaustedAgentEmailOutbound, Overdue, LeaseExpired
  <2>2. row'[s] = IF row[s].state = "provider_started"
                  THEN [MadeAmbiguous(row[s]) EXCEPT !.msgid = NoMessageId]
                  ELSE [Released(row[s], "canceled",
                                 (row[s].stamps \ {"provider_started"}) \cup {"canceled"})
                          EXCEPT !.msgid = NoMessageId]
    BY <1>1, <1>4 DEF ReconcileExhaustedAgentEmailOutbound
  <2> QED BY <1>2, <2>1, <2>2, EndedRows
<1> QED BY <1>3, <1>4

\* An event folds an answered row or leaves all rows alone.
LEMMA EventRow ==
    ASSUME TypeOK, SoundRows, NEW e, NEW m, NEW class \in EventClasses,
           ApplyAgentEmailOutboundProviderEvent(e, m, class), NEW z \in Sends
    PROVE  row'[z] = row[z] \/ Folds(row[z], row'[z])
<1>1. PICK s \in Sends :
         row' = IF row[s].state \notin FoldsFrom(class) THEN row
                ELSE [row EXCEPT ![s] = [row[s] EXCEPT
                        !.state = FoldsTo(class),
                        !.stamps = row[s].stamps \cup {EventStamp(class)}]]
  BY DEF ApplyAgentEmailOutboundProviderEvent
<1>2. row[z] \in Row
  BY DEF TypeOK
<1>3. CASE row[s].state \in FoldsFrom(class) /\ s = z
  <2>1. row'[z] = [row[z] EXCEPT !.state = FoldsTo(class),
                                 !.stamps = row[z].stamps \cup {EventStamp(class)}]
    BY <1>1, <1>3 DEF TypeOK
  <2>2. FoldsTo(class) \in SentStates \cup FailedStates /\ EventStamp(class) # "accepted"
    BY DEF FoldsTo, EventStamp, EventClasses, SentStates, FailedStates
  <2>3. row[z].state \in SentStates \cup {"bounced"}
    BY <1>3 DEF FoldsFrom, SentStates, EventClasses
  <2> QED BY <1>2, <2>1, <2>2, <2>3 DEF Folds, Counts, Accepted, Row
<1>4. CASE ~ (row[s].state \in FoldsFrom(class) /\ s = z)
  BY <1>1, <1>4 DEF TypeOK
<1> QED BY <1>3, <1>4

==============================================================================
