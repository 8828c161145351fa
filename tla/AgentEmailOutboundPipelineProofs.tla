------------------ MODULE AgentEmailOutboundPipelineProofs ------------------
(***************************************************************************)
(* Theorems about the whole outbound path, for every set of sends, every   *)
(* number of worker replicas, every attempt budget and every lease,        *)
(* lifetime and window that PipelineAssumption allows.  They rest on the   *)
(* lemmas about the outbox and the edge, which are used through two        *)
(* instances of their proof modules.                                       *)
(***************************************************************************)
EXTENDS AgentEmailOutboundPipeline, FiniteSetTheorems, TLAPS

Cell    == INSTANCE AgentEmailOutboundProofs WITH MessageIds <- Sends \X Requests
Adapter == INSTANCE OutboundReceiptProofs WITH LastSendTime <- MaxTime

-----------------------------------------------------------------------------
(* The inductive invariant.  The work of a send is confined to a span of   *)
(* time shorter than a receipt's lifetime, so the receipt of its first     *)
(* provider call fences every later one.                                   *)

Pcs == {"idle", "claimed", "started", "waiting"}

Worker == [pc : Pcs, send : Sends \cup {NoWork.send}, gen : Nat, deadline : Nat]

\* The columns that count and date the work of a send.
WorkIsCounted(s) ==
    /\ row[s].generation = row[s].attempts /\ row[s].generation <= MaxAttempts
    /\ row[s].queuedAt <= now
    /\ row[s].state = "absent" => row[s].generation = 0

\* The moment when all work on a send is over.
WorkEnd(s) == row[s].queuedAt + WorkAge + BatchTimeout

\* A worker that is not idle works on a claim of its send, for as long as that
\* send may be worked on.
WorkerIsTimely(w) ==
    worker[w].pc # "idle" =>
        /\ worker[w].send \in Sends
        /\ worker[w].gen \in 1 .. row[worker[w].send].generation
        /\ worker[w].deadline < WorkEnd(worker[w].send)

\* A provider call that may end, or has ended, in a copy, or whose handler still waits.
Risky(s, q) == provider[s][q] = "pending" \/ Edge!ProviderAccepted(s, q)
Hot(s, q) == call[s][q].phase = "sending" \/ Risky(s, q)

\* A request is signed, and calls the provider, while its send is worked on.
RequestIsTimely(s, q) ==
    /\ call[s][q].phase # "idle" =>
          /\ q <= row[s].generation
          /\ row[s].queuedAt <= call[s][q].sentAt /\ call[s][q].sentAt <= now
          /\ call[s][q].sentAt < WorkEnd(s)
    /\ Hot(s, q) =>
          /\ call[s][q].phase # "idle"
          /\ call[s][q].sentAt <= call[s][q].calledAt
          /\ call[s][q].calledAt <= call[s][q].sentAt + Window

OneHotCall(s) == \A p, q \in Requests : Hot(s, p) /\ Hot(s, q) => p = q

\* What a request was answered stays true.
AnswerStands(s, q) ==
    call[s][q].answer = "accepted" =>
        call[s][q].copy \in Requests /\ Edge!ProviderAccepted(s, call[s][q].copy)

\* An acceptance the cell recorded was one of the provider.
RecordIsReal(s) ==
    /\ "accepted" \in row[s].stamps =>
          \E q \in Requests : Edge!ProviderAccepted(s, q) /\ row[s].msgid = <<s, q>>
    /\ row[s].msgid # NoMessageId \/ row[s].state = "bounced" => "accepted" \in row[s].stamps

SendIsOne(s) ==
    /\ WorkIsCounted(s) /\ OneHotCall(s) /\ RecordIsReal(s)
    /\ \A q \in Requests : RequestIsTimely(s, q) /\ AnswerStands(s, q)

PathIsSound ==
    /\ Cell!TypeOK /\ Cell!SoundRows /\ Cell!Ledger
    /\ Adapter!EdgeIsSound
    /\ worker \in [Workers -> Worker]
    /\ \A w \in Workers : WorkerIsTimely(w)
    /\ \A s \in Sends : SendIsOne(s)

-----------------------------------------------------------------------------
(* The invariant of the refinement.  A send that stands before the         *)
(* provider boundary, or was refused beyond it, is quiet: no request of it *)
(* can reach the provider any more, unless a refusal overtook one.         *)

\* A worker whose deadline has not passed holds the claim of its send.
WorkerHolds(w) ==
    LET v == worker[w]
        r == row[v.send] IN
    v.pc # "idle" /\ now <= v.deadline =>
        /\ r.state \in Outbox!ActiveStates /\ r.claim = v.gen /\ r.generation = v.gen
        /\ v.deadline < r.lease
        /\ v.pc \in {"started", "waiting"} => r.state = "provider_started"

ClaimsAreApart ==
    \A v, w \in Workers :
        /\ worker[v].pc # "idle" /\ worker[w].pc # "idle"
        /\ worker[v].send = worker[w].send /\ worker[v].gen = worker[w].gen
        => v = w

\* A worker past the boundary has its request before it, or has made it.
RequestIsOwn(w) ==
    worker[w].pc \in {"claimed", "started"} =>
        call[worker[w].send][worker[w].gen].phase = "idle"

\* The work of s stands before the provider boundary, or is over and was not accepted.
Uncrossed(s) == row[s].state \in {"absent", "queued", "claimed", "canceled", "rejected", "failed"}
                /\ "accepted" \notin row[s].stamps

NothingTaken(s) == \A q \in Requests : ~ Risky(s, q)

\* A request that may still be delivered.
Fresh(s, q) == call[s][q].phase = "sent" /\ now <= call[s][q].sentAt + Window

\* The provider took nothing of s, and no request of s can still be called or refused.
Quiet(s) == \A q \in Requests : ~ Hot(s, q) /\ ~ Fresh(s, q)

SendIsLogical(s) ==
    /\ Uncrossed(s) => Quiet(s) \/ Overtaken(s)
    /\ row[s].state = "provider_started" /\ row[s].generation # 0
       /\ call[s][row[s].generation].answer \in {"retryable", "rejected"}
          => Quiet(s) \/ Overtaken(s)
    /\ \A q \in Requests :
          call[s][q].phase \notin {"refused", "answered"} => call[s][q].answer = "none"

PathIsLogical ==
    /\ PathIsSound
    /\ \A w \in Workers : WorkerHolds(w) /\ RequestIsOwn(w)
    /\ ClaimsAreApart
    /\ \A s \in Sends : SendIsLogical(s)

-----------------------------------------------------------------------------
(* The two instances: what they assume, and that they speak of the same    *)
(* actions as the specification.                                           *)

LEMMA CellAssumption ==
    /\ Owner \in [Sends -> Accounts]
    /\ Mailbox \in [Sends -> Mailboxes]
    /\ DefaultAccounts \subseteq Accounts
    /\ NoMessageId \notin Sends \X Requests
    /\ {MaxAttempts, LeaseDuration, WorkAge, ReconcileBatch} \subseteq Nat \ {0}
    /\ {MaxRetryDelay, MaxTime, LastQueueTime} \subseteq Nat
BY PartsAssumption

LEMMA AdapterAssumption ==
    /\ Requests \subseteq Nat \ {0}
    /\ {TTL, MaxRepairDelay} \subseteq Nat \ {0}
    /\ {Window, MaxTime, MaxTime} \subseteq Nat
    /\ Refusals \subseteq {"retryable", "rejected"}
BY PartsAssumption DEF Requests

\* The constants as the proofs use them.
LEMMA PathNumbers ==
    /\ MaxAttempts \in Nat \ {0} /\ LeaseDuration \in Nat \ {0} /\ WorkAge \in Nat \ {0}
    /\ TTL \in Nat \ {0} /\ Window \in Nat /\ BatchTimeout \in Nat /\ MaxRetryDelay \in Nat
    /\ WorkAge + BatchTimeout + Window <= TTL /\ BatchTimeout < LeaseDuration
    /\ Requests = 1 .. MaxAttempts /\ Requests \subseteq Nat \ {0}
    /\ NoMessageId \notin Sends \X Requests
BY PartsAssumption, PipelineAssumption DEF Requests

\* Both instances of the outbox have the same transactions.
LEMMA SameCell ==
    /\ Outbox!Init <=> Cell!Init
    /\ \A s : Outbox!QueueAgentEmail(s) <=> Cell!QueueAgentEmail(s)
    /\ \A s : Outbox!ClaimAgentEmailOutbound(s) <=> Cell!ClaimAgentEmailOutbound(s)
    /\ \A s, g : Outbox!StartRefused(s, g) <=> Cell!StartRefused(s, g)
    /\ \A s, g : Outbox!StartCrosses(s, g) <=> Cell!StartCrosses(s, g)
    /\ \A s, g, result, m : Outbox!FinalizeAgentEmailOutbound(s, g, result, m)
                              <=> Cell!FinalizeAgentEmailOutbound(s, g, result, m)
    /\ \A s, g, preserve, retryAt : Outbox!RetryAgentEmailOutbound(s, g, preserve, retryAt)
                                      <=> Cell!RetryAgentEmailOutbound(s, g, preserve, retryAt)
    /\ \A s, g : Outbox!MarkAgentEmailOutboundAmbiguous(s, g)
                   <=> Cell!MarkAgentEmailOutboundAmbiguous(s, g)
    /\ Outbox!Reconcile <=> Cell!Reconcile
    /\ \A e, m, class : Outbox!ApplyAgentEmailOutboundProviderEvent(e, m, class)
                          <=> Cell!ApplyAgentEmailOutboundProviderEvent(e, m, class)
    /\ Outbox!EventClasses = Cell!EventClasses
    /\ Outbox!AccountStep <=> Cell!AccountStep
BY DEF
   Outbox!ActiveStates, Cell!ActiveStates, Outbox!SentStates, Cell!SentStates,
   Outbox!AbsentRow, Cell!AbsentRow, Outbox!LaterOf, Cell!LaterOf, Outbox!Released,
   Cell!Released, Outbox!Requeued, Cell!Requeued, Outbox!Canceled, Cell!Canceled,
   Outbox!MadeAmbiguous, Cell!MadeAmbiguous, Outbox!StampOf, Cell!StampOf,
   Outbox!AccountActive, Cell!AccountActive, Outbox!Writable, Cell!Writable,
   Outbox!PolicyRefuses, Cell!PolicyRefuses, Outbox!HoldsFence, Cell!HoldsFence,
   Outbox!LeaseExpired, Cell!LeaseExpired, Outbox!Exhausted, Cell!Exhausted,
   Outbox!SuppressRecipient, Cell!SuppressRecipient, Outbox!QueueAgentEmail,
   Cell!QueueAgentEmail, Outbox!Claimable, Cell!Claimable, Outbox!ClaimAgentEmailOutbound,
   Cell!ClaimAgentEmailOutbound, Outbox!StartRefused, Cell!StartRefused, Outbox!StartCrosses,
   Cell!StartCrosses, Outbox!MessageIdFree, Cell!MessageIdFree,
   Outbox!FinalizeAgentEmailOutbound, Cell!FinalizeAgentEmailOutbound, Outbox!RetryAccepted,
   Cell!RetryAccepted, Outbox!RetryAgentEmailOutbound, Cell!RetryAgentEmailOutbound,
   Outbox!MarkAgentEmailOutboundAmbiguous, Cell!MarkAgentEmailOutboundAmbiguous,
   Outbox!Overdue, Cell!Overdue, Outbox!ReconcileExhaustedAgentEmailOutbound,
   Cell!ReconcileExhaustedAgentEmailOutbound, Outbox!EventClasses, Cell!EventClasses,
   Outbox!FoldsFrom, Cell!FoldsFrom, Outbox!FoldsTo, Cell!FoldsTo, Outbox!SuppressionReason,
   Cell!SuppressionReason, Outbox!EventStamp, Cell!EventStamp,
   Outbox!ApplyAgentEmailOutboundProviderEvent, Cell!ApplyAgentEmailOutboundProviderEvent,
   Outbox!Unmoved, Cell!Unmoved, Outbox!SuspendAccount, Cell!SuspendAccount,
   Outbox!ResumeAccount, Cell!ResumeAccount, Outbox!DisableSend, Cell!DisableSend,
   Outbox!EnableSend, Cell!EnableSend, Outbox!BeginAccountEvacuation,
   Cell!BeginAccountEvacuation, Outbox!AbortAccountEvacuation, Cell!AbortAccountEvacuation,
   Outbox!Init, Cell!Init, Outbox!Reconcile, Cell!Reconcile, Outbox!AccountStep,
   Cell!AccountStep, Outbox!Cardinality, Cell!Cardinality

\* Both instances of the edge have the same handlers.
LEMMA SameEdge ==
    /\ Edge!InitEdge <=> Adapter!InitEdge
    /\ \A s, q : Edge!SendRequest(s, q) <=> Adapter!SendRequest(s, q)
    /\ Edge!EdgeStep <=> Adapter!EdgeStep
BY DEF
   Edge!Outcomes, Adapter!Outcomes, Edge!NoReceipt, Adapter!NoReceipt, Edge!Live, Adapter!Live,
   Edge!Expired, Adapter!Expired, Edge!Replies, Adapter!Replies, Edge!AnswerOf,
   Adapter!AnswerOf, Edge!Fenced, Adapter!Fenced, Edge!Scheduled, Adapter!Scheduled,
   Edge!Retire, Adapter!Retire, Edge!SameLineage, Adapter!SameLineage, Edge!PersistAccepted,
   Adapter!PersistAccepted, Edge!RegisterRoute, Adapter!RegisterRoute, Edge!Seen, Adapter!Seen,
   Edge!NotSeen, Adapter!NotSeen, Edge!Refuses, Adapter!Refuses, Edge!SendRequest,
   Adapter!SendRequest, Edge!Delivered, Adapter!Delivered, Edge!FrontDoorFails,
   Adapter!FrontDoorFails, Edge!FrontDoorRefuses, Adapter!FrontDoorRefuses,
   Edge!DispatchRetires, Adapter!DispatchRetires, Edge!DispatchAnswersFromReceipt,
   Adapter!DispatchAnswersFromReceipt, Edge!DispatchResumes, Adapter!DispatchResumes,
   Edge!MayCallProvider, Adapter!MayCallProvider, Edge!DispatchUnavailable,
   Adapter!DispatchUnavailable, Edge!DispatchCallsProvider, Adapter!DispatchCallsProvider,
   Edge!DispatchCrashes, Adapter!DispatchCrashes, Edge!ProviderResolves,
   Adapter!ProviderResolves, Edge!ProviderError, Adapter!ProviderError, Edge!InTime,
   Adapter!InTime, Edge!RecordProviderError, Adapter!RecordProviderError,
   Edge!RecordProviderAcceptance, Adapter!RecordProviderAcceptance, Edge!FinishAccepted,
   Adapter!FinishAccepted, Edge!Lose, Adapter!Lose, Edge!AlarmFires, Adapter!AlarmFires,
   Edge!RetireIfExpired, Adapter!RetireIfExpired, Edge!AlarmFinishes, Adapter!AlarmFinishes,
   Edge!AlarmCrashes, Adapter!AlarmCrashes, Edge!ReceiptReplay, Adapter!ReceiptReplay,
   Edge!InitEdge, Adapter!InitEdge, Edge!FrontDoor, Adapter!FrontDoor, Edge!Dispatch,
   Adapter!Dispatch, Edge!Alarm, Adapter!Alarm, Edge!EdgeStep, Adapter!EdgeStep

-----------------------------------------------------------------------------
(* What the parts keep by themselves                                       *)

CellIsSound == Cell!TypeOK /\ Cell!SoundRows /\ Cell!Ledger

LEMMA CellStep == CellIsSound /\ [Cell!Next]_(Cell!vars) => CellIsSound'
<1> SUFFICES ASSUME CellIsSound, [Cell!Next]_(Cell!vars) PROVE CellIsSound'
  OBVIOUS
<1>1. Cell!TypeOK'
  BY CellAssumption, Cell!TypeStep DEF Cell!TypeStep, CellIsSound
<1>2. Cell!SoundRows'
  BY CellAssumption, Cell!SoundStep DEF Cell!SoundStep, CellIsSound
<1>3. Cell!Ledger'
  BY CellAssumption, Cell!LedgerStep DEF Cell!LedgerStep, CellIsSound
<1> QED BY <1>1, <1>2, <1>3 DEF CellIsSound

LEMMA CellInit == Outbox!Init => CellIsSound
<1> SUFFICES ASSUME Cell!Init PROVE CellIsSound
  BY SameCell
<1> QED BY CellAssumption, Cell!TypeInit, Cell!SoundInit, Cell!LedgerInit
        DEF Cell!TypeInit, Cell!SoundInit, Cell!LedgerInit, CellIsSound

\* Outside the cell nothing of it changes.
LEMMA CellRests == CellIsSound /\ UNCHANGED <<cellVars, now>> => CellIsSound'
BY CellStep DEF cellVars, Cell!vars

LEMMA EdgeKeeps ==
    ASSUME Adapter!EdgeIsSound,
           \/ Edge!EdgeStep
           \/ \E s \in Sends, q \in Requests : Edge!SendRequest(s, q)
           \/ UNCHANGED edgeVars /\ (now' = now + 1 \/ now' = now)
    PROVE  Adapter!EdgeIsSound'
<1>1. CASE Edge!EdgeStep
  BY <1>1, SameEdge, AdapterAssumption, Adapter!EdgeStepSound DEF Adapter!EdgeStepSound
<1>2. ASSUME NEW s \in Sends, NEW q \in Requests, Edge!SendRequest(s, q)
      PROVE  Adapter!EdgeIsSound'
  <2>1. Adapter!SendRequest(s, q)
    BY <1>2, SameEdge
  <2> QED BY <2>1, AdapterAssumption, Adapter!RequestStep DEF Adapter!RequestStep
<1>3. CASE UNCHANGED edgeVars /\ (now' = now + 1 \/ now' = now)
  <2>1. UNCHANGED Adapter!edgeVars
    BY <1>3 DEF edgeVars, Adapter!edgeVars
  <2> QED BY <1>3, <2>1, AdapterAssumption, Adapter!TickSound DEF Adapter!TickSound
<1> QED BY <1>1, <1>2, <1>3

LEMMA EdgeInit == Edge!InitEdge /\ now \in Nat \ {0} => Adapter!EdgeIsSound
BY SameEdge, AdapterAssumption, Adapter!EdgeInitSound DEF Adapter!EdgeInitSound

-----------------------------------------------------------------------------
(* What happens to a row                                                   *)

\* An acceptance the provider gave reaches the row of s.
Records(s) == \E q \in Requests : /\ Edge!ProviderAccepted(s, q)
                                  /\ Cell!Accepts(row[s], row'[s], <<s, q>>)

RowGoesOn(s) ==
    \/ row'[s] = row[s]
    \/ Cell!Queues(row[s], row'[s]) \/ Cell!Claims(row[s], row'[s])
    \/ Cell!Crosses(row[s], row'[s]) \/ Cell!Waits(row[s], row'[s])
    \/ Cell!Closes(row[s], row'[s]) \/ Cell!GivesUp(row[s], row'[s])
    \/ Records(s) \/ Cell!Folds(row[s], row'[s])

\* What the proofs need to know of well-typed rows.
LEMMA RowFields ==
    ASSUME PathIsSound, NEW s \in Sends
    PROVE  /\ row[s].generation \in Nat /\ row[s].attempts \in Nat /\ row[s].queuedAt \in Nat
           /\ row[s].lease \in Nat /\ row[s].claim \in Nat /\ now \in Nat \ {0}
           /\ row[s].state \in Cell!States
BY DEF PathIsSound, Cell!TypeOK, Cell!Row

LEMMA CallFields ==
    ASSUME PathIsSound, NEW s \in Sends, NEW q \in Requests
    PROVE  /\ call[s][q] \in Adapter!Handler
           /\ call[s][q].phase \in Adapter!Phases
           /\ call[s][q].sentAt \in Nat /\ call[s][q].calledAt \in Nat
           /\ call[s][q].copy \in Requests \cup {0} /\ call[s][q].answer \in Adapter!Answers
           /\ q \in Nat \ {0}
<1>1. call[s][q] \in Adapter!Handler
  BY DEF PathIsSound, Adapter!EdgeIsSound, Adapter!EdgeTypeOK
<1> QED BY <1>1, PathNumbers DEF Adapter!Handler

\* A generation stays a number.
LEMMA GenerationIsNat ==
    ASSUME PathIsSound, NEW s \in Sends, RowGoesOn(s)
    PROVE  row'[s].generation \in Nat
BY RowFields DEF RowGoesOn, Cell!Queues, Cell!Claims, Cell!Crosses, Cell!Waits, Cell!Closes,
   Cell!GivesUp, Records, Cell!Accepts, Cell!Folds, Cell!Counts

\* Work is counted and dated once: the generation grows by claims alone, up to the
\* budget, and the date of the work stands.
LEMMA RowIsCounted ==
    ASSUME PathIsSound, NEW s \in Sends, RowGoesOn(s), now' = now
    PROVE  /\ WorkIsCounted(s)'
           /\ row[s].generation # 0 =>
                 /\ row'[s].generation >= row[s].generation
                 /\ row'[s].queuedAt = row[s].queuedAt
<1> USE PathNumbers
<1>1. WorkIsCounted(s)
  BY DEF PathIsSound, SendIsOne
<1>2. CASE row'[s] = row[s] \/ Cell!Queues(row[s], row'[s])
  BY <1>1, <1>2, RowFields DEF WorkIsCounted, Cell!Queues
<1>3. CASE Cell!Claims(row[s], row'[s])
  <2>1. "absent" \notin Cell!ActiveStates
    BY DEF Cell!ActiveStates
  <2> QED BY <1>1, <1>3, <2>1, RowFields DEF WorkIsCounted, Cell!Claims
<1>4. CASE \/ Cell!Crosses(row[s], row'[s]) \/ Cell!Waits(row[s], row'[s])
           \/ Cell!Closes(row[s], row'[s]) \/ Cell!GivesUp(row[s], row'[s])
           \/ Records(s) \/ Cell!Folds(row[s], row'[s])
  <2>1. Cell!Counts(row[s], row'[s]) /\ row'[s].state # "absent"
    BY <1>4 DEF Cell!Crosses, Cell!Waits, Cell!Closes, Cell!GivesUp, Records, Cell!Accepts,
                Cell!Folds, Cell!SentStates, Cell!FailedStates
  <2> QED BY <1>1, <2>1, RowFields DEF WorkIsCounted, Cell!Counts
<1> QED BY <1>2, <1>3, <1>4 DEF RowGoesOn

\* A row that says accepted names a message the provider took.
LEMMA RowIsReal ==
    ASSUME PathIsSound, NEW s \in Sends, RowGoesOn(s), provider' = provider
    PROVE  RecordIsReal(s)'
<1>1. RecordIsReal(s)
  BY DEF PathIsSound, SendIsOne
<1>2. \A q \in Requests : Edge!ProviderAccepted(s, q)' = Edge!ProviderAccepted(s, q)
  BY DEF Edge!ProviderAccepted
<1>3. CASE row'[s] = row[s]
  BY <1>1, <1>2, <1>3 DEF RecordIsReal
<1>4. CASE \/ Cell!Queues(row[s], row'[s]) \/ Cell!Claims(row[s], row'[s])
           \/ Cell!Crosses(row[s], row'[s]) \/ Cell!Waits(row[s], row'[s])
           \/ Cell!Closes(row[s], row'[s]) \/ Cell!GivesUp(row[s], row'[s])
  <2>1. row'[s].msgid = NoMessageId /\ "accepted" \notin row'[s].stamps /\ row'[s].state # "bounced"
    BY <1>4 DEF Cell!Queues, Cell!Claims, Cell!Crosses, Cell!Waits, Cell!Closes, Cell!GivesUp,
                Cell!Unanswered, Cell!Accepted, Cell!ActiveStates
  <2> QED BY <2>1 DEF RecordIsReal
<1>5. CASE Records(s)
  BY <1>2, <1>5 DEF Records, Cell!Accepts, Cell!Accepted, RecordIsReal
<1>6. CASE Cell!Folds(row[s], row'[s])
  <2>1. Cell!SoundRow(row[s])
    BY DEF PathIsSound, Cell!SoundRows
  <2>2. row[s].state \in Cell!SentStates => "accepted" \in row[s].stamps
    BY <2>1 DEF Cell!SoundRow, Cell!TableCheck
  <2>3. "accepted" \in row[s].stamps /\ "accepted" \in row'[s].stamps
    BY <1>1, <1>6, <2>2 DEF Cell!Folds, Cell!Accepted, RecordIsReal
  <2>4. row'[s].msgid = row[s].msgid
    BY <1>6 DEF Cell!Folds
  <2> QED BY <1>1, <1>2, <2>3, <2>4 DEF RecordIsReal
<1> QED BY <1>3, <1>4, <1>5, <1>6 DEF RowGoesOn

\* Requests and their copies are not touched by the cell.
LEMMA SendGoesOn ==
    ASSUME PathIsSound, NEW s \in Sends, RowGoesOn(s), UNCHANGED edgeVars, now' = now
    PROVE  SendIsOne(s)'
<1>1. UNCHANGED <<call, provider>>
  BY DEF edgeVars
<1>2. ASSUME NEW q \in Requests PROVE RequestIsTimely(s, q)' /\ AnswerStands(s, q)'
  <2>1. RequestIsTimely(s, q) /\ AnswerStands(s, q)
    BY DEF PathIsSound, SendIsOne
  <2>2. Hot(s, q)' = Hot(s, q)
    BY <1>1 DEF Hot, Risky, Edge!ProviderAccepted
  <2>3. AnswerStands(s, q)'
    BY <1>1, <2>1 DEF AnswerStands, Edge!ProviderAccepted
  <2>4. call[s][q].phase # "idle" => row[s].generation # 0
    BY <2>1, PathNumbers, RowFields, CallFields DEF RequestIsTimely
  <2>5. call[s][q].phase # "idle" =>
          /\ q <= row'[s].generation /\ row'[s].queuedAt = row[s].queuedAt
    BY <2>1, <2>4, GenerationIsNat, RowIsCounted, RowFields, CallFields DEF RequestIsTimely
  <2>6. RequestIsTimely(s, q)'
    BY <1>1, <2>1, <2>2, <2>5 DEF RequestIsTimely, WorkEnd
  <2> QED BY <2>3, <2>6
<1>3. OneHotCall(s)'
  <2>1. OneHotCall(s)
    BY DEF PathIsSound, SendIsOne
  <2> QED BY <1>1, <2>1 DEF OneHotCall, Hot, Risky, Edge!ProviderAccepted
<1> QED BY <1>1, <1>2, <1>3, RowIsCounted, RowIsReal DEF SendIsOne

-----------------------------------------------------------------------------
(* What happens to a request                                               *)

\* How a request of s goes on; one is signed only while s is worked on.
RequestGoesOn(s, q) ==
    \/ Adapter!Calls(s, q) \/ Adapter!Moves(s, q) \/ Adapter!Declines(s, q)
    \/ Adapter!Tells(s, q) \/ Adapter!Resolves(s, q)
    \/ /\ Adapter!Signs(s, q)
       /\ q <= row[s].generation /\ row[s].queuedAt <= now /\ now < WorkEnd(s)

\* The other requests stay as they are.
OthersStay(s, q) ==
    \A z \in Sends, p \in Requests : <<z, p>> # <<s, q>> => Adapter!Stays(z, p)

\* A message once taken stays taken.
LEMMA TakenStays ==
    ASSUME PathIsSound, NEW s \in Sends, NEW q \in Requests,
           RequestGoesOn(s, q) \/ Adapter!Stays(s, q), Edge!ProviderAccepted(s, q)
    PROVE  Edge!ProviderAccepted(s, q)'
<1>1. call[s][q].phase = "sent" => provider[s][q] = "none"
  BY DEF PathIsSound, Adapter!EdgeIsSound, Adapter!SendIsSound, Adapter!HandlerIsTruthful
<1> QED
  BY <1>1 DEF Edge!ProviderAccepted, RequestGoesOn, Adapter!Stays, Adapter!Calls, Adapter!Moves,
     Adapter!Declines, Adapter!Tells, Adapter!Resolves, Adapter!Signs, Adapter!Keeps,
     Adapter!Delivered

\* A hot call began when its send was worked on.
LEMMA HotCallIsRecent ==
    ASSUME PathIsSound, NEW s \in Sends, NEW q \in Requests, Hot(s, q),
           NEW p \in Requests, call[s][p].phase # "idle"
    PROVE  call[s][p].sentAt + Window < call[s][q].calledAt + TTL
<1>1. RequestIsTimely(s, q) /\ RequestIsTimely(s, p)
  BY DEF PathIsSound, SendIsOne
<1>2. /\ row[s].queuedAt \in Nat /\ call[s][p].sentAt \in Nat
      /\ call[s][q].sentAt \in Nat /\ call[s][q].calledAt \in Nat
  BY RowFields, CallFields
<1>3. /\ row[s].queuedAt <= call[s][q].calledAt
      /\ call[s][p].sentAt < row[s].queuedAt + WorkAge + BatchTimeout
  <2>1. /\ row[s].queuedAt <= call[s][q].sentAt /\ call[s][q].sentAt <= call[s][q].calledAt
        /\ call[s][p].sentAt < WorkEnd(s)
    BY <1>1 DEF RequestIsTimely
  <2> QED BY <1>2, <2>1 DEF WorkEnd
<1>4. /\ WorkAge \in Nat /\ BatchTimeout \in Nat /\ Window \in Nat /\ TTL \in Nat
      /\ WorkAge + BatchTimeout + Window <= TTL
  BY PathNumbers
<1> QED BY ONLY <1>2, <1>3, <1>4

\* So no call begins while another of its send is hot.
LEMMA CallsAlone ==
    ASSUME PathIsSound, NEW s \in Sends, NEW p \in Requests, Adapter!Calls(s, p)
    PROVE  \A q \in Requests : ~ Hot(s, q)
<1> SUFFICES ASSUME NEW q \in Requests, Hot(s, q) PROVE FALSE
  OBVIOUS
<1>1. call[s][p].phase # "idle" /\ now <= call[s][p].sentAt + Window
  BY DEF Adapter!Calls, Adapter!Delivered
<1>2. call[s][p].sentAt + Window < call[s][q].calledAt + TTL
  BY <1>1, HotCallIsRecent
<1>3. ~ (call[s][q].calledAt + TTL > now)
  BY DEF Adapter!Calls, Adapter!OpenCall, Adapter!Risky, Adapter!ProviderAccepted,
     Hot, Risky, Edge!ProviderAccepted
<1>4. /\ now \in Nat /\ call[s][p].sentAt \in Nat /\ call[s][q].calledAt \in Nat
      /\ Window \in Nat /\ TTL \in Nat
  BY PathNumbers, RowFields, CallFields
<1> QED BY ONLY <1>1, <1>2, <1>3, <1>4

\* What a request does leaves it timely, and its answer true.
LEMMA RequestStaysTimely ==
    ASSUME PathIsSound, NEW s \in Sends, NEW q \in Requests, RequestGoesOn(s, q),
           row'[s] = row[s], now' = now
    PROVE  RequestIsTimely(s, q)'
<1>1. RequestIsTimely(s, q)
  BY DEF PathIsSound, SendIsOne
<1>2. now \in Nat /\ Window \in Nat /\ call[s][q].sentAt \in Nat
  BY PathNumbers, RowFields, CallFields
<1>3. CASE Adapter!Calls(s, q)
  <2>1. /\ call[s][q].phase # "idle" /\ call[s][q].sentAt <= now
        /\ now <= call[s][q].sentAt + Window
        /\ call'[s][q].calledAt = now /\ call'[s][q].sentAt = call[s][q].sentAt
        /\ call'[s][q].phase # "idle"
    BY <1>1, <1>3 DEF Adapter!Calls, Adapter!Delivered, RequestIsTimely
  <2> QED BY <1>1, <1>2, <2>1 DEF RequestIsTimely, WorkEnd
<1>4. CASE Adapter!Signs(s, q) /\ q <= row[s].generation /\ row[s].queuedAt <= now /\ now < WorkEnd(s)
  <2>1. ~ Hot(s, q)'
    BY <1>1, <1>4 DEF Adapter!Signs, RequestIsTimely, Hot, Risky, Edge!ProviderAccepted
  <2> QED BY <1>2, <1>4, <2>1 DEF Adapter!Signs, RequestIsTimely, WorkEnd
<1>5. CASE \/ Adapter!Moves(s, q) \/ Adapter!Declines(s, q)
           \/ Adapter!Tells(s, q) \/ Adapter!Resolves(s, q)
  <2>1. Hot(s, q)' => Hot(s, q)
    BY <1>5 DEF Adapter!Moves, Adapter!Declines, Adapter!Tells, Adapter!Resolves, Adapter!Keeps,
                Hot, Risky, Edge!ProviderAccepted
  <2>2. /\ call'[s][q].sentAt = call[s][q].sentAt /\ call'[s][q].calledAt = call[s][q].calledAt
        /\ call'[s][q].phase # "idle" => call[s][q].phase # "idle"
        /\ call[s][q].phase # "idle" => call'[s][q].phase # "idle"
    BY <1>5 DEF Adapter!Moves, Adapter!Declines, Adapter!Tells, Adapter!Resolves, Adapter!Keeps,
                Adapter!Delivered
  <2> QED BY <1>1, <2>1, <2>2 DEF RequestIsTimely, WorkEnd
<1> QED BY <1>3, <1>4, <1>5 DEF RequestGoesOn

LEMMA AnswerStaysTrue ==
    ASSUME PathIsSound, NEW s \in Sends, NEW q \in Requests,
           RequestGoesOn(s, q) \/ Adapter!Stays(s, q),
           \A p \in Requests : Edge!ProviderAccepted(s, p) => Edge!ProviderAccepted(s, p)'
    PROVE  AnswerStands(s, q)'
<1>1. AnswerStands(s, q)
  BY DEF PathIsSound, SendIsOne
<1>2. CASE Adapter!Tells(s, q)
  <2>1. call'[s][q].answer = "accepted" =>
          call'[s][q].copy \in Requests /\ Edge!ProviderAccepted(s, call'[s][q].copy)
    BY <1>2 DEF Adapter!Tells, Adapter!AnswerIsTrue, Adapter!ProviderAccepted,
                Edge!ProviderAccepted
  <2> QED BY <2>1 DEF AnswerStands, Edge!ProviderAccepted
<1>3. CASE Adapter!Declines(s, q)
  <2>1. call'[s][q].answer # "accepted"
    BY <1>3, PartsAssumption DEF Adapter!Declines
  <2> QED BY <2>1 DEF AnswerStands
<1>4. CASE \/ Adapter!Calls(s, q) \/ Adapter!Moves(s, q) \/ Adapter!Resolves(s, q)
           \/ Adapter!Signs(s, q) \/ Adapter!Stays(s, q)
  <2>1. call'[s][q].answer = call[s][q].answer /\ call'[s][q].copy = call[s][q].copy
    BY <1>4 DEF Adapter!Calls, Adapter!Moves, Adapter!Resolves, Adapter!Signs, Adapter!Stays,
                Adapter!Silent
  <2> QED BY <1>1, <2>1 DEF AnswerStands, Edge!ProviderAccepted
<1> QED BY <1>2, <1>3, <1>4 DEF RequestGoesOn

\* A step of one request keeps every send one.
LEMMA OneRequestGoesOn ==
    ASSUME PathIsSound, NEW s \in Sends, NEW q \in Requests, RequestGoesOn(s, q),
           OthersStay(s, q), row' = row, now' = now
    PROVE  \A z \in Sends : SendIsOne(z)'
<1> SUFFICES ASSUME NEW z \in Sends PROVE SendIsOne(z)'
  OBVIOUS
<1>1. \A p \in Requests : Adapter!Stays(z, p) \/ (z = s /\ p = q)
  BY DEF OthersStay
<1>2. ASSUME NEW p \in Requests PROVE Edge!ProviderAccepted(z, p) => Edge!ProviderAccepted(z, p)'
  BY <1>1, TakenStays
<1>3. ASSUME NEW p \in Requests PROVE RequestIsTimely(z, p)' /\ AnswerStands(z, p)'
  <2>1. AnswerStands(z, p)'
    BY <1>1, <1>2, AnswerStaysTrue
  <2>2. CASE Adapter!Stays(z, p)
    <3>1. RequestIsTimely(z, p)
      BY DEF PathIsSound, SendIsOne
    <3> QED BY <2>1, <2>2, <3>1 DEF RequestIsTimely, WorkEnd, Hot, Risky, Edge!ProviderAccepted,
                                    Adapter!Stays
  <2>3. CASE z = s /\ p = q
    BY <2>1, <2>3, RequestStaysTimely
  <2> QED BY <1>1, <2>2, <2>3
<1>4. OneHotCall(z)'
  <2>1. OneHotCall(z)
    BY DEF PathIsSound, SendIsOne
  <2>2. ASSUME NEW p \in Requests, Hot(z, p)', ~ Hot(z, p)
        PROVE  z = s /\ p = q /\ \A r \in Requests : ~ Hot(z, r)
    <3>1. ~ Adapter!Stays(z, p)
      BY <2>2 DEF Adapter!Stays, Hot, Risky, Edge!ProviderAccepted
    <3>2. z = s /\ p = q
      BY <1>1, <3>1
    <3>3. Adapter!Calls(s, q)
      BY <2>2, <3>2 DEF RequestGoesOn, Adapter!Moves, Adapter!Declines, Adapter!Tells,
         Adapter!Resolves, Adapter!Signs, Adapter!Keeps, Hot, Risky, Edge!ProviderAccepted
    <3> QED BY <3>2, <3>3, CallsAlone
  <2> QED BY <2>1, <2>2 DEF OneHotCall
<1>5. WorkIsCounted(z)'
  BY DEF PathIsSound, SendIsOne, WorkIsCounted
<1>6. RecordIsReal(z)'
  <2>1. RecordIsReal(z)
    BY DEF PathIsSound, SendIsOne
  <2> QED BY <1>2, <2>1 DEF RecordIsReal
<1> QED BY <1>3, <1>4, <1>5, <1>6 DEF SendIsOne

\* Nothing happens to the requests.
LEMMA NoRequestGoesOn ==
    ASSUME PathIsSound, row' = row, now' = now,
           \A z \in Sends, p \in Requests : Adapter!Stays(z, p)
    PROVE  \A z \in Sends : SendIsOne(z)'
<1> SUFFICES ASSUME NEW z \in Sends PROVE SendIsOne(z)'
  OBVIOUS
<1>1. SendIsOne(z)
  BY DEF PathIsSound
<1>2. \A p \in Requests : call'[z][p] = call[z][p] /\ provider'[z][p] = provider[z][p]
  BY DEF Adapter!Stays
<1>3. \A p \in Requests : /\ Edge!ProviderAccepted(z, p)' = Edge!ProviderAccepted(z, p)
                          /\ Hot(z, p)' = Hot(z, p)
  BY <1>2 DEF Edge!ProviderAccepted, Hot, Risky
<1>4. OneHotCall(z)' /\ WorkIsCounted(z)' /\ RecordIsReal(z)'
  BY <1>1, <1>3 DEF SendIsOne, OneHotCall, WorkIsCounted, RecordIsReal
<1>5. ASSUME NEW p \in Requests PROVE RequestIsTimely(z, p)' /\ AnswerStands(z, p)'
  BY <1>1, <1>2, <1>3 DEF SendIsOne, RequestIsTimely, AnswerStands, WorkEnd
<1> QED BY <1>4, <1>5 DEF SendIsOne

-----------------------------------------------------------------------------
(* What a worker does                                                      *)

\* A worker that is not idle afterwards goes on with the work it had.
WorkerKeeps(w) ==
    worker'[w].pc # "idle" =>
        /\ worker[w].pc # "idle" /\ worker'[w].send = worker[w].send
        /\ worker'[w].gen = worker[w].gen /\ worker'[w].deadline = worker[w].deadline

LEMMA WorkerIdles ==
    ASSUME PathIsSound, NEW w \in Workers, Idle(w)
    PROVE  worker' \in [Workers -> Worker] /\ \A v \in Workers : WorkerKeeps(v)
<1>1. NoWork \in Worker /\ NoWork.pc = "idle"
  BY DEF NoWork, Worker, Pcs
<1>2. worker' = [worker EXCEPT ![w] = NoWork] /\ worker \in [Workers -> Worker]
  BY DEF Idle, PathIsSound
<1> QED BY <1>1, <1>2 DEF WorkerKeeps

LEMMA WorkerGoes ==
    ASSUME PathIsSound, NEW w \in Workers, NEW pc \in Pcs, worker[w].pc # "idle", Goes(w, pc)
    PROVE  worker' \in [Workers -> Worker] /\ \A v \in Workers : WorkerKeeps(v)
<1> DEFINE h == [worker[w] EXCEPT !.pc = pc]
<1>1. worker[w] \in Worker /\ worker \in [Workers -> Worker]
  BY DEF PathIsSound
<1>2. h \in Worker
  BY <1>1 DEF Worker
<1>3. h.send = worker[w].send /\ h.gen = worker[w].gen /\ h.deadline = worker[w].deadline
  BY <1>1 DEF Worker
<1>4. worker' = [worker EXCEPT ![w] = h]
  BY <1>1 DEF Goes
<1> HIDE DEF h
<1> QED BY <1>1, <1>2, <1>3, <1>4 DEF WorkerKeeps

LEMMA WorkerRests ==
    ASSUME PathIsSound, worker' = worker
    PROVE  worker' \in [Workers -> Worker] /\ \A v \in Workers : WorkerKeeps(v)
BY DEF PathIsSound, WorkerKeeps

\* Workers are kept timely by rows whose work is counted and dated once.
LEMMA WorkersStayTimely ==
    ASSUME PathIsSound, NEW w \in Workers, WorkerKeeps(w),
           \A s \in Sends : row'[s] = row[s] \/ (RowGoesOn(s) /\ now' = now)
    PROVE  WorkerIsTimely(w)'
<1>1. WorkerIsTimely(w)
  BY DEF PathIsSound
<1>2. ASSUME worker'[w].pc # "idle" PROVE WorkerIsTimely(w)'
  <2> DEFINE s == worker[w].send
  <2>1. s \in Sends /\ worker[w].gen \in 1 .. row[s].generation /\ worker[w].deadline < WorkEnd(s)
    BY <1>1, <1>2 DEF WorkerIsTimely, WorkerKeeps
  <2>2. row[s].generation \in Nat /\ row[s].generation # 0
    BY <2>1, RowFields
  <2>3. /\ row'[s].generation \in Nat /\ row'[s].generation >= row[s].generation
        /\ row'[s].queuedAt = row[s].queuedAt
    <3>1. CASE row'[s] = row[s]
      BY <2>2, <3>1
    <3>2. CASE RowGoesOn(s) /\ now' = now
      BY <2>1, <2>2, <3>2, GenerationIsNat, RowIsCounted
    <3> QED BY <2>1, <3>1, <3>2
  <2>4. worker[w].gen \in 1 .. row'[s].generation
    BY <2>1, <2>2, <2>3
  <2>5. worker'[w].send = s /\ worker'[w].gen = worker[w].gen /\ worker'[w].deadline = worker[w].deadline
    BY <1>2 DEF WorkerKeeps
  <2> QED BY <2>1, <2>3, <2>4, <2>5 DEF WorkerIsTimely, WorkEnd
<1>3. CASE worker'[w].pc = "idle"
  BY <1>3 DEF WorkerIsTimely
<1> QED BY <1>2, <1>3

\* A transaction of the cell under which rows go on and workers stay timely.
LEMMA CellGoesOn ==
    ASSUME PathIsSound, [Cell!Next]_(Cell!vars), UNCHANGED edgeVars, now' = now,
           \A s \in Sends : RowGoesOn(s), worker' \in [Workers -> Worker],
           \A w \in Workers : WorkerIsTimely(w)'
    PROVE  PathIsSound'
<1>1. CellIsSound'
  BY CellStep DEF PathIsSound, CellIsSound
<1>2. Adapter!EdgeIsSound'
  BY EdgeKeeps DEF PathIsSound
<1>3. \A s \in Sends : SendIsOne(s)'
  BY SendGoesOn
<1> QED BY <1>1, <1>2, <1>3 DEF PathIsSound, CellIsSound

\* A worker that is not idle settles a claim the store issued.
LEMMA ClaimWasIssued ==
    ASSUME PathIsSound, NEW w \in Workers, worker[w].pc # "idle"
    PROVE  worker[w].send \in Sends /\ worker[w].gen \in 1 .. row[worker[w].send].generation
BY DEF PathIsSound, WorkerIsTimely

-----------------------------------------------------------------------------
(* One step of the path at a time: which transaction of the cell it is,    *)
(* and how it makes the rows go on.                                        *)

\* Where only the row of s is written, the others stay.
LEMMA AloneGoesOn ==
    ASSUME NEW s \in Sends, Cell!Alone(s), RowGoesOn(s)
    PROVE  \A z \in Sends : RowGoesOn(z)
BY DEF Cell!Alone, RowGoesOn

LEMMA QueueStep ==
    ASSUME PathIsSound, NEW s \in Sends, Outbox!QueueAgentEmail(s)
    PROVE  Cell!Next /\ now' = now /\ \A z \in Sends : RowGoesOn(z)
<1>1. Cell!QueueAgentEmail(s)
  BY SameCell
<1>2. Cell!Alone(s) /\ Cell!Queues(row[s], row'[s])
  BY <1>1, CellAssumption, Cell!QueueRow DEF Cell!QueueRow, PathIsSound
<1>3. \A z \in Sends : RowGoesOn(z)
  BY <1>2, AloneGoesOn DEF RowGoesOn
<1> QED BY <1>1, <1>3 DEF Cell!Next, Cell!QueueAgentEmail

LEMMA ClaimStep ==
    ASSUME PathIsSound, NEW s \in Sends, Outbox!ClaimAgentEmailOutbound(s)
    PROVE  /\ Cell!Next /\ now' = now /\ \A z \in Sends : RowGoesOn(z)
           /\ Cell!Alone(s) /\ Cell!Claims(row[s], row'[s])
<1>1. Cell!ClaimAgentEmailOutbound(s)
  BY SameCell
<1>2. Cell!Alone(s) /\ Cell!Claims(row[s], row'[s])
  BY <1>1, CellAssumption, Cell!ClaimRow DEF Cell!ClaimRow, PathIsSound
<1>3. \A z \in Sends : RowGoesOn(z)
  BY <1>2, AloneGoesOn DEF RowGoesOn
<1> QED BY <1>1, <1>2, <1>3 DEF Cell!Next, Cell!ClaimAgentEmailOutbound

LEMMA RefusalStep ==
    ASSUME PathIsSound, NEW s \in Sends, NEW g \in 1 .. row[s].generation,
           Outbox!StartRefused(s, g)
    PROVE  /\ Cell!Next /\ now' = now /\ \A z \in Sends : RowGoesOn(z)
           /\ Cell!Alone(s) /\ Cell!Closes(row[s], row'[s])
           /\ row[s].claim = g /\ row[s].generation = g
<1>1. Cell!StartRefused(s, g)
  BY SameCell
<1>2. Cell!Alone(s) /\ Cell!Closes(row[s], row'[s]) /\ row[s].claim = g /\ row[s].generation = g
  BY <1>1, CellAssumption, Cell!RefusedRow DEF Cell!RefusedRow, PathIsSound
<1>3. \A z \in Sends : RowGoesOn(z)
  BY <1>2, AloneGoesOn DEF RowGoesOn
<1>4. Cell!Settle(s, g)
  BY <1>1 DEF Cell!Settle, Cell!StartAgentEmailOutboundProviderCall
<1> QED BY <1>1, <1>2, <1>3, <1>4 DEF Cell!Next, Cell!StartRefused

LEMMA CrossingStep ==
    ASSUME PathIsSound, NEW s \in Sends, NEW g \in 1 .. row[s].generation,
           Outbox!StartCrosses(s, g)
    PROVE  /\ Cell!Next /\ now' = now /\ \A z \in Sends : RowGoesOn(z)
           /\ Cell!Alone(s) /\ Cell!Crosses(row[s], row'[s])
           /\ row[s].claim = g /\ row[s].generation = g /\ row[s].lease > now
<1>1. Cell!StartCrosses(s, g)
  BY SameCell
<1>2. /\ Cell!Alone(s) /\ Cell!Crosses(row[s], row'[s])
      /\ row[s].claim = g /\ row[s].generation = g /\ row[s].lease > now
  BY <1>1, CellAssumption, Cell!CrossedRow DEF Cell!CrossedRow, PathIsSound
<1>3. \A z \in Sends : RowGoesOn(z)
  BY <1>2, AloneGoesOn DEF RowGoesOn
<1>4. Cell!Settle(s, g)
  BY <1>1 DEF Cell!Settle, Cell!StartAgentEmailOutboundProviderCall
<1> QED BY <1>1, <1>2, <1>3, <1>4 DEF Cell!Next, Cell!StartCrosses

\* The moments a worker asks to retry at.
LEMMA RetryMoments ==
    ASSUME PathIsSound, NEW s \in Sends, NEW retryAt \in now + 1 .. now + MaxRetryDelay
    PROVE  retryAt \in Nat /\ retryAt > now /\ retryAt \in now .. now + MaxRetryDelay
BY PathNumbers, RowFields

LEMMA RetryStep ==
    ASSUME PathIsSound, NEW s \in Sends, NEW g \in 1 .. row[s].generation,
           NEW preserve \in BOOLEAN, NEW retryAt \in now + 1 .. now + MaxRetryDelay,
           Outbox!RetryAgentEmailOutbound(s, g, preserve, retryAt)
    PROVE  /\ Cell!Next /\ now' = now /\ \A z \in Sends : RowGoesOn(z)
           /\ Cell!Alone(s) /\ row[s].claim = g /\ row[s].generation = g
           /\ row[s].state \in Cell!ActiveStates
           /\ preserve => \/ Cell!Closes(row[s], row'[s]) /\ row[s].state = "provider_started"
                          \/ Cell!Waits(row[s], row'[s]) /\ row'[s].lease = retryAt
           /\ ~ preserve => \/ Cell!Closes(row[s], row'[s]) /\ row[s].state = "claimed"
                            \/ Cell!GivesUp(row[s], row'[s])
<1>1. Cell!RetryAgentEmailOutbound(s, g, preserve, retryAt)
  BY SameCell
<1>2. /\ Cell!Alone(s) /\ row[s].claim = g /\ row[s].generation = g
      /\ row[s].state \in Cell!ActiveStates
      /\ preserve => \/ Cell!Closes(row[s], row'[s]) /\ row[s].state = "provider_started"
                     \/ Cell!Waits(row[s], row'[s]) /\ row'[s].lease = retryAt
      /\ ~ preserve => \/ Cell!Closes(row[s], row'[s]) /\ row[s].state = "claimed"
                       \/ Cell!GivesUp(row[s], row'[s])
  BY <1>1, RetryMoments, CellAssumption, Cell!RetriedRow DEF Cell!RetriedRow, PathIsSound
<1>3. \A z \in Sends : RowGoesOn(z)
  BY <1>2, AloneGoesOn DEF RowGoesOn
<1>4. Cell!Settle(s, g)
  BY <1>1, RetryMoments DEF Cell!Settle
<1>5. now' = now
  BY <1>1 DEF Cell!RetryAgentEmailOutbound
<1>6. Cell!Next
  BY <1>4 DEF Cell!Next
<1> QED BY <1>2, <1>3, <1>5, <1>6

LEMMA AcceptanceStep ==
    ASSUME PathIsSound, NEW s \in Sends, NEW g \in 1 .. row[s].generation, NEW q \in Requests,
           Edge!ProviderAccepted(s, q),
           Outbox!FinalizeAgentEmailOutbound(s, g, "accepted", <<s, q>>)
    PROVE  /\ Cell!Next /\ now' = now /\ \A z \in Sends : RowGoesOn(z)
           /\ Cell!Alone(s) /\ Records(s) /\ row[s].claim = g /\ row[s].generation = g
<1>1. Cell!FinalizeAgentEmailOutbound(s, g, "accepted", <<s, q>>)
  BY SameCell
<1>2. /\ Cell!Alone(s) /\ Cell!Accepts(row[s], row'[s], <<s, q>>)
      /\ row[s].claim = g /\ row[s].generation = g
  <2>1. <<s, q>> \in Sends \X Requests
    OBVIOUS
  <2> QED BY <1>1, <2>1, CellAssumption, Cell!AcceptedRow DEF Cell!AcceptedRow, PathIsSound
<1>3. Records(s)
  BY <1>2 DEF Records
<1>4. \A z \in Sends : RowGoesOn(z)
  BY <1>2, <1>3, AloneGoesOn DEF RowGoesOn
<1>5. Cell!Settle(s, g)
  <2>1. "accepted" \in Cell!Results
    BY DEF Cell!Results, Cell!SentStates
  <2> QED BY <1>1, <2>1 DEF Cell!Settle
<1>6. now' = now
  BY <1>1 DEF Cell!FinalizeAgentEmailOutbound
<1>7. Cell!Next
  BY <1>5 DEF Cell!Next
<1> QED BY <1>2, <1>3, <1>4, <1>6, <1>7

LEMMA RejectionStep ==
    ASSUME PathIsSound, NEW s \in Sends, NEW g \in 1 .. row[s].generation,
           Outbox!FinalizeAgentEmailOutbound(s, g, "rejected", NoMessageId)
    PROVE  /\ Cell!Next /\ now' = now /\ \A z \in Sends : RowGoesOn(z)
           /\ Cell!Alone(s) /\ Cell!GivesUp(row[s], row'[s])
           /\ row[s].state = "provider_started" /\ row[s].claim = g /\ row[s].generation = g
<1>1. Cell!FinalizeAgentEmailOutbound(s, g, "rejected", NoMessageId)
  BY SameCell
<1>2. /\ Cell!Alone(s) /\ Cell!GivesUp(row[s], row'[s])
      /\ row[s].state = "provider_started" /\ row[s].claim = g /\ row[s].generation = g
  BY <1>1, CellAssumption, Cell!RejectedRow DEF Cell!RejectedRow, PathIsSound
<1>3. \A z \in Sends : RowGoesOn(z)
  BY <1>2, AloneGoesOn DEF RowGoesOn
<1>4. Cell!Settle(s, g)
  <2>1. "rejected" \in Cell!Results
    BY DEF Cell!Results, Cell!FailedStates
  <2> QED BY <1>1, <2>1 DEF Cell!Settle
<1>5. now' = now
  BY <1>1 DEF Cell!FinalizeAgentEmailOutbound
<1>6. Cell!Next
  BY <1>4 DEF Cell!Next
<1> QED BY <1>2, <1>3, <1>5, <1>6

LEMMA AmbiguityStep ==
    ASSUME PathIsSound, NEW s \in Sends, NEW g \in 1 .. row[s].generation,
           Outbox!MarkAgentEmailOutboundAmbiguous(s, g)
    PROVE  /\ Cell!Next /\ now' = now /\ \A z \in Sends : RowGoesOn(z)
           /\ Cell!Alone(s) /\ Cell!Closes(row[s], row'[s])
           /\ row[s].state = "provider_started" /\ row[s].claim = g /\ row[s].generation = g
<1>1. Cell!MarkAgentEmailOutboundAmbiguous(s, g)
  BY SameCell
<1>2. /\ Cell!Alone(s) /\ Cell!Closes(row[s], row'[s])
      /\ row[s].state = "provider_started" /\ row[s].claim = g /\ row[s].generation = g
  BY <1>1, CellAssumption, Cell!AmbiguousRowClosed DEF Cell!AmbiguousRowClosed, PathIsSound
<1>3. \A z \in Sends : RowGoesOn(z)
  BY <1>2, AloneGoesOn DEF RowGoesOn
<1>4. Cell!Settle(s, g)
  BY <1>1 DEF Cell!Settle
<1> QED BY <1>1, <1>2, <1>3, <1>4 DEF Cell!Next, Cell!MarkAgentEmailOutboundAmbiguous

LEMMA ReconcileStep ==
    ASSUME PathIsSound, Outbox!Reconcile
    PROVE  /\ Cell!Next /\ now' = now
           /\ \A s \in Sends :
                 /\ RowGoesOn(s)
                 /\ \/ row'[s] = row[s]
                    \/ /\ Cell!Closes(row[s], row'[s])
                       /\ row[s].state = "queued" \/ row[s].lease <= now
<1>1. Cell!Reconcile
  BY SameCell
<1>2. ASSUME NEW s \in Sends
      PROVE  \/ row'[s] = row[s]
             \/ /\ Cell!Closes(row[s], row'[s])
                /\ row[s].state = "queued" \/ row[s].lease <= now
  BY <1>1, CellAssumption, Cell!ReconciledRow DEF Cell!ReconciledRow, PathIsSound
<1>3. Cell!Next
  BY <1>1 DEF Cell!Next
<1>4. now' = now
  BY <1>1 DEF Cell!Reconcile, Cell!ReconcileExhaustedAgentEmailOutbound
<1> QED BY <1>2, <1>3, <1>4 DEF RowGoesOn

LEMMA EventStep ==
    ASSUME PathIsSound, NEW s \in Sends, NEW q \in Requests, NEW e \in EventIds,
           NEW class \in Outbox!EventClasses,
           Outbox!ApplyAgentEmailOutboundProviderEvent(e, <<s, q>>, class)
    PROVE  /\ Cell!Next /\ now' = now
           /\ \A z \in Sends : /\ RowGoesOn(z)
                               /\ row'[z] = row[z] \/ Cell!Folds(row[z], row'[z])
<1>1. Cell!ApplyAgentEmailOutboundProviderEvent(e, <<s, q>>, class) /\ class \in Cell!EventClasses
  BY SameCell
<1>2. ASSUME NEW z \in Sends PROVE row'[z] = row[z] \/ Cell!Folds(row[z], row'[z])
  BY <1>1, CellAssumption, Cell!EventRow DEF Cell!EventRow, PathIsSound
<1>3. Cell!Next
  <2>1. <<s, q>> \in Sends \X Requests
    OBVIOUS
  <2> QED BY <1>1, <2>1 DEF Cell!Next
<1>4. now' = now
  BY <1>1 DEF Cell!ApplyAgentEmailOutboundProviderEvent
<1> QED BY <1>2, <1>3, <1>4 DEF RowGoesOn

LEMMA AccountRowsRest ==
    ASSUME Outbox!AccountStep
    PROVE  Cell!Next /\ now' = now /\ row' = row
<1>1. Cell!AccountStep
  BY SameCell
<1>2. now' = now /\ row' = row
  BY <1>1 DEF Cell!AccountStep, Cell!SuspendAccount, Cell!ResumeAccount, Cell!DisableSend,
     Cell!EnableSend, Cell!BeginAccountEvacuation, Cell!AbortAccountEvacuation, Cell!Unmoved
<1> QED BY <1>1, <1>2 DEF Cell!Next

\* What a settlement makes of the row of s.
Settles(s, g, answer) ==
    /\ Cell!Alone(s) /\ row[s].claim = g /\ row[s].generation = g
    /\ row[s].state \in Cell!ActiveStates
    /\ answer # "ambiguous" => answer = call[s][g].answer
    /\ CASE answer = "accepted"  -> Records(s)
         [] answer = "rejected"  -> /\ Cell!GivesUp(row[s], row'[s])
                                    /\ row[s].state = "provider_started"
         [] answer = "ambiguous" -> /\ row[s].state = "provider_started"
                                    /\ \/ Cell!Closes(row[s], row'[s])
                                       \/ Cell!Waits(row[s], row'[s]) /\ row'[s].lease > now
         [] answer = "retryable" -> \/ Cell!Closes(row[s], row'[s]) /\ row[s].state = "claimed"
                                    \/ Cell!GivesUp(row[s], row'[s])

LEMMA SettlementStep ==
    ASSUME PathIsSound, NEW w \in Workers, worker[w].pc = "waiting", NEW answer \in Heard(w),
           Settlement(w, answer)
    PROVE  /\ Cell!Next /\ now' = now /\ \A z \in Sends : RowGoesOn(z)
           /\ answer \in {"accepted", "rejected", "ambiguous", "retryable"}
           /\ Settles(worker[w].send, worker[w].gen, answer)
<1> DEFINE s == worker[w].send
           g == worker[w].gen
<1>1. s \in Sends /\ g \in 1 .. row[s].generation /\ g \in Requests
  <2>1. s \in Sends /\ g \in 1 .. row[s].generation
    BY ClaimWasIssued
  <2>2. row[s].generation \in Nat /\ row[s].generation <= MaxAttempts
    BY <2>1, RowFields DEF PathIsSound, SendIsOne, WorkIsCounted
  <2> QED BY <2>1, <2>2, PathNumbers
<1>2. /\ answer \in {"accepted", "rejected", "ambiguous", "retryable"}
      /\ answer # "ambiguous" => answer = call[s][g].answer
  <2>1. call[s][g].answer \in Adapter!Answers
    BY <1>1, CallFields
  <2> QED BY <2>1 DEF Heard, Adapter!Answers
<1> HIDE DEF s, g
<1>3. CASE answer = "accepted"
  <2>1. call[s][g].copy \in Requests /\ Edge!ProviderAccepted(s, call[s][g].copy)
    BY <1>1, <1>2, <1>3 DEF PathIsSound, SendIsOne, AnswerStands
  <2>2. Outbox!FinalizeAgentEmailOutbound(s, g, "accepted", <<s, call[s][g].copy>>)
    BY <1>3 DEF Settlement, s, g
  <2>3. /\ Cell!Next /\ now' = now /\ \A z \in Sends : RowGoesOn(z)
        /\ Cell!Alone(s) /\ Records(s) /\ row[s].claim = g /\ row[s].generation = g
    BY <1>1, <2>1, <2>2, AcceptanceStep
  <2>4. row[s].state \in Cell!ActiveStates
    BY <2>3 DEF Records, Cell!Accepts, Cell!ActiveStates
  <2> QED BY <1>2, <1>3, <2>3, <2>4 DEF Settles, s, g
<1>4. CASE answer = "rejected"
  <2>1. Outbox!FinalizeAgentEmailOutbound(s, g, "rejected", NoMessageId)
    BY <1>4 DEF Settlement, s, g
  <2>2. /\ Cell!Next /\ now' = now /\ \A z \in Sends : RowGoesOn(z)
        /\ Cell!Alone(s) /\ Cell!GivesUp(row[s], row'[s])
        /\ row[s].state = "provider_started" /\ row[s].claim = g /\ row[s].generation = g
    BY <1>1, <2>1, RejectionStep
  <2>3. row[s].state \in Cell!ActiveStates
    BY <2>2 DEF Cell!ActiveStates
  <2> QED BY <1>2, <1>4, <2>2, <2>3 DEF Settles, s, g
<1>5. CASE answer \in {"ambiguous", "retryable"}
  <2>1. PICK retryAt \in now + 1 .. now + MaxRetryDelay :
           Outbox!RetryAgentEmailOutbound(s, g, answer = "ambiguous", retryAt)
    BY <1>5 DEF Settlement, s, g
  <2>2. PICK preserve \in BOOLEAN : preserve = (answer = "ambiguous")
    OBVIOUS
  <2>3. Outbox!RetryAgentEmailOutbound(s, g, preserve, retryAt)
    BY <2>1, <2>2
  <2>4. /\ Cell!Next /\ now' = now /\ \A z \in Sends : RowGoesOn(z)
        /\ Cell!Alone(s) /\ row[s].claim = g /\ row[s].generation = g
        /\ row[s].state \in Cell!ActiveStates
        /\ preserve => \/ Cell!Closes(row[s], row'[s]) /\ row[s].state = "provider_started"
                       \/ Cell!Waits(row[s], row'[s]) /\ row'[s].lease = retryAt
        /\ ~ preserve => \/ Cell!Closes(row[s], row'[s]) /\ row[s].state = "claimed"
                         \/ Cell!GivesUp(row[s], row'[s])
    BY <1>1, <2>3, RetryStep
  <2>5. retryAt > now
    BY <1>1, RetryMoments
  <2>6. Cell!Waits(row[s], row'[s]) => row[s].state = "provider_started"
    BY DEF Cell!Waits
  <2>7. CASE answer = "ambiguous"
    BY <1>2, <2>2, <2>4, <2>5, <2>6, <2>7 DEF Settles, s, g
  <2>8. CASE answer = "retryable"
    BY <1>2, <2>2, <2>4, <2>8 DEF Settles, s, g
  <2> QED BY <1>5, <2>7, <2>8
<1> QED BY <1>2, <1>3, <1>4, <1>5

\* A transaction under which workers go on with the work they had.
LEMMA CellGoesOnKept ==
    ASSUME PathIsSound, Cell!Next, UNCHANGED edgeVars, now' = now,
           \A s \in Sends : RowGoesOn(s), worker' \in [Workers -> Worker],
           \A w \in Workers : WorkerKeeps(w)
    PROVE  PathIsSound'
<1>1. \A w \in Workers : WorkerIsTimely(w)'
  BY WorkersStayTimely
<1> QED BY <1>1, CellGoesOn

LEMMA ClaimKeepsSound ==
    ASSUME PathIsSound, NEW w \in Workers, NEW s \in Sends, WorkerClaims(w, s)
    PROVE  PathIsSound'
<1> DEFINE h == [pc |-> "claimed", send |-> s, gen |-> row[s].generation + 1,
                 deadline |-> now + BatchTimeout]
<1>1. /\ Cell!Next /\ now' = now /\ \A z \in Sends : RowGoesOn(z)
      /\ Cell!Alone(s) /\ Cell!Claims(row[s], row'[s])
  BY ClaimStep DEF WorkerClaims
<1>2. /\ row[s].generation \in Nat /\ now \in Nat /\ BatchTimeout \in Nat /\ WorkAge \in Nat
      /\ row[s].queuedAt \in Nat
  BY PathNumbers, RowFields
<1>3. worker' = [worker EXCEPT ![w] = h] /\ worker \in [Workers -> Worker] /\ UNCHANGED edgeVars
  BY DEF WorkerClaims, PathIsSound
<1>4. h \in Worker
  BY <1>2 DEF Worker, Pcs
<1>5. h.send = s /\ h.gen = row[s].generation + 1 /\ h.deadline = now + BatchTimeout
  OBVIOUS
<1> HIDE DEF h
<1>6. worker' \in [Workers -> Worker] /\ worker'[w] = h /\ \A v \in Workers \ {w} : worker'[v] = worker[v]
  BY <1>3, <1>4
<1>7. WorkerIsTimely(w)'
  <2>1. row'[s].generation = row[s].generation + 1 /\ row'[s].queuedAt = row[s].queuedAt
        /\ now < row[s].queuedAt + WorkAge
    BY <1>1 DEF Cell!Claims
  <2>2. h.gen \in 1 .. row'[s].generation
    BY <1>2, <1>5, <2>1
  <2>3. h.deadline < row'[s].queuedAt + WorkAge + BatchTimeout
    BY ONLY <1>2, <1>5, <2>1
  <2> QED BY <1>5, <1>6, <2>2, <2>3 DEF WorkerIsTimely, WorkEnd
<1>8. \A v \in Workers \ {w} : WorkerKeeps(v)
  BY <1>6 DEF WorkerKeeps
<1>9. \A v \in Workers : WorkerIsTimely(v)'
  BY <1>1, <1>7, <1>8, WorkersStayTimely
<1> QED BY <1>1, <1>3, <1>6, <1>9, CellGoesOn

LEMMA SendingKeepsSound ==
    ASSUME PathIsSound, NEW w \in Workers, WorkerSends(w)
    PROVE  PathIsSound'
<1> DEFINE s == worker[w].send
           q == worker[w].gen
<1>1. /\ s \in Sends /\ q \in 1 .. row[s].generation /\ now <= worker[w].deadline
      /\ worker[w].deadline < WorkEnd(s) /\ worker[w].pc # "idle"
  BY DEF PathIsSound, WorkerIsTimely, WorkerSends, Working
<1>2. row[s].generation \in Nat /\ row[s].generation <= MaxAttempts /\ row[s].queuedAt <= now
  BY <1>1, RowFields DEF PathIsSound, SendIsOne, WorkIsCounted
<1>3. q \in Requests /\ q <= row[s].generation
  BY <1>1, <1>2, PathNumbers
<1>4. Adapter!SendRequest(s, q) /\ Goes(w, "waiting") /\ UNCHANGED cellVars /\ now' = now
  <2>1. Edge!SendRequest(s, q)
    BY DEF WorkerSends
  <2>2. Adapter!SendRequest(s, q)
    BY <2>1, SameEdge
  <2>3. now' = now
    BY <2>2 DEF Adapter!SendRequest
  <2> QED BY <2>2, <2>3 DEF WorkerSends
<1>5. now < WorkEnd(s)
  <2>1. now \in Nat /\ worker[w].deadline \in Nat /\ WorkEnd(s) \in Nat
    BY <1>1, PathNumbers, RowFields DEF WorkEnd, PathIsSound, Worker
  <2> QED BY <1>1, <2>1
<1> HIDE DEF s, q
<1>6. Adapter!Signs(s, q) /\ OthersStay(s, q)
  BY <1>1, <1>3, <1>4, AdapterAssumption, Adapter!RequestSigns DEF Adapter!RequestSigns, PathIsSound, OthersStay
<1>7. RequestGoesOn(s, q)
  BY <1>2, <1>3, <1>5, <1>6 DEF RequestGoesOn
<1>8. row' = row
  BY <1>4 DEF cellVars
<1>9. \A z \in Sends : SendIsOne(z)'
  BY <1>1, <1>3, <1>4, <1>6, <1>7, <1>8, OneRequestGoesOn
<1>10. CellIsSound'
  BY <1>4, CellRests DEF PathIsSound, CellIsSound
<1>11. Adapter!EdgeIsSound'
  <2>1. Edge!SendRequest(s, q)
    BY DEF WorkerSends, s, q
  <2> QED BY <1>1, <1>3, <2>1, EdgeKeeps DEF PathIsSound
<1>12. worker' \in [Workers -> Worker] /\ \A v \in Workers : WorkerIsTimely(v)'
  <2>1. worker' \in [Workers -> Worker] /\ \A v \in Workers : WorkerKeeps(v)
    BY <1>1, <1>4, WorkerGoes DEF Pcs
  <2> QED BY <1>8, <2>1, WorkersStayTimely
<1> QED BY <1>9, <1>10, <1>11, <1>12 DEF PathIsSound, CellIsSound

\* The steps of a worker on its claim, and what each makes of its row and of the worker.
LEMMA WorkKeepsSound ==
    ASSUME PathIsSound, NEW w \in Workers,
           \/ WorkerIsRefused(w) \/ WorkerStarts(w) \/ WorkerReplays(w)
           \/ WorkerIsRateLimited(w) \/ WorkerFindsInvalid(w)
           \/ WorkerSettles(w) \/ WorkerDrops(w) \/ WorkerReconciles(w)
    PROVE  PathIsSound'
<1> DEFINE s == worker[w].send
           g == worker[w].gen
<1>1. worker[w].pc # "idle" => s \in Sends /\ g \in 1 .. row[s].generation
  BY ClaimWasIssued
<1>2. CASE WorkerReplays(w) \/ WorkerDrops(w)
  <2>1. UNCHANGED <<cellVars, edgeVars, now>>
    BY <1>2 DEF WorkerReplays, WorkerDrops
  <2>2. worker' \in [Workers -> Worker] /\ \A v \in Workers : WorkerKeeps(v)
    BY <1>2, WorkerGoes, WorkerIdles DEF WorkerReplays, WorkerDrops, Working, Pcs
  <2>3. [Cell!Next]_(Cell!vars) /\ now' = now /\ UNCHANGED edgeVars /\ row' = row
    BY <2>1 DEF Cell!vars, cellVars
  <2>4. \A z \in Sends : RowGoesOn(z)
    BY <2>3 DEF RowGoesOn
  <2>5. \A v \in Workers : WorkerIsTimely(v)'
    BY <2>2, <2>3, WorkersStayTimely
  <2> QED BY <2>2, <2>3, <2>4, <2>5, CellGoesOn
<1>3. CASE WorkerReconciles(w)
  <2>1. Cell!Next /\ now' = now /\ \A z \in Sends : RowGoesOn(z)
    BY <1>3, ReconcileStep DEF WorkerReconciles
  <2>2. worker' = worker /\ UNCHANGED edgeVars
    BY <1>3 DEF WorkerReconciles
  <2> QED BY <2>1, <2>2, WorkerRests, CellGoesOnKept
<1>4. CASE WorkerStarts(w)
  <2>1. worker[w].pc = "claimed" /\ Outbox!StartCrosses(s, g) /\ Goes(w, "started") /\ UNCHANGED edgeVars
    BY <1>4 DEF WorkerStarts, Working
  <2>2. Cell!Next /\ now' = now /\ \A z \in Sends : RowGoesOn(z)
    <3> HIDE DEF s, g
    <3> QED BY <1>1, <2>1, CrossingStep
  <2>3. worker' \in [Workers -> Worker] /\ \A v \in Workers : WorkerKeeps(v)
    BY <2>1, WorkerGoes DEF Pcs
  <2> QED BY <2>1, <2>2, <2>3, CellGoesOnKept
<1>5. CASE WorkerIsRefused(w) \/ WorkerIsRateLimited(w) \/ WorkerFindsInvalid(w) \/ WorkerSettles(w)
  <2>1. worker[w].pc # "idle" /\ Idle(w) /\ UNCHANGED edgeVars
    BY <1>5 DEF WorkerIsRefused, WorkerIsRateLimited, WorkerFindsInvalid, WorkerSettles, Working
  <2>2. Cell!Next /\ now' = now /\ \A z \in Sends : RowGoesOn(z)
    <3>1. CASE WorkerIsRefused(w)
      <4>1. Outbox!StartRefused(s, g)
        BY <3>1 DEF WorkerIsRefused
      <4> HIDE DEF s, g
      <4> QED BY <1>1, <2>1, <4>1, RefusalStep
    <3>2. CASE WorkerIsRateLimited(w)
      <4>1. PICK retryAt \in now + 1 .. now + MaxRetryDelay :
               Outbox!RetryAgentEmailOutbound(s, g, FALSE, retryAt)
        BY <3>2 DEF WorkerIsRateLimited
      <4> HIDE DEF s, g
      <4> QED BY <1>1, <2>1, <4>1, RetryStep
    <3>3. CASE WorkerFindsInvalid(w)
      <4>1. Outbox!MarkAgentEmailOutboundAmbiguous(s, g)
        BY <3>3 DEF WorkerFindsInvalid
      <4> HIDE DEF s, g
      <4> QED BY <1>1, <2>1, <4>1, AmbiguityStep
    <3>4. CASE WorkerSettles(w)
      BY <3>4, SettlementStep DEF WorkerSettles
    <3> QED BY <1>5, <3>1, <3>2, <3>3, <3>4
  <2> QED BY <2>1, <2>2, WorkerIdles, CellGoesOnKept
<1> QED BY <1>2, <1>3, <1>4, <1>5

LEMMA EdgeKeepsSound ==
    ASSUME PathIsSound, Edge!EdgeStep, UNCHANGED <<cellVars, worker>>
    PROVE  PathIsSound'
<1>1. /\ now' = now
      /\ \/ \A z \in Sends, p \in Requests : Adapter!Stays(z, p)
         \/ \E s \in Sends, q \in Requests :
               /\ \/ Adapter!Calls(s, q) \/ Adapter!Moves(s, q) \/ Adapter!Declines(s, q)
                  \/ Adapter!Tells(s, q) \/ Adapter!Resolves(s, q)
               /\ \A z \in Sends, p \in Requests : <<z, p>> # <<s, q>> => Adapter!Stays(z, p)
  <2>1. Adapter!EdgeStep
    BY SameEdge
  <2> QED BY <2>1, AdapterAssumption, Adapter!EdgeMovesOne DEF Adapter!EdgeMovesOne, PathIsSound
<1>2. row' = row /\ UNCHANGED <<cellVars, now>>
  BY <1>1 DEF cellVars
<1>3. \A z \in Sends : SendIsOne(z)'
  <2>1. CASE \A z \in Sends, p \in Requests : Adapter!Stays(z, p)
    BY <1>1, <1>2, <2>1, NoRequestGoesOn
  <2>2. ASSUME NEW s \in Sends, NEW q \in Requests,
               \/ Adapter!Calls(s, q) \/ Adapter!Moves(s, q) \/ Adapter!Declines(s, q)
               \/ Adapter!Tells(s, q) \/ Adapter!Resolves(s, q),
               \A z \in Sends, p \in Requests : <<z, p>> # <<s, q>> => Adapter!Stays(z, p)
        PROVE  \A z \in Sends : SendIsOne(z)'
    BY <1>1, <1>2, <2>2, OneRequestGoesOn DEF RequestGoesOn, OthersStay
  <2> QED BY <1>1, <2>1, <2>2
<1>4. CellIsSound'
  BY <1>2, CellRests DEF PathIsSound, CellIsSound
<1>5. Adapter!EdgeIsSound'
  BY EdgeKeeps DEF PathIsSound
<1>6. worker' \in [Workers -> Worker] /\ \A v \in Workers : WorkerIsTimely(v)'
  BY <1>2, WorkerRests, WorkersStayTimely
<1> QED BY <1>3, <1>4, <1>5, <1>6 DEF PathIsSound, CellIsSound

\* Time passes, or nothing happens.
LEMMA TimeKeepsSound ==
    ASSUME PathIsSound, Tick \/ UNCHANGED vars
    PROVE  PathIsSound'
<1>1. UNCHANGED <<cellVars, edgeVars, worker>> /\ (now' = now + 1 \/ now' = now)
  BY DEF Tick, vars
<1>2. row' = row /\ call' = call /\ provider' = provider
  BY <1>1 DEF cellVars, edgeVars
<1>3. CellIsSound'
  <2>1. Cell!Tick \/ UNCHANGED Cell!vars
    BY DEF Tick, vars, cellVars, Cell!Tick, Cell!vars
  <2>2. [Cell!Next]_(Cell!vars)
    BY <2>1 DEF Cell!Next
  <2> QED BY <2>2, CellStep DEF PathIsSound, CellIsSound
<1>4. Adapter!EdgeIsSound'
  BY <1>1, EdgeKeeps DEF PathIsSound
<1>5. ASSUME NEW s \in Sends PROVE SendIsOne(s)'
  <2>1. SendIsOne(s)
    BY DEF PathIsSound
  <2>2. now \in Nat /\ now' \in Nat /\ now <= now' /\ row[s].queuedAt \in Nat
    BY <1>1, RowFields
  <2>3. WorkIsCounted(s)'
    BY <1>2, <2>1, <2>2 DEF SendIsOne, WorkIsCounted
  <2>4. OneHotCall(s)' /\ RecordIsReal(s)'
    BY <1>2, <2>1 DEF SendIsOne, OneHotCall, RecordIsReal, Hot, Risky, Edge!ProviderAccepted
  <2>5. ASSUME NEW q \in Requests PROVE RequestIsTimely(s, q)' /\ AnswerStands(s, q)'
    <3>1. RequestIsTimely(s, q) /\ AnswerStands(s, q)
      BY <2>1 DEF SendIsOne
    <3>2. call[s][q].sentAt \in Nat
      BY CallFields
    <3>3. RequestIsTimely(s, q)'
      BY <1>2, <2>2, <3>1, <3>2 DEF RequestIsTimely, WorkEnd, Hot, Risky, Edge!ProviderAccepted
    <3>4. AnswerStands(s, q)'
      BY <1>2, <3>1 DEF AnswerStands, Edge!ProviderAccepted
    <3> QED BY <3>3, <3>4
  <2> QED BY <2>3, <2>4, <2>5 DEF SendIsOne
<1>6. worker' \in [Workers -> Worker] /\ \A v \in Workers : WorkerIsTimely(v)'
  BY <1>1, <1>2, WorkerRests, WorkersStayTimely
<1> QED BY <1>3, <1>4, <1>5, <1>6 DEF PathIsSound, CellIsSound

LEMMA PathStep == PathIsSound /\ [Next]_vars => PathIsSound'
<1> SUFFICES ASSUME PathIsSound, [Next]_vars PROVE PathIsSound'
  OBVIOUS
<1>1. ASSUME NEW s \in Sends, Outbox!QueueAgentEmail(s), UNCHANGED <<edgeVars, worker>>
      PROVE  PathIsSound'
  BY <1>1, QueueStep, WorkerRests, CellGoesOnKept
<1>2. ASSUME NEW w \in Workers, WorkerStep(w) PROVE PathIsSound'
  BY <1>2, WorkKeepsSound, ClaimKeepsSound, SendingKeepsSound DEF WorkerStep
<1>3. CASE Edge!EdgeStep /\ UNCHANGED <<cellVars, worker>>
  BY <1>3, EdgeKeepsSound
<1>4. CASE ProviderEvent
  <2>1. PICK s \in Sends, q \in Requests, e \in EventIds, class \in Outbox!EventClasses :
           Outbox!ApplyAgentEmailOutboundProviderEvent(e, <<s, q>>, class)
    BY <1>4 DEF ProviderEvent
  <2>2. Cell!Next /\ now' = now /\ \A z \in Sends : RowGoesOn(z)
    BY <2>1, EventStep
  <2>3. worker' = worker /\ UNCHANGED edgeVars
    BY <1>4 DEF ProviderEvent
  <2> QED BY <2>2, <2>3, WorkerRests, CellGoesOnKept
<1>5. CASE Outbox!AccountStep /\ UNCHANGED <<edgeVars, worker>>
  <2>1. Cell!Next /\ now' = now /\ row' = row
    BY <1>5, AccountRowsRest
  <2>2. \A z \in Sends : RowGoesOn(z)
    BY <2>1 DEF RowGoesOn
  <2>3. worker' = worker /\ UNCHANGED edgeVars
    BY <1>5
  <2> QED BY <2>1, <2>2, <2>3, WorkerRests, CellGoesOnKept
<1>6. CASE Tick \/ UNCHANGED vars
  BY <1>6, TimeKeepsSound
<1> QED BY <1>1, <1>2, <1>3, <1>4, <1>5, <1>6 DEF Next

LEMMA PathInit == Init => PathIsSound
<1> SUFFICES ASSUME Init PROVE PathIsSound
  OBVIOUS
<1>1. Cell!Init /\ CellIsSound
  BY SameCell, CellInit DEF Init
<1>2. now = 1 /\ row = [s \in Sends |-> Cell!AbsentRow]
  BY <1>1 DEF Cell!Init
<1>3. Adapter!InitEdge /\ Adapter!EdgeIsSound
  BY <1>2, SameEdge, EdgeInit DEF Init
<1>4. worker = [w \in Workers |-> NoWork] /\ NoWork \in Worker /\ NoWork.pc = "idle"
  BY DEF Init, NoWork, Worker, Pcs
<1>5. ASSUME NEW s \in Sends PROVE SendIsOne(s)
  <2>1. row[s] = Cell!AbsentRow
    BY <1>2
  <2>2. WorkIsCounted(s) /\ row[s].stamps = {} /\ row[s].msgid = NoMessageId /\ row[s].state = "absent"
    BY <1>2, <2>1, PathNumbers DEF WorkIsCounted, Cell!AbsentRow
  <2>3. \A q \in Requests : /\ call[s][q].phase = "idle" /\ call[s][q].answer = "none"
                            /\ provider[s][q] = "none"
    BY <1>3 DEF Adapter!InitEdge
  <2> QED BY <2>2, <2>3 DEF SendIsOne, OneHotCall, Hot, Risky, Edge!ProviderAccepted, RecordIsReal,
                            RequestIsTimely, AnswerStands
<1>6. \A w \in Workers : WorkerIsTimely(w)
  BY <1>4 DEF WorkerIsTimely
<1> QED BY <1>1, <1>3, <1>4, <1>5, <1>6 DEF PathIsSound, CellIsSound

-----------------------------------------------------------------------------
(* Theorems *)

\* The parts stay sound together: workers act only within the work span of their
\* claim, every provider call falls within one receipt lifetime of the first, and
\* what the cell records the provider did.
THEOREM SoundPath == Spec => []PathIsSound
BY PathInit, PathStep, PTL DEF Spec

\* Crashed and superseded workers, replays, lost answers and late requests never make
\* the provider take a second copy of a send.
THEOREM OneCopy == Spec => []AtMostOneCopy
<1>1. PathIsSound => AtMostOneCopy
  <2> SUFFICES ASSUME PathIsSound, NEW s \in Sends PROVE Cardinality(Taken(s)) <= 1
    BY DEF AtMostOneCopy
  <2>1. \A p, q \in Taken(s) : p = q
    BY DEF PathIsSound, SendIsOne, OneHotCall, Hot, Risky, Taken
  <2>2. CASE Taken(s) = {}
    BY <2>2, FS_EmptySet
  <2>3. CASE Taken(s) # {}
    <3>1. PICK q : Taken(s) = {q}
      BY <2>1, <2>3
    <3>2. Cardinality({q}) = 1
      BY FS_Singleton
    <3> QED BY <3>1, <3>2
  <2> QED BY <2>2, <2>3
<1> QED BY <1>1, SoundPath, PTL

\* What the cell records, and bills, as accepted is a message the provider took, under
\* the id it took it with.
THEOREM RealRecords == Spec => []RecordedSendsAreReal
<1>1. PathIsSound => RecordedSendsAreReal
  <2> SUFFICES ASSUME PathIsSound, NEW s \in Sends
               PROVE  /\ "accepted" \in row[s].stamps => \E q \in Taken(s) : row[s].msgid = <<s, q>>
                      /\ s \in usage => Taken(s) # {}
    BY DEF RecordedSendsAreReal
  <2>1. "accepted" \in row[s].stamps => \E q \in Taken(s) : row[s].msgid = <<s, q>>
    BY DEF PathIsSound, SendIsOne, RecordIsReal, Taken
  <2>2. s \in usage => "accepted" \in row[s].stamps
    BY DEF PathIsSound, Cell!Ledger, Cell!UsageMatchesAcceptance
  <2> QED BY <2>1, <2>2
<1> QED BY <1>1, SoundPath, PTL

\* No worker that starts, lags or loses its lease has a provider call open while the
\* account is frozen for a move.
THEOREM MovingAccountsMakeNoCalls == Spec => []NoProviderCallInMovingAccount
<1>1. PathIsSound => NoProviderCallInMovingAccount
  BY DEF PathIsSound, Cell!Ledger, Cell!NoProviderCallInMovingAccount,
     NoProviderCallInMovingAccount, Outbox!NoProviderCallInMovingAccount
<1> QED BY <1>1, SoundPath, PTL

-----------------------------------------------------------------------------
(* The refinement: how the rows move when the cell forgets nothing         *)

\* The request of the current claim of s was answered so.
Answered(s, answers) ==
    row[s].generation \in Requests /\ call[s][row[s].generation].answer \in answers

RowMoves(s) ==
    \/ row'[s] = row[s]
    \/ Cell!Queues(row[s], row'[s]) \/ Cell!Claims(row[s], row'[s])
    \/ Cell!Crosses(row[s], row'[s]) \/ Cell!Closes(row[s], row'[s])
    \/ Cell!Folds(row[s], row'[s])
    \/ Cell!Waits(row[s], row'[s])
    \/ /\ Cell!GivesUp(row[s], row'[s])
       /\ row[s].state = "claimed" \/ Answered(s, {"retryable", "rejected"})
    \/ Records(s)

\* Only an answered row bears an acceptance.
LEMMA RowSays ==
    ASSUME PathIsSound, NEW s \in Sends
    PROVE  /\ "accepted" \in row[s].stamps => row[s].state \in Cell!SentStates \cup Cell!FailedStates
           /\ row[s].state \in Cell!SentStates \cup {"bounced"} => "accepted" \in row[s].stamps
<1>1. RecordIsReal(s) /\ Cell!SoundRow(row[s])
  BY DEF PathIsSound, SendIsOne, Cell!SoundRows
<1>2. "accepted" \in row[s].stamps => row[s].msgid # NoMessageId
  <2>1. \A q \in Requests : <<s, q>> \in Sends \X Requests
    OBVIOUS
  <2>2. \A q \in Requests : <<s, q>> # NoMessageId
    BY <2>1, PathNumbers
  <2> QED BY <1>1, <2>2 DEF RecordIsReal
<1> QED BY <1>1, <1>2 DEF RecordIsReal, Cell!SoundRow, Cell!TableCheck, Cell!AnsweredRow

\* Work that has not crossed the boundary, or was refused, is quiet unless overtaken.
LEMMA OpenWorkIsQuiet ==
    ASSUME PathIsLogical, NEW s \in Sends, row[s].state \in {"absent", "queued", "claimed"}
    PROVE  Quiet(s) \/ Overtaken(s)
<1>1. "accepted" \notin row[s].stamps
  BY RowSays DEF PathIsLogical, Cell!SentStates, Cell!FailedStates
<1> QED BY <1>1 DEF PathIsLogical, SendIsLogical, Uncrossed

LEMMA GivenUpWasQuiet ==
    ASSUME PathIsLogical, NEW s \in Sends, Cell!GivesUp(row[s], row'[s]),
           row[s].state = "claimed" \/ Answered(s, {"retryable", "rejected"})
    PROVE  Quiet(s) \/ Overtaken(s)
<1>1. CASE row[s].state = "claimed"
  BY <1>1, OpenWorkIsQuiet
<1>2. CASE row[s].state # "claimed"
  <2>1. row[s].state = "provider_started" /\ row[s].generation # 0
        /\ call[s][row[s].generation].answer \in {"retryable", "rejected"}
    BY <1>2, PathNumbers DEF Cell!GivesUp, Cell!ActiveStates, Answered
  <2> QED BY <2>1 DEF PathIsLogical, SendIsLogical
<1> QED BY <1>1, <1>2

\* A row that comes to stand before the boundary was quiet unless overtaken.
LEMMA UncrossedGoesOn ==
    ASSUME PathIsLogical, NEW s \in Sends, RowMoves(s), Uncrossed(s)'
    PROVE  Quiet(s) \/ Overtaken(s)
<1>1. row'[s].state \in {"absent", "queued", "claimed", "canceled", "rejected", "failed"}
      /\ "accepted" \notin row'[s].stamps
  BY DEF Uncrossed
<1>2. CASE row'[s] = row[s]
  BY <1>1, <1>2 DEF PathIsLogical, SendIsLogical, Uncrossed
<1>3. CASE Cell!Queues(row[s], row'[s]) \/ Cell!Claims(row[s], row'[s]) \/ Cell!Closes(row[s], row'[s])
  <2>1. row[s].state \in {"absent", "queued", "claimed"}
    BY <1>1, <1>3 DEF Cell!Queues, Cell!Claims, Cell!Closes, Cell!ActiveStates
  <2> QED BY <2>1, OpenWorkIsQuiet
<1>4. CASE Cell!Crosses(row[s], row'[s]) \/ Cell!Waits(row[s], row'[s]) \/ Records(s)
  BY <1>1, <1>4 DEF Cell!Crosses, Cell!Waits, Records, Cell!Accepts
<1>5. CASE Cell!Folds(row[s], row'[s])
  <2>1. "accepted" \in row[s].stamps
    BY <1>5, RowSays DEF PathIsLogical, Cell!Folds
  <2> QED BY <1>1, <1>5, <2>1 DEF Cell!Folds, Cell!Accepted
<1>6. CASE /\ Cell!GivesUp(row[s], row'[s])
           /\ row[s].state = "claimed" \/ Answered(s, {"retryable", "rejected"})
  BY <1>6, GivenUpWasQuiet
<1> QED BY <1>2, <1>3, <1>4, <1>5, <1>6 DEF RowMoves

\* A refused claim stays refused, and a new one is unanswered.
LEMMA RefusalGoesOn ==
    ASSUME PathIsLogical, NEW s \in Sends, RowMoves(s),
           row'[s].state = "provider_started", row'[s].generation # 0,
           row'[s].generation \in Requests,
           call[s][row'[s].generation].answer \in {"retryable", "rejected"}
    PROVE  Quiet(s) \/ Overtaken(s)
<1>1. CASE row'[s] = row[s] \/ Cell!Waits(row[s], row'[s])
  BY <1>1 DEF PathIsLogical, SendIsLogical, Cell!Waits, Cell!Counts
<1>2. CASE Cell!Crosses(row[s], row'[s])
  BY <1>2, OpenWorkIsQuiet DEF Cell!Crosses
<1>3. CASE Cell!Claims(row[s], row'[s])
  <2> DEFINE q == row'[s].generation
  <2>1. q = row[s].generation + 1 /\ row[s].generation \in Nat
    BY <1>3, RowFields DEF Cell!Claims, PathIsLogical
  <2>2. call[s][q].phase # "idle" => q <= row[s].generation
    BY DEF PathIsLogical, PathIsSound, SendIsOne, RequestIsTimely
  <2>3. call[s][q].phase = "idle"
    BY <2>1, <2>2
  <2>4. call[s][q].answer = "none"
    BY <2>3 DEF PathIsLogical, SendIsLogical
  <2> QED BY <2>4
<1>4. CASE \/ Cell!Queues(row[s], row'[s]) \/ Cell!Closes(row[s], row'[s])
           \/ Cell!Folds(row[s], row'[s]) \/ Cell!GivesUp(row[s], row'[s]) \/ Records(s)
  <2>1. row'[s].state # "provider_started"
    BY <1>4 DEF Cell!Queues, Cell!Closes, Cell!Folds, Cell!GivesUp, Records, Cell!Accepts,
       Cell!SentStates, Cell!FailedStates
  <2> QED BY <2>1
<1> QED BY <1>1, <1>2, <1>3, <1>4 DEF RowMoves

LEMMA RowMovesLogically ==
    ASSUME PathIsLogical, PathIsSound', NEW s \in Sends, RowMoves(s), UNCHANGED edgeVars, now' = now
    PROVE  SendIsLogical(s)'
<1>1. UNCHANGED <<call, provider, now>>
  BY DEF edgeVars
<1>2. Quiet(s)' = Quiet(s) /\ Overtaken(s)' = Overtaken(s)
  BY <1>1 DEF Quiet, Hot, Fresh, Risky, Edge!ProviderAccepted, Overtaken
<1>3. Uncrossed(s)' => (Quiet(s) \/ Overtaken(s))'
  BY <1>2, UncrossedGoesOn
<1>4. row'[s].generation # 0 => row'[s].generation \in Requests
  <2>1. row'[s].generation \in Nat /\ row'[s].generation <= MaxAttempts
    BY DEF PathIsSound, SendIsOne, WorkIsCounted, Cell!TypeOK, Cell!Row
  <2> QED BY <2>1, PathNumbers
<1>5. row'[s].state = "provider_started" /\ row'[s].generation # 0
      /\ call'[s][row'[s].generation].answer \in {"retryable", "rejected"} => (Quiet(s) \/ Overtaken(s))'
  BY <1>1, <1>2, <1>4, RefusalGoesOn
<1>6. ASSUME NEW q \in Requests
      PROVE  call'[s][q].phase \notin {"refused", "answered"} => call'[s][q].answer = "none"
  BY <1>1 DEF PathIsLogical, SendIsLogical
<1> QED BY <1>3, <1>5, <1>6 DEF SendIsLogical

-----------------------------------------------------------------------------
(* The refinement: how the workers hold on to their claims                 *)

Holds(w) == worker[w].pc # "idle" /\ now <= worker[w].deadline

LEMMA HolderHasTheClaim ==
    ASSUME PathIsLogical, NEW w \in Workers, Holds(w)
    PROVE  LET r == row[worker[w].send] IN
           /\ worker[w].send \in Sends
           /\ r.state \in Cell!ActiveStates /\ r.claim = worker[w].gen
           /\ r.generation = worker[w].gen /\ now < r.lease /\ worker[w].deadline < r.lease
           /\ worker[w].pc \in {"started", "waiting"} => r.state = "provider_started"
<1> DEFINE s == worker[w].send
<1>1. s \in Sends
  BY ClaimWasIssued DEF PathIsLogical, Holds
<1>2. WorkerHolds(w) /\ worker[w] \in Worker
  BY DEF PathIsLogical, PathIsSound
<1>3. now \in Nat /\ row[s].lease \in Nat /\ worker[w].deadline \in Nat
  BY <1>1, <1>2, RowFields DEF PathIsLogical, Worker
<1> QED BY <1>1, <1>2, <1>3 DEF Holds, WorkerHolds, Cell!ActiveStates, Outbox!ActiveStates

\* The claim of v is left alone by the step.
ClaimRests(v) ==
    LET r == row[worker[v].send]
        u == row'[worker[v].send] IN
    /\ u.state \in Cell!ActiveStates /\ u.claim = r.claim /\ u.generation = r.generation
    /\ u.lease = r.lease
    /\ r.state = "provider_started" => u.state = "provider_started"

\* How workers go on that take up no new claim.
WorkerGoesOn(v) ==
    /\ WorkerKeeps(v)
    /\ worker'[v].pc # "idle" =>
          \/ worker'[v].pc = worker[v].pc
          \/ /\ worker[v].pc = "claimed" /\ worker'[v].pc = "started"
             /\ row'[worker[v].send].state = "provider_started"
    /\ Holds(v) /\ worker'[v].pc # "idle" => ClaimRests(v)

LEMMA HolderHolds ==
    ASSUME PathIsLogical, NEW v \in Workers, WorkerGoesOn(v), now' = now \/ now' = now + 1
    PROVE  WorkerHolds(v)'
<1> SUFFICES ASSUME worker'[v].pc # "idle", now' <= worker'[v].deadline
             PROVE  WorkerHolds(v)'
  BY DEF WorkerHolds
<1>1. /\ worker[v].pc # "idle" /\ worker'[v].send = worker[v].send
      /\ worker'[v].gen = worker[v].gen /\ worker'[v].deadline = worker[v].deadline
  BY DEF WorkerGoesOn, WorkerKeeps
<1>2. worker[v].send \in Sends /\ worker[v].deadline \in Nat
  BY <1>1, ClaimWasIssued DEF PathIsLogical, PathIsSound, Worker
<1>3. now \in Nat
  BY <1>2, RowFields DEF PathIsLogical
<1>4. Holds(v)
  BY <1>1, <1>2, <1>3 DEF Holds
<1>5. ClaimRests(v)
  BY <1>1, <1>4 DEF WorkerGoesOn
<1>6. PICK r : r = row[worker[v].send]
  OBVIOUS
<1>7. PICK u : u = row'[worker[v].send]
  OBVIOUS
<1>8. /\ r.state \in Cell!ActiveStates /\ r.claim = worker[v].gen
      /\ r.generation = worker[v].gen /\ worker[v].deadline < r.lease
      /\ worker[v].pc \in {"started", "waiting"} => r.state = "provider_started"
  BY <1>4, <1>6, HolderHasTheClaim
<1>9. /\ u.state \in Cell!ActiveStates /\ u.claim = r.claim /\ u.generation = r.generation
      /\ u.lease = r.lease
      /\ r.state = "provider_started" => u.state = "provider_started"
  BY <1>5, <1>6, <1>7 DEF ClaimRests
<1>10. worker'[v].pc \in {"started", "waiting"} => u.state = "provider_started"
  BY <1>1, <1>7, <1>8, <1>9 DEF WorkerGoesOn
<1>11. row'[worker'[v].send] = u
  BY <1>1, <1>7
<1> QED BY <1>1, <1>8, <1>9, <1>10, <1>11 DEF WorkerHolds, Cell!ActiveStates, Outbox!ActiveStates

LEMMA ClaimsStayApart ==
    ASSUME PathIsLogical, \A v \in Workers : WorkerKeeps(v)
    PROVE  ClaimsAreApart'
<1> SUFFICES ASSUME NEW v \in Workers, NEW w \in Workers,
                    worker'[v].pc # "idle", worker'[w].pc # "idle",
                    worker'[v].send = worker'[w].send, worker'[v].gen = worker'[w].gen
             PROVE  v = w
  BY DEF ClaimsAreApart
<1>1. /\ worker[v].pc # "idle" /\ worker[w].pc # "idle"
      /\ worker[v].send = worker[w].send /\ worker[v].gen = worker[w].gen
  BY DEF WorkerKeeps
<1> QED BY <1>1 DEF PathIsLogical, ClaimsAreApart

LEMMA CellGoesOnLogically ==
    ASSUME PathIsLogical, PathIsSound', UNCHANGED edgeVars, now' = now,
           \A s \in Sends : RowMoves(s), \A v \in Workers : WorkerGoesOn(v)
    PROVE  PathIsLogical'
<1>1. \A s \in Sends : SendIsLogical(s)'
  BY RowMovesLogically
<1>2. \A v \in Workers : WorkerHolds(v)'
  BY HolderHolds
<1>3. ClaimsAreApart'
  BY ClaimsStayApart DEF WorkerGoesOn
<1>4. ASSUME NEW v \in Workers PROVE RequestIsOwn(v)'
  <2> SUFFICES ASSUME worker'[v].pc \in {"claimed", "started"}
               PROVE  call'[worker'[v].send][worker'[v].gen].phase = "idle"
    BY DEF RequestIsOwn
  <2>1. /\ worker[v].pc \in {"claimed", "started"}
        /\ worker'[v].send = worker[v].send /\ worker'[v].gen = worker[v].gen
    BY DEF WorkerGoesOn, WorkerKeeps
  <2>2. call' = call
    BY DEF edgeVars
  <2> QED BY <2>1, <2>2 DEF PathIsLogical, RequestIsOwn
<1> QED BY <1>1, <1>2, <1>3, <1>4 DEF PathIsLogical

\* A row nobody holds within its deadline is left to others.
LEMMA UnheldRow ==
    ASSUME PathIsLogical, NEW v \in Workers, Holds(v), row'[worker[v].send] = row[worker[v].send]
    PROVE  ClaimRests(v)
BY HolderHasTheClaim DEF ClaimRests

\* A worker that ends its work on the row it claimed disturbs no other.
LEMMA OthersHold ==
    ASSUME PathIsLogical, NEW w \in Workers, worker[w].pc # "idle", Idle(w),
           Cell!Alone(worker[w].send), row[worker[w].send].generation = worker[w].gen
    PROVE  \A v \in Workers : WorkerGoesOn(v)
<1> SUFFICES ASSUME NEW v \in Workers PROVE WorkerGoesOn(v)
  OBVIOUS
<1>1. \A x \in Workers : WorkerKeeps(x)
  BY WorkerIdles DEF PathIsLogical
<1>2. worker'[w].pc = "idle" /\ \A x \in Workers \ {w} : worker'[x] = worker[x]
  BY DEF Idle, NoWork, PathIsLogical, PathIsSound
<1>3. ASSUME Holds(v), worker'[v].pc # "idle" PROVE ClaimRests(v)
  <2>1. v # w /\ worker[v].pc # "idle"
    BY <1>2, <1>3 DEF Holds
  <2>2. worker[v].send # worker[w].send
    BY <1>3, <2>1, HolderHasTheClaim DEF PathIsLogical, ClaimsAreApart
  <2>3. row'[worker[v].send] = row[worker[v].send]
    BY <1>3, <2>2, HolderHasTheClaim DEF Cell!Alone
  <2> QED BY <1>3, <2>3, UnheldRow
<1> QED BY <1>1, <1>2, <1>3 DEF WorkerGoesOn

\* Neither do transactions on rows without a live claim.
LEMMA LiveClaimsRest ==
    ASSUME PathIsLogical, worker' = worker,
           \A s \in Sends : \/ row'[s] = row[s] \/ row[s].state \notin Cell!ActiveStates
                            \/ row[s].lease <= now
    PROVE  \A v \in Workers : WorkerGoesOn(v)
<1> SUFFICES ASSUME NEW v \in Workers PROVE WorkerGoesOn(v)
  OBVIOUS
<1>1. ASSUME Holds(v) PROVE ClaimRests(v)
  <2> DEFINE s == worker[v].send
  <2>1. s \in Sends /\ row[s].state \in Cell!ActiveStates /\ now < row[s].lease
    BY <1>1, HolderHasTheClaim
  <2>2. now \in Nat /\ row[s].lease \in Nat
    BY <2>1, RowFields DEF PathIsLogical
  <2>3. row'[s] = row[s]
    BY <2>1, <2>2
  <2> QED BY <1>1, <2>3, UnheldRow
<1> QED BY <1>1 DEF WorkerGoesOn, WorkerKeeps

-----------------------------------------------------------------------------
(* The refinement: the steps of a worker                                   *)

\* Where only the row of s is written, the others stay.
LEMMA AloneMoves ==
    ASSUME NEW s \in Sends, Cell!Alone(s), RowMoves(s)
    PROVE  \A z \in Sends : RowMoves(z)
BY DEF Cell!Alone, RowMoves

LEMMA GenerationIsRequest ==
    ASSUME PathIsSound, NEW w \in Workers, worker[w].pc # "idle"
    PROVE  /\ worker[w].send \in Sends /\ worker[w].gen \in Requests
           /\ worker[w].gen \in 1 .. row[worker[w].send].generation
<1>1. worker[w].send \in Sends /\ worker[w].gen \in 1 .. row[worker[w].send].generation
  BY ClaimWasIssued
<1>2. row[worker[w].send].generation \in Nat /\ row[worker[w].send].generation <= MaxAttempts
  BY <1>1, RowFields DEF PathIsSound, SendIsOne, WorkIsCounted
<1> QED BY <1>1, <1>2, PathNumbers

\* The steps by which a worker is done with its claim.
LEMMA EndingMoves ==
    ASSUME PathIsLogical, NEW w \in Workers,
           \/ WorkerIsRefused(w) \/ WorkerIsRateLimited(w)
           \/ WorkerFindsInvalid(w) \/ WorkerSettles(w)
    PROVE  /\ worker[w].pc # "idle" /\ Idle(w) /\ UNCHANGED edgeVars /\ now' = now
           /\ Cell!Alone(worker[w].send) /\ row[worker[w].send].generation = worker[w].gen
           /\ \A z \in Sends : RowMoves(z)
<1> DEFINE s == worker[w].send
           g == worker[w].gen
<1>1. worker[w].pc # "idle" /\ Idle(w) /\ UNCHANGED edgeVars
  BY DEF WorkerIsRefused, WorkerIsRateLimited, WorkerFindsInvalid, WorkerSettles, Working
<1>2. s \in Sends /\ g \in 1 .. row[s].generation /\ g \in Requests /\ PathIsSound
  BY <1>1, GenerationIsRequest DEF PathIsLogical
<1>3. CASE WorkerIsRefused(w)
  <2>1. Outbox!StartRefused(s, g)
    BY <1>3 DEF WorkerIsRefused
  <2> HIDE DEF s, g
  <2>2. /\ now' = now /\ Cell!Alone(s) /\ Cell!Closes(row[s], row'[s]) /\ row[s].generation = g
    BY <1>2, <2>1, RefusalStep
  <2>3. \A z \in Sends : RowMoves(z)
    BY <1>2, <2>2, AloneMoves DEF RowMoves
  <2> QED BY <1>1, <2>2, <2>3 DEF s, g
<1>4. CASE WorkerIsRateLimited(w)
  <2>1. PICK retryAt \in now + 1 .. now + MaxRetryDelay :
           Outbox!RetryAgentEmailOutbound(s, g, FALSE, retryAt)
    BY <1>4 DEF WorkerIsRateLimited
  <2>2. row[s].state = "claimed"
    BY <1>4 DEF WorkerIsRateLimited
  <2> HIDE DEF s, g
  <2>3. /\ now' = now /\ Cell!Alone(s) /\ row[s].generation = g
        /\ Cell!Closes(row[s], row'[s]) \/ Cell!GivesUp(row[s], row'[s])
    BY <1>2, <2>1, RetryStep
  <2>4. \A z \in Sends : RowMoves(z)
    BY <1>2, <2>2, <2>3, AloneMoves DEF RowMoves
  <2> QED BY <1>1, <2>3, <2>4 DEF s, g
<1>5. CASE WorkerFindsInvalid(w)
  <2>1. Outbox!MarkAgentEmailOutboundAmbiguous(s, g)
    BY <1>5 DEF WorkerFindsInvalid
  <2> HIDE DEF s, g
  <2>2. /\ now' = now /\ Cell!Alone(s) /\ Cell!Closes(row[s], row'[s]) /\ row[s].generation = g
    BY <1>2, <2>1, AmbiguityStep
  <2>3. \A z \in Sends : RowMoves(z)
    BY <1>2, <2>2, AloneMoves DEF RowMoves
  <2> QED BY <1>1, <2>2, <2>3 DEF s, g
<1>6. CASE WorkerSettles(w)
  <2>1. PICK answer \in Heard(w) : Settlement(w, answer)
    BY <1>6 DEF WorkerSettles
  <2>2. /\ now' = now /\ answer \in {"accepted", "rejected", "ambiguous", "retryable"}
        /\ Settles(s, g, answer)
    BY <1>2, <1>6, <2>1, SettlementStep DEF WorkerSettles
  <2> HIDE DEF s, g
  <2>3. Cell!Alone(s) /\ row[s].generation = g
    BY <2>2 DEF Settles
  <2>4. answer # "ambiguous" => Answered(s, {answer})
    BY <1>2, <2>2 DEF Settles, Answered
  <2>5. RowMoves(s)
    <3>1. CASE answer = "accepted"
      BY <2>2, <2>4, <3>1 DEF Settles, RowMoves
    <3>2. CASE answer = "ambiguous"
      BY <2>2, <3>2 DEF Settles, RowMoves
    <3>3. CASE answer \in {"rejected", "retryable"}
      <4>1. Answered(s, {"retryable", "rejected"})
        BY <2>4, <3>3 DEF Answered
      <4>2. Cell!Closes(row[s], row'[s]) \/ Cell!GivesUp(row[s], row'[s])
        BY <2>2, <3>3 DEF Settles
      <4> QED BY <4>1, <4>2 DEF RowMoves
    <3> QED BY <2>2, <3>1, <3>2, <3>3
  <2>6. \A z \in Sends : RowMoves(z)
    BY <1>2, <2>3, <2>5, AloneMoves
  <2> QED BY <1>1, <2>2, <2>3, <2>6 DEF s, g
<1> QED BY <1>3, <1>4, <1>5, <1>6

\* The steps of a worker on its claim, but for the sending.
LEMMA WorkKeepsLogical ==
    ASSUME PathIsLogical, PathIsSound', NEW w \in Workers,
           \/ WorkerIsRefused(w) \/ WorkerStarts(w) \/ WorkerReplays(w)
           \/ WorkerIsRateLimited(w) \/ WorkerFindsInvalid(w)
           \/ WorkerSettles(w) \/ WorkerDrops(w) \/ WorkerReconciles(w)
    PROVE  PathIsLogical' /\ UNCHANGED edgeVars /\ \A z \in Sends : RowMoves(z)
<1> DEFINE s == worker[w].send
           g == worker[w].gen
<1>1. PathIsSound /\ worker \in [Workers -> Worker] /\ NoWork.pc = "idle"
  BY DEF PathIsLogical, PathIsSound, NoWork
<1>2. CASE WorkerIsRefused(w) \/ WorkerIsRateLimited(w) \/ WorkerFindsInvalid(w) \/ WorkerSettles(w)
  BY <1>2, EndingMoves, OthersHold, CellGoesOnLogically
<1>3. CASE WorkerDrops(w)
  <2>1. worker[w].pc # "idle" /\ Idle(w) /\ UNCHANGED <<cellVars, edgeVars, now>>
    BY <1>3 DEF WorkerDrops
  <2>2. row' = row /\ now' = now /\ UNCHANGED edgeVars
    BY <2>1 DEF cellVars
  <2>3. \A v \in Workers : WorkerKeeps(v) /\ (worker'[v].pc = "idle" \/ worker'[v] = worker[v])
    BY <1>1, <2>1, WorkerIdles DEF Idle
  <2>4. \A v \in Workers : WorkerGoesOn(v)
    BY <2>2, <2>3, UnheldRow DEF WorkerGoesOn
  <2>5. \A z \in Sends : RowMoves(z)
    BY <2>2 DEF RowMoves
  <2> QED BY <2>2, <2>4, <2>5, CellGoesOnLogically
<1>4. CASE WorkerReconciles(w)
  <2>1. now' = now /\ worker' = worker /\ UNCHANGED edgeVars
        /\ \A z \in Sends : \/ row'[z] = row[z]
                            \/ /\ Cell!Closes(row[z], row'[z])
                               /\ row[z].state = "queued" \/ row[z].lease <= now
    BY <1>1, <1>4, ReconcileStep DEF WorkerReconciles
  <2>2. \A z \in Sends : RowMoves(z)
    BY <2>1 DEF RowMoves
  <2>3. \A v \in Workers : WorkerGoesOn(v)
    BY <2>1, LiveClaimsRest DEF Cell!ActiveStates
  <2> QED BY <2>1, <2>2, <2>3, CellGoesOnLogically
<1>5. CASE WorkerStarts(w) \/ WorkerReplays(w)
  <2> DEFINE h == [worker[w] EXCEPT !.pc = "started"]
  <2>1. /\ worker[w].pc = "claimed" /\ now <= worker[w].deadline /\ Goes(w, "started")
        /\ UNCHANGED edgeVars
    BY <1>5 DEF WorkerStarts, WorkerReplays, Working
  <2>2. s \in Sends /\ g \in 1 .. row[s].generation
    BY <1>1, <2>1, ClaimWasIssued
  <2>3. /\ now' = now /\ Cell!Alone(s) /\ row'[s].state = "provider_started"
        /\ row'[s] = row[s] \/ Cell!Crosses(row[s], row'[s])
    <3>1. CASE WorkerStarts(w)
      <4>1. Outbox!StartCrosses(s, g)
        BY <3>1 DEF WorkerStarts
      <4> HIDE DEF s, g
      <4>2. now' = now /\ Cell!Alone(s) /\ Cell!Crosses(row[s], row'[s])
        BY <1>1, <2>2, <4>1, CrossingStep
      <4> QED BY <4>2 DEF Cell!Crosses
    <3>2. CASE WorkerReplays(w)
      BY <3>2 DEF WorkerReplays, cellVars, Cell!Alone
    <3> QED BY <1>5, <3>1, <3>2
  <2>4. \A v \in Workers : WorkerKeeps(v)
    BY <1>1, <2>1, WorkerGoes DEF Pcs
  <2>5. worker'[w].pc = "started" /\ \A v \in Workers \ {w} : worker'[v] = worker[v]
    <3>1. worker' = [worker EXCEPT ![w] = h] /\ h.pc = "started"
      BY <1>1, <2>1 DEF Goes, Worker
    <3> HIDE DEF h
    <3> QED BY <1>1, <3>1
  <2>6. \A z \in Sends : RowMoves(z)
    <3>1. RowMoves(s)
      BY <2>3 DEF RowMoves
    <3> HIDE DEF s
    <3> QED BY <2>2, <2>3, <3>1, AloneMoves
  <2>7. ASSUME NEW v \in Workers, Holds(v) PROVE ClaimRests(v)
    <3>1. worker[v].send \in Sends
      BY <2>7, HolderHasTheClaim
    <3>2. CASE row'[worker[v].send] = row[worker[v].send]
      BY <2>7, <3>2, UnheldRow
    <3>3. CASE row'[worker[v].send] # row[worker[v].send]
      <4>1. worker[v].send = s
        BY <2>3, <3>1, <3>3 DEF Cell!Alone
      <4>2. Cell!Crosses(row[s], row'[s])
        BY <2>3, <3>3, <4>1
      <4>3. /\ row'[s].state \in Cell!ActiveStates /\ row'[s].claim = row[s].claim
            /\ row'[s].generation = row[s].generation /\ row'[s].lease = row[s].lease
        BY <2>3, <4>2 DEF Cell!Crosses, Cell!Counts, Cell!ActiveStates
      <4> QED BY <2>3, <4>1, <4>3 DEF ClaimRests
    <3> QED BY <3>2, <3>3
  <2>8. ASSUME NEW v \in Workers PROVE WorkerGoesOn(v)
    <3>1. \/ worker'[v].pc = worker[v].pc
          \/ /\ worker[v].pc = "claimed" /\ worker'[v].pc = "started"
             /\ row'[worker[v].send].state = "provider_started"
      BY <2>1, <2>3, <2>5
    <3> QED BY <2>4, <2>7, <3>1 DEF WorkerGoesOn
  <2> QED BY <2>1, <2>3, <2>6, <2>8, CellGoesOnLogically
<1> QED BY <1>2, <1>3, <1>4, <1>5

\* The steps of the cell that no worker takes.
LEMMA CellKeepsLogical ==
    ASSUME PathIsLogical, PathIsSound', UNCHANGED <<edgeVars, worker>>,
           \/ \E s \in Sends : Outbox!QueueAgentEmail(s)
           \/ Outbox!AccountStep \/ ProviderEvent
    PROVE  PathIsLogical' /\ \A z \in Sends : RowMoves(z)
<1>1. PathIsSound /\ worker' = worker /\ UNCHANGED edgeVars
  BY DEF PathIsLogical
<1>2. now' = now /\ \A z \in Sends : \/ row'[z] = row[z] \/ Cell!Queues(row[z], row'[z])
                                     \/ Cell!Folds(row[z], row'[z])
  <2>1. ASSUME NEW s \in Sends, Outbox!QueueAgentEmail(s)
        PROVE  now' = now /\ \A z \in Sends : row'[z] = row[z] \/ Cell!Queues(row[z], row'[z])
    <3>1. Cell!QueueAgentEmail(s)
      BY <2>1, SameCell
    <3>2. Cell!Alone(s) /\ Cell!Queues(row[s], row'[s])
      BY <1>1, <3>1, CellAssumption, Cell!QueueRow DEF Cell!QueueRow, PathIsSound
    <3> QED BY <3>1, <3>2 DEF Cell!Alone, Cell!QueueAgentEmail
  <2>2. ASSUME Outbox!AccountStep PROVE now' = now /\ row' = row
    BY <2>2, AccountRowsRest
  <2>3. ASSUME ProviderEvent
        PROVE  now' = now /\ \A z \in Sends : row'[z] = row[z] \/ Cell!Folds(row[z], row'[z])
    <3>1. PICK s \in Sends, q \in Requests, e \in EventIds, class \in Outbox!EventClasses :
             Outbox!ApplyAgentEmailOutboundProviderEvent(e, <<s, q>>, class)
      BY <2>3 DEF ProviderEvent
    <3> QED BY <1>1, <3>1, EventStep
  <2> QED BY <2>1, <2>2, <2>3
<1>3. \A z \in Sends : RowMoves(z)
  BY <1>2 DEF RowMoves
<1>4. \A z \in Sends : row'[z] = row[z] \/ row[z].state \notin Cell!ActiveStates
  BY <1>2 DEF Cell!Queues, Cell!Folds, Cell!ActiveStates, Cell!SentStates
<1>5. \A v \in Workers : WorkerGoesOn(v)
  BY <1>1, <1>4, LiveClaimsRest
<1> QED BY <1>1, <1>2, <1>3, <1>5, CellGoesOnLogically

\* A claim is taken up while no one holds its row, and its request is yet to be signed.
LEMMA ClaimKeepsLogical ==
    ASSUME PathIsLogical, PathIsSound', NEW w \in Workers, NEW s \in Sends, WorkerClaims(w, s)
    PROVE  PathIsLogical' /\ UNCHANGED edgeVars /\ \A z \in Sends : RowMoves(z)
<1> DEFINE h == [pc |-> "claimed", send |-> s, gen |-> row[s].generation + 1,
                 deadline |-> now + BatchTimeout]
<1>1. PathIsSound /\ worker \in [Workers -> Worker] /\ UNCHANGED edgeVars
  BY DEF PathIsLogical, PathIsSound, WorkerClaims
<1>2. now' = now /\ Cell!Alone(s) /\ Cell!Claims(row[s], row'[s])
  BY <1>1, ClaimStep DEF WorkerClaims
<1>3. /\ row[s].generation \in Nat /\ now \in Nat /\ BatchTimeout \in Nat /\ LeaseDuration \in Nat
      /\ row[s].lease \in Nat /\ BatchTimeout < LeaseDuration
  BY <1>1, PathNumbers, RowFields, PipelineAssumption
<1>4. worker' = [worker EXCEPT ![w] = h] /\ worker[w].pc = "idle"
  BY DEF WorkerClaims
<1>5. h.pc = "claimed" /\ h.send = s /\ h.gen = row[s].generation + 1 /\ h.deadline = now + BatchTimeout
  OBVIOUS
<1> HIDE DEF h
<1>6. worker'[w] = h /\ \A v \in Workers \ {w} : worker'[v] = worker[v]
  BY <1>1, <1>4
<1>7. \A z \in Sends : RowMoves(z)
  BY <1>2, AloneMoves DEF RowMoves
<1>8. ASSUME NEW v \in Workers \ {w} PROVE WorkerHolds(v)' /\ WorkerKeeps(v)
  <2>1. WorkerKeeps(v) /\ worker'[v] = worker[v]
    BY <1>6 DEF WorkerKeeps
  <2>2. ASSUME Holds(v) PROVE ClaimRests(v)
    <3>1. worker[v].send \in Sends /\ row[worker[v].send].state \in Cell!ActiveStates
          /\ now < row[worker[v].send].lease
      BY <2>2, HolderHasTheClaim
    <3>2. worker[v].send # s
      BY <1>2, <1>3, <3>1 DEF Cell!Claims, Cell!ActiveStates
    <3> QED BY <1>2, <2>2, <3>1, <3>2, UnheldRow DEF Cell!Alone
  <2>3. WorkerGoesOn(v)
    BY <2>1, <2>2 DEF WorkerGoesOn
  <2> QED BY <1>2, <2>1, <2>3, HolderHolds
<1>9. WorkerHolds(w)'
  <2>1. PICK u : u = row'[s]
    OBVIOUS
  <2>2. u.state \in Cell!ActiveStates /\ u.claim = h.gen /\ u.generation = h.gen
        /\ u.lease = now + LeaseDuration
    BY <1>2, <1>5, <2>1 DEF Cell!Claims
  <2>3. h.deadline < u.lease
    BY <1>3, <1>5, <2>2
  <2> QED BY <1>5, <1>6, <2>1, <2>2, <2>3 DEF WorkerHolds, Cell!ActiveStates, Outbox!ActiveStates
<1>10. ASSUME NEW v \in Workers \ {w}, worker[v].pc # "idle", worker[v].send = s
       PROVE  worker[v].gen # h.gen
  <2>1. worker[v].gen \in 1 .. row[s].generation
    BY <1>1, <1>10, ClaimWasIssued
  <2> QED BY <1>3, <1>5, <2>1
<1>11. ClaimsAreApart'
  <2> SUFFICES ASSUME NEW v \in Workers, NEW x \in Workers,
                      worker'[v].pc # "idle", worker'[x].pc # "idle",
                      worker'[v].send = worker'[x].send, worker'[v].gen = worker'[x].gen
               PROVE  v = x
    BY DEF ClaimsAreApart
  <2>1. CASE v # w /\ x # w
    BY <1>6, <2>1 DEF PathIsLogical, ClaimsAreApart
  <2> QED BY <1>5, <1>6, <1>10, <2>1
<1>12. ASSUME NEW v \in Workers PROVE RequestIsOwn(v)'
  <2>1. call' = call
    BY <1>1 DEF edgeVars
  <2>2. CASE v # w
    BY <1>6, <2>1, <2>2 DEF PathIsLogical, RequestIsOwn
  <2>3. CASE v = w
    <3>1. h.gen \in Requests
      <4>1. row[s].generation = row[s].attempts /\ row[s].attempts < MaxAttempts
        BY <1>1, <1>2 DEF PathIsSound, SendIsOne, WorkIsCounted, Cell!Claims
      <4> QED BY <1>3, <1>5, <4>1, PathNumbers
    <3>2. call[s][h.gen].phase # "idle" => h.gen <= row[s].generation
      BY <1>1, <3>1 DEF PathIsSound, SendIsOne, RequestIsTimely
    <3>3. call[s][h.gen].phase = "idle"
      BY <1>3, <1>5, <3>2
    <3> QED BY <1>5, <1>6, <2>1, <2>3, <3>3 DEF RequestIsOwn
  <2> QED BY <2>2, <2>3
<1>13. \A z \in Sends : SendIsLogical(z)'
  BY <1>1, <1>2, <1>7, RowMovesLogically
<1> QED BY <1>1, <1>7, <1>8, <1>9, <1>11, <1>12, <1>13 DEF PathIsLogical

-----------------------------------------------------------------------------
(* The refinement: the steps of the edge                                   *)

\* A refusal that the receipt or the provider tells is true of every call of the send,
\* and no other request has its call before it.
LEMMA ToldRefusalIsTrue ==
    ASSUME PathIsSound, NEW s \in Sends, NEW q \in Requests, Adapter!Tells(s, q),
           call'[s][q].answer \in {"retryable", "rejected"}
    PROVE  NothingTaken(s) /\ \A p \in Requests \ {q} : ~ Hot(s, p)
<1> SUFFICES ASSUME NEW p \in Requests, Hot(s, p), p # q \/ Risky(s, p) PROVE FALSE
  BY DEF NothingTaken, Hot
<1>2. Hot(s, p)
  OBVIOUS
<1>1. call[s][p].calledAt + TTL <= now
  <2>1. CASE Risky(s, p)
    BY <2>1 DEF Adapter!Tells, Adapter!AnswerIsTrue, Adapter!Risky, Adapter!ProviderAccepted,
         Risky, Edge!ProviderAccepted
  <2>2. CASE p # q
    <3>1. ~ (call[s][p].calledAt + TTL > now)
      BY <1>2, <2>2 DEF Adapter!Tells, Adapter!OthersAreOver, Adapter!OpenCall, Hot, Risky,
         Adapter!Risky, Adapter!ProviderAccepted, Edge!ProviderAccepted
    <3>2. now \in Nat /\ call[s][p].calledAt \in Nat /\ TTL \in Nat
      BY PathNumbers, RowFields, CallFields
    <3> QED BY <3>1, <3>2
  <2> QED BY <2>1, <2>2
<1>3. /\ now \in Nat /\ call[s][q].sentAt \in Nat /\ call[s][p].calledAt \in Nat
      /\ Window \in Nat /\ TTL \in Nat
  BY PathNumbers, RowFields, CallFields
<1>4. CASE Adapter!Delivered(s, q)
  <2>1. now <= call[s][q].sentAt + Window /\ call[s][q].phase # "idle"
    BY <1>4 DEF Adapter!Delivered
  <2>2. call[s][q].sentAt + Window < call[s][p].calledAt + TTL
    BY <1>2, <2>1, HotCallIsRecent
  <2> QED BY ONLY <1>1, <1>3, <2>1, <2>2
<1>5. CASE call[s][q].phase = "sending" /\ Adapter!OpenCall(s, q)
  <2>1. Hot(s, q)
    BY <1>5 DEF Hot
  <2>2. p = q
    BY <1>2, <2>1 DEF PathIsSound, SendIsOne, OneHotCall
  <2>3. call[s][q].calledAt + TTL > now
    BY <1>5 DEF Adapter!OpenCall
  <2> QED BY ONLY <1>1, <1>3, <2>2, <2>3
<1> QED BY <1>4, <1>5 DEF Adapter!Tells

\* A request of a send is signed for its current claim.
SignsOwn(s, q) == /\ Adapter!Signs(s, q) /\ q = row[s].generation
                  /\ row[s].state = "provider_started" /\ now < row[s].lease

\* What may become of a request in a step when the cell forgets nothing.
RequestMoves(s, q) ==
    \/ Adapter!Calls(s, q) \/ Adapter!Moves(s, q) \/ Adapter!Declines(s, q)
    \/ Adapter!Tells(s, q) \/ Adapter!Resolves(s, q) \/ SignsOwn(s, q)

\* An answered request says no more, and a request once signed keeps its time.
LEMMA AnsweredRests ==
    ASSUME PathIsLogical, NEW s \in Sends, NEW q \in Requests, RequestMoves(s, q) \/ Adapter!Stays(s, q)
    PROVE  /\ call[s][q].phase \in {"refused", "answered"} => call'[s][q] = call[s][q]
           /\ call[s][q].phase # "idle" =>
                 call'[s][q].phase # "idle" /\ call'[s][q].sentAt = call[s][q].sentAt
           /\ call[s][q].answer # "none" => call'[s][q] = call[s][q]
           /\ call'[s][q].phase \notin {"refused", "answered"} => call'[s][q].answer = "none"
<1>1. call[s][q].phase \notin {"refused", "answered"} => call[s][q].answer = "none"
  BY DEF PathIsLogical, SendIsLogical
<1>2. call[s][q].phase \in {"refused", "answered"} => call'[s][q] = call[s][q]
  BY DEF RequestMoves, SignsOwn, Adapter!Stays, Adapter!Calls, Adapter!Moves, Adapter!Declines,
     Adapter!Tells, Adapter!Resolves, Adapter!Signs, Adapter!Delivered
<1>3. call[s][q].phase # "idle" =>
        call'[s][q].phase # "idle" /\ call'[s][q].sentAt = call[s][q].sentAt
  BY DEF RequestMoves, SignsOwn, Adapter!Stays, Adapter!Calls, Adapter!Moves, Adapter!Declines,
     Adapter!Tells, Adapter!Resolves, Adapter!Signs, Adapter!Keeps
<1>4. call'[s][q].phase \notin {"refused", "answered"} => call'[s][q].answer = "none"
  BY <1>1 DEF RequestMoves, SignsOwn, Adapter!Stays, Adapter!Calls, Adapter!Moves,
     Adapter!Declines, Adapter!Tells, Adapter!Resolves, Adapter!Signs, Adapter!Silent,
     Adapter!Delivered
<1> QED BY <1>1, <1>2, <1>3, <1>4

\* What was overtaken stays so.
LEMMA OvertakenStays ==
    ASSUME PathIsLogical, NEW s \in Sends, Overtaken(s),
           \A p \in Requests : RequestMoves(s, p) \/ Adapter!Stays(s, p)
    PROVE  Overtaken(s)'
<1>1. PICK p \in Requests, q \in Requests :
        /\ q < p /\ call[s][q].phase # "idle"
        /\ call[s][p].answer \in {"retryable", "rejected"}
        /\ call[s][p].phase = "refused" \/ call[s][p].sentAt <= call[s][q].sentAt + Window
  BY DEF Overtaken
<1>2. call'[s][p] = call[s][p]
  BY <1>1, AnsweredRests
<1>3. call'[s][q].phase # "idle" /\ call'[s][q].sentAt = call[s][q].sentAt
  BY <1>1, AnsweredRests
<1>4. /\ q < p /\ call'[s][q].phase # "idle"
      /\ call'[s][p].answer \in {"retryable", "rejected"}
      /\ call'[s][p].phase = "refused" \/ call'[s][p].sentAt <= call'[s][q].sentAt + Window
  BY <1>1, <1>2, <1>3
<1> QED BY <1>4 DEF Overtaken

\* A quiet send stays quiet, and hears no refusal, until it signs another request.
LEMMA QuietStays ==
    ASSUME PathIsLogical, NEW s \in Sends, Quiet(s), now' = now,
           \A p \in Requests : (RequestMoves(s, p) \/ Adapter!Stays(s, p)) /\ ~ SignsOwn(s, p)
    PROVE  Quiet(s)' /\ (Overtaken(s)' => Overtaken(s))
<1>1. ASSUME NEW p \in Requests
      PROVE  /\ ~ Hot(s, p)' /\ ~ Fresh(s, p)'
             /\ call'[s][p].answer \in {"retryable", "rejected"} => call'[s][p] = call[s][p]
             /\ call'[s][p].phase # "idle" =>
                   call[s][p].phase # "idle" /\ call'[s][p].sentAt = call[s][p].sentAt
  <2>1. /\ call[s][p].phase # "sending" /\ provider[s][p] # "pending"
        /\ ~ Edge!ProviderAccepted(s, p) /\ ~ Adapter!Delivered(s, p)
    BY DEF Quiet, Hot, Risky, Fresh, Adapter!Delivered
  <2>2. CASE Adapter!Stays(s, p)
    BY <2>1, <2>2 DEF Adapter!Stays, Hot, Risky, Fresh, Edge!ProviderAccepted, Adapter!Delivered
  <2>3. CASE Adapter!Moves(s, p)
    <3>1. call[s][p].answer = "none"
      BY <2>3 DEF Adapter!Moves, PathIsLogical, SendIsLogical
    <3> QED BY <2>1, <2>3, <3>1 DEF Adapter!Moves, Adapter!Keeps, Adapter!Silent, Hot, Risky, Fresh,
            Edge!ProviderAccepted
  <2>4. CASE Adapter!Declines(s, p)
    BY <2>1, <2>4 DEF Adapter!Declines, Adapter!Keeps, Hot, Risky, Fresh, Edge!ProviderAccepted
  <2>5. CASE Adapter!Tells(s, p)
    BY <2>1, <2>5 DEF Adapter!Tells, Adapter!Keeps, Hot, Risky, Fresh, Edge!ProviderAccepted
  <2>6. ~ Adapter!Calls(s, p) /\ ~ Adapter!Resolves(s, p)
    BY <2>1 DEF Adapter!Calls, Adapter!Resolves
  <2> QED BY <2>2, <2>3, <2>4, <2>5, <2>6 DEF RequestMoves
<1>2. ASSUME Overtaken(s)' PROVE Overtaken(s)
  <2>1. PICK p \in Requests, q \in Requests :
          /\ q < p /\ call'[s][q].phase # "idle"
          /\ call'[s][p].answer \in {"retryable", "rejected"}
          /\ call'[s][p].phase = "refused" \/ call'[s][p].sentAt <= call'[s][q].sentAt + Window
    BY <1>2 DEF Overtaken
  <2>2. /\ call'[s][p] = call[s][p] /\ call[s][q].phase # "idle"
        /\ call'[s][q].sentAt = call[s][q].sentAt
    BY <1>1, <2>1
  <2> QED BY <2>1, <2>2 DEF Overtaken
<1> QED BY <1>1, <1>2 DEF Quiet

\* The refusal of the current request leaves its send quiet, or overtook another.
LEMMA RefusalIsQuiet ==
    ASSUME PathIsSound, NEW s \in Sends, NEW q \in Requests, q = row[s].generation,
           Adapter!Tells(s, q) \/ Adapter!Declines(s, q), OthersStay(s, q), now' = now,
           call'[s][q].answer \in {"retryable", "rejected"}
    PROVE  Quiet(s)' \/ Overtaken(s)'
<1>1. \A p \in Requests \ {q} : Adapter!Stays(s, p)
  BY DEF OthersStay
<1>2. \A p \in Requests \ {q} : Hot(s, p)' = Hot(s, p) /\ Fresh(s, p)' = Fresh(s, p)
  BY <1>1 DEF Adapter!Stays, Hot, Risky, Fresh, Edge!ProviderAccepted
<1>3. \A p \in Requests : call[s][p].phase # "idle" =>
         p <= q /\ call[s][p].sentAt \in Nat /\ call[s][p].sentAt <= now
  BY CallFields DEF PathIsSound, SendIsOne, RequestIsTimely
<1>4. ASSUME NEW p \in Requests \ {q}, call[s][p].phase # "idle",
             call'[s][q].phase = "refused" \/ call'[s][q].sentAt <= call[s][p].sentAt + Window
      PROVE  Overtaken(s)'
  <2>1. q \in Nat /\ p \in Nat /\ p < q
    BY <1>3, <1>4, PathNumbers DEF Requests
  <2>2. call'[s][p] = call[s][p]
    BY <1>1 DEF Adapter!Stays
  <2>3. /\ call'[s][p].phase # "idle" /\ call'[s][q].answer \in {"retryable", "rejected"}
        /\ call'[s][q].phase = "refused" \/ call'[s][q].sentAt <= call'[s][p].sentAt + Window
    BY <1>4, <2>2
  <2> QED BY <2>1, <2>3 DEF Overtaken
<1>5. CASE Adapter!Tells(s, q)
  <2>1. NothingTaken(s) /\ \A p \in Requests \ {q} : ~ Hot(s, p)
    BY <1>5, ToldRefusalIsTrue
  <2>2. ~ Hot(s, q)' /\ ~ Fresh(s, q)'
    BY <1>5, <2>1 DEF Adapter!Tells, Adapter!Keeps, NothingTaken, Hot, Risky, Fresh, Edge!ProviderAccepted
  <2>3. call'[s][q].sentAt = call[s][q].sentAt /\ call[s][q].phase # "idle"
    BY <1>5 DEF Adapter!Tells, Adapter!Keeps, Adapter!Delivered
  <2>4. ASSUME NEW p \in Requests \ {q}, Fresh(s, p) PROVE Overtaken(s)'
    <3>1. call[s][p].phase # "idle" /\ now <= call[s][p].sentAt + Window
      BY <2>4 DEF Fresh
    <3>2. /\ call'[s][q].sentAt \in Nat /\ call'[s][q].sentAt <= now
          /\ call[s][p].sentAt \in Nat /\ now \in Nat /\ Window \in Nat
      BY <1>3, <2>3, <3>1, PathNumbers, RowFields
    <3>3. call'[s][q].sentAt <= call[s][p].sentAt + Window
      BY ONLY <3>1, <3>2
    <3> QED BY <1>4, <3>1, <3>3
  <2> QED BY <1>2, <2>1, <2>2, <2>4 DEF Quiet
<1>6. CASE Adapter!Declines(s, q)
  <2>1. call[s][q].phase = "sent" /\ call'[s][q].phase = "refused" /\ Adapter!Keeps(s, q)
    BY <1>6 DEF Adapter!Declines
  <2>2. provider[s][q] = "none"
    BY <2>1 DEF PathIsSound, Adapter!EdgeIsSound, Adapter!SendIsSound, Adapter!HandlerIsTruthful
  <2>3. ~ Hot(s, q)' /\ ~ Fresh(s, q)'
    BY <2>1, <2>2 DEF Adapter!Keeps, Hot, Risky, Fresh, Edge!ProviderAccepted
  <2>4. \A p \in Requests : Hot(s, p) \/ Fresh(s, p) => call[s][p].phase # "idle"
    BY DEF PathIsSound, SendIsOne, RequestIsTimely, Fresh
  <2> QED BY <1>2, <1>4, <2>1, <2>3, <2>4 DEF Quiet
<1> QED BY <1>5, <1>6

LEMMA OneRequestMoves ==
    ASSUME PathIsLogical, NEW s \in Sends, NEW q \in Requests, RequestMoves(s, q),
           OthersStay(s, q), row' = row, now' = now
    PROVE  \A z \in Sends : SendIsLogical(z)'
<1> SUFFICES ASSUME NEW z \in Sends PROVE SendIsLogical(z)'
  OBVIOUS
<1>1. PathIsSound /\ SendIsLogical(z)
  BY DEF PathIsLogical
<1>2. \A p \in Requests : Adapter!Stays(z, p) \/ (z = s /\ p = q)
  BY DEF OthersStay
<1>3. \A p \in Requests : RequestMoves(z, p) \/ Adapter!Stays(z, p)
  BY <1>2
<1>4. ASSUME Quiet(z) \/ Overtaken(z), \A p \in Requests : ~ SignsOwn(z, p)
      PROVE  (Quiet(z) \/ Overtaken(z))'
  BY <1>3, <1>4, QuietStays, OvertakenStays
<1>5. Uncrossed(z)' => (Quiet(z) \/ Overtaken(z))'
  <2> SUFFICES ASSUME Uncrossed(z) PROVE (Quiet(z) \/ Overtaken(z))'
    BY DEF Uncrossed
  <2>1. \A p \in Requests : ~ SignsOwn(z, p)
    BY DEF SignsOwn, Uncrossed
  <2> QED BY <1>1, <1>4, <2>1 DEF SendIsLogical
<1>6. ASSUME row[z].state = "provider_started", row[z].generation # 0,
             call'[z][row[z].generation].answer \in {"retryable", "rejected"}
      PROVE  (Quiet(z) \/ Overtaken(z))'
  <2> DEFINE g == row[z].generation
  <2>1. g \in Requests
    <3>1. g \in Nat /\ g <= MaxAttempts
      BY <1>1, RowFields DEF PathIsSound, SendIsOne, WorkIsCounted
    <3> QED BY <1>6, <3>1, PathNumbers
  <2>2. CASE call[z][g].answer \in {"retryable", "rejected"}
    <3>1. call[z][g].phase \in {"refused", "answered"}
      BY <1>1, <2>1, <2>2 DEF SendIsLogical
    <3>2. \A p \in Requests : ~ SignsOwn(z, p)
      BY <3>1 DEF SignsOwn, Adapter!Signs
    <3> QED BY <1>1, <1>4, <1>6, <2>2, <3>2 DEF SendIsLogical
  <2>3. CASE call[z][g].answer \notin {"retryable", "rejected"}
    <3>1. ~ Adapter!Stays(z, g)
      BY <1>6, <2>3 DEF Adapter!Stays
    <3>2. z = s /\ g = q
      BY <1>2, <2>1, <3>1
    <3>3. Adapter!Tells(s, q) \/ Adapter!Declines(s, q)
      BY <1>6, <2>3, <3>2 DEF RequestMoves, SignsOwn, Adapter!Calls, Adapter!Moves, Adapter!Signs,
         Adapter!Resolves, Adapter!Silent
    <3> QED BY <1>1, <1>6, <3>2, <3>3, RefusalIsQuiet
  <2> QED BY <2>2, <2>3
<1>7. \A p \in Requests :
        call'[z][p].phase \notin {"refused", "answered"} => call'[z][p].answer = "none"
  BY <1>3, AnsweredRests
<1> QED BY <1>5, <1>6, <1>7 DEF SendIsLogical

LEMMA EdgeKeepsLogical ==
    ASSUME PathIsLogical, PathIsSound', Edge!EdgeStep, UNCHANGED <<cellVars, worker>>
    PROVE  /\ PathIsLogical' /\ row' = row /\ now' = now
           /\ \/ \A z \in Sends, p \in Requests : Adapter!Stays(z, p)
              \/ \E s \in Sends, q \in Requests : RequestMoves(s, q) /\ OthersStay(s, q)
<1>1. PathIsSound
  BY DEF PathIsLogical
<1>2. /\ now' = now
      /\ \/ \A z \in Sends, p \in Requests : Adapter!Stays(z, p)
         \/ \E s \in Sends, q \in Requests :
               /\ \/ Adapter!Calls(s, q) \/ Adapter!Moves(s, q) \/ Adapter!Declines(s, q)
                  \/ Adapter!Tells(s, q) \/ Adapter!Resolves(s, q)
               /\ \A z \in Sends, p \in Requests : <<z, p>> # <<s, q>> => Adapter!Stays(z, p)
  <2>1. Adapter!EdgeStep
    BY SameEdge
  <2> QED BY <1>1, <2>1, AdapterAssumption, Adapter!EdgeMovesOne DEF Adapter!EdgeMovesOne, PathIsSound
<1>3. row' = row /\ worker' = worker
  BY DEF cellVars
<1>4. /\ \A z \in Sends : SendIsLogical(z)'
      /\ \A z \in Sends, p \in Requests : call[z][p].phase = "idle" => call'[z][p].phase = "idle"
      /\ \/ \A z \in Sends, p \in Requests : Adapter!Stays(z, p)
         \/ \E s \in Sends, q \in Requests : RequestMoves(s, q) /\ OthersStay(s, q)
  <2>1. CASE \A z \in Sends, p \in Requests : Adapter!Stays(z, p)
    <3>1. \A z \in Sends, p \in Requests : call'[z][p] = call[z][p] /\ Risky(z, p)' = Risky(z, p)
      BY <2>1 DEF Adapter!Stays, Risky, Edge!ProviderAccepted
    <3>2. ASSUME NEW z \in Sends PROVE SendIsLogical(z)'
      <4>1. SendIsLogical(z) /\ Quiet(z)' = Quiet(z) /\ Overtaken(z)' = Overtaken(z)
        BY <1>2, <3>1 DEF PathIsLogical, Quiet, Hot, Fresh, Overtaken
      <4>2. row[z].generation # 0 => row[z].generation \in Requests
        <5>1. row[z].generation \in Nat /\ row[z].generation <= MaxAttempts
          BY <1>1, RowFields DEF PathIsSound, SendIsOne, WorkIsCounted
        <5> QED BY <5>1, PathNumbers
      <4> QED BY <1>2, <1>3, <3>1, <4>1, <4>2 DEF SendIsLogical, Uncrossed
    <3> QED BY <2>1, <3>1, <3>2
  <2>2. ASSUME NEW s \in Sends, NEW q \in Requests,
               \/ Adapter!Calls(s, q) \/ Adapter!Moves(s, q) \/ Adapter!Declines(s, q)
               \/ Adapter!Tells(s, q) \/ Adapter!Resolves(s, q),
               \A z \in Sends, p \in Requests : <<z, p>> # <<s, q>> => Adapter!Stays(z, p)
        PROVE  /\ \A z \in Sends : SendIsLogical(z)'
               /\ RequestMoves(s, q) /\ OthersStay(s, q)
               /\ \A z \in Sends, p \in Requests :
                     call[z][p].phase = "idle" => call'[z][p].phase = "idle"
    <3>1. RequestMoves(s, q) /\ OthersStay(s, q)
      BY <2>2 DEF RequestMoves, OthersStay
    <3>2. call[s][q].phase # "idle" \/ call'[s][q] = call[s][q]
      BY <2>2 DEF Adapter!Calls, Adapter!Moves, Adapter!Declines, Adapter!Tells,
         Adapter!Resolves, Adapter!Delivered
    <3>3. \A z \in Sends, p \in Requests : (z = s /\ p = q) \/ call'[z][p] = call[z][p]
      BY <2>2 DEF Adapter!Stays
    <3> QED BY <1>2, <1>3, <3>1, <3>2, <3>3, OneRequestMoves
  <2> QED BY <1>2, <2>1, <2>2
<1>5. ASSUME NEW w \in Workers PROVE WorkerHolds(w)' /\ RequestIsOwn(w)'
  <2>1. WorkerHolds(w)'
    BY <1>2, <1>3 DEF PathIsLogical, WorkerHolds
  <2>2. worker[w].pc # "idle" => worker[w].send \in Sends /\ worker[w].gen \in Requests
    BY <1>1, GenerationIsRequest
  <2> QED BY <1>3, <1>4, <2>1, <2>2 DEF PathIsLogical, RequestIsOwn
<1>6. ClaimsAreApart'
  BY <1>3 DEF PathIsLogical, ClaimsAreApart
<1> QED BY <1>2, <1>3, <1>4, <1>5, <1>6 DEF PathIsLogical

\* A worker signs for the claim it holds.
LEMMA SendingKeepsLogical ==
    ASSUME PathIsLogical, PathIsSound', NEW w \in Workers, WorkerSends(w)
    PROVE  /\ PathIsLogical' /\ row' = row /\ now' = now
           /\ \E s \in Sends, q \in Requests : RequestMoves(s, q) /\ OthersStay(s, q)
<1> DEFINE s == worker[w].send
           q == worker[w].gen
           h == [worker[w] EXCEPT !.pc = "waiting"]
<1>1. /\ PathIsSound /\ worker \in [Workers -> Worker]
      /\ worker[w].pc = "started" /\ Holds(w) /\ s \in Sends /\ q \in Requests
  BY GenerationIsRequest DEF PathIsLogical, PathIsSound, WorkerSends, Working, Holds
<1>2. row[s].state = "provider_started" /\ row[s].generation = q /\ now < row[s].lease
  BY <1>1, HolderHasTheClaim
<1>3. Adapter!SendRequest(s, q) /\ Goes(w, "waiting") /\ UNCHANGED cellVars /\ now' = now
  <2>1. Edge!SendRequest(s, q)
    BY DEF WorkerSends
  <2>2. Adapter!SendRequest(s, q)
    BY <2>1, SameEdge
  <2>3. now' = now
    BY <2>2 DEF Adapter!SendRequest
  <2> QED BY <2>2, <2>3 DEF WorkerSends
<1>4. row' = row
  BY <1>3 DEF cellVars
<1>5. \A v \in Workers : WorkerKeeps(v)
  BY <1>1, <1>3, WorkerGoes DEF Pcs
<1>6. worker'[w].pc = "waiting" /\ \A v \in Workers \ {w} : worker'[v] = worker[v]
  <2>1. worker' = [worker EXCEPT ![w] = h] /\ h.pc = "waiting"
    BY <1>1, <1>3 DEF Goes, Worker
  <2> HIDE DEF h
  <2> QED BY <1>1, <2>1
<1> HIDE DEF h
<1>7. SignsOwn(s, q) /\ OthersStay(s, q)
  <2> HIDE DEF s, q
  <2>1. Adapter!Signs(s, q) /\ OthersStay(s, q)
    BY <1>1, <1>3, AdapterAssumption, Adapter!RequestSigns
       DEF Adapter!RequestSigns, PathIsSound, OthersStay
  <2> QED BY <1>2, <2>1 DEF SignsOwn
<1>8. \A z \in Sends : SendIsLogical(z)'
  <2> HIDE DEF s, q
  <2> QED BY <1>1, <1>3, <1>4, <1>7, OneRequestMoves DEF RequestMoves
<1>9. ClaimsAreApart'
  BY <1>5, ClaimsStayApart
<1>10. ASSUME NEW v \in Workers PROVE WorkerHolds(v)' /\ RequestIsOwn(v)'
  <2>1. CASE v = w
    <3>1. /\ worker'[w].send = s /\ worker'[w].gen = q /\ worker'[w].deadline = worker[w].deadline
      BY <1>5, <1>6 DEF WorkerKeeps
    <3>2. WorkerHolds(w)
      BY DEF PathIsLogical
    <3> QED BY <1>1, <1>3, <1>4, <1>6, <2>1, <3>1, <3>2 DEF WorkerHolds, RequestIsOwn, Holds
  <2>2. CASE v # w
    <3>1. worker'[v] = worker[v] /\ WorkerHolds(v) /\ RequestIsOwn(v)
      BY <1>6, <2>2 DEF PathIsLogical
    <3>2. WorkerHolds(v)'
      BY <1>3, <1>4, <3>1 DEF WorkerHolds
    <3>3. ASSUME worker[v].pc \in {"claimed", "started"}
          PROVE  call'[worker[v].send][worker[v].gen].phase = "idle"
      <4>1. worker[v].send \in Sends /\ worker[v].gen \in Requests
        BY <1>1, <3>3, GenerationIsRequest
      <4>2. <<worker[v].send, worker[v].gen>> # <<s, q>>
        BY <1>1, <2>2, <3>3 DEF PathIsLogical, ClaimsAreApart
      <4>3. call'[worker[v].send][worker[v].gen] = call[worker[v].send][worker[v].gen]
        BY <1>7, <4>1, <4>2 DEF OthersStay, Adapter!Stays
      <4> QED BY <3>1, <3>3, <4>3 DEF RequestIsOwn
    <3> QED BY <3>1, <3>2, <3>3 DEF RequestIsOwn
  <2> QED BY <2>1, <2>2
<1> QED BY <1>1, <1>3, <1>4, <1>7, <1>8, <1>9, <1>10 DEF PathIsLogical, RequestMoves

\* Time passes: requests are fresh, and claims are held, at most as long.
LEMMA TimeKeepsLogical ==
    ASSUME PathIsLogical, PathIsSound', Tick \/ UNCHANGED vars
    PROVE  PathIsLogical' /\ UNCHANGED <<row, call, provider>>
<1>1. UNCHANGED <<cellVars, edgeVars, worker>> /\ (now' = now + 1 \/ now' = now)
  BY DEF Tick, vars
<1>2. row' = row /\ call' = call /\ provider' = provider /\ worker' = worker /\ PathIsSound
  BY <1>1 DEF cellVars, edgeVars, PathIsLogical
<1>3. ASSUME NEW s \in Sends PROVE SendIsLogical(s)'
  <2>1. SendIsLogical(s) /\ Overtaken(s)' = Overtaken(s) /\ Uncrossed(s)' = Uncrossed(s)
    BY <1>2 DEF PathIsLogical, Overtaken, Uncrossed
  <2>2. ASSUME NEW q \in Requests, Fresh(s, q)' PROVE Fresh(s, q)
    <3>1. /\ call[s][q].phase = "sent" /\ now' <= call[s][q].sentAt + Window
          /\ now \in Nat /\ call[s][q].sentAt \in Nat /\ Window \in Nat
      BY <1>2, <2>2, PathNumbers, RowFields, CallFields DEF Fresh
    <3>2. now <= call[s][q].sentAt + Window
      BY ONLY <1>1, <3>1
    <3> QED BY <3>1, <3>2 DEF Fresh
  <2>3. \A q \in Requests : Hot(s, q)' = Hot(s, q)
    BY <1>2 DEF Hot, Risky, Edge!ProviderAccepted
  <2>4. Quiet(s) => Quiet(s)'
    BY <2>2, <2>3 DEF Quiet
  <2> QED BY <1>2, <2>1, <2>4 DEF SendIsLogical
<1>4. ASSUME NEW v \in Workers PROVE WorkerHolds(v)' /\ RequestIsOwn(v)'
  <2>1. WorkerGoesOn(v)
    BY <1>2, UnheldRow DEF WorkerGoesOn, WorkerKeeps
  <2>2. WorkerHolds(v)'
    BY <1>1, <2>1, HolderHolds
  <2> QED BY <1>2, <2>2 DEF PathIsLogical, RequestIsOwn
<1>5. ClaimsAreApart'
  BY <1>2 DEF PathIsLogical, ClaimsAreApart
<1> QED BY <1>2, <1>3, <1>4, <1>5 DEF PathIsLogical

\* Either rows move while the edge rests, or one request does while the cell rests.
PathMoves ==
    \/ UNCHANGED <<call, provider>> /\ \A z \in Sends : RowMoves(z)
    \/ /\ row' = row /\ now' = now
       /\ \/ \A z \in Sends, p \in Requests : Adapter!Stays(z, p)
          \/ \E s \in Sends, q \in Requests : RequestMoves(s, q) /\ OthersStay(s, q)

LEMMA LogicalStep == PathIsLogical /\ [Next]_vars => PathIsLogical' /\ PathMoves
<1> SUFFICES ASSUME PathIsLogical, [Next]_vars PROVE PathIsLogical' /\ PathMoves
  OBVIOUS
<1>1. PathIsSound'
  BY PathStep DEF PathIsLogical
<1>2. CASE \/ (\E s \in Sends : Outbox!QueueAgentEmail(s)) /\ UNCHANGED <<edgeVars, worker>>
           \/ Outbox!AccountStep /\ UNCHANGED <<edgeVars, worker>>
           \/ ProviderEvent
  <2>1. UNCHANGED <<edgeVars, worker>> /\ UNCHANGED <<call, provider>>
    BY <1>2 DEF ProviderEvent, edgeVars
  <2>2. PathIsLogical' /\ \A z \in Sends : RowMoves(z)
    BY <1>1, <1>2, <2>1, CellKeepsLogical
  <2> QED BY <2>1, <2>2 DEF PathMoves
<1>3. ASSUME NEW w \in Workers, WorkerStep(w) PROVE PathIsLogical' /\ PathMoves
  <2>1. CASE WorkerSends(w)
    BY <1>1, <2>1, SendingKeepsLogical DEF PathMoves
  <2>2. CASE ~ WorkerSends(w)
    <3>1. PathIsLogical' /\ UNCHANGED edgeVars /\ \A z \in Sends : RowMoves(z)
      BY <1>1, <1>3, <2>2, WorkKeepsLogical, ClaimKeepsLogical DEF WorkerStep
    <3>2. UNCHANGED <<call, provider>>
      BY <3>1 DEF edgeVars
    <3> QED BY <3>1, <3>2 DEF PathMoves
  <2> QED BY <2>1, <2>2
<1>4. CASE Edge!EdgeStep /\ UNCHANGED <<cellVars, worker>>
  BY <1>1, <1>4, EdgeKeepsLogical DEF PathMoves
<1>5. CASE Tick \/ UNCHANGED vars
  BY <1>1, <1>5, TimeKeepsLogical DEF PathMoves, RowMoves
<1> QED BY <1>2, <1>3, <1>4, <1>5 DEF Next

LEMMA LogicalInit == Init => PathIsLogical
<1> SUFFICES ASSUME Init PROVE PathIsLogical
  OBVIOUS
<1>1. PathIsSound
  BY PathInit
<1>2. Adapter!InitEdge /\ worker = [w \in Workers |-> NoWork]
  BY SameEdge DEF Init
<1>3. Cell!Init
  BY SameCell DEF Init
<1>4. \A s \in Sends, q \in Requests : /\ call[s][q].phase = "idle" /\ call[s][q].answer = "none"
                                       /\ provider[s][q] = "none"
  BY <1>2 DEF Adapter!InitEdge
<1>5. ASSUME NEW s \in Sends PROVE SendIsLogical(s)
  <2>1. row[s].state = "absent"
    BY <1>3 DEF Cell!Init, Cell!AbsentRow
  <2>2. Quiet(s)
    BY <1>4 DEF Quiet, Hot, Risky, Fresh, Edge!ProviderAccepted
  <2> QED BY <1>4, <2>1, <2>2 DEF SendIsLogical
<1>6. \A w \in Workers : worker[w].pc = "idle"
  BY <1>2 DEF NoWork
<1> QED BY <1>1, <1>5, <1>6 DEF PathIsLogical, WorkerHolds, RequestIsOwn, ClaimsAreApart

-----------------------------------------------------------------------------
(* The refinement: what becomes of one logical send                        *)

\* What the verdict on s says of its row.
VerdictAgrees(s) ==
    /\ row[s].state = "absent" => Verdict(s) = "absent"
    /\ row[s].state = "ambiguous" => Verdict(s) = "unknown"
    /\ "accepted" \in row[s].stamps => Verdict(s) = "sent"
    /\ Unsent(s) /\ Overtaken(s) => Verdict(s) = "unknown"
    /\ Unsent(s) /\ ~ Overtaken(s) => Verdict(s) = "unsent"
    /\ row[s].state \in {"queued"} \cup Cell!ActiveStates => Verdict(s) = "open"
    /\ \/ Verdict(s) \in {"open", "unknown"} \/ "accepted" \in row[s].stamps
       \/ row[s].state = "absent"
       \/ Uncrossed(s) /\ ~ Overtaken(s)

LEMMA VerdictIs == PathIsSound => \A s \in Sends : VerdictAgrees(s)
<1> SUFFICES ASSUME PathIsSound, NEW s \in Sends PROVE VerdictAgrees(s)
  OBVIOUS
<1>1. /\ "accepted" \in row[s].stamps => row[s].state \in Cell!SentStates \cup Cell!FailedStates
      /\ row[s].state \in Cell!SentStates \cup {"bounced"} => "accepted" \in row[s].stamps
      /\ row[s].state \in Cell!States
  BY RowSays, RowFields
<1>2. CASE "accepted" \in row[s].stamps
  <2>1. row[s].state \notin {"absent", "ambiguous", "queued"} \cup Cell!ActiveStates
    BY <1>1, <1>2 DEF Cell!SentStates, Cell!FailedStates, Cell!ActiveStates
  <2> QED BY <1>2, <2>1 DEF VerdictAgrees, Verdict, Unsent
<1>3. CASE "accepted" \notin row[s].stamps
  <2>1. row[s].state \in {"absent", "queued", "ambiguous", "canceled", "rejected", "failed"} \cup Cell!ActiveStates
    BY <1>1, <1>3 DEF Cell!States, Cell!SentStates, Cell!FailedStates, Cell!ActiveStates
  <2>2. CASE row[s].state \in {"absent", "ambiguous"}
    <3>1. /\ row[s].state = "absent" => Verdict(s) = "absent"
          /\ row[s].state = "ambiguous" => Verdict(s) = "unknown"
      BY <1>3, <2>2 DEF Verdict, Unsent
    <3>2. ~ Unsent(s) /\ row[s].state \notin {"queued"} \cup Cell!ActiveStates
      BY <2>2 DEF Unsent, Cell!ActiveStates
    <3> QED BY <1>3, <2>2, <3>1, <3>2 DEF VerdictAgrees
  <2>3. CASE row[s].state \in {"canceled", "rejected", "failed"}
    <3>1. Unsent(s) /\ Uncrossed(s) /\ row[s].state \notin {"absent", "ambiguous", "queued"} \cup Cell!ActiveStates
      BY <1>3, <2>3 DEF Unsent, Uncrossed, Cell!ActiveStates
    <3>2. CASE Overtaken(s)
      BY <1>3, <3>1, <3>2 DEF VerdictAgrees, Verdict
    <3>3. CASE ~ Overtaken(s)
      BY <1>3, <3>1, <3>3 DEF VerdictAgrees, Verdict
    <3> QED BY <3>2, <3>3
  <2>4. CASE row[s].state \in {"queued"} \cup Cell!ActiveStates
    BY <1>3, <2>4 DEF VerdictAgrees, Verdict, Unsent, Cell!ActiveStates, Uncrossed
  <2> QED BY <2>1, <2>2, <2>3, <2>4
<1> QED BY <1>2, <1>3

LEMMA VerdictIsAfter == PathIsSound' => \A s \in Sends : VerdictAgrees(s)'
<1>1. (PathIsSound => \A s \in Sends : VerdictAgrees(s))'
  BY VerdictIs, PTL
<1> QED BY <1>1

\* How many copies of s the provider took.
CopiesAgree(s) == /\ Cardinality(Taken(s)) \in {0, 1}
                  /\ Cardinality(Taken(s)) = 0 <=> Taken(s) = {}

LEMMA CopiesAre == PathIsSound => \A s \in Sends : CopiesAgree(s)
<1> SUFFICES ASSUME PathIsSound, NEW s \in Sends PROVE CopiesAgree(s)
  OBVIOUS
<1>1. \A p, q \in Taken(s) : p = q
  BY DEF PathIsSound, SendIsOne, OneHotCall, Hot, Risky, Taken
<1>2. CASE Taken(s) = {}
  BY <1>2, FS_EmptySet DEF CopiesAgree
<1>3. CASE Taken(s) # {}
  <2>1. PICK q : Taken(s) = {q}
    BY <1>1, <1>3
  <2>2. Cardinality({q}) = 1
    BY FS_Singleton
  <2> QED BY <2>1, <2>2 DEF CopiesAgree
<1> QED BY <1>2, <1>3

LEMMA CopiesAreAfter == PathIsSound' => \A s \in Sends : CopiesAgree(s)'
<1>1. (PathIsSound => \A s \in Sends : CopiesAgree(s))'
  BY CopiesAre, PTL
<1> QED BY <1>1

\* What the logical send allows of s in a step.
SendMoves(s) ==
    LET n == Cardinality(Taken(s))
        v == Verdict(s) IN
    \/ v = "absent" /\ n' = n /\ v' = "open"
    \/ v \in {"open", "unknown"} /\ n = 0 /\ n' = 1 /\ v' = v
    \/ n' = n /\ v' = v
    \/ \E u \in {"sent", "unsent", "unknown"} :
          /\ v = "open" /\ (u = "sent" => n = 1) /\ (u = "unsent" => n = 0)
          /\ n' = n /\ v' = u

\* A row that moves says no more than the provider did.
LEMMA RowMovesSend ==
    ASSUME PathIsLogical, PathIsLogical', NEW s \in Sends, RowMoves(s), UNCHANGED <<call, provider>>
    PROVE  SendMoves(s)
<1>1. /\ PathIsSound /\ VerdictAgrees(s) /\ VerdictAgrees(s)' /\ CopiesAgree(s)
  BY VerdictIs, VerdictIsAfter, CopiesAre DEF PathIsLogical
<1>2. Cardinality(Taken(s))' = Cardinality(Taken(s))
  BY DEF Taken, Edge!ProviderAccepted
<1>3. /\ Quiet(s) => Cardinality(Taken(s)) = 0
      /\ Overtaken(s)' = Overtaken(s)
  BY <1>1 DEF Quiet, Hot, Risky, Taken, CopiesAgree, Overtaken
<1>4. CASE row'[s] = row[s]
  BY <1>2, <1>3, <1>4 DEF SendMoves, Verdict, Unsent
<1>5. CASE Cell!Queues(row[s], row'[s])
  <2>1. Verdict(s) = "absent" /\ Verdict(s)' = "open"
    BY <1>1, <1>5 DEF Cell!Queues, VerdictAgrees
  <2> QED BY <1>2, <2>1 DEF SendMoves
<1>6. CASE \/ Cell!Claims(row[s], row'[s]) \/ Cell!Crosses(row[s], row'[s])
           \/ Cell!Waits(row[s], row'[s])
  <2>1. Verdict(s) = "open" /\ Verdict(s)' = "open"
    BY <1>1, <1>6 DEF Cell!Claims, Cell!Crosses, Cell!Waits, VerdictAgrees, Cell!ActiveStates
  <2> QED BY <1>2, <2>1 DEF SendMoves
<1>7. CASE Cell!Closes(row[s], row'[s])
  <2>1. Verdict(s) = "open"
    BY <1>1, <1>7 DEF Cell!Closes, VerdictAgrees
  <2>2. CASE row[s].state = "provider_started"
    <3>1. Verdict(s)' = "unknown"
      BY <1>1, <1>7, <2>2 DEF Cell!Closes, VerdictAgrees
    <3> QED BY <1>2, <2>1, <3>1 DEF SendMoves
  <2>3. CASE row[s].state # "provider_started"
    <3>1. Verdict(s)' = IF Overtaken(s) THEN "unknown" ELSE "unsent"
      BY <1>1, <1>3, <1>7, <2>3 DEF Cell!Closes, VerdictAgrees, Unsent, Cell!Unanswered, Cell!Accepted
    <3>2. row[s].state \in {"queued", "claimed"}
      BY <1>7, <2>3 DEF Cell!Closes, Cell!ActiveStates
    <3>3. ~ Overtaken(s) => Cardinality(Taken(s)) = 0
      BY <1>3, <3>2, OpenWorkIsQuiet
    <3> QED BY <1>2, <2>1, <3>1, <3>3 DEF SendMoves
  <2> QED BY <2>2, <2>3
<1>8. CASE /\ Cell!GivesUp(row[s], row'[s])
           /\ row[s].state = "claimed" \/ Answered(s, {"retryable", "rejected"})
  <2>1. Verdict(s) = "open"
    BY <1>1, <1>8 DEF Cell!GivesUp, VerdictAgrees
  <2>2. ~ Overtaken(s) => Cardinality(Taken(s)) = 0
    BY <1>3, <1>8, GivenUpWasQuiet
  <2>3. Verdict(s)' = "open" \/ Verdict(s)' = IF Overtaken(s) THEN "unknown" ELSE "unsent"
    BY <1>1, <1>3, <1>8 DEF Cell!GivesUp, VerdictAgrees, Unsent, Cell!Unanswered, Cell!Accepted
  <2> QED BY <1>2, <2>1, <2>2, <2>3 DEF SendMoves
<1>9. CASE Records(s)
  <2>1. Verdict(s) = "open" /\ Verdict(s)' = "sent"
    BY <1>1, <1>9 DEF Records, Cell!Accepts, VerdictAgrees, Cell!Accepted, Cell!ActiveStates
  <2>2. Taken(s) # {}
    BY <1>9 DEF Records, Taken
  <2>3. Cardinality(Taken(s)) = 1
    BY <1>1, <2>2 DEF CopiesAgree
  <2> QED BY <1>2, <2>1, <2>3 DEF SendMoves
<1>10. CASE Cell!Folds(row[s], row'[s])
  <2>1. "accepted" \in row[s].stamps
    BY <1>1, <1>10, RowSays DEF Cell!Folds
  <2>2. "accepted" \in row'[s].stamps
    BY <1>10, <2>1 DEF Cell!Folds, Cell!Accepted
  <2>3. Verdict(s) = "sent" /\ Verdict(s)' = "sent"
    BY <1>1, <2>1, <2>2 DEF VerdictAgrees
  <2> QED BY <1>2, <2>3 DEF SendMoves
<1> QED BY <1>4, <1>5, <1>6, <1>7, <1>8, <1>9, <1>10 DEF RowMoves

\* A request that moves makes the provider take at most the one copy, of a send that
\* is open or of which the cell does not know.
LEMMA RequestMovesSend ==
    ASSUME PathIsLogical, PathIsLogical', NEW s \in Sends, NEW z \in Sends, NEW q \in Requests,
           RequestMoves(z, q), OthersStay(z, q), row' = row, now' = now
    PROVE  SendMoves(s)
<1>1. /\ PathIsSound /\ VerdictAgrees(s) /\ CopiesAgree(s) /\ CopiesAgree(s)'
  BY VerdictIs, CopiesAre, CopiesAreAfter DEF PathIsLogical
<1>2. Verdict(s)' = Verdict(s)
  <2>1. \A p \in Requests : RequestMoves(s, p) \/ Adapter!Stays(s, p)
    BY DEF OthersStay
  <2>2. CASE ~ Unsent(s)
    BY <2>2 DEF Verdict, Unsent
  <2>3. CASE Unsent(s) /\ Overtaken(s)
    BY <2>1, <2>3, OvertakenStays DEF Verdict, Unsent
  <2>4. CASE Unsent(s) /\ ~ Overtaken(s)
    <3>1. Uncrossed(s) /\ \A p \in Requests : ~ SignsOwn(s, p)
      BY <2>4 DEF Unsent, Uncrossed, SignsOwn
    <3>2. Quiet(s)
      BY <2>4, <3>1 DEF PathIsLogical, SendIsLogical
    <3>3. ~ Overtaken(s)'
      BY <2>1, <2>4, <3>1, <3>2, QuietStays
    <3> QED BY <2>4, <3>3 DEF Verdict, Unsent
  <2> QED BY <2>2, <2>3, <2>4
<1>3. ASSUME NEW p \in Requests PROVE Edge!ProviderAccepted(s, p) => Edge!ProviderAccepted(s, p)'
  <2>1. Adapter!Stays(s, p) \/ (s = z /\ p = q)
    BY DEF OthersStay
  <2>2. CASE SignsOwn(z, q) /\ s = z /\ p = q
    BY <2>2 DEF SignsOwn, Adapter!Signs, Edge!ProviderAccepted
  <2> QED BY <1>1, <2>1, <2>2, TakenStays DEF RequestMoves, RequestGoesOn
<1>4. CASE \A p \in Requests : Edge!ProviderAccepted(s, p)' => Edge!ProviderAccepted(s, p)
  <2>1. Taken(s)' = Taken(s)
    BY <1>3, <1>4 DEF Taken
  <2> QED BY <1>2, <2>1 DEF SendMoves
<1>5. ASSUME NEW p \in Requests, Edge!ProviderAccepted(s, p)', ~ Edge!ProviderAccepted(s, p)
      PROVE  SendMoves(s)
  <2>1. provider[s][p] = "pending"
    <3>1. ~ Adapter!Stays(s, p)
      BY <1>5 DEF Adapter!Stays, Edge!ProviderAccepted
    <3>2. s = z /\ p = q
      BY <3>1 DEF OthersStay
    <3>3. Adapter!Resolves(s, p)
      BY <1>5, <3>2 DEF RequestMoves, SignsOwn, Adapter!Signs, Adapter!Calls, Adapter!Moves,
         Adapter!Declines, Adapter!Tells, Adapter!Keeps, Edge!ProviderAccepted
    <3> QED BY <3>3 DEF Adapter!Resolves
  <2>2. Risky(s, p) /\ Hot(s, p)
    BY <2>1 DEF Risky, Hot
  <2>3. Taken(s) = {}
    <3>1. ASSUME NEW r \in Taken(s) PROVE FALSE
      <4>1. r \in Requests /\ Edge!ProviderAccepted(s, r)
        BY DEF Taken
      <4>2. Hot(s, r)
        BY <4>1 DEF Hot, Risky
      <4>3. r = p
        BY <1>1, <2>2, <4>1, <4>2 DEF PathIsSound, SendIsOne, OneHotCall
      <4> QED BY <1>5, <4>1, <4>3
    <3> QED BY <3>1
  <2>4. Cardinality(Taken(s)) = 0
    BY <1>1, <2>3 DEF CopiesAgree
  <2>5. Taken(s)' # {}
    BY <1>5 DEF Taken
  <2>6. Cardinality(Taken(s))' = 1
    BY <1>1, <2>5 DEF CopiesAgree
  <2>7. "accepted" \notin row[s].stamps
    BY <1>1, <2>3 DEF PathIsSound, SendIsOne, RecordIsReal, Taken
  <2>8. Uncrossed(s) => Overtaken(s)
    BY <2>2 DEF PathIsLogical, SendIsLogical, Quiet
  <2>9. row[s].state # "absent"
    <3>1. p <= row[s].generation /\ p \in Nat \ {0}
      BY <1>1, <2>2, PathNumbers DEF PathIsSound, SendIsOne, RequestIsTimely, Requests
    <3>2. row[s].state = "absent" => row[s].generation = 0
      BY <1>1 DEF PathIsSound, SendIsOne, WorkIsCounted
    <3> QED BY <3>1, <3>2
  <2>10. Verdict(s) \in {"open", "unknown"}
    BY <1>1, <2>7, <2>8, <2>9 DEF VerdictAgrees
  <2> QED BY <1>2, <2>4, <2>6, <2>10 DEF SendMoves
<1> QED BY <1>4, <1>5

LEMMA SendsMove ==
    ASSUME PathIsLogical, PathIsLogical', PathMoves, NEW s \in Sends
    PROVE  SendMoves(s)
<1>1. CASE row' = row /\ \A p \in Requests : Adapter!Stays(s, p)
  <2>1. Taken(s)' = Taken(s)
    BY <1>1 DEF Taken, Edge!ProviderAccepted, Adapter!Stays
  <2>2. Verdict(s)' = Verdict(s)
    BY <1>1 DEF Verdict, Unsent, Overtaken, Adapter!Stays
  <2> QED BY <2>1, <2>2 DEF SendMoves
<1> QED BY <1>1, RowMovesSend, RequestMovesSend DEF PathMoves

\* The cell, its workers and the edge together promise what LogicalSend says: at most
\* one copy, and a verdict on every send that the provider bears out, for every
\* signature window and every refusal of the front door.
THEOREM PathImplementsLogicalSend == Spec => ImplementsLogicalSend
<1>1. Init => Logical!Init
  <2> SUFFICES ASSUME Init PROVE Logical!Init
    OBVIOUS
  <2>1. PathIsSound /\ \A s \in Sends : row[s].state = "absent"
    BY PathInit, SameCell DEF Init, Cell!Init, Cell!AbsentRow
  <2>2. \A s \in Sends : Taken(s) = {}
    BY SameEdge DEF Init, Adapter!InitEdge, Taken, Edge!ProviderAccepted
  <2>3. \A s \in Sends : Cardinality(Taken(s)) = 0 /\ Verdict(s) = "absent"
    BY <2>1, <2>2, CopiesAre, VerdictIs DEF CopiesAgree, VerdictAgrees
  <2> QED BY <2>3 DEF Logical!Init
<1>2. PathIsLogical /\ PathIsLogical' /\ PathMoves => Logical!Next
  <2> SUFFICES ASSUME PathIsLogical, PathIsLogical', PathMoves PROVE Logical!Next
    OBVIOUS
  <2>1. \A s \in Sends : SendMoves(s) /\ Cardinality(Taken(s))' \in {0, 1}
    BY SendsMove, CopiesAreAfter DEF PathIsLogical, CopiesAgree
  <2>2. \A s \in Sends : Verdict(s)' \in Logical!Verdicts
    BY DEF Verdict, Logical!Verdicts
  <2>3. ASSUME NEW s \in Sends
        PROVE  \/ Logical!Accept(s) \/ Logical!Take(s) \/ Logical!Rest(s)
               \/ \E v \in {"sent", "unsent", "unknown"} : Logical!Close(s, v)
    BY <2>1 DEF SendMoves, Logical!Accept, Logical!Take, Logical!Rest, Logical!Close, Logical!Becomes
  <2> QED BY <2>1, <2>2, <2>3 DEF Logical!Next
<1>3. PathIsLogical /\ [Next]_vars => PathIsLogical' /\ PathMoves
  BY LogicalStep
<1> QED BY <1>1, <1>2, <1>3, LogicalInit, PTL DEF Spec, ImplementsLogicalSend, Logical!Spec

\* Workers hold the claims they work on, and a send that stands before the provider
\* boundary or was refused beyond it is quiet, unless a refusal overtook a request.
THEOREM LogicalPath == Spec => []PathIsLogical
<1>1. PathIsLogical /\ [Next]_vars => PathIsLogical'
  BY LogicalStep
<1> QED BY <1>1, LogicalInit, PTL DEF Spec

\* A send closed as canceled, rejected or failed was not taken, unless the refusal of a
\* later request overtook an earlier one.  That it may then have been taken is what
\* MCPipelineForgets.cfg shows.
THEOREM UnsentIsUntaken ==
    Spec => [](\A s \in Sends : Unsent(s) /\ ~ Overtaken(s) => Taken(s) = {})
<1>1. PathIsLogical => \A s \in Sends : Unsent(s) /\ ~ Overtaken(s) => Taken(s) = {}
  BY DEF Unsent, Taken, PathIsLogical, SendIsLogical, Uncrossed, Quiet, Hot, Risky
<1> QED BY <1>1, LogicalPath, PTL

==============================================================================
