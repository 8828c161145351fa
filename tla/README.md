# Witself: a verification of its mail, requests, vault keys, memory curation and account moves

Witself keeps the memory, mail, messages and secrets of AI agents. A *cell* is a
PostgreSQL database with an API server and background workers; edge adapters on
Cloudflare carry mail; a control plane of Durable Objects moves accounts between
cells; an agent's installations keep its vault keys on disk. This project models the
parts whose correctness rests on the order in which several actors act, checks them
with TLC, and proves with TLAPS, for every size, the safety properties of all of them and
the four refinements they take part in.

## 1. The system

### Outbound email

| part | state | operations | modelled by |
|---|---|---|---|
| cell outbox, `internal/store/agent_email_outbound*.go` | rows of `agent_email_outbound_messages`, suppressions, provider event receipts, usage events, account status and evacuation marker | queue, claim, start, finalize, retry, mark ambiguous, cancel, reconcile exhausted work, apply a provider event | `AgentEmailOutbound` |
| edge adapter, `infra/cloudflare/agent-email-send/src` | one Durable Object per send: receipt and alarm; a provider route table | front door, dispatch, alarm (repair of the route, expiry), receipt replay | `OutboundReceipt` |
| worker, `cmd/witself-worker/agent_email_outbound.go` | claim, deadline and program counter of a batch, lost in a crash | reconcile, claim, start or replay, call the edge, settle | `AgentEmailOutboundPipeline` |
| provider (`EMAIL.send`, external) | the messages it took | takes, refuses, fails, or fails after taking | `OutboundReceipt`, external |

The worker polls the outbox and calls the edge over signed HTTP; the edge calls the
provider; events of the provider come back through a queue and are folded into the
outbox. Nothing is shared between the three but these calls, and each may stop
between any two steps. What is hard: leases that lapse while their worker is still
calling; late answers racing retries; replays after a crash on either side of the
provider call; a Durable Object that dies between an external call and the write
that records it; events in any order; an account frozen for a move meanwhile. What
makes the path correct: one copy at the provider, a verdict of the cell that is true,
one bill for one acceptance, and work that closes.

### Open message requests

`internal/store/message_request.go`: a coordinator asks the agents of its realm for
help; candidates offer or decline; the coordinator reserves some of them; a selected
agent claims, renews, releases or completes its work under a lease. State: the
request row, its candidates, selections and claims. There is no scheduler, so
deadlines take effect when a call touches the request, and every statement of a call
reads the clock for itself. What is hard: leases that lapse between two statements
of one call, reselection after a lapse, the deletion of an agent or a move of the
account in the middle of the work, and a request that must complete when its last
worker disappears. Correct means: never more work and results than `max_assignees`,
never two assignments of one agent, no authority after the deadline, offers frozen
once a selection was made, and a row that an import in another cell accepts.

### Vault keys

The server stores secrets it cannot read: each has a data key (DEK) wrapped under the
agent's current vault key, which only the agent's installations hold.

| part | state | operations | modelled by |
|---|---|---|---|
| key lifecycle in the store, `secret_mutation.go`, `vault_key_rotation_mutation.go`, `vault_enrollment.go` | keys, DEKs, one open rotation with its snapshot, enrollments | register, create and purge a secret, start, stage, commit, cancel; create, approve, access, consume, cancel an enrollment; delete the agent | `VaultKeyStore` |
| the installations, `internal/secretclient`, `internal/local/vault_rotation_intent.go`, `cmd/witself` | key files, one intent file per installation, recovery artifacts | the rotate and cancel commands, the key an enrollment installs | `VaultRotation` |

What is hard: secrets written while a rotation is open, transfers approved before a
rotation and consumed after it, a command that stops between its key file, its intent
file and the call that starts the rotation, and a start that is served long after its
command, or another one, has gone on. Correct means: every secret opens with the
key in force, somebody always holds that key, and no lifecycle is left behind that
nobody can end (it would block every export of the account).

### Memory and its curation

An agent's memories are versioned rows on a change clock. Each write raises the
generation of the agent's curation lane and queues a request; a model-driven worker
starts a run (which freezes the memories changed since the cursor, under a lease and
a fence), submits a plan and applies it; an applied run may be rolled back and is then
replayed. Workers hold no lock while they reason. What is hard: writes during a run,
leases that lapse under a worker, snapshots cut at a cap, plans resting on versions
undone since, and a counter of stored memories that plans and compensations adjust
by difference. Correct means: one worker has the lane, nothing is passed over unread,
every write is owed a run, and the counter is exact.

### Account moves

A Durable Object per account holds its location and the phase of its one operation
(evacuate, move, restore, close). A driver, called by an operator or by an alarm, does
the step of a phase over HTTP on a cell, in R2 or in the directory (KV), and saves the
next phase. On a cell the account is one row, frozen by a marker naming the evacuation
and the row's role in it; an import is a job under a session advisory lock. What is
hard: a call that timed out may still be carried out, at any time and twice, also when
its operation is long over; an upload given up may still complete; a driver may stop
between a side effect and its save; an import may lose its lock and go on. Correct
means: one cell at most serves the account, with everything that was written; the
directory leads to a row or an archive that exists; an operation ends, whatever its own
attempts left undone.

### Everything else

`PROJECT.json` lists these with the reason they are left out.

| component | state | hard behaviour | what should be shown |
|---|---|---|---|
| inbound email (store, `agent-email` worker) | mailboxes, deliveries, cohort, retention | redelivery, retention under readers | stored once, never routed to a retired address |
| provider event consumer (`events.mjs`) | a queue batch | acknowledge or retry message by message | no event acknowledged before the cell has it |
| message store | messages, deliveries with processing claims, checkpoints | claims with leases, retention of threads | a processing fence is exclusive; retention never splits a thread |
| facts, transcripts, avatars | versioned rows, entry sequences, storage totals | appends against retention, totals against rows | no gap in a sequence, totals equal sums |
| provision, reap, purge, backup | archives, leases, cleanup state | crash between archive and deletion | nothing is purged without evidence |
| billing and plans | subscription, plan, entitlements | webhooks out of order | the plan follows the last word of the provider |
| worker runtime | jobs, restart counts, health | restarts, shutdown | restarts are bounded, one failed job ends the process cleanly |
| transcript capture, hydration, curator (local) | a file queue, a lease file | two flushers, crash between send and delete | an event is delivered and not lost |
| support desk | tickets, intake | duplicate intake | a mail opens one ticket |
| local cell (tests and a harness command only) | a directory with a lock, process records and a journal | interrupted start, repair and removal | a retry finishes what was begun, and no foreign process is stopped |
| sync model and harness | a model without production callers | none in production | it is itself a model |
| clients, server routes, screens, deployment | none of their own | input and output | left to tests |

## 2. Plan

Done, in the order of importance: the outbox, its theorems, the receipt object, the
pipeline that composes both with the workers, the abstract send it implements; message
requests with the abstract assignment they implement; the key lifecycle in the store
with the abstract vault it implements; the rotation commands over it; memory curation;
the account move with the abstract served account it implements; and the theorems of all
of them.

To come, most important first:

1. `ProviderEventConsumer`: `events.mjs` over the route table of `OutboundReceipt` and
   the event action of the outbox; with it the legacy receipts and second digests the
   edge module leaves out.
2. The target cell coordinator and the reaping of pending accounts beside `AccountMove`.
3. Permanent deletion of memories and the evidence and transcript streams of a run.
4. `MessageProcessing`: deliveries with claims, then retention of threads over them.
5. `RateBuckets`: the integer arithmetic of `agent_email_outbound_rate_limit.go` as pure
   operators against a reference, with their width.
6. `WorkerRuntime`, the capture flush lease, then billing.

Theorems to come: every safety property the runs check is proved, so these are new ones, of
the kind of `ClosedForGood` (what holds for ever once a call was answered), and the
theorems of the modules above as they are written.

## 3. Modules and their correspondence with the code

Each definition that models code is listed in `PROJECT.json` under `map` with its lines.

**`AgentEmailOutbound`**. One action per transaction. A row is a record of state,
attempts, claim generation, claim, lease, next attempt, provider message id, and the set
of timestamps that are not NULL. A send stands for one (owner, idempotency key): the
advisory lock of `queueAgentEmailDraft` makes it one row. A settlement takes any
generation the store ever issued, because a late caller may hold any of them; the
fence of the UPDATE decides. `claim_id` is drawn with the generation, so the generation
names the claim. The account's status, its send controls and the evacuation marker
are sets of accounts that change at any time, with the drain of
`BeginAccountEvacuation` as its guard.

**`OutboundReceipt`**. A Durable Object runs one handler at a time except at an await
of something other than its own storage: `EMAIL.send` and the registration of the
provider route. Handlers are cut there. Alarm and dispatch carry what they read across
the await, as the code does, and the receipt lineage decides whether the write
applies. A handler may die at each cut. A request is refused when its signature is
older than `Window`.

**`AgentEmailOutboundPipeline`** instantiates both over one clock and adds one record
per worker replica. A claim signs one request, so requests are named by claim
generations. A worker acts within the deadline of its batch, or is dropped: a crash, a
shutdown and a lost database connection are the same step. What the worker hears may be
less than what the edge answered (a lost answer is `ambiguous`).

**`LogicalSend`** is what the path promises of a send: at most one copy is taken, and a
closing verdict (sent, unsent, unknown) is true and final. One statement of the cell may
close several sends, so in a step each send goes its own way. The mapping takes the
copies from the provider and the verdict from the row.

**`MessageRequest`**. Every call locks the request row, so a call is one action. Each
statement reads `clock_timestamp()`, so an action has seven ordered clock readings;
`c[1]` to `c[3]` belong to the reconcile with which every call begins, the later ones
to the statements of the call, and the clock ends at the last. A call that loses
its race rolls back to its savepoint and commits the reconcile alone: this is
`Reconcile`. Claims are indexed by selection generation and agent. Replays by key,
failure counts and message bodies change nothing modelled.

**`BoundedAssignment`** is the request without leases and deadlines. A worker is an
agent whose lease is in the future; a request is over when it is closed or its deadline
has passed. It demands that only a worker delivers, results stay, work and results
share the capacity, and nobody works after the end.

**`VaultKeyStore`**. Every transaction of the lifecycle locks the agent's row, so a
transaction is one action. Calls are arbitrary: any call with any row version may
reach the server in any order, as the server must assume. Keys, rotations and their
targets share their numbers; a DEK is a pair of the key its metadata names and the key
its blob opens with, so a commit that renamed without rewrapping would show. Every
enrollment call, reads included, sweeps expired enrollments first (`Swept`).

**`EpochVault`** is the vault as its owner sees it: one key opens all secrets, a rotation
moves all of them to a fresh key in one step, a key given up never returns.

**`VaultRotation`** runs commands at installations over `VaultKeyStore`. A process is at one
step of its command: one remote call or one file write. `Call` gives each request its
four fates: answered; served without an answer; not served; or in flight, to be served
at any later time (`DeliverLate`). A crash leaves the files. Steps follow the branches of
`resolveRotationIntent`, `prepareRotationIntent`, `reconcilePreparedRotation` and
`CancelVaultKeyRotation`, one operator each.

**`MemoryCuration`**. Requests, runs and versions are sequences, so ids are positions. A
version carries its place on the change clock and, when the agent wrote it, the lane
generation that write raised. A plan is a set of writes with the versions it cites; a
plan that only cites stands for the `relate` actions. A lease is a number of ticks
left. When a request is due is left open: a start may happen whenever its other
conditions allow.

**`AccountMove`** keeps the control state (`location`, `operation`), the driver, the calls
cells may yet serve, the rows, the finalization receipts, the import jobs, the R2 objects
and the two directory keys. The driver is `asked` between a request and its answer
and `told` between the answer and its save; a call, once made, stays in `calls` for good
and may be served any number of times, at any moment, also for an operation that is
over: no action takes it out. The export of an archive and the `complete()` of its
multipart upload are two actions (`StreamArchive`, `UploadLands`), and an upload in
`uploads` may land after the abort has deleted the object.
`Saved` says that a side effect stands whether or not the phase after it is saved.
`Import` answers from the receipt or starts a job; a job is leased until it loses its
session, and only a leased one may write its row: `AccountImportLease` runs the import's
transaction on the very connection that holds the lock.

**`ServedAccount`** is the account as its owner sees it: one cell at most serves it, and a
cell that takes it up serves exactly what was last written.

The theorems are in modules of their own, named after the module they are about:
**`AgentEmailOutboundProofs`**, **`OutboundReceiptProofs`**,
**`AgentEmailOutboundPipelineProofs`**, **`MessageRequestProofs`**,
**`VaultKeyStoreProofs`**, **`VaultRotationProofs`**, **`MemoryCurationProofs`** and
**`AccountMoveProofs`**. The `MC` modules give constants.

## 4. Runs

| run | question | bounds |
|---|---|---|
| `outbox` | Do all transactions together keep rows, usage, suppressions, leases and closed work right, does an event stay with its send, and does every queued send close? | two sends of one account in one mailbox, one provider id, 2 events, 2 attempts, clock to 4 |
| `outbox_closes_beside_a_move` | Also while another account moves? (violated) | two accounts, one send each |
| `receipt` | Does the object answer truly and take one copy per receipt lifetime, and is every receipt retired? | 3 requests, lifetime 2, window 1, clock to 5, last request at 2 |
| `pipeline` | One copy at the provider, true records, no provider call in a frozen account, and is the path a logical send, with two workers? | one send, 2 attempts, window 1, batch timeout 1, both refusals of the front door, lifetime 5 |
| `pipeline_forgets` | Also when the front door refuses a replay? (violated) | 2 attempts |
| `request` | Capacity, archive, frozen offers and refinement, with two candidates for one or two places? | 2 selections, clock to 5 |
| `request_finishes_with_work` | Is a completed request free of work? (violated) | as before, two places |
| `vault` | Is every secret readable with the current key, whatever calls arrive, and is the store an epoch vault? | 2 secrets, 2 rotations, 2 enrollments, 2 installations |
| `rotation` | Does somebody always hold the current key, and do intent files tell the truth? | 2 commands at 2 installations, one of them may leave a start in flight, 2 rotations, 1 secret |
| `curation` | Is the lane fenced, nothing passed over or forgotten, the counter exact? | 2 memories, 4 changes, 2 runs, 3 requests, plans of 2 writes, 2 attempts, leases of 2 ticks, room for 2 memories |
| `move` | Does one cell serve the account with all its writes, does the directory lead to it, and do operations end unless a late call of an earlier one overtakes them? | 2 cells, 2 operations, 1 write |
| `move_lost_response` | Can a step whose answer was lost always be repeated? (violated) | 2 cells, 3 operations, 1 write |

Why these bounds are enough to be of interest. Rows of different sends meet only in
provider ids, mailboxes and the reconcile batch, and the two sends share each of them.
Two attempts give a superseded claim and a replay of its send. The clock passes every lease, deadline, lifetime and work age at least once. Durations keep
the order they have in the code, which `PipelineAssumption` states: a batch ends before
its lease, and the work age, a batch and a signature window fit in a receipt's lifetime;
a 72 hour work age and a 7 day receipt
become 3 and 5 ticks. A window of one tick, half a lease and a fifth of a lifetime, lets a
first request be delivered after its replay was answered. In `pipeline_forgets` the window
and the batch timeout are 0, to show that a refusal alone is enough. In `outbox` nothing is queued after
`LastQueueTime`, so the bounded clock outlives every send. `Slip` 1 in the request runs
lets a deadline pass between any two statements of a call. Two rotations give a key
retired by each of its two ends and a stale call of the first under the second; two
commands give every race of two installations for one rotation. Two runs give a
follow-up, a rollback with a later consumer, and a replay; two memories give a snapshot
that a cap cuts. Two operations give a move there and back, an archive and its restore,
and an operation after an abort or a close, each with late calls and uploads of the first;
one write tells a stale copy from the right one. A third operation, with calls of two
earlier ones, is what the violation in `move_lost_response` needs; TLC checked the inductive
invariant of the proofs with three operations (1,570,126 states), and the proofs have no
bound. Liveness was checked with two operations only. With three, TLC found that in
every state that is not `Overtaken` the cell still accepts the request of the present
phase, or its repetition. Interchangeable candidates, secrets, enrollments and installations are symmetry
sets where only safety is checked.

Deadlock is checked where the system never stops by itself. The receipt and pipeline
runs stop when the clock ends and every request is answered; a request stops when
all its agents are deleted before it was opened; a vault, a lane and an account
stop when their bounded rotations, runs and operations are used up.

Each property has a mutant in `PROJECT.json`: a plausible slip in the code (a dropped
guard, an off-by-one, a forgotten column, a missing fence) with which TLC finds it violated.

### Fairness

`WorkCloses` says that a queued send of an account whose own moves come to an end is
closed. It assumes weak fairness of a reconcile of the full batch and of the clock:
each replica starts a batch every two seconds and a batch starts with the reconcile,
and a row lock lasts one transaction. It assumes nothing about claims or settlements:
a worker may crash for ever. The run beside a move uses strong fairness, to show that
even a reconcile that succeeds whenever possible is not enough. `ReceiptsRetire` assumes
that the platform delivers alarms and that a running handler ends, in a crash or not.

`OperationEnds` assumes that the driver goes on, because the alarm is armed before every
claim and rearmed before every attempt (`scheduleWakeup`), and that a step tried again
and again is in the end carried through: strong fairness of a step that saves, of a call
that is answered, of an answer that is saved, and of an import job that downloads and
finishes. It assumes nothing about late calls, lost sessions or writes. A close that is
claimed waits for its owner, whose session the object cannot repeat, and is exempt. The
property ends with `\/ Overtaken`: a call of an operation that is over, carried out
late, changed the row of the present step, which the code does not survive (section 6).

Message requests have no scheduler, rotations are commands somebody has to run, and
the curator is an external model, so no fairness is justified there and no liveness is
claimed; `WriteIsOwedARun` says instead that the work is not forgotten.

## 5. Proofs

`AgentEmailOutboundProofs` proves eight theorems of `Spec` for every set of sends, accounts,
events and every budget, from `OutboxAssumption` alone (owners and mailboxes are functions,
default accounts are accounts, no id is the empty id, budgets are positive).

* `TypeCorrect`: `TypeOK` is inductive.
* `RowsMeetTableCheck`: the table CHECK of a row is not inductive by itself, because a
  failure or a bounce may fold a row whose acceptance must be known. `SoundRows` adds
  `AnsweredRow`: an absent row has no timestamps and no provider id, and only a sent or
  failed row holds a provider id. The lemmas on released, requeued, canceled and ambiguous rows
  say what each kind of write leaves, so each action needs one row only.
* `UsageIsAcceptance` and `MovingAccountsAreDrained`: `Ledger` joins both, since each is a
  statement about one row and something beside it (the bill, the marker of its account), and
  both rest on `SoundRows`.
* `LeasesAreExclusive` and `ClosedStaysClosed` are action properties, proved action by action
  from `TypeOK` and `SoundRows` (`LeaseStep`, `ClosedStep`).
* `EventsReachOneSend`: `Matched` adds that provider ids are unique over rows and that a send
  with a folded event stays in the states an event can reach; otherwise a retry could give
  the id up. `IdsChange` says when an id may change, `ReceiptsGrow` when a receipt appears.
* `StrongestSignalWins`: from `Matched`; `SuppressionsHold` says that a suppression never
  weakens.

A last section says, row by row, what each transaction makes of the row it writes
(`Queues`, `Claims`, `Crosses`, `Waits`, `Closes`, `GivesUp`, `Accepts`, `Folds`), for the
proofs about the path.

`OutboundReceiptProofs` proves seven theorems, from `ReceiptAssumption`, for every set of
sends and requests and every lifetime, window and delay.

* `SoundEdge`: the inductive invariant is `EdgeIsSound`. A call is *open* while it may end
  in a copy and its receipt lifetime is not over. The heart is `CallIsFenced`: the receipt
  stands for the open call, with its expiry, so at most one is open (`OneOpenCall`) and
  calls that may both have gone through are a lifetime apart (`CallsAreApart`). The rest says
  that what handlers carry over an await, and what receipts say, is so.
* `OneAcceptance`, `ConfirmationHasRoute`, `ReceiptKeepsAlarm` (invariants), `TrueAnswers`
  and `AcceptanceKept` (action properties) follow. `FairEdgeIsEdge` carries them over to
  the fair specification.
* Its last section says what a step makes of the request it serves (`Signs`, `Calls`,
  `Moves`, `Declines`, `Tells`, `Resolves`), and that it leaves the others alone.

`AgentEmailOutboundPipelineProofs` composes the two, from `PartsAssumption` and
`PipelineAssumption`, for any number of sends, workers, attempts and every timing the
assumptions allow.

* `SoundPath`: `PathIsSound` joins the invariants of both parts with what holds between
  them: a worker works on a claim that was issued, within the work span of its send; a
  request is signed within that span; no two calls of a send are *hot* (may end, or have
  ended, in a copy). The span, with a signature window, fits in one receipt lifetime, so
  whenever a call begins every earlier hot one is still open at the edge, which then
  refuses it (`HotCallIsRecent`, `CallsAlone`). That is the one place where
  the constants of cell, worker and edge meet.
* `OneCopy`, `RealRecords` and `MovingAccountsMakeNoCalls` follow.
* `PathImplementsLogicalSend`, `LogicalPath` and `UnsentIsUntaken` hold for any window, any
  refusals of the front door and any batch timeout. Refusals do make the cell forget
  calls (section 6), and the theorems say exactly when: `Overtaken(s)` is that a later
  request of `s` was told "retryable" or "rejected", either by the front door, which does
  not look at the receipt, or while an earlier one could still be delivered. What the cell
  then closes as unsent counts as unknown; crashes, lapsed leases, superseded workers,
  replays and lost answers alone make no verdict false. `PathIsLogical` adds to
  `PathIsSound` that a worker within its deadline holds the claim it works on, that claims
  in work are apart, and that a send which stands before the boundary, or whose claim was
  answered with a refusal, is quiet (`Quiet`: nothing was taken, nothing can still be
  delivered) or overtaken. A row that moves or a request that moves is then a step of that
  one logical send (`RowMovesSend`, `RequestMovesSend`).

`MessageRequestProofs` proves five theorems from `RequestAssumption`, for every set of
agents, limit, lease, and however far the clock runs between two statements.

* `SoundRequest`: `Sound(r, t)` is stated of any row at any time, so the statements of one
  call, each at its own clock reading, compose. It strengthens the capacity with: nobody
  has two claims in use; a lease never outlives the request (`LeasesEndWithRequest`, else
  authority could survive the deadline); every selection chose somebody within the limit;
  a closed request has no live work; once a selection is made nobody can offer any more.
* `CapacityIsKept`, `ArchivesAreAccepted`, `SelectionFreezesOffers` follow, and
  `RequestImplementsAssignment` is the refinement of `BoundedAssignment`.

`VaultKeyStoreProofs` proves eight theorems of `StoreSpec` for every set of secrets,
enrollments and installations and any number of rotations, from `VaultAssumption` (the
secrets are finitely many; the bounds are numbers).

* `StoreIsTyped`: `StoreTypeOK` is inductive.
* `StoreIsSound`: the invariant is `Sound`, which joins the four properties of the
  lifecycle in progress, because each rests on the others: a commit keeps
  `WrappersUnderCurrentKey` only because the snapshot is the vault and its counters count,
  which holds because `OneLifecycle` gives no second rotation. `PastIsSettled` adds what
  rotations that are over leave behind (else their portability would depend on keys that
  later rotations change), `RegisteredFirst` that no key precedes the registered one
  (registration writes the whole table), and `DeletedIsIdle`. One lemma per transaction;
  `EnrollmentsOnly` deals with the seven that write enrollments alone. That a fully staged
  plan covers the vault is an argument about cardinalities (`FS_Subset`).
* `SecretsOpenWithCurrentKey`, `SnapshotsCoverTheVault`, `LifecycleIsSingle`,
  `TransfersAreCurrent` and `IdleVaultsArePortable` follow.
* `StoreImplementsVault`: the refinement of `EpochVault`. A commit is `Rotate`, a cancel
  `Discard`, a secret `Seal` or `Drop`, everything else a stutter (`StepImplements`).

`VaultRotationProofs` proves five theorems of the commands over that store, for any number
of installations, processes, rotations and late requests, and rests on the lemmas of
`VaultKeyStoreProofs` about its transactions; it assumes `VaultAssumption` and
`LocationAssumption` (the first key has a location, bounds are numbers).

* `SoundRotation`: a rotation is spoken of in five places (store, intent file, running
  command, late request, key files). `RotationIsSound` says that all agree on its source
  and that both its keys are on disk wherever it is named (`NamesAgree`, `NamesAreHeld`):
  that is what lets a start be served at any later time. `CommandsKnow` says, step by step
  of a command, what it may rely on, and `LateAreBacked` that a commit which claims an
  artifact was sent after the artifact was published.
* `VaultsStayOpenable`, `CommitsAreRecoverable`, `IntentsAreTruthful` follow;
  `IntentsOutliveRotations` is an action property.

`MemoryCurationProofs` proves six theorems from `BoundsAreNat`, for every finite set of
memories and every number of runs, requests and changes.

* `SoundCuration`: `CurationIsSound` is stated of explicit lane, queue, runs and
  histories, so that a plan or a compensation, which writes many versions at once, is one
  argument about histories. The parts the properties need and do not say: a run under way
  was shown every active head of its interval (`IntervalIsFrozen`), what the agent wrote
  since has a later generation (`LaterIsNewer`), what a run produced is on record as its
  plan says and below the heads once it is rolled back (`OnRecord`), a run that is no
  replay was shown no undone work (`ShownNoUndoneWork`).
* `LanesAreFenced`, `NothingIsPassedOver`, `WritesAreOwedRuns`, `CountsAreExact` (by
  cardinalities of heads before and after) and `NoWorkRestsOnUndoneWork` follow.

`AccountMoveProofs` proves the move for any number of cells, operations and writes, from
`MoveAssumption` (the first home is a cell, bounds are numbers, `None` is no cell, row or
operation).

* `SoundMove`: `MoveIsSound` is inductive. Operations have twenty-odd phases of four kinds;
  the proof groups them into stages that say where the account is: `AtSource`, `InArchive`,
  `AtTarget`, `Entombed` (the target restored a closed account) or `Closed`. Each stage
  fixes the location, both rows, the archive and the directory keys (`LocationFits`,
  `SourceFits`, `TargetFits`, `ArchiveFits`, `DirectoryFits`, and `Rests` between
  operations). No call is ever taken back, so the invariant says what a late one can do.
  A begin, abort or close may freeze, release or close a row that is `Released`: one that
  nothing holds, or only the marker of an evacuation that is over or being aborted.
  `OwnRow` shows that such a row is the account's own, at a stage that asks of it only to
  be `Standing` (there, and held by no import), so what happens to it never makes a
  second serving row; `OwnRowSound` does the three calls at once. A finalize that could
  still delete has left its receipt before the operation goes on, and the other calls of
  the evacuation under way meet the phase they were made for or a later one (`CallFits`).
  `JobFits`: an import job of an evacuation that is over holds no copy it could still
  insert, because a job that lost its session writes nothing and one that kept it had
  ended before the driver went on (`JobsAreApart` is the session lock). `UploadFit`: an
  upload that may still land brings what the archive of the account has, or is of an
  evacuation that nothing leads to. `ArchiveIsTrue` says that the rows of a move have
  what its archive has, which is why no write is lost; `DriverFits` that what the driver
  was told, and has not saved, is so. One lemma per action; the steps that only save a
  phase share `PhaseAside`, those that end an operation `EndSound`, and `BeginTakes`,
  `AbortTakes`, `CompleteTakes`, `FinalizeTakes` and `ImportTakes` say when a call, however
  late, still changes a row.
* `DirectoryLeads` and `ServedAtMostOnce` follow, and `ClosedForGood`: once the location
  says closed, no cell serves the account at any later time. `DirectoryLeads` makes no
  claim about archives that nothing leads to, and allows the account's row to be frozen by
  an evacuation that is over: both happen (section 6).
* `MoveServesAccount`: the refinement of `ServedAccount`. A row that takes the marker, and
  an owner's close, are `Suspend`; an abort and a completed import are `Resume`; a write is
  `Write`; everything else is a stutter (`NextSeen`), uploads that land included. The data
  the mapping reads while no cell serves is that of the row or archive the location names,
  or of the target's row once it has resumed (`AuthorityStands`). A late begin is a
  `Suspend` too, and its late abort a `Resume`.

Only model-checked: the liveness properties `WorkCloses`, `ReceiptsRetire` and
`OperationEnds`, since liveness under fairness is out of the reach of the prover.
TLC checked `PathIsSound`, `PathIsLogical` and `MoveIsSound` on the instances of the
pipeline and move runs before they were proved.

## 6. Where the code differs from what it says

* **An exhausted row of a moving account stops the whole cell**
  (`outbox_closes_beside_a_move`). `ReconcileExhaustedAgentEmailOutbound` closes rows of all
  accounts in one statement; the evacuation fence raises for a row of a marked account, the
  statement fails, and the batch returns before it claims anything. `docs/agent-email.md`
  says that work closes after 12 attempts or 72 hours.
* **A refused replay forgets the provider call** (`pipeline_forgets`). A retryable refusal of
  the front door never reaches the receipt, yet it settles a `provider_started` row as not
  past the boundary; it can later be closed as canceled although the provider took the
  earlier call. A comment in the worker store says the cell never forgets this.
  A delayed first request forgets in the same way when it reaches the provider after its
  replay was answered "retryable": a signature is good for 30 to 900 s
  (`signature.mjs`), so both happen in every deployment. The mapping of
  `ImplementsLogicalSend` therefore reads a send that was closed as unsent after such a
  refusal (`Overtaken`) as unknown. `AtMostOneCopy` holds regardless: the receipt still knows.
* **A completed request may keep a reservation** (`request_finishes_with_work`).
  `CompleteMessageRequest` cancels lapsed siblings and then counts the outstanding ones, at
  two clock readings. A lease that lapses between them is neither cancelled nor
  counted, and nothing touches it after the request is completed. It gives no authority, and
  an import cancels it: the row only shows work that is not there.
* **A late begin stops a later operation** (`move_lost_response`).
  `BeginAccountEvacuation` refuses the one evacuation the row remembers as its last. A begin
  of an older one, repeated after its 15 s timeout and served late, freezes the row again;
  if a later evacuation's abort (or completion) was carried out meanwhile and its answer was
  lost, the repeated request meets the wrong marker and is refused each time, although the
  comments of both calls say that a lost response is retryable. The operation does not end,
  and nothing releases the row. Between operations the same begin leaves the account frozen;
  the next evacuation is then refused as in progress.

Two more things a late call does to an account move, which contradict no document and
so are written into the properties of `move`. A request to close may take up to 4.75
minutes (`ACCOUNT_CLOSE_TIMEOUT_MS`: the handler bills between its check and its commit),
and one that commits after its operation was given up and the account was moved back
makes a tombstone where the archive says "active"; `resumeTarget` refuses that answer for
good. With the late begin it is what `Overtaken` describes, and `OperationEnds` promises
an end only without it. And a `complete()` of a multipart upload that lands after the
abort deleted the object, or after the archive was cleaned up, leaves an object in R2
that nothing leads to: no property says that there is none.

Two places where a document says more than the code does, met while modelling and
written into the properties instead. `docs/narrative-memory-and-curation.md` says that a
trigger can never disappear into an already claimed run; a claimed request that is
cancelled or runs out of attempts leaves no follow-up, so `WriteIsOwedARun` accepts a
request in any state but fulfilled. And a replay may consume versions that a later
rollback undoes, so `NothingRestsOnUndoneWork` exempts replays.

## 7. What is left out

Contents (subjects, bodies, digests, keys, signatures) are left out, except where two of
them are compared, and so are audit events, metrics and HTTP. In the outbox: drafts and
approvals before queueing, rate buckets, and the archive rows an import normalises. At
the edge: receipts written before the lineage fields, a second digest for one send, and the
counters of receipt replay. In message requests: retention of closed requests, and
whatever the export streams besides the request. In the vault: cryptography, archiving
and tags of secrets, replies to a repeated idempotency key. In curation: permanent
deletion, the evidence and transcript streams, relations and fact proposals of a plan,
due times, receipts of repeated calls, authorization; a supersede names one
replacement. In the account move: the coordinator of the target cell (its admission is a
refusal that may happen), reservations and residents, quarantine of corrupt archives,
pending and owner-suspended accounts, cells that are deregistered, placement and email
policies, and the tables of the archive (its content is a number of writes and a status).
PostgreSQL is taken at its word: a transaction is atomic, a statement blocked on a
row sees the row as committed, and a session lock ends with its session. KV writes
and reads are taken as atomic and current; the driver looks at a key before it writes or
deletes it and repeats the step after a crash (`applyProjection`).
