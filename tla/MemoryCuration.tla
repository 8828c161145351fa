-------------------------- MODULE MemoryCuration --------------------------
(***************************************************************************)
(* The curation of one agent's memories.  Every write of the agent raises  *)
(* the generation of its curation lane and queues a request; a model-      *)
(* driven worker starts a run, which freezes the memories changed since    *)
(* the cursor under a lease and a fence, submits a plan, and applies it;   *)
(* an applied run may be rolled back, and is then replayed.  Workers keep  *)
(* no lock while they reason, so the agent writes, leases lapse, other     *)
(* workers start and requests arrive between any two of their calls.       *)
(*                                                                         *)
(* The scope is the default one reduced to its memory stream: evidence and *)
(* transcripts have cursors of their own, moved by the same statements.    *)
(* When a request is due is left open, so a start may happen at any time   *)
(* its other conditions allow, and time is the number of ticks left on the *)
(* lease of the active run.                                                *)
(***************************************************************************)
EXTENDS Integers, FiniteSets, Sequences, SequencesExt

CONSTANTS Memory,        \* memory ids, positive integers allocated in order
          MaxChanges,    \* bound on the owner's change clock
          MaxGeneration, \* bound on the request generation of the lane
          MaxRuns,       \* bound on runs
          MaxRequests,   \* bound on requests
          MaxActions,    \* bound on the memories one plan writes
          MaxAttempts,   \* max_attempts of every request
          MaxLease,      \* longest lease, in ticks
          ActiveLimit    \* stored-memory limit of the account's plan

ASSUME BoundsAreNat ==
  /\ Memory \subseteq Nat \ {0} /\ IsFiniteSet(Memory)
  /\ {MaxChanges, MaxGeneration, MaxRuns, MaxRequests, MaxActions, MaxAttempts,
      MaxLease, ActiveLimit} \subseteq Nat

VARIABLES
  lane,      \* memory_curation_lanes: generation, fence, active run or 0
  requests,  \* memory_curation_requests, in order of creation
  runs,      \* memory_curation_runs with their inputs and plan
  versions,  \* memory_versions: the history of each memory, <<>> if absent
  clock,     \* memory_change_clocks.last_change_seq
  count,     \* memory_change_clocks.active_memory_count
  cursor     \* memory_curation_cursors.position of the memory stream

vars == <<lane, requests, runs, versions, clock, count, cursor>>

Automatic == 0    \* the reserved coalescing key of source writes
Explicit == -1    \* a coalescing key chosen by a client; runs name replays

Waiting == {"queued", "retry_wait"}
Live == {"open", "planned"}

HeadOf(m) == Last(versions[m])
Exists(m) == versions[m] # <<>>
HeadIs(m, states) == Exists(m) /\ HeadOf(m).state \in states
Current(m) == <<m, Len(versions[m])>>
ActiveHeads == {m \in Memory : HeadIs(m, {"active"})}

\* One memory version: its state, its place on the change clock, and for a
\* version the agent wrote itself the generation that write raised, else 0.
Version(state, seq, gen) == [state |-> state, seq |-> seq, gen |-> gen]

NoPlan == [create |-> {}, replace |-> {}, supersede |-> {}, cites |-> {}]

(***************************************************************************)
(* The queue.                                                              *)
(***************************************************************************)
NewRequest(key, gen) ==
  [key |-> key, gen |-> gen, state |-> "queued", attempts |-> 0,
   fulfilled |-> 0, run |-> 0]

\* The oldest unfinished request of a coalescing key takes a new generation
\* in place; without one a request is inserted.  `wake` tells whether a
\* request that waits for a retry becomes due with it.
Coalesced(key, gen, wake) ==
  LET live == {q \in DOMAIN requests :
                 requests[q].key = key /\ requests[q].state \in Waiting \cup {"claimed"}}
  IN IF live = {}
     THEN Append(requests, NewRequest(key, gen))
     ELSE [q \in DOMAIN requests |->
             IF q # CHOOSE p \in live : \A s \in live : p <= s THEN requests[q]
             ELSE [requests[q] EXCEPT
                     !.gen = gen,
                     !.state = IF wake /\ @ = "retry_wait" THEN "queued" ELSE @]]

\* The bounds on the queue, stated of the step that raises the generation.
Room == lane.gen < MaxGeneration /\ Len(requests') <= MaxRequests

\* RequestCuration.  A trigger generation ahead of the lane, which would only
\* leave a gap in the numbers, is not modelled.
RequestCuration ==
  \E due \in BOOLEAN :
    /\ lane' = [lane EXCEPT !.gen = @ + 1]
    /\ requests' = Coalesced(Explicit, lane.gen + 1, due)
    /\ Room
    /\ UNCHANGED <<runs, versions, clock, count, cursor>>

(***************************************************************************)
(* The agent's own writes.  Each marks curation due in its transaction.    *)
(***************************************************************************)
FitsPlan(delta) == delta <= 0 \/ count + delta <= ActiveLimit

\* `writes` gives each memory written its new state; the owner clock numbers
\* them in order of their ids.
Appended(writes, gen) ==
  LET place(m) == Cardinality({n \in DOMAIN writes : n <= m})
  IN [m \in Memory |->
        IF m \notin DOMAIN writes THEN versions[m]
        ELSE Append(versions[m], Version(writes[m], clock + place(m), gen))]

Delta(writes) ==
  Cardinality({m \in DOMAIN writes : writes[m] = "active"})
    - Cardinality(ActiveHeads \cap DOMAIN writes)

OwnerWrite(writes) ==
  /\ clock + Cardinality(DOMAIN writes) <= MaxChanges
  /\ FitsPlan(Delta(writes))
  /\ lane' = [lane EXCEPT !.gen = @ + 1]
  /\ requests' = Coalesced(Automatic, lane.gen + 1, TRUE)
  /\ Room
  /\ versions' = Appended(writes, lane.gen + 1)
  /\ clock' = clock + Cardinality(DOMAIN writes)
  /\ count' = count + Delta(writes)
  /\ UNCHANGED <<runs, cursor>>

\* The next id: no row holds it and no accepted plan has reserved it.
Fresh(m) ==
  LET free == {n \in Memory : ~Exists(n) /\ \A r \in DOMAIN runs : n \notin runs[r].plan.create}
  IN m \in free /\ \A n \in free : m <= n

CaptureMemory == \E m \in Memory : Fresh(m) /\ OwnerWrite([n \in {m} |-> "active"])

AdjustMemory ==
  \E m \in Memory : HeadIs(m, {"active"}) /\ OwnerWrite([n \in {m} |-> "active"])

ForgetMemory ==
  \E m \in Memory :
    HeadIs(m, {"active", "superseded"}) /\ OwnerWrite([n \in {m} |-> "forgotten"])

\* The state a forgotten memory returns to is the one it was forgotten in.
RestoreMemory ==
  \E m \in Memory :
    /\ HeadIs(m, {"forgotten"})
    /\ OwnerWrite([n \in {m} |-> versions[m][Len(versions[m]) - 1].state])

ReactivateMemory ==
  \E m \in Memory :
    HeadIs(m, {"superseded", "reverted"}) /\ OwnerWrite([n \in {m} |-> "active"])

SupersedeMemory ==
  \E m, n \in Memory :
    /\ HeadIs(m, {"active"}) /\ Fresh(n)
    /\ OwnerWrite([i \in {m, n} |-> IF i = n THEN "active" ELSE "superseded"])

(***************************************************************************)
(* Runs.  A run ends by giving its request a new state and its lane a new  *)
(* fence; the attempt counts against max_attempts unless it was a preview. *)
(***************************************************************************)
Expired == lane.active # 0 /\ runs[lane.active].lease = 0

\* Faulty: a preview that is abandoned keeps its request.
RetriedWhenCounted(q, counted) ==
  LET tried == requests[q].attempts + 1
  IN IF ~counted THEN requests
     ELSE [requests EXCEPT ![q].attempts = tried, ![q].run = 0,
             ![q].state = IF tried >= MaxAttempts THEN "dead_letter" ELSE "retry_wait"]

Retried(q, counted) ==
  LET tried == requests[q].attempts + (IF counted THEN 1 ELSE 0)
  IN [requests EXCEPT ![q] =
        [@ EXCEPT !.attempts = tried, !.run = 0,
                  !.state = IF counted /\ tried >= MaxAttempts
                            THEN "dead_letter" ELSE "retry_wait"]]

Ended(r, state) == [runs EXCEPT ![r].state = state, ![r].lease = 0]

Released == [lane EXCEPT !.active = 0, !.fence = @ + 1]

\* interruptExpiredCurationRunTx, alone in its transaction: a plan, apply,
\* cancel or abandon of any worker, a renew of this run, or a start that
\* goes no further, commits it and returns an error.
InterruptExpired ==
  /\ Expired
  /\ runs' = Ended(lane.active, "interrupted")
  /\ requests' = Retried(runs[lane.active].request, TRUE)
  /\ lane' = Released
  /\ UNCHANGED <<versions, clock, count, cursor>>

\* The active heads past the cursor, and the first of them in order of their
\* change, cut at the cap of the call.
Changed == {m \in ActiveHeads : HeadOf(m).seq > cursor}
Kept(cap) ==
  {m \in Changed : Cardinality({n \in Changed : HeadOf(n).seq < HeadOf(m).seq}) < cap}

\* Faulty: a cut snapshot ends at the clock as a full one does.
SnapshotToClock(cap) == [inputs |-> {Current(m) : m \in Kept(cap)}, upto |-> clock]

\* The interval of a cut snapshot ends at its last input.
Snapshot(cap) ==
  LET ends == {HeadOf(m).seq : m \in Kept(cap)}
  IN [inputs |-> {Current(m) : m \in Kept(cap)},
      upto |-> IF Kept(cap) = Changed THEN clock
               ELSE CHOOSE last \in ends : \A s \in ends : s <= last]

\* The inputs of a replay: those of the rolled-back run and the current
\* heads of every memory its inputs or its plan name, with no interval.
ReplaySnapshot(original) ==
  LET run == runs[original]
      named == {i[1] : i \in run.inputs} \cup run.plan.create
  IN [inputs |-> run.inputs \cup {Current(m) : m \in named}, upto |-> cursor]

StartCuration(q, lease, cap) ==
  LET asked == IF Expired THEN Retried(runs[lane.active].request, TRUE) ELSE requests
      past == IF Expired THEN Ended(lane.active, "interrupted") ELSE runs
      fence == lane.fence + 1
      snapshot == IF requests[q].key > 0 THEN ReplaySnapshot(requests[q].key)
                  ELSE Snapshot(cap)
      run == [request |-> q, gen |-> asked[q].gen, fence |-> fence, state |-> "open",
              lease |-> lease, inputs |-> snapshot.inputs, from |-> cursor,
              upto |-> snapshot.upto, upper |-> clock, plan |-> NoPlan,
              produced |-> {}]
  IN /\ lane.active = 0 \/ Expired
     /\ asked[q].state \in Waiting /\ asked[q].attempts < MaxAttempts
     /\ Len(runs) < MaxRuns
     /\ runs' = Append(past, run)
     /\ requests' = [asked EXCEPT ![q].state = "claimed", ![q].run = Len(runs) + 1]
     /\ lane' = [lane EXCEPT !.active = Len(runs) + 1, !.fence = fence]
     /\ UNCHANGED <<versions, clock, count, cursor>>

\* A call of a worker for its own run passes the lane only with its fence.
Holds(r) ==
  /\ lane.active = r /\ lane.fence = runs[r].fence
  /\ runs[r].lease > 0
  /\ runs[r].state \in Live

RenewCuration(r, extension) ==
  /\ Holds(r)
  /\ runs' = [runs EXCEPT ![r].lease = IF @ > extension THEN @ ELSE extension]
  /\ UNCHANGED <<lane, requests, versions, clock, count, cursor>>

\* A version a plan may name: frozen with the run, neither it nor its head
\* forgotten or reverted.  What it writes must be the current active head.
Nameable(r) ==
  {i \in runs[r].inputs :
     /\ versions[i[1]][i[2]].state \notin {"forgotten", "reverted"}
     /\ HeadOf(i[1]).state \notin {"forgotten", "reverted"}}
Writable(r) ==
  {i[1] : i \in {n \in Nameable(r) : n = Current(n[1]) /\ HeadIs(n[1], {"active"})}}

PlanCuration(r, plan) ==
  /\ Holds(r) /\ runs[r].state = "open"
  /\ requests[runs[r].request].state = "claimed"
  /\ plan.replace \cup plan.supersede \subseteq Writable(r)
  /\ plan.replace \cap plan.supersede = {}
  /\ plan.cites \subseteq Nameable(r)
  /\ \A m \in plan.create : Fresh(m)
  /\ plan.supersede # {} =>
       \/ plan.create # {}
       \/ \E m \in Writable(r) \ plan.supersede : Current(m) \in plan.cites
  /\ runs' = [runs EXCEPT ![r].state = "planned", ![r].plan = plan]
  /\ UNCHANGED <<lane, requests, versions, clock, count, cursor>>

\* CancelCuration ends the request; AbandonCuration gives it back, without
\* counting the attempt when a planned run only showed its preview.
FinishCuration(r, requests_) ==
  /\ Holds(r)
  /\ runs' = Ended(r, "abandoned")
  /\ requests' = requests_
  /\ lane' = Released
  /\ UNCHANGED <<versions, clock, count, cursor>>

CancelCuration(r) ==
  FinishCuration(r, [requests EXCEPT ![runs[r].request].state = "cancelled"])

AbandonCuration(r, preview) ==
  /\ preview => runs[r].state = "planned"
  /\ FinishCuration(r, Retried(runs[r].request, ~preview))

(***************************************************************************)
(* Apply and rollback.                                                     *)
(***************************************************************************)
Writes(plan) ==
  [m \in plan.create \cup plan.replace \cup plan.supersede |->
     IF m \in plan.supersede THEN "superseded" ELSE "active"]

\* The versions the actions of a run cite or expect as heads: its input refs.
Consumed(r) ==
  runs[r].plan.cites \cup
  {i \in runs[r].inputs : i[1] \in runs[r].plan.replace \cup runs[r].plan.supersede}

\* Whether the heads and the cursor still are what the plan was made for.
Fits(r) ==
  /\ \A i \in Consumed(r) :
       /\ HeadIs(i[1], {"active"})
       /\ versions[i[1]][i[2]].state \notin {"forgotten", "reverted"}
  /\ \A m \in runs[r].plan.replace \cup runs[r].plan.supersede :
       Current(m) \in runs[r].inputs
  /\ \A m \in runs[r].plan.create : ~Exists(m)
  /\ cursor = runs[r].from \/ runs[r].upto = runs[r].from

\* Faulty: a superseded memory is still counted.
CreatedDelta(plan) == Cardinality(plan.create)

PlanDelta(plan) == Cardinality(plan.create) - Cardinality(plan.supersede)

\* Whether the snapshot of the run was cut, so that its interval ends short
\* of the clock it read.  A replay acknowledges no source.
Backlog(r, position) ==
  requests[runs[r].request].key <= 0 /\ position < runs[r].upper

\* Faulty: a generation raised during the run is forgotten.
FollowUpOfBacklog(r, position) ==
  LET q == runs[r].request
      done == [requests EXCEPT ![q].state = "fulfilled", ![q].fulfilled = runs[r].gen]
  IN IF Backlog(r, position)
     THEN [requests |-> Append(done, NewRequest(requests[q].key, lane.gen + 1)),
           gen |-> lane.gen + 1]
     ELSE [requests |-> done, gen |-> lane.gen]

\* The request is fulfilled up to the generation its run captured.  One
\* raised since, or a backlog, becomes a follow-up with the same key.
FollowUp(r, position) ==
  LET q == runs[r].request
      raised == requests[q].gen > runs[r].gen
      done == [requests EXCEPT ![q].state = "fulfilled", ![q].fulfilled = runs[r].gen]
      next == IF raised THEN requests[q].gen ELSE lane.gen + 1
  IN IF raised \/ Backlog(r, position)
     THEN [requests |-> Append(done, NewRequest(requests[q].key, next)),
           gen |-> IF raised THEN lane.gen ELSE next]
     ELSE [requests |-> done, gen |-> lane.gen]

ApplyCuration(r) ==
  LET plan == runs[r].plan
      position == IF runs[r].upto > runs[r].from THEN runs[r].upto ELSE cursor
      follow == FollowUp(r, position)
      writes == Writes(plan)
  IN /\ Holds(r) /\ runs[r].state = "planned"
     /\ requests[runs[r].request].state = "claimed"
     /\ Fits(r) /\ FitsPlan(PlanDelta(plan))
     /\ clock + Cardinality(DOMAIN writes) <= MaxChanges
     /\ versions' = Appended(writes, 0)
     /\ clock' = clock + Cardinality(DOMAIN writes)
     /\ count' = count + PlanDelta(plan)
     /\ cursor' = position
     /\ requests' = follow.requests
     /\ Len(requests') <= MaxRequests /\ follow.gen <= MaxGeneration
     /\ lane' = [lane EXCEPT !.gen = follow.gen, !.active = 0]
     /\ runs' = [Ended(r, "applied") EXCEPT
                   ![r].produced = {<<m, Len(versions[m]) + 1>> : m \in DOMAIN writes}]

\* A stale plan writes nothing and ends its run.
ConflictCuration(r) ==
  /\ Holds(r) /\ runs[r].state = "planned"
  /\ requests[runs[r].request].state = "claimed"
  /\ ~Fits(r)
  /\ runs' = Ended(r, "conflict")
  /\ requests' = Retried(runs[r].request, TRUE)
  /\ lane' = Released
  /\ UNCHANGED <<versions, clock, count, cursor>>

\* Faulty: only a later head stands in the way.
BlockedByHead(r) == \E i \in runs[r].produced : i # Current(i[1])

\* What stands in the way of a rollback: a produced version that is no
\* longer the head, or that an action of another applied run consumed.
Blocked(r) ==
  \/ \E i \in runs[r].produced : i # Current(i[1])
  \/ \E c \in DOMAIN runs \ {r} :
       runs[c].state = "applied" /\ Consumed(c) \cap runs[r].produced # {}

\* Every write is compensated by a further version, the cursor stays, and a
\* read-only replay of the run is queued under a key of its own.
RollbackCuration(r) ==
  LET plan == runs[r].plan
      undone == [m \in DOMAIN Writes(plan) |->
                   IF m \in plan.create THEN "reverted" ELSE "active"]
  IN /\ lane.active = 0
     /\ runs[r].state = "applied"
     /\ ~Blocked(r)
     /\ clock + Cardinality(DOMAIN undone) <= MaxChanges
     /\ versions' = Appended(undone, 0)
     /\ clock' = clock + Cardinality(DOMAIN undone)
     /\ count' = count - PlanDelta(plan)
     /\ lane' = [lane EXCEPT !.gen = @ + 1]
     /\ requests' = Append(requests, NewRequest(r, lane.gen + 1))
     /\ Room
     /\ runs' = Ended(r, "rolled_back")
     /\ UNCHANGED cursor

\* A tick of the clock on the lease of the active run.
Tick ==
  /\ lane.active # 0 /\ runs[lane.active].lease > 0
  /\ runs' = [runs EXCEPT ![lane.active].lease = @ - 1]
  /\ UNCHANGED <<lane, requests, versions, clock, count, cursor>>

Plans(r) ==
  {p \in [create : {{}} \cup {{m} : m \in {n \in Memory : Fresh(n)}},
          replace : SUBSET Writable(r), supersede : SUBSET Writable(r),
          cites : SUBSET Nameable(r)] :
     Cardinality(p.create \cup p.replace \cup p.supersede) <= MaxActions}

Init ==
  /\ lane = [gen |-> 0, fence |-> 0, active |-> 0]
  /\ requests = <<>> /\ runs = <<>>
  /\ versions = [m \in Memory |-> <<>>]
  /\ clock = 0 /\ count = 0 /\ cursor = 0

Next ==
  \/ RequestCuration
  \/ CaptureMemory \/ AdjustMemory \/ ForgetMemory \/ RestoreMemory
  \/ ReactivateMemory \/ SupersedeMemory
  \/ InterruptExpired \/ Tick
  \/ \E q \in DOMAIN requests, lease \in 1..MaxLease, cap \in 1..Cardinality(Memory) :
       StartCuration(q, lease, cap)
  \/ \E r \in DOMAIN runs :
       \/ \E extension \in 1..MaxLease : RenewCuration(r, extension)
       \/ \E plan \in Plans(r) : PlanCuration(r, plan)
       \/ CancelCuration(r)
       \/ \E preview \in BOOLEAN : AbandonCuration(r, preview)
       \/ ApplyCuration(r) \/ ConflictCuration(r) \/ RollbackCuration(r)

Spec == Init /\ [][Next]_vars

(***************************************************************************)
(* What must hold.                                                         *)
(***************************************************************************)
\* The lane names the only live run, that run and its request name each
\* other and no other request is claimed, and fences grow with every run,
\* so that a call of an earlier worker can never pass for the present one.
LaneIsFenced ==
  /\ {r \in DOMAIN runs : runs[r].state \in Live} = {lane.active} \ {0}
  /\ \A q \in DOMAIN requests :
       requests[q].state = "claimed" <=>
         lane.active # 0 /\ runs[lane.active].request = q
  /\ lane.active # 0 =>
       /\ requests[runs[lane.active].request].run = lane.active
       /\ runs[lane.active].fence = lane.fence
  /\ \A r \in DOMAIN runs :
       /\ runs[r].fence <= lane.fence
       /\ \A s \in DOMAIN runs : s < r => runs[s].fence < runs[r].fence

\* Nothing is passed over: when the cursor stands at or past the change that
\* made a memory what it is, a run that was applied had that very version
\* among its inputs, however the snapshots were cut.
PassedMeansReviewed ==
  \A m \in ActiveHeads :
    HeadOf(m).seq <= cursor =>
      \E r \in DOMAIN runs : /\ runs[r].state \in {"applied", "rolled_back"}
                             /\ Current(m) \in runs[r].inputs

\* A write of the agent past the cursor is still owed a run: an automatic
\* request of at least its generation waits or is claimed, unless one such
\* request was cancelled or ran out of attempts.
WriteIsOwedARun ==
  \A m \in Memory : \A v \in DOMAIN versions[m] :
    versions[m][v].gen > 0 /\ versions[m][v].seq > cursor =>
      \E q \in DOMAIN requests :
        /\ requests[q].key = Automatic
        /\ requests[q].gen >= versions[m][v].gen
        /\ requests[q].state # "fulfilled"

\* The counter the stored-memory limit is checked against is the number of
\* active heads, through every plan and every compensation of one.
CountIsExact == count = Cardinality(ActiveHeads)

\* No applied plan rests on a version whose run was rolled back, except in a
\* replay, which is shown the versions of the run it replays.
NothingRestsOnUndoneWork ==
  \A c, r \in DOMAIN runs :
    /\ runs[c].state = "applied" /\ runs[r].state = "rolled_back"
    /\ requests[runs[c].request].key <= 0
    => Consumed(c) \cap runs[r].produced = {}

=============================================================================
