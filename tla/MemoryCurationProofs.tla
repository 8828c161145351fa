----------------------- MODULE MemoryCurationProofs -----------------------
(***************************************************************************)
(* Theorems about the curation of memories, for every finite set of        *)
(* memories and every bound on changes, generations, runs, requests,       *)
(* actions, attempts, leases and stored memories.                          *)
(***************************************************************************)
EXTENDS MemoryCuration, FiniteSetTheorems, WellFoundedInduction, TLAPS

VersionStates == {"active", "forgotten", "superseded", "reverted"}
RequestStates == {"queued", "retry_wait", "claimed", "dead_letter", "cancelled", "fulfilled"}
RunStates     == {"open", "planned", "interrupted", "abandoned", "conflict", "applied",
                  "rolled_back"}

Ref == Memory \X Nat

MemoryVersion == [state : VersionStates, seq : Nat, gen : Nat]
Request == [key : {Automatic, Explicit} \cup Nat, gen : Nat, state : RequestStates,
            attempts : Nat, fulfilled : Nat, run : Nat]
Plan == [create : SUBSET Memory, replace : SUBSET Memory, supersede : SUBSET Memory,
         cites : SUBSET Ref]
Run == [request : Nat, gen : Nat, fence : Nat, state : RunStates, lease : Nat,
        inputs : SUBSET Ref, from : Nat, upto : Nat, upper : Nat, plan : Plan,
        produced : SUBSET Ref]
Lane == [gen : Nat, fence : Nat, active : Nat]

-----------------------------------------------------------------------------
(* The inductive invariant, of a lane L, requests Q, runs R, versions V, a   *)
(* clock c, a count n and a cursor k.                                        *)

Typed(L, Q, R, V, c, k) ==
    /\ L \in Lane /\ Q \in Seq(Request) /\ R \in Seq(Run)
    /\ V \in [Memory -> Seq(MemoryVersion)] /\ c \in Nat /\ k \in Nat

IsLive(L, Q, R) ==
    /\ {r \in DOMAIN R : R[r].state \in Live} = {L.active} \ {0}
    /\ \A q \in DOMAIN Q :
         Q[q].state = "claimed" <=> L.active # 0 /\ R[L.active].request = q
    /\ L.active # 0 => Q[R[L.active].request].run = L.active

\* The runs are fenced in order, and each belongs to a request.
InOrder(L, Q, R) ==
    /\ L.active # 0 => R[L.active].fence = L.fence
    /\ \A r \in DOMAIN R :
         /\ R[r].request \in DOMAIN Q
         /\ R[r].fence <= L.fence
         /\ \A s \in DOMAIN R : s < r => R[s].fence < R[r].fence
    /\ \A q \in DOMAIN Q : Q[q].key <= Len(R)

\* Nothing is numbered past the generation of the lane or the owner's clock.
Bounded(L, Q, R, V, c, k) ==
    /\ \A q \in DOMAIN Q : Q[q].gen <= L.gen
    /\ \A r \in DOMAIN R : R[r].gen <= L.gen /\ R[r].upto <= c
    /\ \A m \in Memory : \A v \in DOMAIN V[m] : V[m][v].seq <= c
    /\ k <= c

\* A memory begins active.
BornActive(V) == \A m \in Memory : V[m] # <<>> => V[m][1].state = "active"

Heads(V) == {m \in Memory : V[m] # <<>> /\ V[m][Len(V[m])].state = "active"}
HeadRef(V, m) == <<m, Len(V[m])>>

\* A plan does one thing to a memory, and cites what its run was shown.
PlanFits(run) ==
    /\ run.plan.create \cap (run.plan.replace \cup run.plan.supersede) = {}
    /\ run.plan.replace \cap run.plan.supersede = {}
    /\ run.plan.cites \subseteq run.inputs

\* What an applied run produced is on record as its plan says, and what a
\* rolled-back run produced lies below the heads.
OnRecord(run, V) ==
    /\ run.state = "applied" =>
         /\ \A m \in DOMAIN Writes(run.plan) :
              \E v \in DOMAIN V[m] : /\ <<m, v>> \in run.produced
                                     /\ V[m][v].state = Writes(run.plan)[m]
         /\ \A i \in run.produced : i[1] \in DOMAIN Writes(run.plan) /\ i[2] \in DOMAIN V[i[1]]
    /\ run.state = "rolled_back" => \A i \in run.produced : i[2] < Len(V[i[1]])

\* A run under way was shown every active head of its interval.
IntervalIsFrozen(run, V) ==
    \A m \in Heads(V) :
      run.from < V[m][Len(V[m])].seq /\ V[m][Len(V[m])].seq <= run.upto =>
        HeadRef(V, m) \in run.inputs

\* What the agent wrote since a run under way began is of a later generation.
LaterIsNewer(run, V) ==
    \A m \in Memory : \A v \in DOMAIN V[m] :
      V[m][v].gen > 0 /\ V[m][v].seq > run.upper => V[m][v].gen > run.gen

ShownNoUndoneWork(run, Q, R) ==
    Q[run.request].key <= 0 =>
      \A r \in DOMAIN R : R[r].state = "rolled_back" => run.inputs \cap R[r].produced = {}

UsedBy(run) ==
    run.plan.cites \cup
    {i \in run.inputs : i[1] \in run.plan.replace \cup run.plan.supersede}

Counted(V, n) == n = Cardinality(Heads(V))

Reviewed(R, V, k) ==
    \A m \in Heads(V) :
      V[m][Len(V[m])].seq <= k =>
        \E r \in DOMAIN R : R[r].state \in {"applied", "rolled_back"} /\ HeadRef(V, m) \in R[r].inputs

Owed(Q, V, k) ==
    \A m \in Memory : \A v \in DOMAIN V[m] :
      V[m][v].gen > 0 /\ V[m][v].seq > k =>
        \E q \in DOMAIN Q : /\ Q[q].key = Automatic /\ Q[q].gen >= V[m][v].gen
                            /\ Q[q].state # "fulfilled"

Rests(Q, R) ==
    \A a, r \in DOMAIN R :
      R[a].state = "applied" /\ R[r].state = "rolled_back" /\ Q[R[a].request].key <= 0
        => UsedBy(R[a]) \cap R[r].produced = {}

\* What holds of each run, and of a run under way.
RunsAreSound(Q, R, V) ==
    \A r \in DOMAIN R :
      /\ PlanFits(R[r]) /\ OnRecord(R[r], V)
      /\ R[r].state \in Live =>
           /\ IntervalIsFrozen(R[r], V) /\ LaterIsNewer(R[r], V)
           /\ ShownNoUndoneWork(R[r], Q, R)

Sound(L, Q, R, V, c, n, k) ==
    /\ Typed(L, Q, R, V, c, k) /\ IsLive(L, Q, R) /\ InOrder(L, Q, R)
    /\ Bounded(L, Q, R, V, c, k) /\ BornActive(V) /\ RunsAreSound(Q, R, V)
    /\ Counted(V, n) /\ Reviewed(R, V, k) /\ Owed(Q, V, k) /\ Rests(Q, R)

CurationIsSound == Sound(lane, requests, runs, versions, clock, count, cursor)

-----------------------------------------------------------------------------
(* Sets of memories, and sequences *)

LEMMA MemorySets ==
    /\ Memory \subseteq Nat \ {0}
    /\ \A S \in SUBSET Memory : IsFiniteSet(S) /\ Cardinality(S) \in Nat
    /\ \A S \in SUBSET Memory : \A T \in SUBSET S : Cardinality(T) <= Cardinality(S)
<1>1. Memory \subseteq Nat \ {0} /\ IsFiniteSet(Memory)
  BY BoundsAreNat
<1>2. \A S \in SUBSET Memory : IsFiniteSet(S)
  BY <1>1, FS_Subset
<1> QED BY <1>1, <1>2, FS_Subset, FS_CardinalityType

LEMMA SequenceOf ==
    ASSUME NEW S, NEW n \in Nat, NEW f, f \in [1 .. n -> S]
    PROVE  f \in Seq(S) /\ Len(f) = n /\ DOMAIN f = 1 .. n
OBVIOUS

LEMMA AppendedTo ==
    ASSUME NEW S, NEW s \in Seq(S), NEW e \in S
    PROVE  /\ Append(s, e) \in Seq(S) /\ Len(Append(s, e)) = Len(s) + 1
           /\ DOMAIN Append(s, e) = 1 .. Len(s) + 1
           /\ \A i \in 1 .. Len(s) : Append(s, e)[i] = s[i]
           /\ Append(s, e)[Len(s) + 1] = e
OBVIOUS

\* A set of numbers that is not empty has a least one.
LEMMA LeastOf ==
    ASSUME NEW S, S \subseteq Nat, S # {}
    PROVE  \E x \in S : \A y \in S : x <= y
<1> DEFINE R == OpToRel(<, Nat)
<1>1. IsWellFoundedOn(R, Nat)
  BY NatLessThanWellFounded
<1>2. \A x, y \in Nat : x < y => <<x, y>> \in R
  BY DEF OpToRel
<1> HIDE DEF R
<1>3. PICK x \in S : \A y \in S : ~ (<<y, x>> \in R)
  BY <1>1, WFMin
<1>4. \A y \in S : ~ (y < x)
  BY <1>2, <1>3
<1> QED BY <1>4

-----------------------------------------------------------------------------
(* The queue: a request keeps its key, and is claimed or fulfilled by no     *)
(* writer                                                                    *)

Carries(Q, Q2, g) ==
    /\ Q2 \in Seq(Request) /\ Len(Q) <= Len(Q2)
    /\ \A q \in 1 .. Len(Q) :
         /\ Q2[q].key = Q[q].key /\ Q2[q].run = Q[q].run /\ Q2[q].gen \in {Q[q].gen, g}
         /\ Q2[q].state = "claimed" <=> Q[q].state = "claimed"
         /\ Q2[q].state = "fulfilled" <=> Q[q].state = "fulfilled"
    /\ \A q \in Len(Q) + 1 .. Len(Q2) :
         Q2[q].key \in {Automatic, Explicit} /\ Q2[q].gen = g /\ Q2[q].state = "queued"

\* Some request of the key is owed for the generation.
IsAsked(Q, key, g) ==
    \E q \in DOMAIN Q : Q[q].key = key /\ Q[q].gen = g /\ Q[q].state # "fulfilled"

LEMMA NewRequestTyped ==
    ASSUME NEW key \in {Automatic, Explicit} \cup Nat, NEW gen \in Nat
    PROVE  /\ NewRequest(key, gen) \in Request
           /\ NewRequest(key, gen).key = key /\ NewRequest(key, gen).gen = gen
           /\ NewRequest(key, gen).state = "queued"
BY DEF NewRequest, Request, RequestStates

LEMMA CoalescedCarries ==
    ASSUME requests \in Seq(Request), NEW key \in {Automatic, Explicit}, NEW gen \in Nat,
           NEW wake \in BOOLEAN
    PROVE  /\ Carries(requests, Coalesced(key, gen, wake), gen)
           /\ IsAsked(Coalesced(key, gen, wake), key, gen)
<1> DEFINE waiting == {q \in DOMAIN requests :
                        requests[q].key = key /\ requests[q].state \in Waiting \cup {"claimed"}}
           oldest == CHOOSE p \in waiting : \A s \in waiting : p <= s
           moved(q) == [requests[q] EXCEPT
                          !.gen = gen,
                          !.state = IF wake /\ @ = "retry_wait" THEN "queued" ELSE @]
           Q2 == Coalesced(key, gen, wake)
<1>0. DOMAIN requests = 1 .. Len(requests) /\ Len(requests) \in Nat
      /\ \A q \in 1 .. Len(requests) : requests[q] \in Request
  OBVIOUS
<1>1. CASE waiting = {}
  <2>1. Q2 = Append(requests, NewRequest(key, gen))
    BY <1>1 DEF Coalesced
  <2>2. NewRequest(key, gen) \in Request
    BY NewRequestTyped
  <2>3. /\ Q2 \in Seq(Request) /\ Len(Q2) = Len(requests) + 1 /\ DOMAIN Q2 = 1 .. Len(Q2)
        /\ \A q \in 1 .. Len(requests) : Q2[q] = requests[q]
        /\ Q2[Len(requests) + 1] = NewRequest(key, gen)
    BY <2>1, <2>2, AppendedTo
  <2> DEFINE last == Len(requests) + 1
  <2>e. Q2[last] = NewRequest(key, gen)
    BY <2>3
  <2>a. Q2[last].key = key /\ Q2[last].gen = gen /\ Q2[last].state = "queued"
    BY <2>e DEF NewRequest
  <2> HIDE DEF Q2
  <2>b. last .. Len(Q2) = {last}
    BY <1>0, <2>3
  <2>c. \A q \in last .. Len(Q2) :
          Q2[q].key \in {Automatic, Explicit} /\ Q2[q].gen = gen /\ Q2[q].state = "queued"
    BY <2>a, <2>b
  <2> HIDE DEF last
  <2>4. Carries(requests, Q2, gen)
    BY <1>0, <2>3, <2>c DEF Carries, last
  <2>d. last \in DOMAIN Q2
    BY <1>0, <2>3 DEF last
  <2>5. IsAsked(Q2, key, gen)
    BY <2>a, <2>d DEF IsAsked
  <2> QED BY <2>4, <2>5 DEF Q2
<1>2. CASE waiting # {}
  <2>1. waiting \subseteq Nat
    BY <1>0
  <2>2. oldest \in waiting
    BY <1>2, <2>1, LeastOf
  <2>3. Q2 = [q \in DOMAIN requests |-> IF q # oldest THEN requests[q] ELSE moved(q)]
    BY <1>2 DEF Coalesced
  <2>4. \A q \in 1 .. Len(requests) :
          /\ moved(q) \in Request /\ moved(q).key = requests[q].key
          /\ moved(q).run = requests[q].run /\ moved(q).gen = gen
          /\ moved(q).state = "claimed" <=> requests[q].state = "claimed"
          /\ moved(q).state = "fulfilled" <=> requests[q].state = "fulfilled"
    BY <1>0 DEF Request, RequestStates
  <2>5. oldest \in 1 .. Len(requests) /\ requests[oldest].key = key
        /\ requests[oldest].state # "fulfilled"
    BY <1>0, <2>2 DEF Waiting
  <2> HIDE DEF Q2, moved, oldest, waiting
  <2>6. /\ DOMAIN Q2 = 1 .. Len(requests)
        /\ \A q \in 1 .. Len(requests) : Q2[q] = IF q # oldest THEN requests[q] ELSE moved(q)
    BY <1>0, <2>3
  <2>7. Q2 \in [1 .. Len(requests) -> Request]
    BY <1>0, <2>3, <2>4
  <2>8. Q2 \in Seq(Request) /\ Len(Q2) = Len(requests)
    BY <1>0, <2>7, SequenceOf
  <2>9. Carries(requests, Q2, gen)
    BY <1>0, <2>4, <2>6, <2>8 DEF Carries
  <2>10. IsAsked(Q2, key, gen)
    BY <2>4, <2>5, <2>6, <2>8 DEF IsAsked
  <2> QED BY <2>9, <2>10 DEF Q2
<1> QED BY <1>1, <1>2

-----------------------------------------------------------------------------
(* Writes: every memory written gains one version, above all others on the   *)
(* owner's clock                                                             *)

Histories == [Memory -> Seq(MemoryVersion)]

IsWrite(V, writes) ==
    /\ DOMAIN writes \subseteq Memory
    /\ \A m \in DOMAIN writes :
         writes[m] \in VersionStates /\ (V[m] = <<>> => writes[m] = "active")

Written(V, W, writes, c, g) ==
    /\ W \in Histories
    /\ \A m \in Memory \ DOMAIN writes : W[m] = V[m]
    /\ \A m \in DOMAIN writes :
         /\ Len(W[m]) = Len(V[m]) + 1
         /\ \A v \in 1 .. Len(V[m]) : W[m][v] = V[m][v]
         /\ W[m][Len(V[m]) + 1].state = writes[m]
         /\ W[m][Len(V[m]) + 1].gen = g
         /\ W[m][Len(V[m]) + 1].seq \in c + 1 .. c + Cardinality(DOMAIN writes)

LEMMA AppendedWrites ==
    ASSUME versions \in Histories, clock \in Nat, NEW writes, IsWrite(versions, writes),
           NEW gen \in Nat
    PROVE  Written(versions, Appended(writes, gen), writes, clock, gen)
<1> DEFINE D == DOMAIN writes
           place(m) == Cardinality({n \in D : n <= m})
           version(m) == Version(writes[m], clock + place(m), gen)
           W == Appended(writes, gen)
<1>1. D \subseteq Memory /\ Cardinality(D) \in Nat
  BY MemorySets DEF IsWrite
<1>2. \A m \in D : place(m) \in 1 .. Cardinality(D)
  <2>1. TAKE m \in D
  <2>a. m \in Nat
    BY <1>1, BoundsAreNat
  <2>2. {n \in D : n <= m} \in SUBSET D /\ m \in {n \in D : n <= m}
    BY <2>a
  <2>3. place(m) \in Nat /\ place(m) <= Cardinality(D)
    BY <1>1, <2>2, MemorySets
  <2>4. place(m) # 0
    BY <1>1, <2>2, MemorySets, FS_EmptySet
  <2> QED BY <1>1, <2>3, <2>4
<1> HIDE DEF place
<1>3. \A m \in D : /\ version(m) \in MemoryVersion /\ version(m).state = writes[m]
                   /\ version(m).gen = gen
                   /\ version(m).seq \in clock + 1 .. clock + Cardinality(D)
  BY <1>1, <1>2 DEF IsWrite, Version, MemoryVersion
<1>4. W = [m \in Memory |-> IF m \notin D THEN versions[m] ELSE Append(versions[m], version(m))]
  BY DEF Appended, place
<1> HIDE DEF version, W, D
<1>5. \A m \in Memory : versions[m] \in Seq(MemoryVersion)
  BY DEF Histories
<1>6. \A m \in Memory \ D : W[m] = versions[m]
  BY <1>4
<1>7. \A m \in D :
        /\ W[m] \in Seq(MemoryVersion) /\ Len(W[m]) = Len(versions[m]) + 1
        /\ \A v \in 1 .. Len(versions[m]) : W[m][v] = versions[m][v]
        /\ W[m][Len(versions[m]) + 1] = version(m)
  <2>1. TAKE m \in D
  <2>2. W[m] = Append(versions[m], version(m))
    BY <1>1, <1>4
  <2> QED BY <1>1, <1>3, <1>5, <2>2, AppendedTo
<1>8. W \in Histories
  BY <1>4, <1>5, <1>6, <1>7 DEF Histories
<1> QED BY <1>3, <1>6, <1>7, <1>8 DEF Written, W, D

LEMMA VersionTyped ==
    ASSUME NEW V \in Histories, NEW m \in Memory
    PROVE  /\ V[m] \in Seq(MemoryVersion) /\ Len(V[m]) \in Nat /\ DOMAIN V[m] = 1 .. Len(V[m])
           /\ V[m] # <<>> => Len(V[m]) \in DOMAIN V[m]
           /\ \A v \in DOMAIN V[m] :
                /\ V[m][v] \in MemoryVersion /\ V[m][v].state \in VersionStates
                /\ V[m][v].seq \in Nat /\ V[m][v].gen \in Nat
<1>1. V[m] \in Seq(MemoryVersion)
  BY DEF Histories
<1>2. \A v \in DOMAIN V[m] : V[m][v] \in MemoryVersion
  BY <1>1
<1>3. \A v \in DOMAIN V[m] :
        V[m][v].state \in VersionStates /\ V[m][v].seq \in Nat /\ V[m][v].gen \in Nat
  BY <1>2 DEF MemoryVersion
<1>4. Len(V[m]) \in Nat /\ DOMAIN V[m] = 1 .. Len(V[m])
      /\ (V[m] # <<>> => Len(V[m]) \in DOMAIN V[m])
  BY <1>1
<1> QED BY <1>1, <1>2, <1>3, <1>4

LEMMA LengthsGrow ==
    ASSUME NEW V \in Histories, NEW W, NEW writes, NEW c, NEW g,
           Written(V, W, writes, c, g), NEW m \in Memory
    PROVE  /\ Len(W[m]) = IF m \in DOMAIN writes THEN Len(V[m]) + 1 ELSE Len(V[m])
           /\ DOMAIN W[m] = 1 .. Len(W[m])
<1>1. W \in Histories
  BY DEF Written
<1>2. DOMAIN W[m] = 1 .. Len(W[m])
  BY <1>1, VersionTyped
<1> QED BY <1>2 DEF Written

\* Every version on record stays.
LEMMA OldVersionsStay ==
    ASSUME NEW V \in Histories, NEW W, NEW writes, NEW c, NEW g,
           Written(V, W, writes, c, g), NEW m \in Memory, NEW v \in DOMAIN V[m]
    PROVE  v \in DOMAIN W[m] /\ W[m][v] = V[m][v]
<1>1. DOMAIN V[m] = 1 .. Len(V[m]) /\ Len(V[m]) \in Nat
  BY VersionTyped
<1>2. v \in DOMAIN W[m]
  BY <1>1, LengthsGrow
<1>3. W[m][v] = V[m][v]
  BY <1>1 DEF Written
<1> QED BY <1>2, <1>3

LEMMA NewVersions ==
    ASSUME NEW V \in Histories, NEW W, NEW writes, NEW c \in Nat, NEW g,
           DOMAIN writes \subseteq Memory, Written(V, W, writes, c, g),
           NEW m \in Memory, NEW v \in DOMAIN W[m], v \notin DOMAIN V[m]
    PROVE  /\ m \in DOMAIN writes /\ v = Len(V[m]) + 1 /\ v = Len(W[m])
           /\ W[m][v].state = writes[m] /\ W[m][v].gen = g
           /\ c < W[m][v].seq /\ W[m][v].seq <= c + Cardinality(DOMAIN writes)
<1>1. DOMAIN V[m] = 1 .. Len(V[m]) /\ Len(V[m]) \in Nat
  BY VersionTyped
<1>2. m \in DOMAIN writes /\ v = Len(V[m]) + 1 /\ v = Len(W[m])
  BY <1>1, LengthsGrow
<1>3. /\ W[m][v].state = writes[m] /\ W[m][v].gen = g
      /\ W[m][v].seq \in c + 1 .. c + Cardinality(DOMAIN writes)
  BY <1>2 DEF Written
<1>4. Cardinality(DOMAIN writes) \in Nat
  BY MemorySets
<1> QED BY <1>2, <1>3, <1>4

\* The head of a memory not written is what it was, that of one written is new.
LEMMA HeadsWritten ==
    ASSUME NEW V \in Histories, NEW W, NEW writes, NEW c, NEW g,
           DOMAIN writes \subseteq Memory, Written(V, W, writes, c, g)
    PROVE  Heads(W) = (Heads(V) \ DOMAIN writes) \cup {m \in DOMAIN writes : writes[m] = "active"}
<1>1. ASSUME NEW m \in Memory \ DOMAIN writes PROVE m \in Heads(W) <=> m \in Heads(V)
  BY DEF Heads, Written
<1>2. ASSUME NEW m \in DOMAIN writes PROVE m \in Heads(W) <=> writes[m] = "active"
  <2>1. Len(V[m]) \in Nat /\ Len(W[m]) = Len(V[m]) + 1
    BY VersionTyped, LengthsGrow
  <2>2. W[m] # <<>>
    BY <2>1
  <2>3. W[m][Len(W[m])].state = writes[m]
    BY <2>1 DEF Written
  <2> QED BY <2>2, <2>3 DEF Heads
<1>3. Heads(W) \subseteq Memory /\ Heads(V) \subseteq Memory
  BY DEF Heads
<1> QED BY <1>1, <1>2, <1>3

LEMMA HeadsCounted ==
    ASSUME NEW V \in Histories, NEW W, NEW writes, NEW c \in Nat, NEW g,
           DOMAIN writes \subseteq Memory, Written(V, W, writes, c, g)
    PROVE  Cardinality(Heads(W)) =
             Cardinality(Heads(V)) + Cardinality({m \in DOMAIN writes : writes[m] = "active"})
               - Cardinality(Heads(V) \cap DOMAIN writes)
<1> DEFINE S == Heads(V)
           D == DOMAIN writes
           new == {m \in D : writes[m] = "active"}
<1>1. S \in SUBSET Memory /\ D \in SUBSET Memory /\ new \in SUBSET Memory
  BY DEF Heads
<1>2. S \ D \in SUBSET Memory /\ S \cap D \in SUBSET Memory
  BY <1>1
<1>3. Heads(W) = (S \ D) \cup new
  BY HeadsWritten
<1>4. (S \ D) \cap new = {}
  OBVIOUS
<1> HIDE DEF S, D, new
<1>5. IsFiniteSet(S) /\ IsFiniteSet(S \ D) /\ IsFiniteSet(new) /\ IsFiniteSet(D)
  BY <1>1, <1>2, MemorySets
<1>6. Cardinality(S \ D) = Cardinality(S) - Cardinality(S \cap D)
  BY <1>5, FS_Difference
<1>7. Cardinality((S \ D) \cup new) = Cardinality(S \ D) + Cardinality(new) - Cardinality({})
  BY <1>4, <1>5, FS_Union
<1>8. Cardinality({}) = 0
  BY FS_EmptySet
<1>9. Cardinality(S) \in Nat /\ Cardinality(S \cap D) \in Nat /\ Cardinality(new) \in Nat
  BY <1>1, <1>2, MemorySets
<1>10. Cardinality((S \ D) \cup new) = Cardinality(S) + Cardinality(new) - Cardinality(S \cap D)
  BY <1>6, <1>7, <1>8, <1>9
<1> QED BY <1>3, <1>10 DEF S, D, new

LEMMA WritesOfPlan ==
    ASSUME NEW plan \in Plan
    PROVE  /\ DOMAIN Writes(plan) = plan.create \cup plan.replace \cup plan.supersede
           /\ DOMAIN Writes(plan) \subseteq Memory
           /\ \A m \in DOMAIN Writes(plan) :
                Writes(plan)[m] = IF m \in plan.supersede THEN "superseded" ELSE "active"
BY DEF Plan, Writes

LEMMA HeadsGrow ==
    ASSUME NEW V \in Histories, NEW W, NEW writes, NEW c \in Nat, NEW g,
           DOMAIN writes \subseteq Memory, Written(V, W, writes, c, g), NEW m \in Heads(W)
    PROVE  /\ m \in Memory /\ Len(W[m]) \in DOMAIN W[m] /\ W[m][Len(W[m])].seq \in Nat
           /\ \/ m \in DOMAIN writes /\ c < W[m][Len(W[m])].seq
              \/ m \in Heads(V) \ DOMAIN writes /\ W[m] = V[m]
<1>1. m \in Memory /\ m \in (Heads(V) \ DOMAIN writes) \cup DOMAIN writes /\ W[m] # <<>>
  BY HeadsWritten DEF Heads
<1>2. W \in Histories
  BY DEF Written
<1>3. Len(W[m]) \in DOMAIN W[m] /\ W[m][Len(W[m])].seq \in Nat
  BY <1>1, <1>2, VersionTyped
<1>4. CASE m \in DOMAIN writes
  <2>1. Len(W[m]) = Len(V[m]) + 1
    BY <1>1, <1>4, LengthsGrow
  <2>2. W[m][Len(W[m])].seq \in c + 1 .. c + Cardinality(DOMAIN writes)
    BY <1>4, <2>1 DEF Written
  <2>3. Cardinality(DOMAIN writes) \in Nat
    BY MemorySets
  <2> QED BY <1>1, <1>3, <1>4, <2>2, <2>3
<1>5. CASE m \notin DOMAIN writes
  BY <1>1, <1>3, <1>5 DEF Written
<1> QED BY <1>4, <1>5

LEMMA WritesKeepBirths ==
    ASSUME NEW V \in Histories, NEW W, NEW writes, NEW c, NEW g,
           IsWrite(V, writes), Written(V, W, writes, c, g), BornActive(V)
    PROVE  BornActive(W)
<1>1. ASSUME NEW m \in Memory, W[m] # <<>>
      PROVE  W[m][1].state = "active"
  <2>1. CASE V[m] # <<>>
    <3>1. Len(V[m]) \in DOMAIN V[m] /\ Len(V[m]) \in Nat /\ DOMAIN V[m] = 1 .. Len(V[m])
      BY <1>1, <2>1, VersionTyped
    <3>2. 1 \in DOMAIN V[m]
      BY <3>1
    <3>3. W[m][1] = V[m][1]
      BY <1>1, <3>2, OldVersionsStay
    <3> QED BY <1>1, <2>1, <3>3 DEF BornActive
  <2>2. CASE V[m] = <<>>
    <3>1. m \in DOMAIN writes
      BY <1>1, <2>2 DEF Written
    <3>2. W[m][Len(V[m]) + 1].state = writes[m] /\ writes[m] = "active"
      BY <2>2, <3>1 DEF Written, IsWrite
    <3>3. Len(V[m]) = 0
      BY <2>2
    <3> QED BY <3>2, <3>3
  <2> QED BY <2>1, <2>2
<1> QED BY <1>1 DEF BornActive

LEMMA WritesKeepClock ==
    ASSUME NEW V \in Histories, NEW W, NEW writes, NEW c \in Nat, NEW g \in Nat,
           IsWrite(V, writes), Written(V, W, writes, c, g)
    PROVE  (\A m \in Memory : \A v \in DOMAIN V[m] : V[m][v].seq <= c) =>
             \A m \in Memory : \A v \in DOMAIN W[m] :
               W[m][v].seq <= c + Cardinality(DOMAIN writes)
<1>0. DOMAIN writes \subseteq Memory /\ Cardinality(DOMAIN writes) \in Nat
  BY MemorySets DEF IsWrite
<1>1. W \in Histories
  BY DEF Written
<1>3. ASSUME \A m \in Memory : \A v \in DOMAIN V[m] : V[m][v].seq <= c,
             NEW m \in Memory, NEW v \in DOMAIN W[m]
      PROVE  W[m][v].seq <= c + Cardinality(DOMAIN writes)
  <2>1. CASE v \in DOMAIN V[m]
    <3>1. W[m][v] = V[m][v] /\ V[m][v].seq <= c
      BY <1>3, <2>1, OldVersionsStay
    <3>2. V[m][v].seq \in Nat
      BY <1>3, <2>1, VersionTyped
    <3> QED BY <1>0, <3>1, <3>2
  <2>2. CASE v \notin DOMAIN V[m]
    BY <1>0, <1>3, <2>2, NewVersions
  <2> QED BY <2>1, <2>2
<1> QED BY <1>3

\* Writes leave what a run relies on as it was.
LEMMA WritesKeepRecords ==
    ASSUME NEW V \in Histories, NEW W, NEW writes, NEW c \in Nat, NEW g \in Nat,
           IsWrite(V, writes), Written(V, W, writes, c, g), NEW run \in Run,
           OnRecord(run, V)
    PROVE  OnRecord(run, W)
<1>2. /\ run.produced \subseteq Ref /\ run.plan \in Plan /\ run.upto \in Nat /\ run.gen \in Nat
      /\ DOMAIN Writes(run.plan) \subseteq Memory
  BY WritesOfPlan DEF Run
<1>3. OnRecord(run, W)
  <2>1. ASSUME run.state = "applied", NEW m \in DOMAIN Writes(run.plan)
        PROVE  \E v \in DOMAIN W[m] : <<m, v>> \in run.produced /\ W[m][v].state = Writes(run.plan)[m]
    <3>1. PICK v \in DOMAIN V[m] : <<m, v>> \in run.produced /\ V[m][v].state = Writes(run.plan)[m]
      BY <2>1 DEF OnRecord
    <3>2. m \in Memory
      BY <1>2, <2>1
    <3>3. v \in DOMAIN W[m] /\ W[m][v] = V[m][v]
      BY <3>2, OldVersionsStay
    <3> QED BY <3>1, <3>3
  <2>2. ASSUME run.state = "applied", NEW i \in run.produced
        PROVE  i[1] \in DOMAIN Writes(run.plan) /\ i[2] \in DOMAIN W[i[1]]
    <3>1. i[1] \in DOMAIN Writes(run.plan) /\ i[2] \in DOMAIN V[i[1]]
      BY <2>2 DEF OnRecord
    <3>2. i[1] \in Memory
      BY <1>2, <3>1
    <3> QED BY <3>1, <3>2, OldVersionsStay
  <2>3. ASSUME run.state = "rolled_back", NEW i \in run.produced
        PROVE  i[2] < Len(W[i[1]])
    <3>1. i[2] < Len(V[i[1]])
      BY <2>3 DEF OnRecord
    <3>2. i[1] \in Memory /\ i[2] \in Nat
      BY <1>2 DEF Ref
    <3>3. Len(W[i[1]]) \in {Len(V[i[1]]), Len(V[i[1]]) + 1} /\ Len(V[i[1]]) \in Nat
      BY <3>2, LengthsGrow, VersionTyped
    <3> QED BY <3>1, <3>2, <3>3
  <2> QED BY <2>1, <2>2, <2>3 DEF OnRecord
<1> QED BY <1>3

LEMMA WritesKeepInterval ==
    ASSUME NEW V \in Histories, NEW W, NEW writes, NEW c \in Nat, NEW g \in Nat,
           IsWrite(V, writes), Written(V, W, writes, c, g), NEW run \in Run,
           run.upto <= c, IntervalIsFrozen(run, V)
    PROVE  IntervalIsFrozen(run, W)
<1>0. DOMAIN writes \subseteq Memory
  BY DEF IsWrite
<1>2. /\ run.produced \subseteq Ref /\ run.plan \in Plan /\ run.upto \in Nat /\ run.gen \in Nat
      /\ DOMAIN Writes(run.plan) \subseteq Memory
  BY WritesOfPlan DEF Run
<1>4. ASSUME NEW m \in Heads(W),
             run.from < W[m][Len(W[m])].seq, W[m][Len(W[m])].seq <= run.upto
      PROVE  HeadRef(W, m) \in run.inputs
  <2>3. W[m][Len(W[m])].seq \in Nat
    BY <1>0, <1>4, HeadsGrow
  <2>4. ~ (c < W[m][Len(W[m])].seq)
    BY <1>2, <1>4, <2>3
  <2>5. m \in Heads(V) /\ W[m] = V[m]
    BY <1>0, <1>4, <2>4, HeadsGrow
  <2> QED BY <1>4, <2>5 DEF IntervalIsFrozen, HeadRef
<1> QED BY <1>4 DEF IntervalIsFrozen

LEMMA WritesAreLater ==
    ASSUME NEW V \in Histories, NEW W, NEW writes, NEW c \in Nat, NEW g \in Nat,
           IsWrite(V, writes), Written(V, W, writes, c, g), NEW run \in Run,
           LaterIsNewer(run, V), g = 0 \/ run.gen < g
    PROVE  LaterIsNewer(run, W)
<1>0. DOMAIN writes \subseteq Memory
  BY DEF IsWrite
<1>2. /\ run.produced \subseteq Ref /\ run.plan \in Plan /\ run.upto \in Nat /\ run.gen \in Nat
      /\ DOMAIN Writes(run.plan) \subseteq Memory
  BY WritesOfPlan DEF Run
<1>5. ASSUME NEW m \in Memory, NEW v \in DOMAIN W[m],
             W[m][v].gen > 0, W[m][v].seq > run.upper
      PROVE  W[m][v].gen > run.gen
  <2>1. CASE v \in DOMAIN V[m]
    <3>1. W[m][v] = V[m][v]
      BY <1>5, <2>1, OldVersionsStay
    <3> QED BY <1>5, <2>1, <3>1 DEF LaterIsNewer
  <2>2. CASE v \notin DOMAIN V[m]
    <3>0. v \in DOMAIN W[m] \ DOMAIN V[m]
      BY <2>2
    <3>2. m \in DOMAIN writes /\ v = Len(V[m]) + 1
      BY <3>0, LengthsGrow, VersionTyped
    <3>1. W[m][v].gen = g
      BY <3>2 DEF Written
    <3> QED BY <1>2, <1>5, <3>1
  <2> QED BY <2>1, <2>2
<1> QED BY <1>5 DEF LaterIsNewer

\* What the cursor passed is what it was.
LEMMA WritesKeepReviewed ==
    ASSUME NEW V \in Histories, NEW W, NEW writes, NEW c \in Nat, NEW g \in Nat,
           IsWrite(V, writes), Written(V, W, writes, c, g), NEW R, NEW k \in Nat, k <= c,
           Reviewed(R, V, k)
    PROVE  Reviewed(R, W, k)
<1>0. DOMAIN writes \subseteq Memory
  BY DEF IsWrite
<1>1. ASSUME NEW m \in Heads(W), W[m][Len(W[m])].seq <= k
      PROVE  \E r \in DOMAIN R : R[r].state \in {"applied", "rolled_back"} /\ HeadRef(W, m) \in R[r].inputs
  <2>1. /\ W[m][Len(W[m])].seq \in Nat
        /\ \/ m \in DOMAIN writes /\ c < W[m][Len(W[m])].seq
           \/ m \in Heads(V) \ DOMAIN writes /\ W[m] = V[m]
    BY <1>0, HeadsGrow
  <2>2. m \in Heads(V) /\ W[m] = V[m]
    BY <1>1, <2>1
  <2> QED BY <1>1, <2>2 DEF Reviewed, HeadRef
<1> QED BY <1>1 DEF Reviewed

-----------------------------------------------------------------------------
(* A step that asks for curation, with the writes of the agent it is due to  *)

LEMMA TypedElements ==
    ASSUME NEW L, NEW Q, NEW R, NEW V, NEW c, NEW k, Typed(L, Q, R, V, c, k)
    PROVE  /\ L.gen \in Nat /\ L.fence \in Nat /\ L.active \in Nat
           /\ c \in Nat /\ k \in Nat /\ V \in Histories
           /\ Len(Q) \in Nat /\ DOMAIN Q = 1 .. Len(Q) /\ Len(R) \in Nat /\ DOMAIN R = 1 .. Len(R)
           /\ \A q \in DOMAIN Q : Q[q] \in Request /\ Q[q].gen \in Nat /\ Q[q].key \in Int
           /\ \A r \in DOMAIN R :
                /\ R[r] \in Run /\ R[r].request \in Nat /\ R[r].gen \in Nat /\ R[r].fence \in Nat
                /\ R[r].upto \in Nat /\ R[r].upper \in Nat /\ R[r].from \in Nat
                /\ R[r].plan \in Plan
<1>1. \A q \in DOMAIN Q : Q[q] \in Request
  BY DEF Typed
<1>2. \A r \in DOMAIN R : R[r] \in Run
  BY DEF Typed
<1>3. \A q \in DOMAIN Q : Q[q].gen \in Nat /\ Q[q].key \in Int
  BY <1>1 DEF Request, Automatic, Explicit
<1>4. \A r \in DOMAIN R :
        /\ R[r].request \in Nat /\ R[r].gen \in Nat /\ R[r].fence \in Nat /\ R[r].upto \in Nat
        /\ R[r].upper \in Nat /\ R[r].from \in Nat /\ R[r].plan \in Plan
  BY <1>2 DEF Run
<1>5. L.gen \in Nat /\ L.fence \in Nat /\ L.active \in Nat /\ c \in Nat /\ k \in Nat
  BY DEF Typed, Lane
<1>6. V \in Histories
  BY DEF Typed, Histories
<1>7. /\ Len(Q) \in Nat /\ DOMAIN Q = 1 .. Len(Q) /\ Len(R) \in Nat /\ DOMAIN R = 1 .. Len(R)
  BY DEF Typed
<1> QED BY <1>1, <1>2, <1>3, <1>4, <1>5, <1>6, <1>7

LEMMA CarriedLane ==
    ASSUME NEW L, NEW L2, NEW Q, NEW Q2, NEW R, NEW V, NEW c, NEW k, Typed(L, Q, R, V, c, k),
           IsLive(L, Q, R), InOrder(L, Q, R), NEW g, Carries(Q, Q2, g),
           L2.active = L.active, L2.fence = L.fence
    PROVE  IsLive(L2, Q2, R) /\ InOrder(L2, Q2, R)
<1>1. /\ Len(Q) \in Nat /\ DOMAIN Q = 1 .. Len(Q) /\ Len(R) \in Nat /\ DOMAIN R = 1 .. Len(R)
  BY TypedElements
<1>2. DOMAIN Q2 = 1 .. Len(Q2) /\ Len(Q2) \in Nat /\ Len(Q) <= Len(Q2)
  BY DEF Carries
<1>3. L.active # 0 => L.active \in DOMAIN R /\ R[L.active].request \in DOMAIN Q
  BY DEF IsLive, InOrder
<1>4. \A q \in DOMAIN Q : Q2[q].state = "claimed" <=> Q[q].state = "claimed"
  BY <1>1 DEF Carries
<1>5. \A q \in DOMAIN Q2 \ DOMAIN Q : Q2[q].state = "queued" /\ Q2[q].key \in {Automatic, Explicit}
  BY <1>1, <1>2 DEF Carries
<1>6. \A q \in DOMAIN Q : Q2[q].key = Q[q].key /\ Q2[q].run = Q[q].run /\ q \in DOMAIN Q2
  BY <1>1, <1>2 DEF Carries
<1>7. \A q \in DOMAIN Q2 :
        Q2[q].state = "claimed" <=> L.active # 0 /\ R[L.active].request = q
  <2>1. TAKE q \in DOMAIN Q2
  <2>2. CASE q \in DOMAIN Q
    BY <1>4, <2>2 DEF IsLive
  <2>3. CASE q \notin DOMAIN Q
    BY <1>3, <1>5, <2>3
  <2> QED BY <2>2, <2>3
<1>8. L.active # 0 => Q2[R[L.active].request].run = L.active
  BY <1>3, <1>6 DEF IsLive
<1>9. \A q \in DOMAIN Q2 : Q2[q].key <= Len(R)
  BY <1>1, <1>5, <1>6 DEF InOrder, Automatic, Explicit
<1>10. IsLive(L2, Q2, R)
  BY <1>7, <1>8 DEF IsLive
<1>11. InOrder(L2, Q2, R)
  BY <1>6, <1>9 DEF InOrder
<1> QED BY <1>10, <1>11

\* What is owed stays owed when generations only rise.
LEMMA CarriedOwed ==
    ASSUME NEW L, NEW Q, NEW Q2, NEW R, NEW V, NEW c, NEW k, Typed(L, Q, R, V, c, k),
           Owed(Q, V, k), NEW g \in Nat, Carries(Q, Q2, g), \A q \in DOMAIN Q : Q[q].gen <= g
    PROVE  Owed(Q2, V, k)
<1>1. DOMAIN Q = 1 .. Len(Q) /\ Len(Q) \in Nat /\ \A q \in DOMAIN Q : Q[q].gen \in Nat
  BY TypedElements
<1>2. DOMAIN Q2 = 1 .. Len(Q2) /\ Len(Q2) \in Nat /\ Len(Q) <= Len(Q2)
  BY DEF Carries
<1>3. ASSUME NEW m \in Memory, NEW v \in DOMAIN V[m], V[m][v].gen > 0, V[m][v].seq > k
      PROVE  \E q \in DOMAIN Q2 : /\ Q2[q].key = Automatic /\ Q2[q].gen >= V[m][v].gen
                                  /\ Q2[q].state # "fulfilled"
  <2>1. PICK q \in DOMAIN Q : /\ Q[q].key = Automatic /\ Q[q].gen >= V[m][v].gen
                              /\ Q[q].state # "fulfilled"
    BY <1>3 DEF Owed
  <2>2. V[m][v].gen \in Nat
    BY <1>3, TypedElements, VersionTyped
  <2>3. q \in DOMAIN Q2
    BY <1>1, <1>2
  <2>4. Q2[q].key = Automatic /\ Q2[q].state # "fulfilled" /\ Q2[q].gen \in {Q[q].gen, g}
    BY <1>1, <2>1 DEF Carries
  <2>5. Q2[q].gen >= V[m][v].gen
    BY <1>1, <2>1, <2>2, <2>4
  <2> QED BY <2>3, <2>4, <2>5
<1> QED BY <1>3 DEF Owed

LEMMA AskedByWrite ==
    ASSUME NEW L, NEW Q, NEW R, NEW V, NEW c, NEW n, NEW k, Sound(L, Q, R, V, c, n, k),
           NEW L2, L2 = [L EXCEPT !.gen = L.gen + 1],
           NEW Q2, Carries(Q, Q2, L.gen + 1),
           NEW W, NEW writes, IsWrite(V, writes), Written(V, W, writes, c, L.gen + 1),
           DOMAIN writes = {} \/ IsAsked(Q2, Automatic, L.gen + 1)
    PROVE  Sound(L2, Q2, R, W, c + Cardinality(DOMAIN writes), Cardinality(Heads(W)), k)
<1> DEFINE g == L.gen + 1
           d == Cardinality(DOMAIN writes)
<1>0. /\ Typed(L, Q, R, V, c, k) /\ IsLive(L, Q, R) /\ InOrder(L, Q, R)
      /\ Bounded(L, Q, R, V, c, k) /\ BornActive(V) /\ RunsAreSound(Q, R, V)
      /\ Counted(V, n) /\ Reviewed(R, V, k) /\ Owed(Q, V, k) /\ Rests(Q, R)
  BY DEF Sound
<1>1. /\ L.gen \in Nat /\ L.fence \in Nat /\ L.active \in Nat
      /\ c \in Nat /\ k \in Nat /\ V \in Histories
      /\ Len(Q) \in Nat /\ DOMAIN Q = 1 .. Len(Q) /\ Len(R) \in Nat /\ DOMAIN R = 1 .. Len(R)
      /\ \A q \in DOMAIN Q : Q[q].gen \in Nat
      /\ \A r \in DOMAIN R : R[r] \in Run /\ R[r].gen \in Nat /\ R[r].upto \in Nat
      /\ g \in Nat
  BY <1>0, TypedElements
<1>2. DOMAIN writes \subseteq Memory /\ d \in Nat
  BY MemorySets DEF IsWrite
<1>3. L2 \in Lane /\ L2.gen = g /\ L2.active = L.active /\ L2.fence = L.fence
  BY <1>0 DEF Typed, Lane
<1>a. /\ Carries(Q, Q2, g) /\ Written(V, W, writes, c, g) /\ g = L.gen + 1
      /\ DOMAIN writes = {} \/ IsAsked(Q2, Automatic, g)
  OBVIOUS
<1> HIDE DEF g
<1>4. Q2 \in Seq(Request) /\ DOMAIN Q2 = 1 .. Len(Q2) /\ Len(Q2) \in Nat /\ Len(Q) <= Len(Q2)
  BY <1>a DEF Carries
<1>5. Typed(L2, Q2, R, W, c + d, k)
  BY <1>0, <1>1, <1>a, <1>2, <1>3, <1>4 DEF Typed, Written, Histories
<1>6. IsLive(L2, Q2, R) /\ InOrder(L2, Q2, R)
  BY <1>0, <1>3, <1>a, CarriedLane
<1>7. Bounded(L2, Q2, R, W, c + d, k)
  <2>1. \A q \in DOMAIN Q2 : Q2[q].gen <= g
    <3>1. TAKE q \in DOMAIN Q2
    <3>2. CASE q \in DOMAIN Q
      BY <1>0, <1>1, <1>a, <3>2 DEF Carries, Bounded
    <3>3. CASE q \notin DOMAIN Q
      BY <1>1, <1>a, <1>4, <3>3 DEF Carries
    <3> QED BY <3>2, <3>3
  <2>2. \A m \in Memory : \A v \in DOMAIN W[m] : W[m][v].seq <= c + d
    BY <1>0, <1>1, <1>a, WritesKeepClock DEF Bounded
  <2>3. \A r \in DOMAIN R : R[r].gen <= g /\ R[r].upto <= c + d
    BY <1>0, <1>1, <1>a, <1>2 DEF Bounded
  <2>4. k <= c + d
    BY <1>0, <1>1, <1>a, <1>2 DEF Bounded
  <2> QED BY <1>3, <2>1, <2>2, <2>3, <2>4 DEF Bounded
<1>8. BornActive(W)
  BY <1>0, <1>1, <1>a, WritesKeepBirths
<1>9. \A q \in DOMAIN Q : Q2[q].key = Q[q].key
  BY <1>1, <1>a DEF Carries
<1>10. \A r \in DOMAIN R : R[r].request \in DOMAIN Q
  BY <1>0 DEF InOrder
<1>11. RunsAreSound(Q2, R, W)
  <2>1. ASSUME NEW r \in DOMAIN R
        PROVE  /\ PlanFits(R[r]) /\ OnRecord(R[r], W)
               /\ R[r].state \in Live =>
                    /\ IntervalIsFrozen(R[r], W) /\ LaterIsNewer(R[r], W)
                    /\ ShownNoUndoneWork(R[r], Q2, R)
    <3>1. /\ PlanFits(R[r]) /\ OnRecord(R[r], V)
          /\ R[r].state \in Live =>
               /\ IntervalIsFrozen(R[r], V) /\ LaterIsNewer(R[r], V)
               /\ ShownNoUndoneWork(R[r], Q, R)
      BY <1>0 DEF RunsAreSound
    <3>2. R[r] \in Run /\ R[r].upto <= c /\ R[r].gen < g
      BY <1>0, <1>1, <1>a DEF Bounded
    <3>3. OnRecord(R[r], W)
      BY <1>1, <1>a, <3>1, <3>2, WritesKeepRecords
    <3>4. R[r].state \in Live => IntervalIsFrozen(R[r], W)
      BY <1>1, <1>a, <3>1, <3>2, WritesKeepInterval
    <3>6. R[r].state \in Live => LaterIsNewer(R[r], W)
      BY <1>1, <1>a, <3>1, <3>2, WritesAreLater
    <3>5. R[r].state \in Live => ShownNoUndoneWork(R[r], Q2, R)
      BY <1>9, <1>10, <3>1 DEF ShownNoUndoneWork
    <3> QED BY <3>1, <3>3, <3>4, <3>5, <3>6
  <2> QED BY <2>1 DEF RunsAreSound
<1>12. Reviewed(R, W, k)
  BY <1>0, <1>1, <1>a, WritesKeepReviewed DEF Bounded
<1>13. Owed(Q2, W, k)
  <2>1. Owed(Q2, V, k)
    <3>1. \A q \in DOMAIN Q : Q[q].gen <= g
      BY <1>0, <1>1, <1>a DEF Bounded
    <3> QED BY <1>0, <1>1, <1>a, <3>1, CarriedOwed
  <2>2. ASSUME NEW m \in Memory, NEW v \in DOMAIN W[m], W[m][v].gen > 0, W[m][v].seq > k
        PROVE  \E q \in DOMAIN Q2 : /\ Q2[q].key = Automatic /\ Q2[q].gen >= W[m][v].gen
                                    /\ Q2[q].state # "fulfilled"
    <3>1. CASE v \in DOMAIN V[m]
      <4>1. W[m][v] = V[m][v]
        BY <1>1, <1>a, <3>1, OldVersionsStay
      <4> QED BY <2>1, <2>2, <3>1, <4>1 DEF Owed
    <3>2. CASE v \notin DOMAIN V[m]
      <4>2. m \in DOMAIN writes /\ v = Len(V[m]) + 1
        BY <1>1, <1>a, <3>2, LengthsGrow, VersionTyped
      <4>1. m \in DOMAIN writes /\ W[m][v].gen = g
        BY <1>a, <4>2 DEF Written
      <4> QED BY <1>1, <1>a, <4>1 DEF IsAsked
    <3> QED BY <3>1, <3>2
  <2> QED BY <2>2 DEF Owed
<1>14. Rests(Q2, R)
  BY <1>0, <1>9, <1>10 DEF Rests
<1>15. Counted(W, Cardinality(Heads(W)))
  BY DEF Counted
<1> QED BY <1>5, <1>6, <1>7, <1>8, <1>11, <1>12, <1>13, <1>14, <1>15 DEF Sound

LEMMA HeadsAreActive == ActiveHeads = Heads(versions)
BY DEF ActiveHeads, Heads, HeadIs, Exists, HeadOf, Last

LEMMA RequestStep ==
    ASSUME CurationIsSound, RequestCuration
    PROVE  CurationIsSound'
<1> DEFINE none == [m \in {} |-> "active"]
           g == lane.gen + 1
<1>1. PICK due \in BOOLEAN :
        /\ lane' = [lane EXCEPT !.gen = g] /\ requests' = Coalesced(Explicit, g, due)
        /\ UNCHANGED <<runs, versions, clock, count, cursor>>
  BY DEF RequestCuration
<1>2. /\ requests \in Seq(Request) /\ versions \in Histories /\ g \in Nat /\ clock \in Nat
      /\ Counted(versions, count)
  BY DEF CurationIsSound, Sound, Typed, Lane, Histories
<1>3. Carries(requests, requests', g)
  BY <1>1, <1>2, CoalescedCarries
<1>4. IsWrite(versions, none) /\ Written(versions, versions, none, clock, g)
  BY <1>2 DEF IsWrite, Written
<1>5. DOMAIN none = {} /\ Cardinality(DOMAIN none) = 0
  BY FS_EmptySet
<1> HIDE DEF none
<1>6. Sound(lane', requests', runs, versions, clock + Cardinality(DOMAIN none),
            Cardinality(Heads(versions)), cursor)
  BY <1>1, <1>3, <1>4, <1>5, AskedByWrite DEF CurationIsSound
<1>7. clock + Cardinality(DOMAIN none) = clock /\ count = Cardinality(Heads(versions))
  BY <1>2, <1>5 DEF Counted
<1>8. Sound(lane', requests', runs, versions, clock, count, cursor)
  BY <1>6, <1>7
<1> QED BY <1>1, <1>8 DEF CurationIsSound

LEMMA OwnerWriteStep ==
    ASSUME CurationIsSound, NEW writes, IsWrite(versions, writes), OwnerWrite(writes)
    PROVE  CurationIsSound'
<1> DEFINE g == lane.gen + 1
<1>1. /\ lane' = [lane EXCEPT !.gen = g] /\ requests' = Coalesced(Automatic, g, TRUE)
      /\ versions' = Appended(writes, g) /\ clock' = clock + Cardinality(DOMAIN writes)
      /\ count' = count + Delta(writes)
      /\ UNCHANGED <<runs, cursor>>
  BY DEF OwnerWrite
<1>2. /\ requests \in Seq(Request) /\ versions \in Histories /\ g \in Nat /\ clock \in Nat
      /\ Counted(versions, count)
  BY DEF CurationIsSound, Sound, Typed, Lane, Histories
<1>3. Carries(requests, requests', g) /\ IsAsked(requests', Automatic, g)
  BY <1>1, <1>2, CoalescedCarries
<1>4. Written(versions, versions', writes, clock, g)
  BY <1>1, <1>2, AppendedWrites
<1>5. Sound(lane', requests', runs, versions', clock + Cardinality(DOMAIN writes),
            Cardinality(Heads(versions')), cursor)
  BY <1>1, <1>3, <1>4, AskedByWrite DEF CurationIsSound
<1>6. count' = Cardinality(Heads(versions'))
  <2>1. DOMAIN writes \subseteq Memory
    BY DEF IsWrite
  <2>2. Cardinality(Heads(versions')) =
          Cardinality(Heads(versions)) + Cardinality({m \in DOMAIN writes : writes[m] = "active"})
            - Cardinality(Heads(versions) \cap DOMAIN writes)
    BY <1>2, <1>4, <2>1, HeadsCounted
  <2>3. Heads(versions) \in SUBSET Memory
    BY DEF Heads
  <2>4. {m \in DOMAIN writes : writes[m] = "active"} \in SUBSET Memory
        /\ Heads(versions) \cap DOMAIN writes \in SUBSET Memory
    BY <2>1, <2>3
  <2>5. /\ Cardinality(Heads(versions)) \in Nat
        /\ Cardinality({m \in DOMAIN writes : writes[m] = "active"}) \in Nat
        /\ Cardinality(Heads(versions) \cap DOMAIN writes) \in Nat
    BY <2>3, <2>4, MemorySets
  <2> QED BY <1>1, <1>2, <2>2, <2>5, HeadsAreActive DEF Delta, Counted
<1> QED BY <1>1, <1>5, <1>6 DEF CurationIsSound

\* A memory that is forgotten was something before.
LEMMA RestoredState ==
    ASSUME CurationIsSound, NEW m \in Memory, HeadIs(m, {"forgotten"})
    PROVE  versions[m][Len(versions[m]) - 1].state \in VersionStates
<1>1. versions \in Histories /\ BornActive(versions)
  BY DEF CurationIsSound, Sound, Typed, Histories
<1>2. versions[m] # <<>> /\ versions[m][Len(versions[m])].state = "forgotten"
  BY DEF HeadIs, Exists, HeadOf, Last
<1>3. versions[m][1].state = "active"
  BY <1>1, <1>2 DEF BornActive
<1>4. Len(versions[m]) \in DOMAIN versions[m] /\ DOMAIN versions[m] = 1 .. Len(versions[m])
      /\ Len(versions[m]) \in Nat
  BY <1>1, <1>2, VersionTyped
<1>5. Len(versions[m]) # 1
  BY <1>2, <1>3
<1>6. Len(versions[m]) - 1 \in 1 .. Len(versions[m])
  <2>1. \A l \in Nat : l \in 1 .. l /\ l # 1 => l - 1 \in 1 .. l
    OBVIOUS
  <2>2. Len(versions[m]) \in Nat /\ Len(versions[m]) \in 1 .. Len(versions[m])
    BY <1>4
  <2> QED BY <1>5, <2>1, <2>2, Zenon
<1> QED BY <1>1, <1>4, <1>6, VersionTyped

LEMMA AgentStep ==
    ASSUME CurationIsSound,
           \/ CaptureMemory \/ AdjustMemory \/ ForgetMemory \/ RestoreMemory
           \/ ReactivateMemory \/ SupersedeMemory
    PROVE  CurationIsSound'
<1>1. CASE CaptureMemory
  <2>1. PICK m \in Memory : OwnerWrite([n \in {m} |-> "active"])
    BY <1>1 DEF CaptureMemory
  <2>2. IsWrite(versions, [n \in {m} |-> "active"])
    BY DEF IsWrite, VersionStates
  <2> QED BY <2>1, <2>2, OwnerWriteStep
<1>2. CASE AdjustMemory
  <2>1. PICK m \in Memory : OwnerWrite([n \in {m} |-> "active"])
    BY <1>2 DEF AdjustMemory
  <2>2. IsWrite(versions, [n \in {m} |-> "active"])
    BY DEF IsWrite, VersionStates
  <2> QED BY <2>1, <2>2, OwnerWriteStep
<1>3. CASE ForgetMemory
  <2>1. PICK m \in Memory : HeadIs(m, {"active", "superseded"}) /\ OwnerWrite([n \in {m} |-> "forgotten"])
    BY <1>3 DEF ForgetMemory
  <2>2. versions[m] # <<>>
    BY <2>1 DEF HeadIs, Exists
  <2>3. IsWrite(versions, [n \in {m} |-> "forgotten"])
    BY <2>2 DEF IsWrite, VersionStates
  <2> QED BY <2>1, <2>3, OwnerWriteStep
<1>4. CASE RestoreMemory
  <2>1. PICK m \in Memory : /\ HeadIs(m, {"forgotten"})
                            /\ OwnerWrite([n \in {m} |-> versions[m][Len(versions[m]) - 1].state])
    BY <1>4 DEF RestoreMemory
  <2>2. versions[m] # <<>>
    BY <2>1 DEF HeadIs, Exists
  <2>3. IsWrite(versions, [n \in {m} |-> versions[m][Len(versions[m]) - 1].state])
    BY <2>1, <2>2, RestoredState DEF IsWrite
  <2> QED BY <2>1, <2>3, OwnerWriteStep
<1>5. CASE ReactivateMemory
  <2>1. PICK m \in Memory : OwnerWrite([n \in {m} |-> "active"])
    BY <1>5 DEF ReactivateMemory
  <2>2. IsWrite(versions, [n \in {m} |-> "active"])
    BY DEF IsWrite, VersionStates
  <2> QED BY <2>1, <2>2, OwnerWriteStep
<1>6. CASE SupersedeMemory
  <2>1. PICK m \in Memory, n \in Memory :
          HeadIs(m, {"active"}) /\ OwnerWrite([i \in {m, n} |-> IF i = n THEN "active" ELSE "superseded"])
    BY <1>6 DEF SupersedeMemory
  <2> DEFINE both == [i \in {m, n} |-> IF i = n THEN "active" ELSE "superseded"]
  <2>2. versions[m] # <<>>
    BY <2>1 DEF HeadIs, Exists
  <2>4. IsWrite(versions, both)
    BY <2>2 DEF IsWrite, VersionStates
  <2> QED BY <2>1, <2>4, OwnerWriteStep
<1> QED BY <1>1, <1>2, <1>3, <1>4, <1>5, <1>6

-----------------------------------------------------------------------------
(* A run that ends without writing *)

\* Only run r changes, in its state and its lease.
EndsRun(R, R2, r, state) ==
    /\ R2 \in Seq(Run) /\ Len(R2) = Len(R)
    /\ \A s \in DOMAIN R : s # r => R2[s] = R[s]
    /\ R2[r] = [R[r] EXCEPT !.state = state, !.lease = 0]

\* Only request q changes, and is no longer claimed.
GivesBack(Q, Q2, q) ==
    /\ Q2 \in Seq(Request) /\ Len(Q2) = Len(Q)
    /\ \A p \in DOMAIN Q : p # q => Q2[p] = Q[p]
    /\ Q2[q].key = Q[q].key /\ Q2[q].gen = Q[q].gen
    /\ Q2[q].state \in {"retry_wait", "dead_letter", "cancelled"}

LEMMA UpdatedSequence ==
    ASSUME NEW S, NEW s \in Seq(S), NEW i \in DOMAIN s, NEW e \in S
    PROVE  /\ [s EXCEPT ![i] = e] \in Seq(S) /\ Len([s EXCEPT ![i] = e]) = Len(s)
           /\ DOMAIN [s EXCEPT ![i] = e] = DOMAIN s
           /\ [s EXCEPT ![i] = e][i] = e
           /\ \A j \in DOMAIN s : j # i => [s EXCEPT ![i] = e][j] = s[j]
OBVIOUS

LEMMA EndedRun ==
    ASSUME runs \in Seq(Run), NEW r \in DOMAIN runs, NEW state \in RunStates
    PROVE  EndsRun(runs, Ended(r, state), r, state)
<1> DEFINE e == [runs[r] EXCEPT !.state = state, !.lease = 0]
<1>1. runs[r] \in Run
  OBVIOUS
<1>2. e \in Run
  BY <1>1 DEF Run
<1>3. Ended(r, state) = [runs EXCEPT ![r] = e]
  BY DEF Ended
<1> HIDE DEF e
<1>4. EndsRun(runs, [runs EXCEPT ![r] = e], r, state)
  BY <1>2, UpdatedSequence DEF EndsRun, e
<1> QED BY <1>3, <1>4

LEMMA RetriedRequest ==
    ASSUME requests \in Seq(Request), NEW q \in DOMAIN requests, NEW counted \in BOOLEAN
    PROVE  GivesBack(requests, Retried(q, counted), q)
<1>0. requests[q] \in Request
  OBVIOUS
<1>1. requests[q] \in Request /\ requests[q].attempts \in Nat
  BY <1>0 DEF Request
<1>2. PICK tried \in Nat : tried = requests[q].attempts + (IF counted THEN 1 ELSE 0)
  BY <1>1
<1>3. PICK state \in {"dead_letter", "retry_wait"} :
        state = IF counted /\ tried >= MaxAttempts THEN "dead_letter" ELSE "retry_wait"
  OBVIOUS
<1> DEFINE e == [requests[q] EXCEPT !.attempts = tried, !.run = 0, !.state = state]
<1>4. /\ e \in Request /\ e.key = requests[q].key /\ e.gen = requests[q].gen
      /\ e.state \in {"retry_wait", "dead_letter", "cancelled"}
  BY <1>1 DEF Request, RequestStates
<1>5. Retried(q, counted) = [requests EXCEPT ![q] = e]
  BY <1>2, <1>3 DEF Retried
<1> HIDE DEF e
<1>6. GivesBack(requests, [requests EXCEPT ![q] = e], q)
  BY <1>4, UpdatedSequence DEF GivesBack
<1> QED BY <1>5, <1>6

LEMMA CancelledRequest ==
    ASSUME requests \in Seq(Request), NEW q \in DOMAIN requests
    PROVE  GivesBack(requests, [requests EXCEPT ![q].state = "cancelled"], q)
<1> DEFINE e == [requests[q] EXCEPT !.state = "cancelled"]
<1>1. requests[q] \in Request
  OBVIOUS
<1>2. /\ e \in Request /\ e.key = requests[q].key /\ e.gen = requests[q].gen
      /\ e.state \in {"retry_wait", "dead_letter", "cancelled"}
  BY <1>1 DEF Request, RequestStates
<1> HIDE DEF e
<1>3. GivesBack(requests, [requests EXCEPT ![q] = e], q)
  BY <1>2, UpdatedSequence DEF GivesBack
<1> QED BY <1>3 DEF e

LEMMA ActiveRun ==
    ASSUME NEW L, NEW Q, NEW R, NEW V, NEW c, NEW k, Typed(L, Q, R, V, c, k),
           IsLive(L, Q, R), InOrder(L, Q, R)
    PROVE  /\ \A r \in DOMAIN R : R[r].state \in Live <=> r = L.active
           /\ L.active # 0 =>
                /\ L.active \in DOMAIN R /\ R[L.active].state \in Live
                /\ R[L.active].request \in DOMAIN Q
                /\ Q[R[L.active].request].state = "claimed"
<1>1. \A r \in DOMAIN R : r # 0
  BY TypedElements
<1>2. \A r \in DOMAIN R : R[r].state \in Live <=> r = L.active
  BY <1>1 DEF IsLive
<1>3. L.active # 0 => L.active \in DOMAIN R /\ R[L.active].state \in Live
  BY DEF IsLive
<1>4. L.active # 0 => /\ R[L.active].request \in DOMAIN Q
                      /\ Q[R[L.active].request].state = "claimed"
  BY <1>3 DEF IsLive, InOrder
<1> QED BY <1>2, <1>3, <1>4

LEMMA RunEnds ==
    ASSUME NEW L, NEW Q, NEW R, NEW V, NEW c, NEW n, NEW k, Sound(L, Q, R, V, c, n, k),
           L.active # 0,
           NEW L2 \in Lane, L2.active = 0, L2.gen = L.gen, L2.fence >= L.fence,
           NEW Q2, GivesBack(Q, Q2, R[L.active].request),
           NEW state \in {"interrupted", "abandoned", "conflict"},
           NEW R2, EndsRun(R, R2, L.active, state)
    PROVE  Sound(L2, Q2, R2, V, c, n, k)
<1>0. /\ Typed(L, Q, R, V, c, k) /\ IsLive(L, Q, R) /\ InOrder(L, Q, R)
      /\ Bounded(L, Q, R, V, c, k) /\ BornActive(V) /\ RunsAreSound(Q, R, V)
      /\ Counted(V, n) /\ Reviewed(R, V, k) /\ Owed(Q, V, k) /\ Rests(Q, R)
  BY DEF Sound
<1>1. /\ L.gen \in Nat /\ L.fence \in Nat /\ L.active \in Nat
      /\ c \in Nat /\ k \in Nat /\ V \in Histories
      /\ Len(Q) \in Nat /\ DOMAIN Q = 1 .. Len(Q) /\ Len(R) \in Nat /\ DOMAIN R = 1 .. Len(R)
      /\ \A r \in DOMAIN R : R[r] \in Run /\ R[r].fence \in Nat
  BY <1>0, TypedElements
<1>2. PICK a : a = L.active
  OBVIOUS
<1>3. PICK q : q = R[a].request
  OBVIOUS
<1>4. /\ a \in DOMAIN R /\ q \in DOMAIN Q
      /\ \A r \in DOMAIN R : R[r].state \in Live <=> r = a
  BY <1>0, <1>2, <1>3, ActiveRun
<1>5. /\ DOMAIN Q2 = DOMAIN Q /\ Q2 \in Seq(Request) /\ Len(Q2) = Len(Q)
      /\ \A p \in DOMAIN Q : /\ Q2[p].key = Q[p].key /\ Q2[p].gen = Q[p].gen
                             /\ p # q => Q2[p] = Q[p]
      /\ Q2[q].state \in {"retry_wait", "dead_letter", "cancelled"}
  BY <1>1, <1>2, <1>3, <1>4 DEF GivesBack
<1>6. /\ DOMAIN R2 = DOMAIN R /\ R2 \in Seq(Run) /\ Len(R2) = Len(R)
      /\ \A r \in DOMAIN R : r # a => R2[r] = R[r]
      /\ R2[a] = [R[a] EXCEPT !.state = state, !.lease = 0]
  BY <1>1, <1>2 DEF EndsRun
<1>7. /\ R2[a].state = state
      /\ \A r \in DOMAIN R :
           /\ R2[r].request = R[r].request /\ R2[r].gen = R[r].gen /\ R2[r].fence = R[r].fence
           /\ R2[r].inputs = R[r].inputs /\ R2[r].upto = R[r].upto /\ R2[r].plan = R[r].plan
           /\ R2[r].produced = R[r].produced
  BY <1>1, <1>4, <1>6 DEF Run
<1>8. \A r \in DOMAIN R : R2[r].state \notin Live
  BY <1>4, <1>6, <1>7 DEF Live
<1>9. \A r \in DOMAIN R : R2[r].state \in {"applied", "rolled_back"} =>
        R2[r] = R[r]
  BY <1>6, <1>7
<1>10. Typed(L2, Q2, R2, V, c, k)
  BY <1>0, <1>5, <1>6 DEF Typed
<1>11. IsLive(L2, Q2, R2)
  <2>1. {r \in DOMAIN R2 : R2[r].state \in Live} = {L2.active} \ {0}
    BY <1>6, <1>8
  <2>2. \A p \in DOMAIN Q2 : Q2[p].state # "claimed"
    BY <1>0, <1>2, <1>3, <1>5 DEF IsLive
  <2> QED BY <2>1, <2>2 DEF IsLive
<1>12. InOrder(L2, Q2, R2)
  <2>1. \A r \in DOMAIN R2 :
          /\ R2[r].request \in DOMAIN Q2 /\ R2[r].fence <= L2.fence
          /\ \A s \in DOMAIN R2 : s < r => R2[s].fence < R2[r].fence
    BY <1>0, <1>1, <1>5, <1>6, <1>7 DEF InOrder, Lane
  <2>2. \A p \in DOMAIN Q2 : Q2[p].key <= Len(R2)
    BY <1>0, <1>5, <1>6 DEF InOrder
  <2> QED BY <2>1, <2>2 DEF InOrder
<1>13. Bounded(L2, Q2, R2, V, c, k)
  BY <1>0, <1>5, <1>6, <1>7 DEF Bounded
<1>14. RunsAreSound(Q2, R2, V)
  <2>1. ASSUME NEW r \in DOMAIN R PROVE PlanFits(R2[r]) /\ OnRecord(R2[r], V)
    <3>1. PlanFits(R[r]) /\ OnRecord(R[r], V)
      BY <1>0 DEF RunsAreSound
    <3>2. PlanFits(R2[r])
      BY <1>7, <3>1 DEF PlanFits
    <3>3. OnRecord(R2[r], V)
      BY <1>9, <3>1 DEF OnRecord
    <3> QED BY <3>2, <3>3
  <2> QED BY <1>6, <1>8, <2>1 DEF RunsAreSound
<1>15. Reviewed(R2, V, k)
  <2>1. \A r \in DOMAIN R : R[r].state \in {"applied", "rolled_back"} => R2[r] = R[r]
    BY <1>4, <1>6 DEF Live
  <2> QED BY <1>0, <1>6, <2>1 DEF Reviewed
<1>16. Owed(Q2, V, k)
  <2>1. \A p \in DOMAIN Q : Q[p].state # "fulfilled" => Q2[p].state # "fulfilled"
    BY <1>5
  <2> QED BY <1>0, <1>5, <2>1 DEF Owed
<1>17. Rests(Q2, R2)
  <2>1. ASSUME NEW b \in DOMAIN R, NEW r \in DOMAIN R, R2[b].state = "applied",
               R2[r].state = "rolled_back", Q2[R2[b].request].key <= 0
        PROVE  UsedBy(R2[b]) \cap R2[r].produced = {}
    <3>1. R2[b] = R[b] /\ R2[r] = R[r]
      BY <1>9, <2>1
    <3>2. Q[R[b].request].key <= 0
      BY <1>0, <1>5, <2>1, <3>1 DEF InOrder
    <3> QED BY <1>0, <2>1, <3>1, <3>2 DEF Rests
  <2> QED BY <1>6, <2>1 DEF Rests
<1> QED BY <1>0, <1>10, <1>11, <1>12, <1>13, <1>14, <1>15, <1>16, <1>17 DEF Sound

LEMMA LaneReleased ==
    ASSUME NEW L \in Lane, NEW M, M = [L EXCEPT !.active = 0, !.fence = L.fence + 1]
    PROVE  M \in Lane /\ M.active = 0 /\ M.gen = L.gen /\ M.fence >= L.fence
<1>1. L.fence \in Nat
  BY DEF Lane
<1>2. M \in Lane
  <2>1. PICK f \in Nat : f = L.fence + 1
    BY <1>1
  <2>2. M = [L EXCEPT !.active = 0, !.fence = f]
    BY <2>1
  <2>3. L.gen \in Nat
    BY DEF Lane
  <2>4. M = [gen |-> L.gen, fence |-> f, active |-> 0]
    BY <2>2 DEF Lane
  <2> QED BY <2>3, <2>4 DEF Lane
<1>3. M.active = 0 /\ M.gen = L.gen /\ M.fence = L.fence + 1
  BY DEF Lane
<1> QED BY <1>1, <1>2, <1>3

LEMMA InterruptStep ==
    ASSUME CurationIsSound, InterruptExpired
    PROVE  CurationIsSound'
<1>1. /\ Typed(lane, requests, runs, versions, clock, cursor)
      /\ IsLive(lane, requests, runs) /\ InOrder(lane, requests, runs)
  BY DEF CurationIsSound, Sound
<1>2. /\ lane.active # 0
      /\ runs' = Ended(lane.active, "interrupted")
      /\ requests' = Retried(runs[lane.active].request, TRUE)
      /\ lane' = [lane EXCEPT !.active = 0, !.fence = lane.fence + 1]
      /\ UNCHANGED <<versions, clock, count, cursor>>
  BY DEF InterruptExpired, Expired, Released
<1>3. /\ lane' \in Lane /\ lane'.active = 0 /\ lane'.gen = lane.gen /\ lane'.fence >= lane.fence
  BY <1>1, <1>2, LaneReleased DEF Typed
<1>4. /\ runs \in Seq(Run) /\ requests \in Seq(Request)
      /\ lane.active \in DOMAIN runs /\ runs[lane.active].request \in DOMAIN requests
  BY <1>1, <1>2, ActiveRun DEF Typed
<1>5. EndsRun(runs, runs', lane.active, "interrupted")
  BY <1>2, <1>4, EndedRun DEF RunStates
<1>6. GivesBack(requests, requests', runs[lane.active].request)
  BY <1>2, <1>4, RetriedRequest
<1>7. Sound(lane', requests', runs', versions, clock, count, cursor)
  BY <1>2, <1>3, <1>5, <1>6, RunEnds DEF CurationIsSound
<1> QED BY <1>2, <1>7 DEF CurationIsSound

LEMMA FinishStep ==
    ASSUME CurationIsSound, NEW r \in DOMAIN runs,
           CancelCuration(r) \/ ConflictCuration(r)
             \/ \E preview \in BOOLEAN : AbandonCuration(r, preview)
    PROVE  CurationIsSound'
<1>1. /\ Typed(lane, requests, runs, versions, clock, cursor)
      /\ IsLive(lane, requests, runs) /\ InOrder(lane, requests, runs)
  BY DEF CurationIsSound, Sound
<1>2. \E state \in {"abandoned", "conflict"} :
        /\ lane.active = r /\ runs' = Ended(r, state)
        /\ \/ requests' = [requests EXCEPT ![runs[r].request].state = "cancelled"]
           \/ \E counted \in BOOLEAN : requests' = Retried(runs[r].request, counted)
        /\ lane' = [lane EXCEPT !.active = 0, !.fence = lane.fence + 1]
        /\ UNCHANGED <<versions, clock, count, cursor>>
  <2>1. CASE CancelCuration(r)
    BY <2>1 DEF CancelCuration, FinishCuration, Holds, Released
  <2>2. CASE ConflictCuration(r)
    BY <2>2 DEF ConflictCuration, Holds, Released
  <2>3. CASE \E preview \in BOOLEAN : AbandonCuration(r, preview)
    BY <2>3 DEF AbandonCuration, FinishCuration, Holds, Released
  <2> QED BY <2>1, <2>2, <2>3
<1>3. PICK state \in {"abandoned", "conflict"} :
        /\ lane.active = r /\ runs' = Ended(r, state)
        /\ \/ requests' = [requests EXCEPT ![runs[r].request].state = "cancelled"]
           \/ \E counted \in BOOLEAN : requests' = Retried(runs[r].request, counted)
        /\ lane' = [lane EXCEPT !.active = 0, !.fence = lane.fence + 1]
        /\ UNCHANGED <<versions, clock, count, cursor>>
  BY <1>2
<1>4. r # 0
  BY <1>1, TypedElements
<1>5. /\ lane' \in Lane /\ lane'.active = 0 /\ lane'.gen = lane.gen /\ lane'.fence >= lane.fence
  BY <1>1, <1>3, LaneReleased DEF Typed
<1>6. /\ runs \in Seq(Run) /\ requests \in Seq(Request) /\ runs[r].request \in DOMAIN requests
  BY <1>1, <1>3, <1>4, ActiveRun DEF Typed
<1>7. EndsRun(runs, runs', lane.active, state)
  BY <1>3, <1>6, EndedRun DEF RunStates
<1>8. GivesBack(requests, requests', runs[lane.active].request)
  BY <1>3, <1>6, RetriedRequest, CancelledRequest
<1>9. Sound(lane', requests', runs', versions, clock, count, cursor)
  BY <1>3, <1>4, <1>5, <1>7, <1>8, RunEnds DEF CurationIsSound
<1> QED BY <1>3, <1>9 DEF CurationIsSound

-----------------------------------------------------------------------------
(* A run under way: its lease and its plan *)

\* Only run r changes, in its state, its lease and its plan.
Continues(R, R2, r) ==
    /\ R2 \in Seq(Run) /\ Len(R2) = Len(R)
    /\ \A s \in DOMAIN R : s # r => R2[s] = R[s]
    /\ R2[r].request = R[r].request /\ R2[r].gen = R[r].gen /\ R2[r].fence = R[r].fence
    /\ R2[r].inputs = R[r].inputs /\ R2[r].produced = R[r].produced
    /\ R2[r].from = R[r].from /\ R2[r].upto = R[r].upto /\ R2[r].upper = R[r].upper
    /\ R2[r].state \in Live /\ PlanFits(R2[r])

LEMMA RunGoesOn ==
    ASSUME NEW L, NEW Q, NEW R, NEW V, NEW c, NEW n, NEW k, Sound(L, Q, R, V, c, n, k),
           L.active # 0, NEW R2, Continues(R, R2, L.active)
    PROVE  Sound(L, Q, R2, V, c, n, k)
<1>0. /\ Typed(L, Q, R, V, c, k) /\ IsLive(L, Q, R) /\ InOrder(L, Q, R)
      /\ Bounded(L, Q, R, V, c, k) /\ BornActive(V) /\ RunsAreSound(Q, R, V)
      /\ Counted(V, n) /\ Reviewed(R, V, k) /\ Owed(Q, V, k) /\ Rests(Q, R)
  BY DEF Sound
<1>1. /\ Len(R) \in Nat /\ DOMAIN R = 1 .. Len(R)
  BY <1>0, TypedElements
<1>2. PICK a : a = L.active
  OBVIOUS
<1>3. /\ a \in DOMAIN R /\ R[a].state \in Live
      /\ \A r \in DOMAIN R : R[r].state \in Live <=> r = a
  BY <1>0, <1>2, ActiveRun
<1>4. /\ DOMAIN R2 = DOMAIN R /\ R2 \in Seq(Run) /\ Len(R2) = Len(R)
      /\ \A r \in DOMAIN R : r # a => R2[r] = R[r]
      /\ R2[a].state \in Live /\ PlanFits(R2[a])
      /\ R2[a].from = R[a].from /\ R2[a].upper = R[a].upper
  BY <1>1, <1>2 DEF Continues
<1>5. \A r \in DOMAIN R :
        /\ R2[r].request = R[r].request /\ R2[r].gen = R[r].gen /\ R2[r].fence = R[r].fence
        /\ R2[r].inputs = R[r].inputs /\ R2[r].upto = R[r].upto
        /\ R2[r].produced = R[r].produced
  <2>1. TAKE r \in DOMAIN R
  <2>2. CASE r = a
    BY <1>2, <2>2 DEF Continues
  <2>3. CASE r # a
    BY <1>4, <2>3
  <2> QED BY <2>2, <2>3
<1>6. \A r \in DOMAIN R : R2[r].state \in Live <=> r = a
  BY <1>3, <1>4
<1>7. \A r \in DOMAIN R :
        R2[r].state \in {"applied", "rolled_back"} \/ R[r].state \in {"applied", "rolled_back"}
          => R2[r] = R[r]
  BY <1>3, <1>4 DEF Live
<1>8. Typed(L, Q, R2, V, c, k)
  BY <1>0, <1>4 DEF Typed
<1>9. IsLive(L, Q, R2)
  <2>1. {r \in DOMAIN R2 : R2[r].state \in Live} = {L.active} \ {0}
    BY <1>0, <1>3, <1>4, <1>6 DEF IsLive
  <2>2. R2[a].request = R[a].request
    BY <1>3, <1>5
  <2> QED BY <1>0, <1>2, <2>1, <2>2 DEF IsLive
<1>10. InOrder(L, Q, R2)
  <2>1. R2[a].fence = R[a].fence
    BY <1>3, <1>5
  <2>2. \A r \in DOMAIN R2 :
          /\ R2[r].request \in DOMAIN Q /\ R2[r].fence <= L.fence
          /\ \A s \in DOMAIN R2 : s < r => R2[s].fence < R2[r].fence
    BY <1>0, <1>4, <1>5 DEF InOrder
  <2> QED BY <1>0, <1>2, <1>4, <2>1, <2>2 DEF InOrder
<1>11. Bounded(L, Q, R2, V, c, k)
  BY <1>0, <1>4, <1>5 DEF Bounded
<1>12. RunsAreSound(Q, R2, V)
  <2>1. ASSUME NEW r \in DOMAIN R, r # a
        PROVE  /\ PlanFits(R2[r]) /\ OnRecord(R2[r], V) /\ R2[r].state \notin Live
    BY <1>0, <1>4, <1>6, <2>1 DEF RunsAreSound
  <2>2. OnRecord(R2[a], V)
    BY <1>4 DEF OnRecord, Live
  <2>3. IntervalIsFrozen(R[a], V) /\ LaterIsNewer(R[a], V) /\ ShownNoUndoneWork(R[a], Q, R)
    BY <1>0, <1>3 DEF RunsAreSound
  <2>4. IntervalIsFrozen(R2[a], V)
    BY <1>3, <1>4, <1>5, <2>3 DEF IntervalIsFrozen
  <2>5. LaterIsNewer(R2[a], V)
    BY <1>3, <1>4, <1>5, <2>3 DEF LaterIsNewer
  <2>6. ShownNoUndoneWork(R2[a], Q, R2)
    <3>1. \A r \in DOMAIN R : R2[r].state = "rolled_back" => R[r].state = "rolled_back"
      BY <1>7
    <3> QED BY <1>3, <1>4, <1>5, <2>3, <3>1 DEF ShownNoUndoneWork
  <2>7. ASSUME NEW r \in DOMAIN R
        PROVE  /\ PlanFits(R2[r]) /\ OnRecord(R2[r], V)
               /\ R2[r].state \in Live =>
                    /\ IntervalIsFrozen(R2[r], V) /\ LaterIsNewer(R2[r], V)
                    /\ ShownNoUndoneWork(R2[r], Q, R2)
    <3>1. CASE r = a
      BY <1>4, <2>2, <2>4, <2>5, <2>6, <3>1
    <3>2. CASE r # a
      BY <2>1, <3>2
    <3> QED BY <3>1, <3>2
  <2> QED BY <1>4, <2>7 DEF RunsAreSound
<1>13. Reviewed(R2, V, k)
  BY <1>0, <1>4, <1>7 DEF Reviewed
<1>14. Rests(Q, R2)
  <2>1. ASSUME NEW b \in DOMAIN R, NEW r \in DOMAIN R, R2[b].state = "applied",
               R2[r].state = "rolled_back", Q[R2[b].request].key <= 0
        PROVE  UsedBy(R2[b]) \cap R2[r].produced = {}
    <3>1. R2[b] = R[b] /\ R2[r] = R[r]
      BY <1>7, <2>1
    <3> QED BY <1>0, <2>1, <3>1 DEF Rests
  <2> QED BY <1>4, <2>1 DEF Rests
<1> QED BY <1>0, <1>8, <1>9, <1>10, <1>11, <1>12, <1>13, <1>14 DEF Sound

LEMMA LeaseStep ==
    ASSUME CurationIsSound,
           Tick \/ \E r \in DOMAIN runs : \E extension \in 1 .. MaxLease : RenewCuration(r, extension)
    PROVE  CurationIsSound'
<1>1. Sound(lane, requests, runs, versions, clock, count, cursor)
      /\ Typed(lane, requests, runs, versions, clock, cursor)
      /\ IsLive(lane, requests, runs) /\ InOrder(lane, requests, runs)
      /\ RunsAreSound(requests, runs, versions)
  BY DEF CurationIsSound, Sound
<1>2. PICK r : /\ r # 0 /\ lane.active = r
               /\ \E lease : lease \in Nat /\ runs' = [runs EXCEPT ![r].lease = lease]
               /\ UNCHANGED <<lane, requests, versions, clock, count, cursor>>
  <2>1. CASE Tick
    <3>1. lane.active # 0 /\ runs[lane.active].lease > 0
          /\ runs' = [runs EXCEPT ![lane.active].lease = runs[lane.active].lease - 1]
          /\ UNCHANGED <<lane, requests, versions, clock, count, cursor>>
      BY <2>1 DEF Tick
    <3>2. lane.active \in DOMAIN runs /\ runs[lane.active] \in Run
      BY <1>1, <3>1, ActiveRun, TypedElements
    <3>3. runs[lane.active].lease - 1 \in Nat
      BY <3>1, <3>2 DEF Run
    <3> QED BY <3>1, <3>3
  <2>2. ASSUME NEW r \in DOMAIN runs, NEW extension \in 1 .. MaxLease, RenewCuration(r, extension)
        PROVE  /\ r # 0 /\ lane.active = r
               /\ \E lease : lease \in Nat /\ runs' = [runs EXCEPT ![r].lease = lease]
               /\ UNCHANGED <<lane, requests, versions, clock, count, cursor>>
    <3> DEFINE lease == IF runs[r].lease > extension THEN runs[r].lease ELSE extension
    <3>1. /\ lane.active = r /\ runs' = [runs EXCEPT ![r].lease = lease]
          /\ UNCHANGED <<lane, requests, versions, clock, count, cursor>>
      BY <2>2 DEF RenewCuration, Holds
    <3>2. r # 0 /\ runs[r] \in Run
      BY <1>1, TypedElements
    <3>3. lease \in Nat
      BY <3>2 DEF Run
    <3> HIDE DEF lease
    <3> QED BY <3>1, <3>2, <3>3
  <2> QED BY <2>1, <2>2
<1>3. PICK lease \in Nat : runs' = [runs EXCEPT ![r].lease = lease]
  BY <1>2
<1>4. /\ r \in DOMAIN runs /\ runs[r] \in Run /\ runs[r].state \in Live /\ runs \in Seq(Run)
      /\ PlanFits(runs[r])
  BY <1>1, <1>2, ActiveRun, TypedElements DEF RunsAreSound, Typed
<1>5. PICK e : e = [runs[r] EXCEPT !.lease = lease]
  OBVIOUS
<1>6. /\ e \in Run
      /\ e.request = runs[r].request /\ e.gen = runs[r].gen /\ e.fence = runs[r].fence
      /\ e.inputs = runs[r].inputs /\ e.produced = runs[r].produced
      /\ e.from = runs[r].from /\ e.upto = runs[r].upto /\ e.upper = runs[r].upper
      /\ e.state = runs[r].state /\ e.plan = runs[r].plan
  BY <1>4, <1>5 DEF Run
<1>7. PlanFits(e)
  BY <1>4, <1>6 DEF PlanFits
<1>8. runs' = [runs EXCEPT ![r] = e]
  BY <1>3, <1>5
<1>9. Continues(runs, runs', r)
  BY <1>4, <1>6, <1>7, <1>8, UpdatedSequence DEF Continues
<1>10. Sound(lane, requests, runs', versions, clock, count, cursor)
  BY <1>1, <1>2, <1>9, RunGoesOn
<1> QED BY <1>2, <1>10 DEF CurationIsSound

\* What a plan may name was shown to its run and is there, what it creates is not.
LEMMA PlannedNames ==
    ASSUME CurationIsSound, NEW r \in DOMAIN runs, NEW plan \in Plans(r), PlanCuration(r, plan)
    PROVE  /\ plan \in Plan
           /\ plan.create \cap (plan.replace \cup plan.supersede) = {}
           /\ plan.replace \cap plan.supersede = {}
           /\ plan.cites \subseteq runs[r].inputs
<1>1. runs[r].inputs \subseteq Ref
  <2>1. runs[r] \in Run
    BY DEF CurationIsSound, Sound, Typed
  <2> QED BY <2>1 DEF Run
<1>2. Nameable(r) \subseteq runs[r].inputs
  BY DEF Nameable
<1>3. ASSUME NEW m \in Writable(r) PROVE m \in Memory /\ Exists(m)
  <2>1. PICK i \in Nameable(r) : m = i[1] /\ HeadIs(i[1], {"active"})
    BY DEF Writable
  <2>2. i \in Memory \X Nat
    BY <1>1, <1>2 DEF Ref
  <2> QED BY <2>1, <2>2 DEF HeadIs
<1>4. /\ plan.replace \cup plan.supersede \subseteq Writable(r)
      /\ plan.replace \cap plan.supersede = {} /\ plan.cites \subseteq Nameable(r)
      /\ \A m \in plan.create : Fresh(m)
  BY DEF PlanCuration
<1>5. \A m \in plan.create : m \in Memory /\ ~ Exists(m)
  BY <1>4 DEF Fresh
<1>6. plan = [create |-> plan.create, replace |-> plan.replace, supersede |-> plan.supersede,
              cites |-> plan.cites]
  BY DEF Plans
<1>7. /\ plan.create \subseteq Memory /\ plan.replace \subseteq Memory
      /\ plan.supersede \subseteq Memory /\ plan.cites \subseteq Ref
  BY <1>1, <1>2, <1>3, <1>4, <1>5
<1>8. plan \in Plan
  BY <1>6, <1>7 DEF Plan
<1> QED BY <1>2, <1>3, <1>4, <1>5, <1>8

LEMMA PlanStep ==
    ASSUME CurationIsSound, NEW r \in DOMAIN runs, NEW plan \in Plans(r), PlanCuration(r, plan)
    PROVE  CurationIsSound'
<1>1. Sound(lane, requests, runs, versions, clock, count, cursor)
      /\ Typed(lane, requests, runs, versions, clock, cursor)
  BY DEF CurationIsSound, Sound
<1>2. /\ lane.active = r
      /\ runs' = [runs EXCEPT ![r].state = "planned", ![r].plan = plan]
      /\ UNCHANGED <<lane, requests, versions, clock, count, cursor>>
  BY DEF PlanCuration, Holds
<1>3. r # 0 /\ runs[r] \in Run /\ runs \in Seq(Run)
  BY <1>1, TypedElements DEF Typed
<1>4. PICK e : e = [runs[r] EXCEPT !.state = "planned", !.plan = plan]
  OBVIOUS
<1>5. plan \in Plan
  BY PlannedNames
<1>6. /\ e \in Run
      /\ e.request = runs[r].request /\ e.gen = runs[r].gen /\ e.fence = runs[r].fence
      /\ e.inputs = runs[r].inputs /\ e.produced = runs[r].produced
      /\ e.from = runs[r].from /\ e.upto = runs[r].upto /\ e.upper = runs[r].upper
      /\ e.state = "planned" /\ e.plan = plan
  BY <1>3, <1>4, <1>5 DEF Run, RunStates
<1>7. PlanFits(e)
  BY <1>6, PlannedNames DEF PlanFits
<1>8. runs' = [runs EXCEPT ![r] = e]
  BY <1>2, <1>4
<1>9. Continues(runs, runs', r)
  BY <1>3, <1>6, <1>7, <1>8, UpdatedSequence DEF Continues, Live
<1>10. Sound(lane, requests, runs', versions, clock, count, cursor)
  BY <1>1, <1>2, <1>3, <1>9, RunGoesOn
<1> QED BY <1>2, <1>10 DEF CurationIsSound

-----------------------------------------------------------------------------
(* The snapshot a run begins with *)

\* A bounded set of numbers that is not empty has a greatest one.
LEMMA GreatestOf ==
    ASSUME NEW S, S \subseteq Nat, S # {}, NEW n \in Nat, \A x \in S : x <= n
    PROVE  \E x \in S : \A y \in S : y <= x
<1> DEFINE T == {n - x : x \in S}
<1>1. T \subseteq Nat /\ T # {}
  <2>1. \A x \in S : n - x \in Nat
    OBVIOUS
  <2>2. PICK x \in S : TRUE
    OBVIOUS
  <2>3. n - x \in T
    BY <2>2
  <2> QED BY <2>1, <2>3
<1> HIDE DEF T
<1>2. PICK z \in T : \A y \in T : z <= y
  BY <1>1, LeastOf
<1>3. PICK x \in S : z = n - x
  BY DEF T
<1>4. \A y \in S : n - y \in T
  BY DEF T
<1>5. \A y \in S : y <= x
  BY <1>2, <1>3, <1>4
<1> QED BY <1>5

LEMMA ChangedHeads ==
    ASSUME CurationIsSound
    PROVE  /\ Changed = {m \in Heads(versions) : HeadOf(m).seq > cursor}
           /\ Changed \subseteq Memory
           /\ \A m \in Heads(versions) :
                /\ HeadOf(m) = versions[m][Len(versions[m])] /\ Current(m) = HeadRef(versions, m)
                /\ HeadOf(m).seq \in Nat /\ HeadOf(m).seq <= clock
                /\ m \in Memory /\ Current(m) \in Ref
<1>1. versions \in Histories /\ Bounded(lane, requests, runs, versions, clock, cursor)
  BY DEF CurationIsSound, Sound, Typed, Histories
<1>2. ASSUME NEW m \in Heads(versions)
      PROVE  /\ HeadOf(m) = versions[m][Len(versions[m])] /\ Current(m) = HeadRef(versions, m)
             /\ HeadOf(m).seq \in Nat /\ HeadOf(m).seq <= clock
             /\ m \in Memory /\ Current(m) \in Ref
  <2>1. m \in Memory /\ versions[m] # <<>>
    BY DEF Heads
  <2>2. Len(versions[m]) \in DOMAIN versions[m] /\ Len(versions[m]) \in Nat
    BY <1>1, <2>1, VersionTyped
  <2>3. HeadOf(m) = versions[m][Len(versions[m])] /\ Current(m) = HeadRef(versions, m)
    BY DEF HeadOf, Last, Current, HeadRef
  <2>4. HeadOf(m).seq \in Nat
    BY <1>1, <2>1, <2>2, <2>3, VersionTyped
  <2>5. HeadOf(m).seq <= clock
    BY <1>1, <2>1, <2>2, <2>3 DEF Bounded
  <2>6. Current(m) \in Ref
    BY <2>1, <2>2 DEF Current, Ref
  <2> QED BY <2>1, <2>3, <2>4, <2>5, <2>6
<1>3. Changed = {m \in Heads(versions) : HeadOf(m).seq > cursor}
  BY HeadsAreActive DEF Changed
<1> QED BY <1>2, <1>3

\* Cut or whole, a snapshot holds every changed head of its interval.
LEMMA SnapshotIsWhole ==
    ASSUME CurationIsSound, NEW cap \in Nat \ {0}
    PROVE  /\ Snapshot(cap).upto \in Nat /\ Snapshot(cap).upto <= clock
           /\ \A i \in Snapshot(cap).inputs :
                i \in Ref /\ \E m \in Heads(versions) : i = HeadRef(versions, m)
           /\ \A m \in Heads(versions) :
                cursor < HeadOf(m).seq /\ HeadOf(m).seq <= Snapshot(cap).upto =>
                  HeadRef(versions, m) \in Snapshot(cap).inputs
<1> DEFINE before(m) == {n \in Changed : HeadOf(n).seq < HeadOf(m).seq}
           kept == Kept(cap)
           ends == {HeadOf(m).seq : m \in kept}
           last == CHOOSE last \in ends : \A s \in ends : s <= last
<1>0. clock \in Nat
  BY DEF CurationIsSound, Sound, Typed
<1>1. /\ Changed \subseteq Memory /\ Changed \subseteq Heads(versions)
      /\ \A m \in Changed : HeadOf(m).seq \in Nat /\ HeadOf(m).seq <= clock
  BY ChangedHeads
<1>2. kept = {m \in Changed : Cardinality(before(m)) < cap}
  BY DEF Kept
<1>3. kept \subseteq Changed
  BY <1>2
<1>4. \A m, n \in Changed : HeadOf(m).seq <= HeadOf(n).seq =>
        before(m) \in SUBSET before(n) /\ before(n) \in SUBSET Memory
  BY <1>1
<1>5. \A m, n \in Changed : n \in kept /\ HeadOf(m).seq <= HeadOf(n).seq => m \in kept
  <2>1. ASSUME NEW m \in Changed, NEW n \in Changed, n \in kept, HeadOf(m).seq <= HeadOf(n).seq
        PROVE  m \in kept
    <3>1. before(m) \in SUBSET before(n) /\ before(n) \in SUBSET Memory /\ before(m) \in SUBSET Memory
      BY <1>4, <2>1
    <3> HIDE DEF before
    <3>2. /\ Cardinality(before(m)) <= Cardinality(before(n))
          /\ Cardinality(before(m)) \in Nat /\ Cardinality(before(n)) \in Nat
      BY <3>1, MemorySets
    <3> HIDE DEF kept
    <3>3. Cardinality(before(n)) < cap
      BY <1>2, <2>1
    <3>4. Cardinality(before(m)) < cap
      BY <3>2, <3>3
    <3> QED BY <1>2, <2>1, <3>4
  <2> QED BY <2>1
<1>6. kept # Changed => last \in ends /\ \A s \in ends : s <= last
  <2>1. ASSUME kept # Changed PROVE kept # {}
    <3>1. {HeadOf(m).seq : m \in Changed} \subseteq Nat /\ {HeadOf(m).seq : m \in Changed} # {}
      BY <1>1, <1>3, <2>1
    <3>2. PICK x \in {HeadOf(m).seq : m \in Changed} : \A y \in {HeadOf(m).seq : m \in Changed} : x <= y
      BY <3>1, LeastOf
    <3>3. PICK m \in Changed : \A n \in Changed : HeadOf(m).seq <= HeadOf(n).seq
      BY <3>2
    <3>4. before(m) = {}
      BY <1>1, <3>3
    <3>5. Cardinality(before(m)) < cap
      BY <3>4, FS_EmptySet
    <3> QED BY <1>2, <3>5
  <2>2. ASSUME kept # Changed PROVE ends # {} /\ ends \subseteq Nat /\ \A s \in ends : s <= clock
    BY <1>1, <1>3, <2>1, <2>2
  <2>3. ASSUME kept # Changed PROVE \E x \in ends : \A s \in ends : s <= x
    BY <1>0, <2>2, <2>3, GreatestOf
  <2> QED BY <2>3
<1>7. Snapshot(cap) = [inputs |-> {Current(m) : m \in kept},
                       upto |-> IF kept = Changed THEN clock ELSE last]
  BY DEF Snapshot
<1> HIDE DEF last, kept, before
<1>8. Snapshot(cap).inputs = {Current(m) : m \in kept}
      /\ Snapshot(cap).upto = IF kept = Changed THEN clock ELSE last
  BY <1>7
<1>9. Snapshot(cap).upto \in Nat /\ Snapshot(cap).upto <= clock
  BY <1>0, <1>1, <1>3, <1>6, <1>8
<1>10. \A m \in kept : m \in Heads(versions) /\ Current(m) \in Ref /\ Current(m) = HeadRef(versions, m)
  BY <1>1, <1>3, ChangedHeads
<1>11. ASSUME NEW m \in Heads(versions), cursor < HeadOf(m).seq,
              HeadOf(m).seq <= Snapshot(cap).upto
       PROVE  HeadRef(versions, m) \in Snapshot(cap).inputs
  <2>1. cursor \in Nat
    BY DEF CurationIsSound, Sound, Typed
  <2>2. m \in Changed /\ Current(m) = HeadRef(versions, m)
    BY <1>11, <2>1, ChangedHeads
  <2>3. m \in kept
    <3>1. CASE kept = Changed
      BY <2>2, <3>1
    <3>2. CASE kept # Changed
      <4>1. PICK n \in kept : HeadOf(n).seq = last
        BY <1>6, <3>2
      <4>2. HeadOf(m).seq <= HeadOf(n).seq
        BY <1>8, <1>11, <3>2, <4>1
      <4> QED BY <1>3, <1>5, <2>2, <4>1, <4>2
    <3> QED BY <3>1, <3>2
  <2> QED BY <1>8, <2>2, <2>3
<1>12. \A i \in Snapshot(cap).inputs :
         i \in Ref /\ \E m \in Heads(versions) : i = HeadRef(versions, m)
  BY <1>8, <1>10
<1> QED BY <1>9, <1>11, <1>12

LEMMA ReplayedInputs ==
    ASSUME CurationIsSound, NEW original \in DOMAIN runs
    PROVE  /\ ReplaySnapshot(original).inputs \subseteq Ref
           /\ ReplaySnapshot(original).upto = cursor
<1> DEFINE run == runs[original]
           named == {i[1] : i \in run.inputs} \cup run.plan.create
<1>1. run \in Run /\ versions \in Histories
  BY DEF CurationIsSound, Sound, Typed, Histories
<1>2. run.inputs \subseteq Memory \X Nat /\ run.plan \in Plan
  BY <1>1 DEF Run, Ref
<1>3. run.plan.create \subseteq Memory
  BY <1>2 DEF Plan
<1>4. \A m \in named : m \in Memory
  BY <1>2, <1>3
<1>5. \A m \in named : Current(m) \in Memory \X Nat
  BY <1>1, <1>4, VersionTyped DEF Current
<1>6. ReplaySnapshot(original) =
        [inputs |-> run.inputs \cup {Current(m) : m \in named}, upto |-> cursor]
  BY DEF ReplaySnapshot
<1> QED BY <1>2, <1>5, <1>6 DEF Ref

-----------------------------------------------------------------------------
(* The start of a run *)

\* The run a request is claimed by, with what its snapshot promises.
BeginsRun(L, Q, R, V, c, run) ==
    /\ run \in Run /\ run.request \in DOMAIN Q /\ run.gen = Q[run.request].gen
    /\ run.fence > L.fence /\ run.state = "open" /\ run.upto <= c /\ run.upper = c
    /\ PlanFits(run) /\ IntervalIsFrozen(run, V) /\ ShownNoUndoneWork(run, Q, R)

\* The lane and the request name the run.
Claims(L, Q, R, run, L2, Q2) ==
    /\ L2 \in Lane /\ L2.active = Len(R) + 1 /\ L2.fence = run.fence /\ L2.gen = L.gen
    /\ Q2 \in Seq(Request) /\ Len(Q2) = Len(Q)
    /\ \A p \in DOMAIN Q : p # run.request => Q2[p] = Q[p]
    /\ Q2[run.request].key = Q[run.request].key /\ Q2[run.request].gen = Q[run.request].gen
    /\ Q2[run.request].state = "claimed" /\ Q2[run.request].run = Len(R) + 1

LEMMA RunBegins ==
    ASSUME NEW L, NEW Q, NEW R, NEW V, NEW c, NEW n, NEW k, Sound(L, Q, R, V, c, n, k),
           L.active = 0, NEW run, BeginsRun(L, Q, R, V, c, run),
           NEW L2, NEW Q2, Claims(L, Q, R, run, L2, Q2)
    PROVE  Sound(L2, Q2, Append(R, run), V, c, n, k)
<1> DEFINE R2 == Append(R, run)
<1>q. PICK q : q = run.request
  OBVIOUS
<1>r. /\ run \in Run /\ q \in DOMAIN Q /\ run.request = q /\ run.gen = Q[q].gen
      /\ run.fence > L.fence /\ run.state = "open" /\ run.upto <= c /\ run.upper = c
      /\ PlanFits(run) /\ IntervalIsFrozen(run, V) /\ ShownNoUndoneWork(run, Q, R)
  BY <1>q DEF BeginsRun
<1>l. /\ L2 \in Lane /\ L2.active = Len(R) + 1 /\ L2.fence = run.fence /\ L2.gen = L.gen
      /\ Q2 \in Seq(Request) /\ Len(Q2) = Len(Q)
      /\ \A p \in DOMAIN Q : p # q => Q2[p] = Q[p]
      /\ Q2[q].key = Q[q].key /\ Q2[q].gen = Q[q].gen
      /\ Q2[q].state = "claimed" /\ Q2[q].run = Len(R) + 1
  BY <1>q DEF Claims
<1>0. /\ Typed(L, Q, R, V, c, k) /\ IsLive(L, Q, R) /\ InOrder(L, Q, R)
      /\ Bounded(L, Q, R, V, c, k) /\ BornActive(V) /\ RunsAreSound(Q, R, V)
      /\ Counted(V, n) /\ Reviewed(R, V, k) /\ Owed(Q, V, k) /\ Rests(Q, R)
  BY DEF Sound
<1>1. /\ Len(R) \in Nat /\ DOMAIN R = 1 .. Len(R) /\ Len(Q) \in Nat /\ DOMAIN Q = 1 .. Len(Q)
      /\ V \in Histories /\ c \in Nat /\ k \in Nat /\ R \in Seq(Run) /\ L.fence \in Nat
      /\ \A r \in DOMAIN R : R[r].fence \in Nat
  BY <1>r, <1>l, <1>0, TypedElements DEF Typed
<1>2. PICK b : b = Len(R) + 1
  OBVIOUS
<1>3. /\ R2 \in Seq(Run) /\ Len(R2) = b /\ DOMAIN R2 = 1 .. b /\ R2[b] = run
      /\ \A r \in DOMAIN R : R2[r] = R[r]
  BY <1>r, <1>l, <1>1, <1>2, AppendedTo
<1> HIDE DEF R2
<1>4. DOMAIN R2 = DOMAIN R \cup {b} /\ b \notin DOMAIN R /\ b # 0
      /\ \A r \in DOMAIN R : r < b
  BY <1>r, <1>l, <1>1, <1>2, <1>3
<1>5. DOMAIN Q2 = DOMAIN Q /\ \A p \in DOMAIN Q : Q2[p].key = Q[p].key /\ Q2[p].gen = Q[p].gen
  BY <1>r, <1>l, <1>1
<1>6. \A r \in DOMAIN R : R[r].state \notin Live
  BY <1>r, <1>l, <1>0, <1>1, ActiveRun
<1>7. Typed(L2, Q2, R2, V, c, k)
  BY <1>r, <1>l, <1>0, <1>3 DEF Typed
<1>8. IsLive(L2, Q2, R2)
  <2>1. run.state \in Live
    BY <1>r DEF Live
  <2>a. ASSUME NEW r \in DOMAIN R2 PROVE R2[r].state \in Live <=> r = b
    <3>1. CASE r = b
      BY <1>r, <1>l, <1>3, <2>1, <3>1
    <3>2. CASE r # b
      BY <1>r, <1>l, <1>3, <1>4, <1>6, <3>2
    <3> QED BY <1>r, <1>l, <3>1, <3>2
  <2>2. {r \in DOMAIN R2 : R2[r].state \in Live} = {L2.active} \ {0}
    BY <1>r, <1>l, <1>2, <1>4, <2>a
  <2>3. \A p \in DOMAIN Q : Q[p].state # "claimed"
    BY <1>r, <1>l, <1>0 DEF IsLive
  <2>4. \A p \in DOMAIN Q2 : Q2[p].state = "claimed" <=> p = q
    BY <1>r, <1>l, <1>5, <2>3
  <2> QED BY <1>r, <1>l, <1>2, <1>3, <1>4, <2>2, <2>4 DEF IsLive
<1>9. InOrder(L2, Q2, R2)
  <2>1. \A r \in DOMAIN R : R[r].fence < run.fence /\ R[r].fence <= L2.fence
    <3>1. TAKE r \in DOMAIN R
    <3>2. R[r].fence <= L.fence /\ R[r].fence \in Nat
      BY <1>r, <1>l, <1>0, <1>1 DEF InOrder
    <3>3. run.fence \in Nat
      BY <1>r DEF Run
    <3> QED BY <1>r, <1>l, <1>1, <3>2, <3>3
  <2>2. ASSUME NEW r \in DOMAIN R2
        PROVE  /\ R2[r].request \in DOMAIN Q2 /\ R2[r].fence <= L2.fence
               /\ \A s \in DOMAIN R2 : s < r => R2[s].fence < R2[r].fence
    <3>1. CASE r = b
      <4>1. \A s \in DOMAIN R2 : s < r => s \in DOMAIN R
        BY <1>r, <1>l, <1>1, <1>2, <1>3, <3>1
      <4>2. run.fence \in Nat
        BY <1>r DEF Run
      <4> QED BY <1>r, <1>l, <1>3, <1>5, <2>1, <3>1, <4>1, <4>2
    <3>2. CASE r # b
      <4>1. r \in DOMAIN R /\ R2[r] = R[r]
        BY <1>r, <1>l, <1>3, <1>4, <3>2
      <4>2. \A s \in DOMAIN R2 : s < r => s \in DOMAIN R
        BY <1>r, <1>l, <1>1, <1>2, <1>3, <4>1
      <4> QED BY <1>r, <1>l, <1>0, <1>3, <1>5, <2>1, <4>1, <4>2 DEF InOrder
    <3> QED BY <1>r, <1>l, <3>1, <3>2
  <2>3. \A p \in DOMAIN Q2 : Q2[p].key <= Len(R2)
    <3>1. \A p \in DOMAIN Q : Q[p].key <= Len(R) /\ Q[p].key \in Int
      BY <1>r, <1>l, <1>0, TypedElements DEF InOrder
    <3> QED BY <1>r, <1>l, <1>1, <1>2, <1>3, <1>5, <3>1
  <2> QED BY <1>r, <1>l, <1>2, <1>3, <2>2, <2>3 DEF InOrder
<1>10. Bounded(L2, Q2, R2, V, c, k)
  <2>1. \A p \in DOMAIN Q2 : Q2[p].gen <= L2.gen
    BY <1>r, <1>l, <1>0, <1>5 DEF Bounded
  <2>2. ASSUME NEW r \in DOMAIN R2 PROVE R2[r].gen <= L2.gen /\ R2[r].upto <= c
    <3>1. CASE r = b
      BY <1>r, <1>l, <1>0, <1>3, <3>1 DEF Bounded
    <3>2. CASE r # b
      BY <1>r, <1>l, <1>0, <1>3, <1>4, <3>2 DEF Bounded
    <3> QED BY <1>r, <1>l, <3>1, <3>2
  <2> QED BY <1>r, <1>l, <1>0, <2>1, <2>2 DEF Bounded
<1>11. RunsAreSound(Q2, R2, V)
  <2>1. ASSUME NEW r \in DOMAIN R
        PROVE  PlanFits(R2[r]) /\ OnRecord(R2[r], V) /\ R2[r].state \notin Live
    BY <1>r, <1>l, <1>0, <1>3, <1>6 DEF RunsAreSound
  <2>2. PlanFits(R2[b]) /\ OnRecord(R2[b], V) /\ IntervalIsFrozen(R2[b], V)
    BY <1>r, <1>l, <1>3 DEF OnRecord
  <2>3. LaterIsNewer(R2[b], V)
    <3>1. \A m \in Memory : \A v \in DOMAIN V[m] : V[m][v].seq <= c /\ V[m][v].seq \in Nat
      BY <1>r, <1>l, <1>0, <1>1, VersionTyped DEF Bounded
    <3>2. \A m \in Memory : \A v \in DOMAIN V[m] : ~ (V[m][v].seq > c)
      BY <1>r, <1>l, <1>1, <3>1
    <3> QED BY <1>r, <1>l, <1>3, <3>2 DEF LaterIsNewer
  <2>4. ShownNoUndoneWork(R2[b], Q2, R2)
    <3>1. ASSUME Q[q].key <= 0, NEW r \in DOMAIN R2, R2[r].state = "rolled_back"
          PROVE  run.inputs \cap R2[r].produced = {}
      <4>1. r # b
        BY <1>r, <1>l, <1>3, <3>1
      <4>2. r \in DOMAIN R /\ R2[r] = R[r]
        BY <1>r, <1>l, <1>3, <1>4, <4>1
      <4> QED BY <1>r, <1>l, <3>1, <4>2 DEF ShownNoUndoneWork
    <3> QED BY <1>r, <1>l, <1>3, <1>5, <3>1 DEF ShownNoUndoneWork
  <2> QED BY <1>r, <1>l, <1>4, <2>1, <2>2, <2>3, <2>4 DEF RunsAreSound
<1>12. Reviewed(R2, V, k)
  BY <1>r, <1>l, <1>0, <1>3, <1>4 DEF Reviewed
<1>13. Owed(Q2, V, k)
  <2>1. \A p \in DOMAIN Q : Q[p].state # "fulfilled" => Q2[p].state # "fulfilled"
    BY <1>l
  <2> QED BY <1>r, <1>l, <1>0, <1>5, <2>1 DEF Owed
<1>14. Rests(Q2, R2)
  <2>1. ASSUME NEW a \in DOMAIN R2, NEW r \in DOMAIN R2, R2[a].state = "applied",
               R2[r].state = "rolled_back", Q2[R2[a].request].key <= 0
        PROVE  UsedBy(R2[a]) \cap R2[r].produced = {}
    <3>1. a # b /\ r # b
      BY <1>r, <1>l, <1>3, <2>1
    <3>2. a \in DOMAIN R /\ r \in DOMAIN R /\ R2[a] = R[a] /\ R2[r] = R[r]
      BY <1>r, <1>l, <1>3, <1>4, <3>1
    <3>3. Q[R[a].request].key <= 0
      BY <1>r, <1>l, <1>0, <1>5, <2>1, <3>2 DEF InOrder
    <3> QED BY <1>r, <1>l, <1>0, <2>1, <3>2, <3>3 DEF Rests
  <2> QED BY <1>r, <1>l, <2>1 DEF Rests
<1> QED BY <1>r, <1>l, <1>0, <1>7, <1>8, <1>9, <1>10, <1>11, <1>12, <1>13, <1>14 DEF Sound, R2

\* Before a run starts, an expired one is ended.
LEMMA ExpiredIsEnded ==
    ASSUME CurationIsSound, lane.active = 0 \/ Expired
    PROVE  LET asked == IF Expired THEN Retried(runs[lane.active].request, TRUE) ELSE requests
               past == IF Expired THEN Ended(lane.active, "interrupted") ELSE runs
           IN /\ Sound([lane EXCEPT !.active = 0], asked, past, versions, clock, count, cursor)
              /\ DOMAIN asked = DOMAIN requests /\ Len(past) = Len(runs)
              /\ \A q \in DOMAIN requests : asked[q].key = requests[q].key
<1>1. /\ Typed(lane, requests, runs, versions, clock, cursor)
      /\ IsLive(lane, requests, runs) /\ InOrder(lane, requests, runs)
      /\ Sound(lane, requests, runs, versions, clock, count, cursor)
  BY DEF CurationIsSound, Sound
<1>2. PICK L : L = [lane EXCEPT !.active = 0]
  OBVIOUS
<1>3. lane \in Lane
  BY <1>1 DEF Typed
<1>4. L = [gen |-> lane.gen, fence |-> lane.fence, active |-> 0]
      /\ lane.gen \in Nat /\ lane.fence \in Nat
  BY <1>2, <1>3 DEF Lane
<1>5. L \in Lane /\ L.active = 0 /\ L.gen = lane.gen /\ L.fence = lane.fence
  BY <1>4 DEF Lane
<1>6. CASE Expired
  <2>1. PICK asked : asked = Retried(runs[lane.active].request, TRUE)
    OBVIOUS
  <2>2. PICK past : past = Ended(lane.active, "interrupted")
    OBVIOUS
  <2>3. lane.active # 0
    BY <1>6 DEF Expired
  <2>4. /\ runs \in Seq(Run) /\ requests \in Seq(Request)
        /\ lane.active \in DOMAIN runs /\ runs[lane.active].request \in DOMAIN requests
    BY <1>1, <2>3, ActiveRun DEF Typed
  <2>5. EndsRun(runs, past, lane.active, "interrupted")
    BY <2>2, <2>4, EndedRun DEF RunStates
  <2>6. GivesBack(requests, asked, runs[lane.active].request)
    BY <2>1, <2>4, RetriedRequest
  <2>7. L.fence >= lane.fence
    BY <1>4, <1>5
  <2>8. Sound(L, asked, past, versions, clock, count, cursor)
    BY <1>1, <1>5, <2>3, <2>5, <2>6, <2>7, RunEnds
  <2>9. DOMAIN asked = DOMAIN requests /\ Len(past) = Len(runs)
        /\ \A q \in DOMAIN requests : asked[q].key = requests[q].key
    BY <2>4, <2>5, <2>6 DEF EndsRun, GivesBack
  <2> QED BY <1>2, <1>6, <2>1, <2>2, <2>8, <2>9
<1>7. CASE ~ Expired
  <2>1. lane.active = 0
    BY <1>7
  <2>2. L = lane
    BY <1>2, <1>3, <2>1 DEF Lane
  <2> QED BY <1>1, <1>2, <1>7, <2>2
<1> QED BY <1>6, <1>7

LEMMA StartStep ==
    ASSUME CurationIsSound, NEW q \in DOMAIN requests, NEW lease \in 1 .. MaxLease,
           NEW cap \in 1 .. Cardinality(Memory), StartCuration(q, lease, cap)
    PROVE  CurationIsSound'
<1>0. Expired \in BOOLEAN
  BY DEF Expired
<1>1. PICK asked, past :
        /\ asked = IF Expired THEN Retried(runs[lane.active].request, TRUE) ELSE requests
        /\ past = IF Expired THEN Ended(lane.active, "interrupted") ELSE runs
  OBVIOUS
<1>2. PICK snapshot : snapshot = IF requests[q].key > 0 THEN ReplaySnapshot(requests[q].key)
                                 ELSE Snapshot(cap)
  OBVIOUS
<1>3. PICK run :
        run = [request |-> q, gen |-> asked[q].gen, fence |-> lane.fence + 1, state |-> "open",
               lease |-> lease, inputs |-> snapshot.inputs, from |-> cursor,
               upto |-> snapshot.upto, upper |-> clock, plan |-> NoPlan, produced |-> {}]
  OBVIOUS
<1>4. /\ lane.active = 0 \/ Expired
      /\ runs' = Append(past, run)
      /\ requests' = [asked EXCEPT ![q].state = "claimed", ![q].run = Len(runs) + 1]
      /\ lane' = [lane EXCEPT !.active = Len(runs) + 1, !.fence = lane.fence + 1]
      /\ UNCHANGED <<versions, clock, count, cursor>>
  BY <1>1, <1>2, <1>3 DEF StartCuration
<1>5. PICK L : L = [lane EXCEPT !.active = 0]
  OBVIOUS
<1>6. /\ Sound(L, asked, past, versions, clock, count, cursor)
      /\ DOMAIN asked = DOMAIN requests /\ Len(past) = Len(runs)
      /\ asked[q].key = requests[q].key
  BY <1>1, <1>4, <1>5, ExpiredIsEnded
<1>7. /\ Typed(L, asked, past, versions, clock, cursor)
      /\ RunsAreSound(asked, past, versions) /\ BornActive(versions)
  BY <1>6 DEF Sound
<1>8. /\ lane \in Lane /\ lane.fence \in Nat /\ lane.gen \in Nat /\ Len(runs) \in Nat
      /\ runs \in Seq(Run) /\ requests \in Seq(Request) /\ clock \in Nat /\ cursor \in Nat
      /\ Bounded(lane, requests, runs, versions, clock, cursor)
      /\ InOrder(lane, requests, runs) /\ versions \in Histories
  BY DEF CurationIsSound, Sound, Typed, Lane, Histories
<1>9. L.active = 0 /\ L.gen = lane.gen /\ L.fence = lane.fence
  BY <1>5, <1>8 DEF Lane
<1>10. /\ snapshot.inputs \subseteq Ref /\ snapshot.upto \in Nat /\ snapshot.upto <= clock
       /\ \A m \in Heads(versions) :
            cursor < HeadOf(m).seq /\ HeadOf(m).seq <= snapshot.upto =>
              HeadRef(versions, m) \in snapshot.inputs
       /\ requests[q].key <= 0 =>
            \A i \in snapshot.inputs : \E m \in Heads(versions) : i = HeadRef(versions, m)
  <2>1. CASE requests[q].key > 0
    <3>1. requests[q].key \in DOMAIN runs
      <4>1. requests[q] \in Request /\ requests[q].key <= Len(runs)
        BY <1>8 DEF InOrder
      <4>2. requests[q].key \in Int
        BY <4>1 DEF Request, Automatic, Explicit
      <4> QED BY <1>8, <2>1, <4>1, <4>2
    <3>2. snapshot.inputs \subseteq Ref /\ snapshot.upto = cursor
      BY <1>2, <2>1, <3>1, ReplayedInputs
    <3>3. cursor <= clock
      BY <1>8 DEF Bounded
    <3>4. \A m \in Heads(versions) : HeadOf(m).seq \in Nat
      BY ChangedHeads
    <3>5. requests[q].key \in Int
      BY <1>8, <3>1
    <3> QED BY <1>8, <2>1, <3>2, <3>3, <3>4, <3>5
  <2>2. CASE ~ (requests[q].key > 0)
    <3>1. cap \in Nat \ {0}
      BY MemorySets
    <3> QED BY <1>2, <2>2, <3>1, SnapshotIsWhole
  <2> QED BY <2>1, <2>2
<1>11. asked[q] \in Request /\ asked[q].gen \in Nat
  BY <1>6, <1>7, TypedElements
<1>12. NoPlan \in Plan
  BY DEF NoPlan, Plan
<1>13. lease \in Nat
  BY BoundsAreNat
<1>14. /\ run.request = q /\ run.gen = asked[q].gen /\ run.fence = lane.fence + 1
       /\ run.state = "open" /\ run.inputs = snapshot.inputs /\ run.from = cursor
       /\ run.upto = snapshot.upto /\ run.upper = clock /\ run.plan = NoPlan
  BY <1>3
<1>15. run \in Run
  <2>1. q \in Nat
    BY <1>8
  <2>2. lane.fence + 1 \in Nat
    BY <1>8
  <2> QED BY <1>3, <1>8, <1>10, <1>11, <1>12, <1>13, <2>1, <2>2 DEF Run, RunStates
<1>16. PlanFits(run)
  BY <1>14 DEF PlanFits, NoPlan
<1>17. IntervalIsFrozen(run, versions)
  BY <1>10, <1>14, ChangedHeads DEF IntervalIsFrozen
<1>18. ShownNoUndoneWork(run, asked, past)
  <2>1. ASSUME asked[q].key <= 0, NEW r \in DOMAIN past, past[r].state = "rolled_back",
               NEW i \in run.inputs, i \in past[r].produced
        PROVE  FALSE
    <3>1. PICK m \in Heads(versions) : i = HeadRef(versions, m)
      BY <1>6, <1>10, <1>14, <2>1
    <3>2. i[1] = m /\ i[2] = Len(versions[m])
      BY <3>1 DEF HeadRef
    <3>3. i[2] < Len(versions[i[1]])
      BY <1>7, <2>1 DEF RunsAreSound, OnRecord
    <3>4. Len(versions[m]) \in Nat
      BY <1>8, VersionTyped DEF Heads
    <3> QED BY <3>2, <3>3, <3>4
  <2> QED BY <1>14, <2>1 DEF ShownNoUndoneWork
<1>19. /\ lane' \in Lane /\ lane'.active = Len(past) + 1 /\ lane'.fence = run.fence
       /\ lane'.gen = L.gen
  <2>1. lane' = [gen |-> lane.gen, fence |-> lane.fence + 1, active |-> Len(runs) + 1]
    BY <1>4, <1>8 DEF Lane
  <2>2. lane.fence + 1 \in Nat /\ Len(runs) + 1 \in Nat
    BY <1>8
  <2> QED BY <1>6, <1>8, <1>9, <1>14, <2>1, <2>2 DEF Lane
<1>20. /\ requests' \in Seq(Request) /\ Len(requests') = Len(asked)
       /\ \A p \in DOMAIN asked : p # q => requests'[p] = asked[p]
       /\ requests'[q].key = asked[q].key /\ requests'[q].gen = asked[q].gen
       /\ requests'[q].state = "claimed" /\ requests'[q].run = Len(past) + 1
  <2>1. PICK e : e = [asked[q] EXCEPT !.state = "claimed", !.run = Len(runs) + 1]
    OBVIOUS
  <2>2. Len(runs) + 1 \in Nat
    BY <1>8
  <2>3. /\ e \in Request /\ e.key = asked[q].key /\ e.gen = asked[q].gen
        /\ e.state = "claimed" /\ e.run = Len(runs) + 1
    BY <1>11, <2>1, <2>2 DEF Request, RequestStates
  <2>4. requests' = [asked EXCEPT ![q] = e]
    BY <1>4, <2>1
  <2>5. asked \in Seq(Request) /\ q \in DOMAIN asked
    BY <1>6, <1>7 DEF Typed
  <2> QED BY <1>6, <2>3, <2>4, <2>5, UpdatedSequence
<1>21. run.fence > L.fence /\ run.upto <= clock
  BY <1>8, <1>9, <1>10, <1>14
<1>22. BeginsRun(L, asked, past, versions, clock, run)
  BY <1>6, <1>14, <1>15, <1>16, <1>17, <1>18, <1>21 DEF BeginsRun
<1>23. Claims(L, asked, past, run, lane', requests')
  BY <1>14, <1>19, <1>20 DEF Claims
<1>24. Sound(lane', requests', Append(past, run), versions, clock, count, cursor)
  BY <1>6, <1>9, <1>22, <1>23, RunBegins
<1> QED BY <1>4, <1>24 DEF CurationIsSound

-----------------------------------------------------------------------------
(* What an apply and a rollback are made of: the writes of a run, a request  *)
(* queued with it, and the run that ends                                     *)

LEMMA RunWrites ==
    ASSUME NEW L, NEW Q, NEW R, NEW V, NEW c, NEW n, NEW k, Sound(L, Q, R, V, c, n, k),
           NEW W, NEW writes, IsWrite(V, writes), Written(V, W, writes, c, 0)
    PROVE  Sound(L, Q, R, W, c + Cardinality(DOMAIN writes), Cardinality(Heads(W)), k)
<1> DEFINE d == Cardinality(DOMAIN writes)
<1>0. /\ Typed(L, Q, R, V, c, k) /\ IsLive(L, Q, R) /\ InOrder(L, Q, R)
      /\ Bounded(L, Q, R, V, c, k) /\ BornActive(V) /\ RunsAreSound(Q, R, V)
      /\ Counted(V, n) /\ Reviewed(R, V, k) /\ Owed(Q, V, k) /\ Rests(Q, R)
  BY DEF Sound
<1>1. /\ c \in Nat /\ k \in Nat /\ V \in Histories /\ 0 \in Nat
      /\ \A r \in DOMAIN R : R[r] \in Run /\ R[r].gen \in Nat /\ R[r].upto \in Nat
  BY <1>0, TypedElements
<1>2. d \in Nat
  BY MemorySets DEF IsWrite
<1>3. Typed(L, Q, R, W, c + d, k)
  BY <1>0, <1>1, <1>2 DEF Typed, Written, Histories
<1>4. Bounded(L, Q, R, W, c + d, k)
  <2>1. \A m \in Memory : \A v \in DOMAIN W[m] : W[m][v].seq <= c + d
    BY <1>0, <1>1, WritesKeepClock DEF Bounded
  <2>2. \A r \in DOMAIN R : R[r].gen <= L.gen /\ R[r].upto <= c + d
    BY <1>0, <1>1, <1>2 DEF Bounded
  <2>3. k <= c + d
    BY <1>0, <1>1, <1>2 DEF Bounded
  <2> QED BY <1>0, <2>1, <2>2, <2>3 DEF Bounded
<1>5. BornActive(W)
  BY <1>0, <1>1, WritesKeepBirths
<1>6. RunsAreSound(Q, R, W)
  <2>1. ASSUME NEW r \in DOMAIN R
        PROVE  /\ PlanFits(R[r]) /\ OnRecord(R[r], W)
               /\ R[r].state \in Live =>
                    /\ IntervalIsFrozen(R[r], W) /\ LaterIsNewer(R[r], W)
                    /\ ShownNoUndoneWork(R[r], Q, R)
    <3>1. /\ PlanFits(R[r]) /\ OnRecord(R[r], V)
          /\ R[r].state \in Live =>
               /\ IntervalIsFrozen(R[r], V) /\ LaterIsNewer(R[r], V)
               /\ ShownNoUndoneWork(R[r], Q, R)
      BY <1>0 DEF RunsAreSound
    <3>2. R[r] \in Run /\ R[r].upto <= c
      BY <1>0, <1>1 DEF Bounded
    <3>3. OnRecord(R[r], W)
      BY <1>1, <3>1, <3>2, WritesKeepRecords
    <3>4. R[r].state \in Live => IntervalIsFrozen(R[r], W)
      BY <1>1, <3>1, <3>2, WritesKeepInterval
    <3>5. R[r].state \in Live => LaterIsNewer(R[r], W)
      BY <1>1, <3>1, <3>2, WritesAreLater
    <3> QED BY <3>1, <3>3, <3>4, <3>5
  <2> QED BY <2>1 DEF RunsAreSound
<1>7. Reviewed(R, W, k)
  BY <1>0, <1>1, WritesKeepReviewed DEF Bounded
<1>8. Owed(Q, W, k)
  <2>1. ASSUME NEW m \in Memory, NEW v \in DOMAIN W[m], W[m][v].gen > 0, W[m][v].seq > k
        PROVE  \E q \in DOMAIN Q : /\ Q[q].key = Automatic /\ Q[q].gen >= W[m][v].gen
                                   /\ Q[q].state # "fulfilled"
    <3>1. CASE v \in DOMAIN V[m]
      <4>1. W[m][v] = V[m][v]
        BY <1>1, <3>1, OldVersionsStay
      <4> QED BY <1>0, <2>1, <3>1, <4>1 DEF Owed
    <3>2. CASE v \notin DOMAIN V[m]
      <4>1. m \in DOMAIN writes /\ v = Len(V[m]) + 1
        BY <1>1, <3>2, LengthsGrow, VersionTyped
      <4>2. W[m][v].gen = 0
        BY <4>1 DEF Written
      <4> QED BY <2>1, <4>2
    <3> QED BY <3>1, <3>2
  <2> QED BY <2>1 DEF Owed
<1>9. Counted(W, Cardinality(Heads(W)))
  BY DEF Counted
<1> QED BY <1>0, <1>3, <1>4, <1>5, <1>6, <1>7, <1>8, <1>9 DEF Sound

LEMMA RequestQueued ==
    ASSUME NEW L, NEW Q, NEW R, NEW V, NEW c, NEW n, NEW k, Sound(L, Q, R, V, c, n, k),
           NEW L2 \in Lane, L2.active = L.active, L2.fence = L.fence, L.gen <= L2.gen,
           NEW key \in {Automatic, Explicit} \cup Nat, key <= Len(R),
           NEW g \in Nat, g <= L2.gen
    PROVE  Sound(L2, Append(Q, NewRequest(key, g)), R, V, c, n, k)
<1> DEFINE Q2 == Append(Q, NewRequest(key, g))
<1>0. /\ Typed(L, Q, R, V, c, k) /\ IsLive(L, Q, R) /\ InOrder(L, Q, R)
      /\ Bounded(L, Q, R, V, c, k) /\ BornActive(V) /\ RunsAreSound(Q, R, V)
      /\ Counted(V, n) /\ Reviewed(R, V, k) /\ Owed(Q, V, k) /\ Rests(Q, R)
  BY DEF Sound
<1>1. /\ Len(Q) \in Nat /\ DOMAIN Q = 1 .. Len(Q) /\ Len(R) \in Nat /\ Q \in Seq(Request)
      /\ L.gen \in Nat /\ L2.gen \in Nat
      /\ \A q \in DOMAIN Q : Q[q].gen \in Nat
      /\ \A r \in DOMAIN R : R[r].gen \in Nat
  BY <1>0, TypedElements DEF Typed, Lane
<1>2. PICK b : b = Len(Q) + 1
  OBVIOUS
<1>e. NewRequest(key, g) \in Request
  BY NewRequestTyped
<1>3. /\ Q2 \in Seq(Request) /\ DOMAIN Q2 = 1 .. b /\ Q2[b] = NewRequest(key, g)
      /\ \A q \in DOMAIN Q : Q2[q] = Q[q]
  BY <1>1, <1>2, <1>e, AppendedTo
<1> HIDE DEF Q2
<1>4. DOMAIN Q2 = DOMAIN Q \cup {b} /\ b \notin DOMAIN Q
  BY <1>1, <1>2, <1>3
<1>5. Q2[b].key = key /\ Q2[b].gen = g /\ Q2[b].state = "queued"
  BY <1>3 DEF NewRequest
<1>6. \A r \in DOMAIN R : R[r].request \in DOMAIN Q /\ Q2[R[r].request] = Q[R[r].request]
  BY <1>0, <1>3 DEF InOrder
<1>7. Typed(L2, Q2, R, V, c, k)
  BY <1>0, <1>3 DEF Typed
<1>8. IsLive(L2, Q2, R)
  <2>1. L.active # 0 => L.active \in DOMAIN R
    BY <1>0, ActiveRun
  <2>2. ASSUME NEW q \in DOMAIN Q2
        PROVE  Q2[q].state = "claimed" <=> L.active # 0 /\ R[L.active].request = q
    <3>1. CASE q = b
      BY <1>4, <1>5, <1>6, <2>1, <3>1
    <3>2. CASE q # b
      BY <1>0, <1>3, <1>4, <3>2 DEF IsLive
    <3> QED BY <3>1, <3>2
  <2> QED BY <1>0, <1>6, <2>1, <2>2 DEF IsLive
<1>9. InOrder(L2, Q2, R)
  <2>1. ASSUME NEW q \in DOMAIN Q2 PROVE Q2[q].key <= Len(R)
    BY <1>0, <1>3, <1>4, <1>5 DEF InOrder
  <2> QED BY <1>0, <1>4, <2>1 DEF InOrder
<1>10. Bounded(L2, Q2, R, V, c, k)
  <2>1. ASSUME NEW q \in DOMAIN Q2 PROVE Q2[q].gen <= L2.gen
    <3>1. CASE q = b
      BY <1>5, <3>1
    <3>2. CASE q # b
      <4>1. q \in DOMAIN Q /\ Q2[q] = Q[q]
        BY <1>3, <1>4, <3>2
      <4>2. Q[q].gen <= L.gen /\ Q[q].gen \in Nat
        BY <1>0, <1>1, <4>1 DEF Bounded
      <4> QED BY <1>1, <4>1, <4>2
    <3> QED BY <3>1, <3>2
  <2>2. \A r \in DOMAIN R : R[r].gen <= L2.gen
    BY <1>0, <1>1 DEF Bounded
  <2> QED BY <1>0, <2>1, <2>2 DEF Bounded
<1>11. RunsAreSound(Q2, R, V)
  BY <1>0, <1>6 DEF RunsAreSound, ShownNoUndoneWork
<1>12. Owed(Q2, V, k)
  <2>1. \A q \in DOMAIN Q : q \in DOMAIN Q2 /\ Q2[q] = Q[q]
    BY <1>3, <1>4
  <2>2. ASSUME NEW m \in Memory, NEW v \in DOMAIN V[m], V[m][v].gen > 0, V[m][v].seq > k
        PROVE  \E q \in DOMAIN Q2 : /\ Q2[q].key = Automatic /\ Q2[q].gen >= V[m][v].gen
                                    /\ Q2[q].state # "fulfilled"
    <3>1. PICK q \in DOMAIN Q : /\ Q[q].key = Automatic /\ Q[q].gen >= V[m][v].gen
                                /\ Q[q].state # "fulfilled"
      BY <1>0, <2>2 DEF Owed
    <3> QED BY <2>1, <3>1
  <2> QED BY <2>2 DEF Owed
<1>13. Rests(Q2, R)
  BY <1>0, <1>6 DEF Rests
<1> QED BY <1>0, <1>7, <1>8, <1>9, <1>10, <1>11, <1>12, <1>13 DEF Sound, Q2

LEMMA RunIsUndone ==
    ASSUME NEW L, NEW Q, NEW R, NEW V, NEW c, NEW n, NEW k, Sound(L, Q, R, V, c, n, k),
           L.active = 0, NEW r \in DOMAIN R, R[r].state = "applied",
           \A i \in R[r].produced : i[2] < Len(V[i[1]]),
           \A s \in DOMAIN R \ {r} :
             R[s].state = "applied" => UsedBy(R[s]) \cap R[r].produced = {},
           NEW R2, EndsRun(R, R2, r, "rolled_back")
    PROVE  Sound(L, Q, R2, V, c, n, k)
<1>0. /\ Typed(L, Q, R, V, c, k) /\ IsLive(L, Q, R) /\ InOrder(L, Q, R)
      /\ Bounded(L, Q, R, V, c, k) /\ BornActive(V) /\ RunsAreSound(Q, R, V)
      /\ Counted(V, n) /\ Reviewed(R, V, k) /\ Owed(Q, V, k) /\ Rests(Q, R)
  BY DEF Sound
<1>1. /\ DOMAIN R = 1 .. Len(R) /\ Len(R) \in Nat /\ \A s \in DOMAIN R : R[s] \in Run
  BY <1>0, TypedElements
<1>2. /\ DOMAIN R2 = DOMAIN R /\ R2 \in Seq(Run) /\ Len(R2) = Len(R)
      /\ \A s \in DOMAIN R : s # r => R2[s] = R[s]
      /\ R2[r] = [R[r] EXCEPT !.state = "rolled_back", !.lease = 0]
  BY <1>1 DEF EndsRun
<1>3. /\ R2[r].state = "rolled_back"
      /\ \A s \in DOMAIN R :
           /\ R2[s].request = R[s].request /\ R2[s].gen = R[s].gen /\ R2[s].fence = R[s].fence
           /\ R2[s].inputs = R[s].inputs /\ R2[s].upto = R[s].upto /\ R2[s].plan = R[s].plan
           /\ R2[s].produced = R[s].produced
  <2>1. R[r] \in Run
    BY <1>1
  <2>2. /\ R2[r].state = "rolled_back"
        /\ R2[r].request = R[r].request /\ R2[r].gen = R[r].gen /\ R2[r].fence = R[r].fence
        /\ R2[r].inputs = R[r].inputs /\ R2[r].upto = R[r].upto /\ R2[r].plan = R[r].plan
        /\ R2[r].produced = R[r].produced
    BY <1>2, <2>1 DEF Run
  <2> QED BY <1>2, <2>2
<1>4. \A s \in DOMAIN R : R[s].state \notin Live
  BY <1>0, <1>1, ActiveRun
<1>5. \A s \in DOMAIN R : R2[s].state \notin Live
  BY <1>2, <1>3, <1>4 DEF Live
<1>6. Typed(L, Q, R2, V, c, k)
  BY <1>0, <1>2 DEF Typed
<1>7. IsLive(L, Q, R2)
  BY <1>0, <1>2, <1>5 DEF IsLive
<1>8. InOrder(L, Q, R2)
  BY <1>0, <1>2, <1>3 DEF InOrder
<1>9. Bounded(L, Q, R2, V, c, k)
  BY <1>0, <1>2, <1>3 DEF Bounded
<1>10. RunsAreSound(Q, R2, V)
  <2>1. ASSUME NEW s \in DOMAIN R PROVE PlanFits(R2[s]) /\ OnRecord(R2[s], V)
    <3>1. PlanFits(R[s]) /\ OnRecord(R[s], V)
      BY <1>0 DEF RunsAreSound
    <3>2. PlanFits(R2[s])
      BY <1>3, <3>1 DEF PlanFits
    <3>3. CASE s = r
      BY <1>3, <3>2, <3>3 DEF OnRecord
    <3>4. CASE s # r
      BY <1>2, <3>1, <3>4
    <3> QED BY <3>2, <3>3, <3>4
  <2> QED BY <1>2, <1>5, <2>1 DEF RunsAreSound
<1>11. Reviewed(R2, V, k)
  <2>1. ASSUME NEW s \in DOMAIN R, R[s].state \in {"applied", "rolled_back"}
        PROVE  R2[s].state \in {"applied", "rolled_back"} /\ R2[s].inputs = R[s].inputs
    BY <1>2, <1>3, <2>1
  <2> QED BY <1>0, <1>2, <2>1 DEF Reviewed
<1>12. Rests(Q, R2)
  <2>1. ASSUME NEW b \in DOMAIN R, NEW s \in DOMAIN R, R2[b].state = "applied",
               R2[s].state = "rolled_back", Q[R2[b].request].key <= 0
        PROVE  UsedBy(R2[b]) \cap R2[s].produced = {}
    <3>1. b # r /\ R2[b] = R[b]
      BY <1>2, <1>3, <2>1
    <3>2. CASE s = r
      BY <1>3, <2>1, <3>1, <3>2
    <3>3. CASE s # r
      BY <1>0, <1>2, <2>1, <3>1, <3>3 DEF Rests
    <3> QED BY <3>2, <3>3
  <2> QED BY <1>2, <2>1 DEF Rests
<1> QED BY <1>0, <1>6, <1>7, <1>8, <1>9, <1>10, <1>11, <1>12 DEF Sound

\* Only request q changes, and is fulfilled.
Fulfils(Q, Q2, q) ==
    /\ Q2 \in Seq(Request) /\ Len(Q2) = Len(Q)
    /\ \A p \in DOMAIN Q : p # q => Q2[p] = Q[p]
    /\ Q2[q].key = Q[q].key /\ Q2[q].gen = Q[q].gen /\ Q2[q].state = "fulfilled"

\* Only run r changes, and is applied.
AppliesRun(R, R2, r, V) ==
    /\ R2 \in Seq(Run) /\ Len(R2) = Len(R)
    /\ \A s \in DOMAIN R : s # r => R2[s] = R[s]
    /\ R2[r].request = R[r].request /\ R2[r].gen = R[r].gen /\ R2[r].fence = R[r].fence
    /\ R2[r].inputs = R[r].inputs /\ R2[r].upto = R[r].upto /\ R2[r].plan = R[r].plan
    /\ R2[r].state = "applied" /\ OnRecord(R2[r], V)

\* The cursor moves over the interval of the run, from where it was.
MovesCursor(run, k, k2) ==
    /\ k2 = IF run.upto > run.from THEN run.upto ELSE k
    /\ run.upto > run.from => k = run.from

\* What the request was owed for is owed to another one or was shown to the run.
IsCovered(Q, q, run, k2) ==
    Q[q].key = Automatic =>
      \/ \E p \in DOMAIN Q \ {q} : /\ Q[p].key = Automatic /\ Q[p].gen >= Q[q].gen
                                   /\ Q[p].state # "fulfilled"
      \/ Q[q].gen <= run.gen /\ run.upper <= k2

LEMMA RunIsApplied ==
    ASSUME NEW L, NEW Q, NEW R, NEW V, NEW c, NEW n, NEW k, Sound(L, Q, R, V, c, n, k),
           NEW r \in DOMAIN R, L.active = r,
           NEW L2 \in Lane, L2.active = 0, L2.fence = L.fence, L2.gen = L.gen,
           NEW Q2, Fulfils(Q, Q2, R[r].request), NEW R2, AppliesRun(R, R2, r, V),
           NEW k2, MovesCursor(R[r], k, k2), IsCovered(Q, R[r].request, R[r], k2)
    PROVE  Sound(L2, Q2, R2, V, c, n, k2)
<1>0. /\ Typed(L, Q, R, V, c, k) /\ IsLive(L, Q, R) /\ InOrder(L, Q, R)
      /\ Bounded(L, Q, R, V, c, k) /\ BornActive(V) /\ RunsAreSound(Q, R, V)
      /\ Counted(V, n) /\ Reviewed(R, V, k) /\ Owed(Q, V, k) /\ Rests(Q, R)
  BY DEF Sound
<1>1. /\ DOMAIN R = 1 .. Len(R) /\ Len(R) \in Nat /\ DOMAIN Q = 1 .. Len(Q) /\ Len(Q) \in Nat
      /\ c \in Nat /\ k \in Nat /\ V \in Histories
      /\ R[r].upto \in Nat /\ R[r].from \in Nat /\ R[r].upper \in Nat /\ R[r].gen \in Nat
      /\ \A p \in DOMAIN Q : Q[p].gen \in Nat
  BY <1>0, TypedElements
<1>2. PICK q : q = R[r].request
  OBVIOUS
<1>3. /\ q \in DOMAIN Q /\ r # 0 /\ R[r].state \in Live
      /\ \A s \in DOMAIN R : R[s].state \in Live <=> s = r
  BY <1>0, <1>1, <1>2, ActiveRun
<1>4. /\ DOMAIN Q2 = DOMAIN Q /\ Q2 \in Seq(Request) /\ Len(Q2) = Len(Q)
      /\ \A p \in DOMAIN Q : p # q => Q2[p] = Q[p]
      /\ Q2[q].state = "fulfilled"
      /\ \A p \in DOMAIN Q : Q2[p].key = Q[p].key /\ Q2[p].gen = Q[p].gen
  BY <1>1, <1>2 DEF Fulfils
<1>5. /\ DOMAIN R2 = DOMAIN R /\ R2 \in Seq(Run) /\ Len(R2) = Len(R)
      /\ \A s \in DOMAIN R : s # r => R2[s] = R[s]
      /\ R2[r].state = "applied" /\ OnRecord(R2[r], V)
      /\ \A s \in DOMAIN R :
           /\ R2[s].request = R[s].request /\ R2[s].gen = R[s].gen /\ R2[s].fence = R[s].fence
           /\ R2[s].inputs = R[s].inputs /\ R2[s].upto = R[s].upto /\ R2[s].plan = R[s].plan
  BY <1>1 DEF AppliesRun
<1>6. \A s \in DOMAIN R : R2[s].state \notin Live
  BY <1>3, <1>5 DEF Live
<1>7. /\ k2 \in Nat /\ k <= k2 /\ k2 <= c
  <2>1. R[r].upto <= c /\ k <= c
    BY <1>0 DEF Bounded
  <2> QED BY <1>1, <2>1 DEF MovesCursor
<1>8. Typed(L2, Q2, R2, V, c, k2)
  BY <1>0, <1>4, <1>5, <1>7 DEF Typed
<1>9. IsLive(L2, Q2, R2)
  <2>1. {s \in DOMAIN R2 : R2[s].state \in Live} = {L2.active} \ {0}
    BY <1>5, <1>6
  <2>2. \A p \in DOMAIN Q2 : Q2[p].state # "claimed"
    BY <1>0, <1>2, <1>4 DEF IsLive
  <2> QED BY <2>1, <2>2 DEF IsLive
<1>10. InOrder(L2, Q2, R2)
  BY <1>0, <1>4, <1>5 DEF InOrder
<1>11. Bounded(L2, Q2, R2, V, c, k2)
  BY <1>0, <1>4, <1>5, <1>7 DEF Bounded
<1>12. RunsAreSound(Q2, R2, V)
  <2>1. ASSUME NEW s \in DOMAIN R PROVE PlanFits(R2[s]) /\ OnRecord(R2[s], V)
    <3>1. PlanFits(R[s]) /\ OnRecord(R[s], V)
      BY <1>0 DEF RunsAreSound
    <3>2. PlanFits(R2[s])
      BY <1>5, <3>1 DEF PlanFits
    <3>3. OnRecord(R2[s], V)
      BY <1>5, <3>1
    <3> QED BY <3>2, <3>3
  <2> QED BY <1>5, <1>6, <2>1 DEF RunsAreSound
<1>13. \A s \in DOMAIN R : R[s].state \in {"applied", "rolled_back"} => s # r
  BY <1>3 DEF Live
<1>14. Reviewed(R2, V, k2)
  <2>1. ASSUME NEW m \in Heads(V), V[m][Len(V[m])].seq <= k2
        PROVE  \E s \in DOMAIN R2 : /\ R2[s].state \in {"applied", "rolled_back"}
                                    /\ HeadRef(V, m) \in R2[s].inputs
    <3>1. V[m][Len(V[m])].seq \in Nat
      BY <1>1, VersionTyped DEF Heads
    <3>2. CASE V[m][Len(V[m])].seq <= k
      <4>1. PICK s \in DOMAIN R : R[s].state \in {"applied", "rolled_back"} /\ HeadRef(V, m) \in R[s].inputs
        BY <1>0, <3>2 DEF Reviewed
      <4> QED BY <1>5, <1>13, <4>1
    <3>3. CASE ~ (V[m][Len(V[m])].seq <= k)
      <4>1. R[r].from < V[m][Len(V[m])].seq /\ V[m][Len(V[m])].seq <= R[r].upto
        BY <1>1, <2>1, <3>1, <3>3 DEF MovesCursor
      <4>2. IntervalIsFrozen(R[r], V)
        BY <1>0, <1>3 DEF RunsAreSound
      <4>3. HeadRef(V, m) \in R[r].inputs
        BY <4>1, <4>2 DEF IntervalIsFrozen
      <4> QED BY <1>5, <4>3
    <3> QED BY <3>2, <3>3
  <2> QED BY <2>1 DEF Reviewed
<1>15. Owed(Q2, V, k2)
  <2>1. ASSUME NEW m \in Memory, NEW v \in DOMAIN V[m], V[m][v].gen > 0, V[m][v].seq > k2
        PROVE  \E p \in DOMAIN Q2 : /\ Q2[p].key = Automatic /\ Q2[p].gen >= V[m][v].gen
                                    /\ Q2[p].state # "fulfilled"
    <3>1. V[m][v].seq \in Nat /\ V[m][v].gen \in Nat
      BY <1>1, VersionTyped
    <3>2. V[m][v].seq > k
      BY <1>1, <1>7, <2>1, <3>1
    <3>3. PICK p \in DOMAIN Q : /\ Q[p].key = Automatic /\ Q[p].gen >= V[m][v].gen
                                /\ Q[p].state # "fulfilled"
      BY <1>0, <2>1, <3>2 DEF Owed
    <3>4. CASE p # q
      BY <1>4, <3>3, <3>4
    <3>5. CASE p = q
      <4>1. CASE \E o \in DOMAIN Q \ {q} : /\ Q[o].key = Automatic /\ Q[o].gen >= Q[q].gen
                                           /\ Q[o].state # "fulfilled"
        <5>1. PICK o \in DOMAIN Q \ {q} : /\ Q[o].key = Automatic /\ Q[o].gen >= Q[q].gen
                                          /\ Q[o].state # "fulfilled"
          BY <4>1
        <5>2. Q[o].gen >= V[m][v].gen
          BY <1>1, <1>3, <3>1, <3>3, <3>5, <5>1
        <5> QED BY <1>4, <5>1, <5>2
      <4>2. CASE Q[q].gen <= R[r].gen /\ R[r].upper <= k2
        <5>1. V[m][v].seq > R[r].upper
          BY <1>1, <1>7, <2>1, <3>1, <4>2
        <5>2. LaterIsNewer(R[r], V)
          BY <1>0, <1>3 DEF RunsAreSound
        <5>3. V[m][v].gen > R[r].gen
          BY <2>1, <5>1, <5>2 DEF LaterIsNewer
        <5> QED BY <1>1, <1>3, <3>1, <3>3, <3>5, <4>2, <5>3
      <4> QED BY <1>2, <3>3, <3>5, <4>1, <4>2 DEF IsCovered
    <3> QED BY <3>4, <3>5
  <2> QED BY <2>1 DEF Owed
<1>16. Rests(Q2, R2)
  <2>1. ASSUME NEW b \in DOMAIN R, NEW s \in DOMAIN R, R2[b].state = "applied",
               R2[s].state = "rolled_back", Q2[R2[b].request].key <= 0
        PROVE  UsedBy(R2[b]) \cap R2[s].produced = {}
    <3>1. s # r /\ R2[s] = R[s] /\ R[s].state = "rolled_back"
      BY <1>5, <2>1
    <3>2. Q[R[b].request].key <= 0
      BY <1>0, <1>4, <1>5, <2>1 DEF InOrder
    <3>3. CASE b = r
      <4>1. ShownNoUndoneWork(R[r], Q, R) /\ PlanFits(R[r])
        BY <1>0, <1>3 DEF RunsAreSound
      <4>2. R[r].inputs \cap R[s].produced = {}
        BY <3>1, <3>2, <3>3, <4>1 DEF ShownNoUndoneWork
      <4>3. UsedBy(R2[r]) \subseteq R[r].inputs
        BY <1>5, <4>1 DEF UsedBy, PlanFits
      <4> QED BY <3>1, <3>3, <4>2, <4>3
    <3>4. CASE b # r
      BY <1>0, <1>5, <2>1, <3>1, <3>2, <3>4 DEF Rests
    <3> QED BY <3>3, <3>4
  <2> QED BY <1>5, <2>1 DEF Rests
<1> QED BY <1>0, <1>8, <1>9, <1>10, <1>11, <1>12, <1>14, <1>15, <1>16 DEF Sound

-----------------------------------------------------------------------------
(* Apply and rollback *)

LEMMA DisjointSets ==
    ASSUME NEW S \in SUBSET Memory, NEW T \in SUBSET Memory, S \cap T = {}
    PROVE  /\ Cardinality(S \cup T) = Cardinality(S) + Cardinality(T)
           /\ Cardinality(S) \in Nat /\ Cardinality(T) \in Nat
<1>1. IsFiniteSet(S) /\ IsFiniteSet(T) /\ Cardinality(S) \in Nat /\ Cardinality(T) \in Nat
  BY MemorySets
<1>2. Cardinality(S \cup T) = Cardinality(S) + Cardinality(T) - Cardinality(S \cap T)
  BY <1>1, FS_Union
<1>3. Cardinality(S \cap T) = 0
  BY FS_EmptySet
<1> QED BY <1>1, <1>2, <1>3

LEMMA PlanSets ==
    ASSUME NEW run \in Run, PlanFits(run)
    PROVE  /\ run.plan \in Plan
           /\ run.plan.create \in SUBSET Memory /\ run.plan.replace \in SUBSET Memory
           /\ run.plan.supersede \in SUBSET Memory
           /\ DOMAIN Writes(run.plan) \subseteq Memory
           /\ DOMAIN Writes(run.plan) = run.plan.create \cup run.plan.replace \cup run.plan.supersede
           /\ \A m \in DOMAIN Writes(run.plan) :
                Writes(run.plan)[m] = IF m \in run.plan.supersede THEN "superseded" ELSE "active"
           /\ Cardinality(run.plan.create \cup run.plan.replace) =
                Cardinality(run.plan.create) + Cardinality(run.plan.replace)
           /\ Cardinality(run.plan.replace \cup run.plan.supersede) =
                Cardinality(run.plan.replace) + Cardinality(run.plan.supersede)
           /\ Cardinality(run.plan.create) \in Nat /\ Cardinality(run.plan.replace) \in Nat
           /\ Cardinality(run.plan.supersede) \in Nat
<1>1. run.plan \in Plan
  BY DEF Run
<1>2. /\ run.plan.create \in SUBSET Memory /\ run.plan.replace \in SUBSET Memory
      /\ run.plan.supersede \in SUBSET Memory
  BY <1>1 DEF Plan
<1>3. /\ run.plan.create \cap run.plan.replace = {}
      /\ run.plan.replace \cap run.plan.supersede = {}
  BY DEF PlanFits
<1> QED BY <1>1, <1>2, <1>3, WritesOfPlan, DisjointSets

\* A plan that fits rewrites active heads and creates what is not there.
LEMMA FittingPlan ==
    ASSUME CurationIsSound, NEW r \in DOMAIN runs, Fits(r)
    PROVE  /\ IsWrite(versions, Writes(runs[r].plan))
           /\ runs[r].plan.replace \cup runs[r].plan.supersede \subseteq Heads(versions)
           /\ runs[r].plan.create \cap Heads(versions) = {}
<1>1. runs[r] \in Run /\ PlanFits(runs[r])
  BY DEF CurationIsSound, Sound, Typed, RunsAreSound
<1>2. PICK plan : plan = runs[r].plan
  OBVIOUS
<1>3. /\ plan.create \in SUBSET Memory /\ plan.replace \in SUBSET Memory
      /\ plan.supersede \in SUBSET Memory
      /\ DOMAIN Writes(plan) \subseteq Memory
      /\ DOMAIN Writes(plan) = plan.create \cup plan.replace \cup plan.supersede
      /\ \A m \in DOMAIN Writes(plan) :
           Writes(plan)[m] = IF m \in plan.supersede THEN "superseded" ELSE "active"
  BY <1>1, <1>2, PlanSets
<1>4. ASSUME NEW m \in plan.replace \cup plan.supersede PROVE m \in Heads(versions)
  <2>1. Current(m) \in runs[r].inputs
    BY <1>2 DEF Fits
  <2>2. Current(m)[1] = m
    BY DEF Current
  <2>3. Current(m) \in Consumed(r)
    BY <1>2, <2>1, <2>2 DEF Consumed
  <2>4. HeadIs(m, {"active"})
    BY <2>2, <2>3 DEF Fits
  <2>5. m \in Memory
    BY <1>3
  <2> QED BY <2>4, <2>5, HeadsAreActive DEF ActiveHeads
<1>5. ASSUME NEW m \in plan.create PROVE versions[m] = <<>>
  BY <1>2 DEF Fits, Exists
<1>6. IsWrite(versions, Writes(plan))
  <2>1. \A m \in plan.replace \cup plan.supersede : versions[m] # <<>>
    BY <1>4 DEF Heads
  <2> QED BY <1>3, <2>1 DEF IsWrite, VersionStates
<1> QED BY <1>2, <1>4, <1>5, <1>6 DEF Heads

LEMMA AppliedCount ==
    ASSUME CurationIsSound, NEW r \in DOMAIN runs, Fits(r),
           NEW W, Written(versions, W, Writes(runs[r].plan), clock, 0)
    PROVE  count + PlanDelta(runs[r].plan) = Cardinality(Heads(W))
<1>1. runs[r] \in Run /\ PlanFits(runs[r]) /\ versions \in Histories /\ clock \in Nat
      /\ count = Cardinality(Heads(versions))
  BY DEF CurationIsSound, Sound, Typed, RunsAreSound, Histories, Counted
<1>2. PICK plan : plan = runs[r].plan
  OBVIOUS
<1>3. /\ plan.create \in SUBSET Memory /\ plan.replace \in SUBSET Memory
      /\ plan.supersede \in SUBSET Memory
      /\ DOMAIN Writes(plan) \subseteq Memory
      /\ DOMAIN Writes(plan) = plan.create \cup plan.replace \cup plan.supersede
      /\ \A m \in DOMAIN Writes(plan) :
           Writes(plan)[m] = IF m \in plan.supersede THEN "superseded" ELSE "active"
      /\ Cardinality(plan.create \cup plan.replace) = Cardinality(plan.create) + Cardinality(plan.replace)
      /\ Cardinality(plan.replace \cup plan.supersede) =
           Cardinality(plan.replace) + Cardinality(plan.supersede)
      /\ Cardinality(plan.create) \in Nat /\ Cardinality(plan.replace) \in Nat
      /\ Cardinality(plan.supersede) \in Nat
  BY <1>1, <1>2, PlanSets
<1>4. plan.replace \cup plan.supersede \subseteq Heads(versions) /\ plan.create \cap Heads(versions) = {}
  BY <1>2, FittingPlan
<1>5. /\ plan.create \cap (plan.replace \cup plan.supersede) = {}
      /\ plan.replace \cap plan.supersede = {}
  BY <1>1, <1>2 DEF PlanFits
<1>6. {m \in DOMAIN Writes(plan) : Writes(plan)[m] = "active"} = plan.create \cup plan.replace
  BY <1>3, <1>5
<1>7. Heads(versions) \cap DOMAIN Writes(plan) = plan.replace \cup plan.supersede
  BY <1>3, <1>4
<1>8. Cardinality(Heads(W)) =
        Cardinality(Heads(versions)) + Cardinality(plan.create \cup plan.replace)
          - Cardinality(plan.replace \cup plan.supersede)
  BY <1>1, <1>2, <1>3, <1>6, <1>7, HeadsCounted
<1>9. Cardinality(Heads(versions)) \in Nat
  BY MemorySets DEF Heads
<1> QED BY <1>1, <1>2, <1>3, <1>8, <1>9 DEF PlanDelta

LEMMA FulfilledRequest ==
    ASSUME NEW Q \in Seq(Request), NEW q \in DOMAIN Q, NEW gen \in Nat,
           NEW done, done = [Q EXCEPT ![q].state = "fulfilled", ![q].fulfilled = gen]
    PROVE  Fulfils(Q, done, q)
<1>1. PICK e : e = [Q[q] EXCEPT !.state = "fulfilled", !.fulfilled = gen]
  OBVIOUS
<1>2. Q[q] \in Request
  OBVIOUS
<1>3. /\ e \in Request /\ e.key = Q[q].key /\ e.gen = Q[q].gen /\ e.state = "fulfilled"
  BY <1>1, <1>2 DEF Request, RequestStates
<1>4. done = [Q EXCEPT ![q] = e]
  BY <1>1
<1>5. PICK d : d = [Q EXCEPT ![q] = e]
  OBVIOUS
<1>6. /\ d \in Seq(Request) /\ Len(d) = Len(Q) /\ d[q] = e
      /\ \A p \in DOMAIN Q : p # q => d[p] = Q[p]
  BY ONLY Q \in Seq(Request), q \in DOMAIN Q, <1>3, <1>5, UpdatedSequence
<1>7. done = d
  BY <1>4, <1>5
<1> QED BY <1>3, <1>6, <1>7 DEF Fulfils

LEMMA FulfilledBeforeAppend ==
    ASSUME NEW Q \in Seq(Request), NEW q \in DOMAIN Q, NEW done, Fulfils(Q, done, q),
           NEW e \in Request
    PROVE  Fulfils(Append(Q, e), Append(done, e), q)
<1>1. done \in Seq(Request) /\ Len(done) = Len(Q) /\ Len(Q) \in Nat
  BY DEF Fulfils
<1>2. /\ Append(Q, e) \in Seq(Request) /\ Len(Append(Q, e)) = Len(Q) + 1
      /\ DOMAIN Append(Q, e) = 1 .. Len(Q) + 1
      /\ \A i \in 1 .. Len(Q) : Append(Q, e)[i] = Q[i]
      /\ Append(Q, e)[Len(Q) + 1] = e
  BY AppendedTo
<1>3. /\ Append(done, e) \in Seq(Request) /\ Len(Append(done, e)) = Len(Q) + 1
      /\ \A i \in 1 .. Len(Q) : Append(done, e)[i] = done[i]
      /\ Append(done, e)[Len(Q) + 1] = e
  BY <1>1, AppendedTo
<1>4. \A p \in 1 .. Len(Q) + 1 : p \in 1 .. Len(Q) \/ p = Len(Q) + 1
  BY <1>1
<1>5. q \in 1 .. Len(Q) /\ DOMAIN Q = 1 .. Len(Q)
  OBVIOUS
<1> QED BY <1>2, <1>3, <1>4, <1>5 DEF Fulfils

\* The queue an apply leaves: a follow-up if one is due, and the request fulfilled.
LEMMA FollowUpIs ==
    ASSUME CurationIsSound, NEW r \in DOMAIN runs, NEW position,
           NEW q, q = runs[r].request, NEW follow, follow = FollowUp(r, position)
    PROVE  \/ /\ Fulfils(requests, follow.requests, q) /\ follow.gen = lane.gen
              /\ requests[q].gen <= runs[r].gen /\ ~ Backlog(r, position)
           \/ \E g \in Nat :
                /\ Fulfils(Append(requests, NewRequest(requests[q].key, g)), follow.requests, q)
                /\ requests[q].gen <= g /\ g <= follow.gen /\ lane.gen <= follow.gen
                /\ follow.gen \in Nat
<1>1. /\ Typed(lane, requests, runs, versions, clock, cursor)
      /\ InOrder(lane, requests, runs)
      /\ Bounded(lane, requests, runs, versions, clock, cursor)
  BY DEF CurationIsSound, Sound
<1>2. /\ requests \in Seq(Request) /\ q \in DOMAIN requests /\ requests[q] \in Request
      /\ requests[q].gen \in Nat /\ runs[r].gen \in Nat /\ lane.gen \in Nat
      /\ requests[q].gen <= lane.gen
  BY <1>1, TypedElements DEF InOrder, Bounded, Typed
<1>3. PICK raised \in BOOLEAN : raised <=> requests[q].gen > runs[r].gen
  OBVIOUS
<1>4. PICK done : done = [requests EXCEPT ![q].state = "fulfilled", ![q].fulfilled = runs[r].gen]
  OBVIOUS
<1>5. PICK next : next = IF raised THEN requests[q].gen ELSE lane.gen + 1
  OBVIOUS
<1>6. Fulfils(requests, done, q)
  BY <1>2, <1>4, FulfilledRequest
<1>7. follow = IF raised \/ Backlog(r, position)
               THEN [requests |-> Append(done, NewRequest(requests[q].key, next)),
                     gen |-> IF raised THEN lane.gen ELSE next]
               ELSE [requests |-> done, gen |-> lane.gen]
  BY <1>3, <1>4, <1>5 DEF FollowUp
<1>8. CASE raised \/ Backlog(r, position)
  <2>1. follow.requests = Append(done, NewRequest(requests[q].key, next))
        /\ follow.gen = IF raised THEN lane.gen ELSE next
    BY <1>7, <1>8
  <2>2. next \in Nat /\ requests[q].gen <= next
    BY <1>2, <1>5
  <2>3. follow.gen \in Nat /\ next <= follow.gen /\ lane.gen <= follow.gen
    BY <1>2, <1>5, <2>1
  <2>4. NewRequest(requests[q].key, next) \in Request
    BY <1>2, <2>2, NewRequestTyped DEF Request
  <2>5. Fulfils(Append(requests, NewRequest(requests[q].key, next)), follow.requests, q)
    BY <1>2, <1>6, <2>1, <2>4, FulfilledBeforeAppend
  <2> QED BY <2>2, <2>3, <2>5
<1>9. CASE ~ (raised \/ Backlog(r, position))
  <2>1. follow.requests = done /\ follow.gen = lane.gen
    BY <1>7, <1>9
  <2> QED BY <1>2, <1>3, <1>6, <1>9, <2>1
<1> QED BY <1>8, <1>9

LEMMA AppliedRun ==
    ASSUME CurationIsSound, NEW r \in DOMAIN runs, Fits(r),
           NEW W, Written(versions, W, Writes(runs[r].plan), clock, 0),
           NEW produced,
           produced = {<<m, Len(versions[m]) + 1>> : m \in DOMAIN Writes(runs[r].plan)},
           NEW R2, R2 = [Ended(r, "applied") EXCEPT ![r].produced = produced]
    PROVE  AppliesRun(runs, R2, r, W)
<1>1. runs \in Seq(Run) /\ runs[r] \in Run /\ PlanFits(runs[r]) /\ versions \in Histories
  BY DEF CurationIsSound, Sound, Typed, RunsAreSound, Histories
<1>2. PICK plan : plan = runs[r].plan
  OBVIOUS
<1>3. DOMAIN Writes(plan) \subseteq Memory
  BY <1>1, <1>2, PlanSets
<1>4. produced \subseteq Ref
  <2>1. \A m \in DOMAIN Writes(plan) : Len(versions[m]) + 1 \in Nat /\ m \in Memory
    BY <1>1, <1>3, VersionTyped
  <2> QED BY <1>2, <2>1 DEF Ref
<1>5. PICK e : e = [runs[r] EXCEPT !.state = "applied", !.lease = 0, !.produced = produced]
  OBVIOUS
<1>6. e \in Run
  BY <1>1, <1>4, <1>5 DEF Run, RunStates
<1>7. /\ e.state = "applied" /\ e.produced = produced /\ e.plan = plan
      /\ e.request = runs[r].request /\ e.gen = runs[r].gen /\ e.fence = runs[r].fence
      /\ e.inputs = runs[r].inputs /\ e.upto = runs[r].upto
  BY <1>1, <1>2, <1>5 DEF Run
<1>8. R2 = [runs EXCEPT ![r] = e]
  BY <1>1, <1>5 DEF Ended
<1>9. OnRecord(e, W)
  <2>1. ASSUME NEW m \in DOMAIN Writes(plan)
        PROVE  \E v \in DOMAIN W[m] : <<m, v>> \in produced /\ W[m][v].state = Writes(plan)[m]
    <3>1. m \in Memory
      BY <1>3
    <3>2. Len(W[m]) = Len(versions[m]) + 1 /\ DOMAIN W[m] = 1 .. Len(W[m]) /\ Len(versions[m]) \in Nat
      BY <1>1, <1>2, <3>1, LengthsGrow, VersionTyped
    <3>3. Len(versions[m]) + 1 \in DOMAIN W[m]
      BY <3>2
    <3>4. <<m, Len(versions[m]) + 1>> \in produced
      BY <1>2
    <3>5. W[m][Len(versions[m]) + 1].state = Writes(plan)[m]
      BY <1>2 DEF Written
    <3> QED BY <3>3, <3>4, <3>5
  <2>2. ASSUME NEW i \in produced PROVE i[1] \in DOMAIN Writes(plan) /\ i[2] \in DOMAIN W[i[1]]
    <3>1. PICK m \in DOMAIN Writes(plan) : i = <<m, Len(versions[m]) + 1>>
      BY <1>2
    <3>2. m \in Memory
      BY <1>3
    <3>3. Len(W[m]) = Len(versions[m]) + 1 /\ DOMAIN W[m] = 1 .. Len(W[m]) /\ Len(versions[m]) \in Nat
      BY <1>1, <1>2, <3>1, <3>2, LengthsGrow, VersionTyped
    <3> QED BY <3>1, <3>3
  <2> QED BY <1>7, <2>1, <2>2 DEF OnRecord
<1>10. PICK R3 : R3 = [runs EXCEPT ![r] = e]
  OBVIOUS
<1>11. /\ R3 \in Seq(Run) /\ Len(R3) = Len(runs) /\ R3[r] = e
       /\ \A s \in DOMAIN runs : s # r => R3[s] = runs[s]
  BY ONLY r \in DOMAIN runs, <1>1, <1>6, <1>10, UpdatedSequence
<1>12. R2 = R3
  BY <1>8, <1>10
<1> QED BY <1>2, <1>7, <1>9, <1>11, <1>12 DEF AppliesRun

LEMMA ApplyStep ==
    ASSUME CurationIsSound, NEW r \in DOMAIN runs, ApplyCuration(r)
    PROVE  CurationIsSound'
<1>1. PICK plan, position, q :
        /\ plan = runs[r].plan /\ q = runs[r].request
        /\ position = IF runs[r].upto > runs[r].from THEN runs[r].upto ELSE cursor
  OBVIOUS
<1>2. PICK follow : follow = FollowUp(r, position)
  OBVIOUS
<1>3. /\ lane.active = r /\ Fits(r)
      /\ versions' = Appended(Writes(plan), 0)
      /\ clock' = clock + Cardinality(DOMAIN Writes(plan))
      /\ count' = count + PlanDelta(plan)
      /\ cursor' = position
      /\ requests' = follow.requests
      /\ lane' = [lane EXCEPT !.gen = follow.gen, !.active = 0]
      /\ runs' = [Ended(r, "applied") EXCEPT
                    ![r].produced = {<<m, Len(versions[m]) + 1>> : m \in DOMAIN Writes(plan)}]
  BY <1>1, <1>2 DEF ApplyCuration, Holds
<1>4. /\ Sound(lane, requests, runs, versions, clock, count, cursor)
      /\ Typed(lane, requests, runs, versions, clock, cursor)
      /\ InOrder(lane, requests, runs) /\ RunsAreSound(requests, runs, versions)
  BY DEF CurationIsSound, Sound
<1>5. /\ lane \in Lane /\ lane.gen \in Nat /\ lane.fence \in Nat /\ clock \in Nat /\ cursor \in Nat
      /\ versions \in Histories /\ requests \in Seq(Request) /\ q \in DOMAIN requests
      /\ runs[r].upto \in Nat /\ runs[r].from \in Nat /\ runs[r].upper \in Nat
      /\ Len(runs) \in Nat /\ Len(requests) \in Nat /\ DOMAIN requests = 1 .. Len(requests)
      /\ requests[q].key \in {Automatic, Explicit} \cup Nat /\ requests[q].gen \in Nat
      /\ requests[q].key <= Len(runs)
  <2>1. q \in DOMAIN requests /\ requests[q] \in Request /\ requests[q].key <= Len(runs)
    BY <1>1, <1>4, TypedElements DEF InOrder
  <2>2. requests[q].key \in {Automatic, Explicit} \cup Nat /\ requests[q].gen \in Nat
    BY <2>1 DEF Request
  <2> QED BY <1>4, <2>1, <2>2, TypedElements DEF Typed
<1>6. IsWrite(versions, Writes(plan))
  BY <1>1, <1>3, FittingPlan
<1>7. 0 \in Nat
  OBVIOUS
<1>8. Written(versions, versions', Writes(plan), clock, 0)
  BY <1>3, <1>5, <1>6, <1>7, AppendedWrites
<1>9. count' = Cardinality(Heads(versions'))
  BY <1>1, <1>3, <1>8, AppliedCount
<1>10. Sound(lane, requests, runs, versions', clock', count', cursor)
  BY <1>3, <1>4, <1>6, <1>8, <1>9, RunWrites
<1>11. AppliesRun(runs, runs', r, versions')
  BY <1>1, <1>3, <1>8, AppliedRun
<1>12. MovesCursor(runs[r], cursor, cursor')
  <2>1. cursor = runs[r].from \/ runs[r].upto = runs[r].from
    BY <1>3 DEF Fits
  <2> QED BY <1>1, <1>3, <1>5, <2>1 DEF MovesCursor
<1>13. ASSUME NEW L \in Lane, L.active = r, L.fence = lane.fence, L.gen = follow.gen,
              NEW Q, Sound(L, Q, runs, versions', clock', count', cursor),
              Fulfils(Q, requests', q), IsCovered(Q, q, runs[r], cursor')
       PROVE  CurationIsSound'
  <2>1. PICK L2 : L2 = lane'
    OBVIOUS
  <2>2. lane' = [gen |-> L.gen, fence |-> lane.fence, active |-> 0]
    BY <1>3, <1>5, <1>13 DEF Lane
  <2>3. L.gen \in Nat
    BY <1>13 DEF Lane
  <2>4. L2 \in Lane /\ L2.active = 0 /\ L2.fence = L.fence /\ L2.gen = L.gen
    BY <1>5, <1>13, <2>1, <2>2, <2>3 DEF Lane
  <2>5. Fulfils(Q, requests', runs[r].request) /\ IsCovered(Q, runs[r].request, runs[r], cursor')
    BY <1>1, <1>13
  <2>6. Sound(L2, requests', runs', versions', clock', count', cursor')
    BY <1>11, <1>12, <1>13, <2>4, <2>5, RunIsApplied
  <2> QED BY <2>1, <2>6 DEF CurationIsSound
<1>14. CASE /\ Fulfils(requests, follow.requests, q) /\ follow.gen = lane.gen
            /\ requests[q].gen <= runs[r].gen /\ ~ Backlog(r, position)
  <2>1. IsCovered(requests, q, runs[r], cursor')
    <3>1. ASSUME requests[q].key = Automatic PROVE runs[r].upper <= cursor'
      <4>1. ~ (position < runs[r].upper)
        BY <1>1, <1>14, <3>1 DEF Backlog, Automatic
      <4>2. position \in Nat
        BY <1>1, <1>5
      <4> QED BY <1>3, <1>5, <4>1, <4>2
    <3> QED BY <1>14, <3>1 DEF IsCovered
  <2> QED BY <1>3, <1>5, <1>10, <1>13, <1>14, <2>1
<1>15. ASSUME NEW g \in Nat,
              Fulfils(Append(requests, NewRequest(requests[q].key, g)), follow.requests, q),
              requests[q].gen <= g, g <= follow.gen, lane.gen <= follow.gen, follow.gen \in Nat
       PROVE  CurationIsSound'
  <2>1. PICK Q : Q = Append(requests, NewRequest(requests[q].key, g))
    OBVIOUS
  <2>2. PICK L : L = [lane EXCEPT !.gen = follow.gen]
    OBVIOUS
  <2>3. L = [gen |-> follow.gen, fence |-> lane.fence, active |-> lane.active]
        /\ lane.active \in Nat
    BY <1>5, <2>2 DEF Lane
  <2>4. L \in Lane /\ L.active = lane.active /\ L.fence = lane.fence /\ L.gen = follow.gen
    BY <1>5, <1>15, <2>3 DEF Lane
  <2>5. Sound(L, Q, runs, versions', clock', count', cursor)
    BY <1>5, <1>10, <1>15, <2>1, <2>4, RequestQueued
  <2>6. NewRequest(requests[q].key, g) \in Request
    BY <1>5, NewRequestTyped
  <2>7. /\ Len(requests) + 1 \in DOMAIN Q
        /\ Q[Len(requests) + 1] = NewRequest(requests[q].key, g)
        /\ Q[q] = requests[q]
    BY <1>5, <2>1, <2>6, AppendedTo
  <2>8. IsCovered(Q, q, runs[r], cursor')
    <3>1. PICK b : b = Len(requests) + 1
      OBVIOUS
    <3>2. b \in DOMAIN Q \ {q}
      BY <1>5, <2>7, <3>1
    <3>3. Q[b].key = requests[q].key /\ Q[b].gen = g /\ Q[b].state = "queued"
      BY <2>7, <3>1 DEF NewRequest
    <3> QED BY <1>15, <2>7, <3>2, <3>3 DEF IsCovered
  <2>9. Fulfils(Q, requests', q)
    BY <1>3, <1>15, <2>1
  <2> QED BY <1>3, <1>13, <2>4, <2>5, <2>8, <2>9
<1>16. \/ /\ Fulfils(requests, follow.requests, q) /\ follow.gen = lane.gen
          /\ requests[q].gen <= runs[r].gen /\ ~ Backlog(r, position)
       \/ \E g \in Nat :
            /\ Fulfils(Append(requests, NewRequest(requests[q].key, g)), follow.requests, q)
            /\ requests[q].gen <= g /\ g <= follow.gen /\ lane.gen <= follow.gen
            /\ follow.gen \in Nat
  BY <1>1, <1>2, FollowUpIs
<1> QED BY <1>14, <1>15, <1>16

\* What the compensations of a run do to the heads it produced.
LEMMA UndoneWrites ==
    ASSUME CurationIsSound, NEW r \in DOMAIN runs, runs[r].state = "applied", ~ Blocked(r),
           NEW plan, plan = runs[r].plan,
           NEW undone, undone = [m \in DOMAIN Writes(plan) |->
                                   IF m \in plan.create THEN "reverted" ELSE "active"]
    PROVE  /\ IsWrite(versions, undone) /\ DOMAIN undone = DOMAIN Writes(plan)
           /\ Heads(versions) \cap DOMAIN undone = plan.create \cup plan.replace
           /\ {m \in DOMAIN undone : undone[m] = "active"} = plan.replace \cup plan.supersede
           /\ \A i \in runs[r].produced : i[1] \in DOMAIN undone /\ i[2] = Len(versions[i[1]])
<1>1. runs[r] \in Run /\ PlanFits(runs[r]) /\ OnRecord(runs[r], versions) /\ versions \in Histories
  BY DEF CurationIsSound, Sound, Typed, RunsAreSound, Histories
<1>2. /\ DOMAIN Writes(plan) \subseteq Memory
      /\ DOMAIN Writes(plan) = plan.create \cup plan.replace \cup plan.supersede
      /\ \A m \in DOMAIN Writes(plan) :
           Writes(plan)[m] = IF m \in plan.supersede THEN "superseded" ELSE "active"
  BY <1>1, PlanSets
<1>3. /\ plan.create \cap (plan.replace \cup plan.supersede) = {}
      /\ plan.replace \cap plan.supersede = {}
  BY <1>1 DEF PlanFits
<1>4. \A i \in runs[r].produced : i = Current(i[1])
  BY DEF Blocked
<1>5. ASSUME NEW m \in DOMAIN Writes(plan)
      PROVE  versions[m] # <<>> /\ versions[m][Len(versions[m])].state = Writes(plan)[m]
  <2>1. PICK v \in DOMAIN versions[m] :
          <<m, v>> \in runs[r].produced /\ versions[m][v].state = Writes(plan)[m]
    BY <1>1 DEF OnRecord
  <2>2. <<m, v>> = <<m, Len(versions[m])>>
    BY <1>4, <2>1 DEF Current
  <2>3. v = Len(versions[m])
    BY <2>2
  <2>4. m \in Memory
    BY <1>2
  <2>5. versions[m] # <<>>
    BY <1>1, <2>1, <2>4, VersionTyped
  <2> QED BY <2>1, <2>3, <2>5
<1>6. DOMAIN undone = DOMAIN Writes(plan)
      /\ \A m \in DOMAIN Writes(plan) : undone[m] = IF m \in plan.create THEN "reverted" ELSE "active"
  OBVIOUS
<1>7. IsWrite(versions, undone)
  BY <1>2, <1>5, <1>6 DEF IsWrite, VersionStates
<1>8. \A m \in DOMAIN Writes(plan) : m \in Heads(versions) <=> m \notin plan.supersede
  BY <1>2, <1>5 DEF Heads
<1>9. Heads(versions) \cap DOMAIN undone = plan.create \cup plan.replace
  BY <1>2, <1>3, <1>6, <1>8
<1>10. {m \in DOMAIN undone : undone[m] = "active"} = plan.replace \cup plan.supersede
  BY <1>2, <1>3, <1>6
<1>11. ASSUME NEW i \in runs[r].produced
       PROVE  i[1] \in DOMAIN undone /\ i[2] = Len(versions[i[1]])
  <2>1. i[1] \in DOMAIN Writes(plan)
    BY <1>1 DEF OnRecord
  <2>2. Current(i[1])[2] = Len(versions[i[1]])
    BY DEF Current
  <2> QED BY <1>4, <1>6, <2>1, <2>2
<1> QED BY <1>6, <1>7, <1>9, <1>10, <1>11

LEMMA RollbackStep ==
    ASSUME CurationIsSound, NEW r \in DOMAIN runs, RollbackCuration(r)
    PROVE  CurationIsSound'
<1>1. PICK plan : plan = runs[r].plan
  OBVIOUS
<1>2. PICK undone : undone = [m \in DOMAIN Writes(plan) |->
                                IF m \in plan.create THEN "reverted" ELSE "active"]
  OBVIOUS
<1>3. /\ lane.active = 0 /\ runs[r].state = "applied" /\ ~ Blocked(r)
      /\ versions' = Appended(undone, 0)
      /\ clock' = clock + Cardinality(DOMAIN undone)
      /\ count' = count - PlanDelta(plan)
      /\ lane' = [lane EXCEPT !.gen = lane.gen + 1]
      /\ requests' = Append(requests, NewRequest(r, lane.gen + 1))
      /\ runs' = Ended(r, "rolled_back")
      /\ cursor' = cursor
  BY <1>1, <1>2 DEF RollbackCuration
<1>4. /\ Sound(lane, requests, runs, versions, clock, count, cursor)
      /\ Typed(lane, requests, runs, versions, clock, cursor)
      /\ RunsAreSound(requests, runs, versions) /\ Counted(versions, count)
  BY DEF CurationIsSound, Sound
<1>5. /\ lane \in Lane /\ lane.gen \in Nat /\ clock \in Nat /\ versions \in Histories
      /\ runs \in Seq(Run) /\ runs[r] \in Run /\ PlanFits(runs[r])
      /\ Len(runs) \in Nat /\ DOMAIN runs = 1 .. Len(runs)
  BY <1>4, TypedElements DEF Typed, RunsAreSound
<1>6. /\ IsWrite(versions, undone) /\ DOMAIN undone = DOMAIN Writes(plan)
      /\ Heads(versions) \cap DOMAIN undone = plan.create \cup plan.replace
      /\ {m \in DOMAIN undone : undone[m] = "active"} = plan.replace \cup plan.supersede
      /\ \A i \in runs[r].produced : i[1] \in DOMAIN undone /\ i[2] = Len(versions[i[1]])
  BY <1>1, <1>2, <1>3, UndoneWrites
<1>7. 0 \in Nat
  OBVIOUS
<1>8. Written(versions, versions', undone, clock, 0)
  BY <1>3, <1>5, <1>6, <1>7, AppendedWrites
<1>9. DOMAIN undone \subseteq Memory
  BY <1>6 DEF IsWrite
<1>10. count' = Cardinality(Heads(versions'))
  <2>1. Cardinality(Heads(versions')) =
          Cardinality(Heads(versions)) + Cardinality(plan.replace \cup plan.supersede)
            - Cardinality(plan.create \cup plan.replace)
    BY <1>5, <1>6, <1>8, <1>9, HeadsCounted
  <2>2. /\ Cardinality(plan.create \cup plan.replace) = Cardinality(plan.create) + Cardinality(plan.replace)
        /\ Cardinality(plan.replace \cup plan.supersede) =
             Cardinality(plan.replace) + Cardinality(plan.supersede)
        /\ Cardinality(plan.create) \in Nat /\ Cardinality(plan.replace) \in Nat
        /\ Cardinality(plan.supersede) \in Nat
    BY <1>1, <1>5, PlanSets
  <2>3. Cardinality(Heads(versions)) \in Nat
    BY MemorySets DEF Heads
  <2> QED BY <1>3, <1>4, <2>1, <2>2, <2>3 DEF PlanDelta, Counted
<1>11. Sound(lane, requests, runs, versions', clock', count', cursor)
  BY <1>3, <1>4, <1>6, <1>8, <1>10, RunWrites
<1>12. PICK L : L = lane'
  OBVIOUS
<1>13. L \in Lane /\ L.active = lane.active /\ L.fence = lane.fence /\ L.gen = lane.gen + 1
  <2>1. L = [gen |-> lane.gen + 1, fence |-> lane.fence, active |-> lane.active]
    BY <1>3, <1>5, <1>12 DEF Lane
  <2>2. lane.fence \in Nat /\ lane.active \in Nat /\ lane.gen + 1 \in Nat
    BY <1>5 DEF Lane
  <2> QED BY <2>1, <2>2 DEF Lane
<1>14. Sound(L, requests', runs, versions', clock', count', cursor)
  <2>1. PICK g : g = lane.gen + 1
    OBVIOUS
  <2>2. g \in Nat /\ g <= L.gen /\ lane.gen <= L.gen
    BY <1>5, <1>13, <2>1
  <2>3. r \in {Automatic, Explicit} \cup Nat /\ r <= Len(runs)
    BY <1>5
  <2>4. Sound(L, Append(requests, NewRequest(r, g)), runs, versions', clock', count', cursor)
    BY <1>11, <1>13, <2>2, <2>3, RequestQueued
  <2> QED BY <1>3, <2>1, <2>4
<1>15. \A i \in runs[r].produced : i[2] < Len(versions'[i[1]])
  <2>1. TAKE i \in runs[r].produced
  <2>2. i[1] \in DOMAIN undone /\ i[2] = Len(versions[i[1]])
    BY <1>6
  <2>3. Len(versions'[i[1]]) = Len(versions[i[1]]) + 1
    BY <1>8, <2>2 DEF Written
  <2>4. Len(versions[i[1]]) \in Nat
    BY <1>5, <1>9, <2>2, VersionTyped
  <2> QED BY <2>2, <2>3, <2>4
<1>16. \A s \in DOMAIN runs \ {r} :
         runs[s].state = "applied" => UsedBy(runs[s]) \cap runs[r].produced = {}
  BY <1>3 DEF Blocked, Consumed, UsedBy
<1>17. EndsRun(runs, runs', r, "rolled_back")
  BY <1>3, <1>5, EndedRun DEF RunStates
<1>18. Sound(L, requests', runs', versions', clock', count', cursor)
  <2>1. L.active = 0
    BY <1>3, <1>13
  <2> QED BY <1>3, <1>14, <1>15, <1>16, <1>17, <2>1, RunIsUndone
<1> QED BY <1>3, <1>12, <1>18 DEF CurationIsSound

-----------------------------------------------------------------------------
(* The theorems *)

LEMMA CurationInit == Init => CurationIsSound
<1> SUFFICES ASSUME Init PROVE CurationIsSound
  OBVIOUS
<1>1. /\ lane = [gen |-> 0, fence |-> 0, active |-> 0]
      /\ requests = <<>> /\ runs = <<>> /\ versions = [m \in Memory |-> <<>>]
      /\ clock = 0 /\ count = 0 /\ cursor = 0
  BY DEF Init
<1>2. DOMAIN requests = {} /\ DOMAIN runs = {} /\ Len(runs) = 0
  BY <1>1
<1>3. \A m \in Memory : versions[m] = <<>> /\ DOMAIN versions[m] = {}
  BY <1>1
<1>4. Heads(versions) = {}
  BY <1>3 DEF Heads
<1>5. Typed(lane, requests, runs, versions, clock, cursor)
  BY <1>1 DEF Typed, Lane
<1>6. lane.active = 0
  BY <1>1
<1>7. IsLive(lane, requests, runs) /\ InOrder(lane, requests, runs)
  BY <1>2, <1>6 DEF IsLive, InOrder
<1>8. Bounded(lane, requests, runs, versions, clock, cursor) /\ BornActive(versions)
  BY <1>1, <1>2, <1>3 DEF Bounded, BornActive
<1>9. RunsAreSound(requests, runs, versions) /\ Rests(requests, runs)
  BY <1>2 DEF RunsAreSound, Rests
<1>10. Counted(versions, count)
  BY <1>1, <1>4, FS_EmptySet DEF Counted
<1>11. Reviewed(runs, versions, cursor) /\ Owed(requests, versions, cursor)
  BY <1>3, <1>4 DEF Reviewed, Owed
<1> QED BY <1>5, <1>7, <1>8, <1>9, <1>10, <1>11 DEF CurationIsSound, Sound

LEMMA CurationNext == CurationIsSound /\ [Next]_vars => CurationIsSound'
<1> SUFFICES ASSUME CurationIsSound, [Next]_vars PROVE CurationIsSound'
  OBVIOUS
<1>1. CASE RequestCuration
  BY <1>1, RequestStep
<1>2. CASE \/ CaptureMemory \/ AdjustMemory \/ ForgetMemory \/ RestoreMemory
           \/ ReactivateMemory \/ SupersedeMemory
  BY <1>2, AgentStep
<1>3. CASE InterruptExpired
  BY <1>3, InterruptStep
<1>4. CASE Tick
  BY <1>4, LeaseStep
<1>5. CASE \E q \in DOMAIN requests, lease \in 1 .. MaxLease, cap \in 1 .. Cardinality(Memory) :
             StartCuration(q, lease, cap)
  BY <1>5, StartStep
<1>6. ASSUME NEW r \in DOMAIN runs,
             \/ \E extension \in 1 .. MaxLease : RenewCuration(r, extension)
             \/ \E plan \in Plans(r) : PlanCuration(r, plan)
             \/ CancelCuration(r)
             \/ \E preview \in BOOLEAN : AbandonCuration(r, preview)
             \/ ApplyCuration(r) \/ ConflictCuration(r) \/ RollbackCuration(r)
      PROVE  CurationIsSound'
  <2>1. CASE \E extension \in 1 .. MaxLease : RenewCuration(r, extension)
    BY <2>1, LeaseStep
  <2>2. CASE \E plan \in Plans(r) : PlanCuration(r, plan)
    BY <2>2, PlanStep
  <2>3. CASE CancelCuration(r) \/ ConflictCuration(r)
               \/ \E preview \in BOOLEAN : AbandonCuration(r, preview)
    BY <2>3, FinishStep
  <2>4. CASE ApplyCuration(r)
    BY <2>4, ApplyStep
  <2>5. CASE RollbackCuration(r)
    BY <2>5, RollbackStep
  <2> QED BY <1>6, <2>1, <2>2, <2>3, <2>4, <2>5
<1>7. CASE UNCHANGED vars
  BY <1>7 DEF vars, CurationIsSound
<1> QED BY <1>1, <1>2, <1>3, <1>4, <1>5, <1>6, <1>7 DEF Next

\* The lane, the queue, the runs and the histories stay consistent through
\* every call of the agent and of its workers, in any order.
THEOREM SoundCuration == Spec => []CurationIsSound
<1>1. Init => CurationIsSound
  BY CurationInit
<1>2. CurationIsSound /\ [Next]_vars => CurationIsSound'
  BY CurationNext
<1> QED BY <1>1, <1>2, PTL DEF Spec

\* At most one run is under way; it and its request name each other, and its
\* fence is above that of every earlier one.
THEOREM LanesAreFenced == Spec => []LaneIsFenced
<1>1. CurationIsSound => LaneIsFenced
  BY DEF CurationIsSound, Sound, IsLive, InOrder, LaneIsFenced
<1> QED BY <1>1, SoundCuration, PTL

\* The cursor passes no memory that an applied run was not shown as it is.
THEOREM NothingIsPassedOver == Spec => []PassedMeansReviewed
<1>1. ASSUME CurationIsSound PROVE PassedMeansReviewed
  <2>1. Reviewed(runs, versions, cursor)
    BY <1>1 DEF CurationIsSound, Sound
  <2>2. \A m \in Memory : HeadOf(m) = versions[m][Len(versions[m])]
                          /\ Current(m) = HeadRef(versions, m)
    BY DEF HeadOf, Last, Current, HeadRef
  <2> QED BY <2>1, <2>2, HeadsAreActive DEF Reviewed, PassedMeansReviewed, Heads
<1> QED BY <1>1, SoundCuration, PTL

\* A write of the agent that no run has passed is owed one.
THEOREM WritesAreOwedRuns == Spec => []WriteIsOwedARun
<1>1. CurationIsSound => WriteIsOwedARun
  BY DEF CurationIsSound, Sound, Owed, WriteIsOwedARun
<1> QED BY <1>1, SoundCuration, PTL

\* The counter the plan limit is checked against never drifts.
THEOREM CountsAreExact == Spec => []CountIsExact
<1>1. CurationIsSound => CountIsExact
  BY HeadsAreActive DEF CurationIsSound, Sound, Counted, CountIsExact
<1> QED BY <1>1, SoundCuration, PTL

\* No applied plan rests on work that was undone.
THEOREM NoWorkRestsOnUndoneWork == Spec => []NothingRestsOnUndoneWork
<1>1. CurationIsSound => NothingRestsOnUndoneWork
  BY DEF CurationIsSound, Sound, Rests, UsedBy, Consumed, NothingRestsOnUndoneWork
<1> QED BY <1>1, SoundCuration, PTL

==============================================================================
