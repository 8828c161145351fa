------------------------- MODULE MessageRequestProofs -------------------------
(***************************************************************************)
(* Theorems about the open message request, for every set of agents, every *)
(* assignee limit, selection history, window, lifetime and lease, and      *)
(* however far the clock advances between the statements of a call.        *)
(***************************************************************************)
EXTENDS MessageRequest, FiniteSetTheorems, WellFoundedInduction, TLAPS

RequestStates == {"absent", "open", "completed", "cancelled", "expired"}
Responses     == {"none", "pending", "offered", "declined"}
ClaimStates   == {"none", "reserved", "claimed", "released", "completed", "cancelled"}

Claim   == [state : ClaimStates, lease : Nat]
Request == [state : RequestStates, limit : Nat, generation : 0 .. MaxSelections,
            offerDeadline : Nat, expiresAt : Nat, response : [Agents -> Responses],
            claim : [ClaimIds -> Claim]]

-----------------------------------------------------------------------------
(* The inductive invariant, of a request r at time t.                      *)

CapacityKept(r, t) == Cardinality(InUse(r, t)) <= r.limit

\* No agent has two claims in use.
OneClaimPerAgent(r, t) == \A i, j \in InUse(r, t) : i[2] = j[2] => i = j

ClaimsWereOffered(r) ==
    \A i \in ClaimIds : r.claim[i].state # "none" => r.response[i[2]] = "offered"

\* Every selection so far chose somebody, within the limit, and nobody was chosen later.
HistoryIsWhole(r) == \A g \in 1 .. MaxSelections :
    Cardinality(Selection(r, g)) \in (IF g <= r.generation THEN 1 .. r.limit ELSE {0})

CompletionHasResult(r) == r.state = "completed" => ClaimsIn(r, {"completed"}) # {}

LeasesEndWithRequest(r) == \A i \in Active(r) : r.claim[i].lease <= r.expiresAt

\* A closed request may hold lapsed work, but none that is live.
ClosedIsIdle(r, t) == r.state # "open" => LiveAt(r, t) = {}

\* Once a selection is made, nobody can offer any more.
OffersAreOver(r, t) ==
    r.generation > 0 => r.offerDeadline <= t \/ \A a \in Agents : r.response[a] # "pending"

AbsentIsBlank(r) ==
    r.state = "absent" => \A i \in ClaimIds : r.claim[i].state = "none"

Sound(r, t) ==
    /\ CapacityKept(r, t) /\ OneClaimPerAgent(r, t) /\ ClaimsWereOffered(r) /\ HistoryIsWhole(r)
    /\ CompletionHasResult(r) /\ LeasesEndWithRequest(r) /\ ClosedIsIdle(r, t)
    /\ OffersAreOver(r, t) /\ AbsentIsBlank(r)

\* An open request waits for nobody who is gone.
WaitsForTheLiving(r, agents) ==
    r.state = "open" => /\ Coordinator \in agents
                        /\ {a \in Agents : r.response[a] = "pending"} \subseteq agents

RequestTypeOK == request \in Request /\ live \subseteq Agents /\ now \in Nat

RequestIsSound ==
    /\ RequestTypeOK
    /\ Sound(request, now)
    /\ WaitsForTheLiving(request, live)

-----------------------------------------------------------------------------
(* Finite sets of claims, and readings of the clock *)

LEMMA ClaimSets ==
    \A S \in SUBSET ClaimIds :
        /\ IsFiniteSet(S) /\ Cardinality(S) \in Nat
        /\ \A T \in SUBSET S : Cardinality(T) <= Cardinality(S)
<1>1. IsFiniteSet(ClaimIds)
  <2>1. MaxSelections \in Int
    BY RequestAssumption
  <2>2. IsFiniteSet(1 .. MaxSelections)
    BY <2>1, FS_Interval
  <2> QED BY <2>2, RequestAssumption, FS_Product DEF ClaimIds
<1>2. ASSUME NEW S \in SUBSET ClaimIds PROVE IsFiniteSet(S)
  BY <1>1, FS_Subset
<1> QED BY <1>2, FS_Subset, FS_CardinalityType

LEMMA ReadingsAdvance ==
    ASSUME NEW c \in Readings, now \in Nat
    PROVE  /\ \A k \in 1 .. 7 : c[k] \in Nat
           /\ now <= c[1] /\ c[1] <= c[2] /\ c[2] <= c[3] /\ c[3] <= c[4] /\ c[4] <= c[5]
           /\ c[5] <= c[6] /\ c[6] <= c[7]
<1>1. \A k \in 1 .. 7 : c[k] \in now .. EarlierOf(now + Slip, MaxTime)
  BY DEF Readings
<1>2. \A k \in 1 .. 7 : c[k] \in Nat /\ now <= c[k]
  BY <1>1, RequestAssumption DEF EarlierOf
<1>3. \A k \in 1 .. 6 : c[k] <= c[k + 1]
  BY DEF Readings
<1>4. /\ c[1] <= c[1 + 1] /\ c[2] <= c[2 + 1] /\ c[3] <= c[3 + 1]
      /\ c[4] <= c[4 + 1] /\ c[5] <= c[5 + 1] /\ c[6] <= c[6 + 1]
  BY <1>3
<1> QED BY <1>2, <1>4

LEMMA EarlierIsBoth ==
    \A a, b \in Nat : EarlierOf(a, b) \in Nat /\ EarlierOf(a, b) <= a /\ EarlierOf(a, b) <= b
BY DEF EarlierOf

\* A bounded set of numbers has a greatest one.
LEMMA GreatestOf ==
    ASSUME NEW S, S \subseteq Nat, S # {}, NEW n \in Nat, \A x \in S : x <= n
    PROVE  \E x \in S : \A y \in S : y <= x
<1> DEFINE T == {n - x : x \in S}
           R == OpToRel(<, Nat)
<1>1. T \subseteq Nat /\ T # {}
  <2>1. \A x \in S : n - x \in Nat
    OBVIOUS
  <2>2. PICK x \in S : TRUE
    OBVIOUS
  <2>3. n - x \in T
    BY <2>2
  <2> QED BY <2>1, <2>3
<1>2. IsWellFoundedOn(R, Nat)
  BY NatLessThanWellFounded
<1>3. \A x, y \in Nat : x < y => <<x, y>> \in R
  BY DEF OpToRel
<1> HIDE DEF R, T
<1>4. PICK z \in T : \A y \in T : ~ (<<y, z>> \in R)
  BY <1>1, <1>2, WFMin
<1>5. \A y \in T : ~ (y < z)
  BY <1>1, <1>3, <1>4
<1>6. PICK x \in S : z = n - x
  BY DEF T
<1>7. \A y \in S : n - y \in T
  BY DEF T
<1>8. \A y \in S : y <= x
  BY <1>5, <1>6, <1>7
<1> QED BY <1>8

-----------------------------------------------------------------------------
(* A request that lapses: work ends, nothing is handed out *)

Lapses(r, s) ==
    /\ s \in Request
    /\ s.limit = r.limit /\ s.generation = r.generation
    /\ s.offerDeadline = r.offerDeadline /\ s.expiresAt = r.expiresAt
    /\ \A a \in Agents : \/ s.response[a] = r.response[a]
                         \/ r.response[a] = "pending" /\ s.response[a] = "declined"
    /\ \A i \in ClaimIds : \/ s.claim[i] = r.claim[i]
                           \/ i \in Active(r) /\ s.claim[i].state \in {"released", "cancelled"}
    /\ \/ s.state = r.state
       \/ r.state = "open" /\ s.state \in {"expired", "cancelled", "completed"} /\ Active(s) = {}
    /\ s.state = "completed" /\ r.state = "open" => ClaimsIn(s, {"completed"}) # {}

LEMMA LapsesTwice ==
    ASSUME NEW r \in Request, NEW s, NEW u, Lapses(r, s), Lapses(s, u)
    PROVE  Lapses(r, u)
<1>1. Active(s) \subseteq Active(r) /\ Active(u) \subseteq Active(s)
  BY DEF Lapses, Active, ClaimsIn, ActiveStates
<1>2. ClaimsIn(u, {"completed"}) = ClaimsIn(s, {"completed"})
  BY DEF Lapses, Active, ClaimsIn, ActiveStates
<1>3. /\ u \in Request
      /\ u.limit = r.limit /\ u.generation = r.generation
      /\ u.offerDeadline = r.offerDeadline /\ u.expiresAt = r.expiresAt
  BY DEF Lapses
<1>4. \A a \in Agents : \/ u.response[a] = r.response[a]
                        \/ r.response[a] = "pending" /\ u.response[a] = "declined"
  BY DEF Lapses
<1>5. \A i \in ClaimIds : \/ u.claim[i] = r.claim[i]
                          \/ i \in Active(r) /\ u.claim[i].state \in {"released", "cancelled"}
  BY <1>1 DEF Lapses
<1>6. \/ u.state = r.state
      \/ r.state = "open" /\ u.state \in {"expired", "cancelled", "completed"} /\ Active(u) = {}
  BY <1>1 DEF Lapses
<1>7. u.state = "completed" /\ r.state = "open" => ClaimsIn(u, {"completed"}) # {}
  BY <1>2 DEF Lapses
<1> QED BY <1>3, <1>4, <1>5, <1>6, <1>7 DEF Lapses

\* Work ends, so what was in use stays bounded as time goes on.
LEMMA LapsesInUse ==
    ASSUME NEW r \in Request, NEW s, Lapses(r, s), NEW t \in Nat, NEW u \in Nat, t <= u
    PROVE  /\ Active(s) \subseteq Active(r) /\ \A i \in Active(s) : s.claim[i] = r.claim[i]
           /\ LiveAt(s, u) \subseteq LiveAt(r, t)
           /\ ClaimsIn(s, {"completed"}) = ClaimsIn(r, {"completed"})
           /\ InUse(s, u) \subseteq InUse(r, t)
           /\ \A i \in ClaimIds : s.claim[i].state # "none" <=> r.claim[i].state # "none"
           /\ \A g : Selection(s, g) = Selection(r, g)
<1>1. \A i \in ClaimIds : r.claim[i].lease \in Nat
  BY DEF Request, Claim
<1>2. Active(s) \subseteq Active(r) /\ \A i \in Active(s) : s.claim[i] = r.claim[i]
  BY DEF Lapses, Active, ClaimsIn, ActiveStates
<1>3. LiveAt(s, u) \subseteq LiveAt(r, t)
  BY <1>1, <1>2 DEF LiveAt, Active, ClaimsIn
<1>4. ClaimsIn(s, {"completed"}) = ClaimsIn(r, {"completed"})
  BY DEF Lapses, Active, ClaimsIn, ActiveStates
<1>5. \A i \in ClaimIds : s.claim[i].state # "none" <=> r.claim[i].state # "none"
  BY DEF Lapses, Active, ClaimsIn, ActiveStates
<1> QED BY <1>2, <1>3, <1>4, <1>5 DEF InUse, Selection

LEMMA LapsesSound ==
    ASSUME NEW r \in Request, NEW s, Lapses(r, s), NEW t \in Nat, NEW u \in Nat, t <= u,
           Sound(r, t)
    PROVE  Sound(s, u)
<1>1. /\ s \in Request /\ s.limit = r.limit /\ s.generation = r.generation
      /\ s.offerDeadline = r.offerDeadline /\ s.expiresAt = r.expiresAt
  BY DEF Lapses
<1>2. /\ InUse(s, u) \subseteq InUse(r, t) /\ InUse(r, t) \subseteq ClaimIds
      /\ InUse(s, u) \subseteq ClaimIds
      /\ r.limit \in Nat /\ r.offerDeadline \in Nat /\ r.expiresAt \in Nat
  BY LapsesInUse DEF InUse, LiveAt, Active, ClaimsIn, Request
<1>3. CapacityKept(s, u)
  <2>1. /\ Cardinality(InUse(s, u)) \in Nat /\ Cardinality(InUse(r, t)) \in Nat
        /\ Cardinality(InUse(s, u)) <= Cardinality(InUse(r, t))
    BY <1>2, ClaimSets
  <2> QED BY <1>1, <1>2, <2>1 DEF Sound, CapacityKept
<1>4. OneClaimPerAgent(s, u)
  BY <1>2 DEF Sound, OneClaimPerAgent
<1>5. ClaimsWereOffered(s)
  <2>1. \A i \in ClaimIds : i[2] \in Agents
    BY DEF ClaimIds
  <2>2. \A i \in ClaimIds : s.claim[i].state # "none" => r.claim[i].state # "none"
    BY LapsesInUse
  <2> QED BY <2>1, <2>2 DEF Sound, ClaimsWereOffered, Lapses
<1>6. HistoryIsWhole(s)
  <2>1. \A g : Selection(s, g) = Selection(r, g)
    BY LapsesInUse
  <2> QED BY <1>1, <2>1 DEF Sound, HistoryIsWhole
<1>7. CompletionHasResult(s)
  BY LapsesInUse DEF Sound, CompletionHasResult, Lapses
<1>8. LeasesEndWithRequest(s)
  BY <1>1, LapsesInUse DEF Sound, LeasesEndWithRequest
<1>9. ClosedIsIdle(s, u)
  <2>1. LiveAt(s, u) \subseteq LiveAt(r, t) /\ LiveAt(s, u) \subseteq Active(s)
    BY LapsesInUse DEF LiveAt
  <2> QED BY <2>1 DEF Sound, ClosedIsIdle, Lapses
<1>10. OffersAreOver(s, u)
  <2>1. \A a \in Agents : s.response[a] = "pending" => r.response[a] = "pending"
    BY DEF Lapses
  <2> QED BY <1>1, <1>2, <2>1 DEF Sound, OffersAreOver
<1>11. AbsentIsBlank(s)
  BY LapsesInUse DEF Sound, AbsentIsBlank, Lapses
<1> QED BY <1>3, <1>4, <1>5, <1>6, <1>7, <1>8, <1>9, <1>10, <1>11 DEF Sound

LEMMA LapsesWaiting ==
    ASSUME NEW r, NEW s, Lapses(r, s), NEW agents, WaitsForTheLiving(r, agents)
    PROVE  WaitsForTheLiving(s, agents)
BY DEF WaitsForTheLiving, Lapses

-----------------------------------------------------------------------------
(* The operators of reconciliation *)

LEMMA LapsesNot ==
    ASSUME NEW r \in Request PROVE Lapses(r, r)
BY DEF Lapses

LEMMA ClaimsEnd ==
    ASSUME NEW r \in Request, NEW ids \in SUBSET ClaimIds, NEW state \in ClaimStates
    PROVE  LET s == WithClaims(r, ids, state) IN
           /\ s \in Request
           /\ s.limit = r.limit /\ s.generation = r.generation /\ s.state = r.state
           /\ s.offerDeadline = r.offerDeadline /\ s.expiresAt = r.expiresAt
           /\ s.response = r.response
           /\ \A i \in ClaimIds : s.claim[i] = IF i \in ids THEN [state |-> state, lease |-> 0]
                                               ELSE r.claim[i]
<1> DEFINE claims == [i \in ClaimIds |->
              IF i \in ids THEN [state |-> state, lease |-> 0] ELSE r.claim[i]]
<1>1. claims \in [ClaimIds -> Claim]
  BY DEF Request, Claim
<1>2. WithClaims(r, ids, state) = [r EXCEPT !.claim = claims]
  BY DEF WithClaims
<1> HIDE DEF claims
<1>3. /\ [r EXCEPT !.claim = claims] \in Request /\ [r EXCEPT !.claim = claims].claim = claims
      /\ [r EXCEPT !.claim = claims].limit = r.limit
      /\ [r EXCEPT !.claim = claims].generation = r.generation
      /\ [r EXCEPT !.claim = claims].state = r.state
      /\ [r EXCEPT !.claim = claims].offerDeadline = r.offerDeadline
      /\ [r EXCEPT !.claim = claims].expiresAt = r.expiresAt
      /\ [r EXCEPT !.claim = claims].response = r.response
  BY <1>1 DEF Request
<1>4. \A i \in ClaimIds : claims[i] = IF i \in ids THEN [state |-> state, lease |-> 0]
                                      ELSE r.claim[i]
  BY DEF claims
<1> QED BY <1>2, <1>3, <1>4

LEMMA WorkEnds ==
    ASSUME NEW r \in Request, NEW ids \in SUBSET Active(r), NEW state \in {"released", "cancelled"}
    PROVE  Lapses(r, WithClaims(r, ids, state))
<1>1. ids \in SUBSET ClaimIds /\ state \in ClaimStates
  BY DEF Active, ClaimsIn, ClaimStates
<1> DEFINE s == WithClaims(r, ids, state)
<1>2. /\ s \in Request
      /\ s.limit = r.limit /\ s.generation = r.generation /\ s.state = r.state
      /\ s.offerDeadline = r.offerDeadline /\ s.expiresAt = r.expiresAt
      /\ s.response = r.response
      /\ \A i \in ClaimIds : s.claim[i] = IF i \in ids THEN [state |-> state, lease |-> 0]
                                          ELSE r.claim[i]
  BY <1>1, ClaimsEnd
<1> HIDE DEF s
<1>3. \A i \in ClaimIds : \/ s.claim[i] = r.claim[i]
                          \/ i \in Active(r) /\ s.claim[i].state \in {"released", "cancelled"}
  BY <1>2
<1> QED BY <1>2, <1>3 DEF Lapses, s

\* A request closes and all its work is cancelled.
LEMMA Closes ==
    ASSUME NEW r \in Request, r.state = "open", NEW state \in {"expired", "cancelled"}
    PROVE  Lapses(r, WithClaims([r EXCEPT !.state = state], Active(r), "cancelled"))
<1> DEFINE q == [r EXCEPT !.state = state]
           s == WithClaims(q, Active(r), "cancelled")
<1>1. /\ q \in Request /\ q.limit = r.limit /\ q.generation = r.generation /\ q.state = state
      /\ q.offerDeadline = r.offerDeadline /\ q.expiresAt = r.expiresAt
      /\ q.response = r.response /\ q.claim = r.claim
  BY DEF Request, RequestStates
<1>2. Active(r) \in SUBSET ClaimIds /\ "cancelled" \in ClaimStates
  BY DEF Active, ClaimsIn, ClaimStates
<1> HIDE DEF q
<1>3. /\ s \in Request
      /\ s.limit = q.limit /\ s.generation = q.generation /\ s.state = q.state
      /\ s.offerDeadline = q.offerDeadline /\ s.expiresAt = q.expiresAt
      /\ s.response = q.response
      /\ \A i \in ClaimIds : s.claim[i] = IF i \in Active(r)
                                          THEN [state |-> "cancelled", lease |-> 0]
                                          ELSE q.claim[i]
  BY <1>1, <1>2, ClaimsEnd
<1> HIDE DEF s
<1>4. \A i \in ClaimIds : \/ s.claim[i] = r.claim[i]
                          \/ i \in Active(r) /\ s.claim[i].state \in {"released", "cancelled"}
  BY <1>1, <1>3
<1>5. Active(s) = {}
  BY <1>1, <1>3 DEF Active, ClaimsIn, ActiveStates
<1>6. Lapses(r, s)
  BY <1>1, <1>3, <1>4, <1>5 DEF Lapses
<1> QED BY <1>6 DEF s, q

LEMMA ExpireDueLapses ==
    ASSUME NEW r \in Request, NEW t PROVE Lapses(r, ExpireDue(r, t))
BY Closes, LapsesNot DEF ExpireDue

LEMMA SettleClaimsLapses ==
    ASSUME NEW r \in Request, NEW t, NEW u PROVE Lapses(r, SettleClaims(r, t, u))
<1> DEFINE s == WithClaims(r, Active(r) \ LiveAt(r, t), "cancelled")
<1>1. Lapses(r, s) /\ s \in Request
  <2>1. Active(r) \ LiveAt(r, t) \in SUBSET Active(r)
    OBVIOUS
  <2>2. Lapses(r, s)
    BY <2>1, WorkEnds
  <2> QED BY <2>2 DEF Lapses
<1> HIDE DEF s
<1>2. Lapses(s, CompleteIfSettled(s, u))
  <2>1. CASE OpenAt(s, u) /\ ClaimsIn(s, {"completed"}) # {} /\ Active(s) = {}
    <3> DEFINE d == [s EXCEPT !.state = "completed"]
    <3>1. /\ d \in Request /\ d.limit = s.limit /\ d.generation = s.generation
          /\ d.state = "completed" /\ d.offerDeadline = s.offerDeadline
          /\ d.expiresAt = s.expiresAt /\ d.response = s.response /\ d.claim = s.claim
      BY <1>1 DEF Request, RequestStates
    <3> HIDE DEF d
    <3>2. Active(d) = {} /\ ClaimsIn(d, {"completed"}) # {} /\ s.state = "open"
      BY <2>1, <3>1 DEF Active, ClaimsIn, OpenAt
    <3>3. Lapses(s, d)
      BY <3>1, <3>2 DEF Lapses
    <3> QED BY <2>1, <3>3 DEF CompleteIfSettled, d
  <2>2. CASE ~ (OpenAt(s, u) /\ ClaimsIn(s, {"completed"}) # {} /\ Active(s) = {})
    BY <1>1, <2>2, LapsesNot DEF CompleteIfSettled
  <2> QED BY <2>1, <2>2
<1>3. CASE r.state = "open"
  BY <1>1, <1>2, <1>3, LapsesTwice DEF SettleClaims, s
<1>4. CASE r.state # "open"
  BY <1>4, LapsesNot DEF SettleClaims
<1> QED BY <1>3, <1>4

LEMMA ReconciledLapses ==
    ASSUME NEW r \in Request, NEW c, NEW k PROVE Lapses(r, ReconciledFrom(r, c, k))
<1> DEFINE s == ExpireDue(r, c[k])
<1>1. Lapses(r, s) /\ s \in Request
  BY ExpireDueLapses DEF Lapses
<1> HIDE DEF s
<1>2. Lapses(s, SettleClaims(s, c[k + 1], c[k + 2]))
  BY <1>1, SettleClaimsLapses
<1> QED BY <1>1, <1>2, LapsesTwice DEF ReconciledFrom, s

-----------------------------------------------------------------------------
(* Work handed out, taken up and finished *)

\* A claim as a pair, and the claims of one selection of some agents.
LEMMA ClaimPairs ==
    /\ \A i \in ClaimIds : i[1] \in 1 .. MaxSelections /\ i[2] \in Agents
    /\ \A i, j \in ClaimIds : i[1] = j[1] /\ i[2] = j[2] => i = j
BY DEF ClaimIds

LEMMA NewClaims ==
    ASSUME NEW g \in 1 .. MaxSelections, NEW selected \in SUBSET Agents
    PROVE  LET new == {i \in ClaimIds : i[1] = g /\ i[2] \in selected} IN
           IsFiniteSet(new) /\ Cardinality(new) = Cardinality(selected)
<1>1. IsFiniteSet(selected) /\ Cardinality(selected) \in Nat
  BY RequestAssumption, FS_Subset, FS_CardinalityType
<1>2. IsFiniteSet({g}) /\ Cardinality({g}) = 1
  BY FS_Singleton
<1>3. {i \in ClaimIds : i[1] = g /\ i[2] \in selected} = {g} \X selected
  BY DEF ClaimIds
<1>4. /\ IsFiniteSet({g} \X selected)
      /\ Cardinality({g} \X selected) = Cardinality({g}) * Cardinality(selected)
  BY <1>1, <1>2, FS_Product
<1>5. 1 * Cardinality(selected) = Cardinality(selected)
  BY <1>1
<1> QED BY <1>2, <1>3, <1>4, <1>5

\* What a selection leaves as it was.
Reserved(r, s, u) ==
    /\ s \in Request /\ Sound(s, u)
    /\ s.limit = r.limit /\ s.response = r.response /\ s.expiresAt = r.expiresAt
    /\ s.state = r.state /\ ClaimsIn(s, {"completed"}) = ClaimsIn(r, {"completed"})

\* A selection within the capacity it counted, of agents without work in use.
LEMMA ReserveSound ==
    ASSUME NEW r \in Request, r.state = "open", NEW t \in Nat, Sound(r, t),
           NEW selected \in SUBSET Agents, selected # {}, NEW lease \in Nat,
           NEW v \in Nat, NEW u \in Nat, t <= u,
           HistoryOpen(r), CapacityFor(selected, r, t), NotAssigned(selected, r, t),
           SelectionDue(r, u)
    PROVE  Reserved(r, Reserve(selected, lease, r, v), u)
<1> SUFFICES ASSUME NEW s, s = Reserve(selected, lease, r, v), NEW g, g = r.generation + 1
             PROVE  Reserved(r, s, u)
  OBVIOUS
<1> DEFINE new == {i \in ClaimIds : i[1] = g /\ i[2] \in selected}
           until == EarlierOf(r.expiresAt, v + lease)
<1>1. /\ s \in Request /\ g \in 1 .. MaxSelections
      /\ s.limit = r.limit /\ s.generation = g /\ s.state = r.state
      /\ s.offerDeadline = r.offerDeadline /\ s.expiresAt = r.expiresAt
      /\ s.response = r.response
      /\ \A i \in ClaimIds : s.claim[i] =
            IF i[1] = g /\ i[2] \in selected THEN [state |-> "reserved", lease |-> until]
            ELSE r.claim[i]
  <2> DEFINE claims == [i \in ClaimIds |->
                IF i[1] = g /\ i[2] \in selected
                THEN [state |-> "reserved", lease |-> EarlierOf(r.expiresAt, v + lease)]
                ELSE r.claim[i]]
  <2>0. g \in 1 .. MaxSelections /\ g \in 0 .. MaxSelections
    BY RequestAssumption DEF HistoryOpen, Request
  <2>1. claims \in [ClaimIds -> Claim]
    <3>1. EarlierOf(r.expiresAt, v + lease) \in Nat
      <4>1. r.expiresAt \in Nat /\ v + lease \in Nat
        BY DEF Request
      <4> QED BY <4>1, EarlierIsBoth
    <3> QED BY <3>1 DEF Request, Claim, ClaimStates
  <2>2. s = [r EXCEPT !.generation = g, !.claim = claims]
    BY DEF Reserve
  <2>4. \A i \in ClaimIds : claims[i] =
            IF i[1] = g /\ i[2] \in selected
            THEN [state |-> "reserved", lease |-> EarlierOf(r.expiresAt, v + lease)]
            ELSE r.claim[i]
    OBVIOUS
  <2> HIDE DEF claims
  <2>3. /\ s \in Request /\ s.claim = claims
        /\ s.limit = r.limit /\ s.generation = g /\ s.state = r.state
        /\ s.offerDeadline = r.offerDeadline /\ s.expiresAt = r.expiresAt
        /\ s.response = r.response
    BY <2>0, <2>1, <2>2 DEF Request
  <2> QED BY <2>0, <2>3, <2>4
<1>2. \A i \in ClaimIds : IF i \in new THEN s.claim[i] = [state |-> "reserved", lease |-> until]
                          ELSE s.claim[i] = r.claim[i]
  BY <1>1
<1>3. /\ r.limit \in Nat /\ r.generation \in Nat /\ r.expiresAt \in Nat
      /\ \A i \in ClaimIds : r.claim[i].lease \in Nat
      /\ until \in Nat /\ until <= r.expiresAt
  <2>1. /\ r.limit \in Nat /\ r.generation \in Nat /\ r.expiresAt \in Nat
        /\ \A i \in ClaimIds : r.claim[i].lease \in Nat
    BY RequestAssumption DEF Request, Claim
  <2>2. v + lease \in Nat
    OBVIOUS
  <2> QED BY <2>1, <2>2, EarlierIsBoth
<1>4. IsFiniteSet(new) /\ Cardinality(new) = Cardinality(selected) /\ new \subseteq ClaimIds
  BY <1>1, NewClaims
<1>5. \A i \in ClaimIds : i[1] = g => r.claim[i].state = "none"
  <2>1. Cardinality(Selection(r, g)) = 0
    BY <1>1, <1>3 DEF Sound, HistoryIsWhole
  <2>2. Selection(r, g) = {}
    <3>1. Selection(r, g) \in SUBSET ClaimIds
      BY DEF Selection
    <3> QED BY <2>1, <3>1, ClaimSets, FS_EmptySet
  <2> QED BY <2>2 DEF Selection
<1> HIDE DEF new, until
<1>6. /\ InUse(r, t) \in SUBSET ClaimIds /\ InUse(s, u) \in SUBSET ClaimIds
      /\ InUse(s, u) \subseteq InUse(r, t) \cup new
  BY <1>2, <1>3 DEF InUse, LiveAt, Active, ClaimsIn
<1>7. CapacityKept(s, u)
  <2>1. Cardinality(InUse(r, t)) + Cardinality(new) <= r.limit
    BY <1>4 DEF CapacityFor
  <2>2. /\ IsFiniteSet(InUse(r, t)) /\ Cardinality(InUse(r, t)) \in Nat
        /\ Cardinality(new) \in Nat /\ Cardinality(InUse(s, u)) \in Nat
        /\ InUse(r, t) \cup new \in SUBSET ClaimIds
        /\ Cardinality(InUse(s, u)) <= Cardinality(InUse(r, t) \cup new)
        /\ Cardinality(InUse(r, t) \cap new) \in Nat
        /\ Cardinality(InUse(r, t) \cup new) \in Nat
    BY <1>4, <1>6, ClaimSets
  <2>3. Cardinality(InUse(r, t) \cup new)
          = Cardinality(InUse(r, t)) + Cardinality(new) - Cardinality(InUse(r, t) \cap new)
    BY <1>4, <2>2, FS_Union
  <2> QED BY <1>1, <1>3, <2>1, <2>2, <2>3 DEF CapacityKept
<1>8. OneClaimPerAgent(s, u)
  <2>1. \A i \in new : i \in ClaimIds /\ i[1] = g /\ i[2] \in selected
    BY DEF new
  <2>2. \A i \in InUse(r, t) : i[2] \notin selected
    BY DEF NotAssigned
  <2> QED BY <1>6, <2>1, <2>2, ClaimPairs DEF Sound, OneClaimPerAgent
<1>9. ClaimsWereOffered(s)
  <2>1. \A i \in new : r.response[i[2]] = "offered"
    BY DEF CapacityFor, new
  <2> QED BY <1>1, <1>2, <2>1 DEF Sound, ClaimsWereOffered
<1>10. HistoryIsWhole(s)
  <2>1. \A k \in 1 .. MaxSelections \ {g} : Selection(s, k) = Selection(r, k)
    BY <1>2 DEF Selection, new
  <2>2. Selection(s, g) = new
    <3>1. \A i \in ClaimIds : s.claim[i].state # "none" /\ i[1] = g <=> i \in new
      BY <1>2, <1>5 DEF new
    <3> QED BY <1>4, <3>1 DEF Selection
  <2>3. Cardinality(new) \in 1 .. r.limit
    <3>1. Cardinality(selected) # 0 /\ Cardinality(selected) \in Nat
      BY RequestAssumption, FS_Subset, FS_EmptySet, FS_CardinalityType
    <3>2. Cardinality(InUse(r, t)) \in Nat
      BY <1>6, ClaimSets
    <3> QED BY <1>3, <1>4, <3>1, <3>2 DEF CapacityFor
  <2>4. \A k \in 1 .. MaxSelections \ {g} : k <= s.generation <=> k <= r.generation
    BY <1>1, <1>3
  <2> QED BY <1>1, <1>3, <2>1, <2>2, <2>3, <2>4 DEF Sound, HistoryIsWhole
<1>11. CompletionHasResult(s) /\ ClosedIsIdle(s, u) /\ AbsentIsBlank(s)
  BY <1>1 DEF CompletionHasResult, ClosedIsIdle, AbsentIsBlank
<1>12. LeasesEndWithRequest(s)
  BY <1>1, <1>2, <1>3 DEF Sound, LeasesEndWithRequest, Active, ClaimsIn
<1>13. OffersAreOver(s, u)
  BY <1>1 DEF OffersAreOver, SelectionDue
<1>14. Sound(s, u)
  BY <1>7, <1>8, <1>9, <1>10, <1>11, <1>12, <1>13 DEF Sound
<1>15. ClaimsIn(s, {"completed"}) = ClaimsIn(r, {"completed"})
  <2>1. \A i \in ClaimIds : s.claim[i].state = "completed" <=> r.claim[i].state = "completed"
    BY <1>1, <1>5
  <2> QED BY <2>1 DEF ClaimsIn
<1> QED BY <1>1, <1>14, <1>15 DEF Reserved

\* The agent that holds a live claim takes it up or renews its lease.
LEMMA LeaseSound ==
    ASSUME NEW r \in Request, r.state = "open", NEW t \in Nat, NEW u \in Nat, t <= u, Sound(r, t),
           NEW i \in LiveAt(r, t), NEW lease \in Nat, lease <= r.expiresAt
    PROVE  /\ WithLease(r, i, "claimed", lease) \in Request
           /\ Sound(WithLease(r, i, "claimed", lease), u)
<1> DEFINE s == WithLease(r, i, "claimed", lease)
<1>1. /\ s \in Request
      /\ s.limit = r.limit /\ s.generation = r.generation /\ s.state = r.state
      /\ s.offerDeadline = r.offerDeadline /\ s.expiresAt = r.expiresAt
      /\ s.response = r.response
      /\ s.claim[i] = [state |-> "claimed", lease |-> lease]
      /\ \A j \in ClaimIds \ {i} : s.claim[j] = r.claim[j]
  <2>1. [state |-> "claimed", lease |-> lease] \in Claim /\ i \in ClaimIds
    BY DEF Claim, ClaimStates, LiveAt, Active, ClaimsIn
  <2> QED BY <2>1 DEF WithLease, Request
<1>2. /\ i \in ClaimIds /\ i \in Active(r) /\ i \in InUse(r, t)
      /\ r.limit \in Nat /\ r.offerDeadline \in Nat
      /\ \A j \in ClaimIds : r.claim[j].lease \in Nat
  BY DEF Request, Claim, InUse, LiveAt, Active, ClaimsIn
<1> HIDE DEF s
<1>3. /\ InUse(s, u) \in SUBSET ClaimIds /\ InUse(r, t) \in SUBSET ClaimIds
      /\ InUse(s, u) \subseteq InUse(r, t)
  BY <1>1, <1>2 DEF InUse, LiveAt, Active, ClaimsIn, ActiveStates
<1>4. CapacityKept(s, u)
  <2>1. /\ Cardinality(InUse(s, u)) \in Nat /\ Cardinality(InUse(r, t)) \in Nat
        /\ Cardinality(InUse(s, u)) <= Cardinality(InUse(r, t))
    BY <1>3, ClaimSets
  <2> QED BY <1>1, <1>2, <2>1 DEF Sound, CapacityKept
<1>5. OneClaimPerAgent(s, u)
  BY <1>3 DEF Sound, OneClaimPerAgent
<1>6. /\ \A j \in ClaimIds : s.claim[j].state # "none" <=> r.claim[j].state # "none"
      /\ \A j \in ClaimIds : s.claim[j].state = "completed" <=> r.claim[j].state = "completed"
  BY <1>1, <1>2 DEF Active, ClaimsIn, ActiveStates
<1>7. ClaimsWereOffered(s) /\ HistoryIsWhole(s)
  <2>1. \A g : Selection(s, g) = Selection(r, g)
    BY <1>6 DEF Selection
  <2> QED BY <1>1, <1>6, <2>1 DEF Sound, ClaimsWereOffered, HistoryIsWhole
<1>8. CompletionHasResult(s) /\ ClosedIsIdle(s, u) /\ AbsentIsBlank(s)
  BY <1>1 DEF CompletionHasResult, ClosedIsIdle, AbsentIsBlank
<1>9. LeasesEndWithRequest(s)
  BY <1>1, <1>2 DEF Sound, LeasesEndWithRequest, Active, ClaimsIn
<1>10. OffersAreOver(s, u)
  BY <1>1, <1>2 DEF Sound, OffersAreOver
<1> QED BY <1>1, <1>4, <1>5, <1>7, <1>8, <1>9, <1>10 DEF Sound, s

\* A candidate that may still answer does, or answers in place of having declined.
LEMMA ResponseSound ==
    ASSUME NEW r \in Request, NEW t \in Nat, Sound(r, t), NEW a \in Agents,
           NEW response \in {"offered", "declined"}, r.response[a] \in {"pending", "declined"}
    PROVE  /\ [r EXCEPT !.response[a] = response] \in Request
           /\ Sound([r EXCEPT !.response[a] = response], t)
<1> DEFINE s == [r EXCEPT !.response[a] = response]
<1>1. /\ s \in Request
      /\ s.limit = r.limit /\ s.generation = r.generation /\ s.state = r.state
      /\ s.offerDeadline = r.offerDeadline /\ s.expiresAt = r.expiresAt
      /\ s.claim = r.claim /\ s.response[a] = response
      /\ \A b \in Agents \ {a} : s.response[b] = r.response[b]
  BY DEF Request, Responses
<1> HIDE DEF s
<1>2. /\ InUse(s, t) = InUse(r, t) /\ Active(s) = Active(r) /\ LiveAt(s, t) = LiveAt(r, t)
      /\ ClaimsIn(s, {"completed"}) = ClaimsIn(r, {"completed"})
      /\ \A g : Selection(s, g) = Selection(r, g)
  BY <1>1 DEF InUse, LiveAt, Active, ClaimsIn, Selection
<1>3. CapacityKept(s, t) /\ OneClaimPerAgent(s, t) /\ HistoryIsWhole(s)
  BY <1>1, <1>2 DEF Sound, CapacityKept, OneClaimPerAgent, HistoryIsWhole
<1>4. CompletionHasResult(s) /\ LeasesEndWithRequest(s) /\ ClosedIsIdle(s, t) /\ AbsentIsBlank(s)
  BY <1>1, <1>2 DEF Sound, CompletionHasResult, LeasesEndWithRequest, ClosedIsIdle, AbsentIsBlank
<1>5. ClaimsWereOffered(s)
  BY <1>1, ClaimPairs DEF Sound, ClaimsWereOffered
<1>6. OffersAreOver(s, t)
  BY <1>1 DEF Sound, OffersAreOver
<1> QED BY <1>1, <1>3, <1>4, <1>5, <1>6 DEF Sound, s

\* The holder of a live claim delivers: the claim is in use before and after.
LEMMA ResultSound ==
    ASSUME NEW r \in Request, r.state = "open", NEW t \in Nat, Sound(r, t), NEW i \in LiveAt(r, t)
    PROVE  /\ WithClaims(r, {i}, "completed") \in Request
           /\ Sound(WithClaims(r, {i}, "completed"), t)
<1> DEFINE s == WithClaims(r, {i}, "completed")
<1>1. i \in ClaimIds /\ i \in Active(r) /\ i \in InUse(r, t) /\ {i} \in SUBSET ClaimIds
      /\ "completed" \in ClaimStates
  BY DEF InUse, LiveAt, Active, ClaimsIn, ClaimStates
<1>2. /\ s \in Request
      /\ s.limit = r.limit /\ s.generation = r.generation /\ s.state = r.state
      /\ s.offerDeadline = r.offerDeadline /\ s.expiresAt = r.expiresAt
      /\ s.response = r.response
      /\ \A j \in ClaimIds : s.claim[j] = IF j \in {i} THEN [state |-> "completed", lease |-> 0]
                                          ELSE r.claim[j]
  BY <1>1, ClaimsEnd
<1> HIDE DEF s
<1>3. /\ InUse(s, t) \in SUBSET ClaimIds /\ InUse(r, t) \in SUBSET ClaimIds
      /\ InUse(s, t) \subseteq InUse(r, t)
  BY <1>1, <1>2 DEF InUse, LiveAt, Active, ClaimsIn, ActiveStates
<1>4. CapacityKept(s, t)
  <2>1. /\ Cardinality(InUse(s, t)) \in Nat /\ Cardinality(InUse(r, t)) \in Nat
        /\ Cardinality(InUse(s, t)) <= Cardinality(InUse(r, t)) /\ r.limit \in Nat
    BY <1>3, ClaimSets DEF Request
  <2> QED BY <1>2, <2>1 DEF Sound, CapacityKept
<1>5. OneClaimPerAgent(s, t)
  BY <1>3 DEF Sound, OneClaimPerAgent
<1>6. \A j \in ClaimIds : s.claim[j].state # "none" <=> r.claim[j].state # "none"
  BY <1>1, <1>2 DEF Active, ClaimsIn, ActiveStates
<1>7. ClaimsWereOffered(s) /\ HistoryIsWhole(s)
  <2>1. \A g : Selection(s, g) = Selection(r, g)
    BY <1>6 DEF Selection
  <2> QED BY <1>2, <1>6, <2>1 DEF Sound, ClaimsWereOffered, HistoryIsWhole
<1>8. CompletionHasResult(s) /\ ClosedIsIdle(s, t) /\ AbsentIsBlank(s)
  BY <1>2 DEF CompletionHasResult, ClosedIsIdle, AbsentIsBlank
<1>9. LeasesEndWithRequest(s)
  BY <1>2 DEF Sound, LeasesEndWithRequest, Active, ClaimsIn, ActiveStates
<1>10. OffersAreOver(s, t)
  BY <1>2 DEF Sound, OffersAreOver
<1> QED BY <1>2, <1>4, <1>5, <1>7, <1>8, <1>9, <1>10 DEF Sound, s

\* What CompleteMessageRequest makes of a request.
FinishedAt(r, s, i, u) ==
    /\ s \in Request /\ Sound(s, u)
    /\ s.limit = r.limit /\ s.response = r.response /\ s.expiresAt = r.expiresAt
    /\ s.generation = r.generation
    /\ LiveAt(s, u) \subseteq LiveAt(r, u) \ {i}
    /\ ClaimsIn(s, {"completed"}) = ClaimsIn(r, {"completed"}) \cup {i}
    /\ s.state \in {"open", "completed"}

LEMMA FinishWorkSound ==
    ASSUME NEW r \in Request, r.state = "open", NEW t \in Nat, Sound(r, t), NEW i \in LiveAt(r, t),
           NEW tt, NEW u \in Nat, NEW v \in Nat, t <= u, u <= v
    PROVE  FinishedAt(r, FinishWork(r, i, tt, u, v), i, v)
<1> DEFINE done == WithClaims(r, {i}, "completed")
           rest == WithClaims(done, Active(done) \ LiveAt(done, u), "cancelled")
           end  == [rest EXCEPT !.state = "completed"]
<1>1. done \in Request /\ Sound(done, t) /\ done.state = "open"
  BY ResultSound DEF WithClaims, Request
<1>2. /\ i \in ClaimIds /\ {i} \in SUBSET ClaimIds /\ "completed" \in ClaimStates
  BY DEF LiveAt, Active, ClaimsIn, ClaimStates
<1>3. /\ done.limit = r.limit /\ done.response = r.response /\ done.expiresAt = r.expiresAt
      /\ done.generation = r.generation
      /\ \A j \in ClaimIds : done.claim[j] = IF j \in {i} THEN [state |-> "completed", lease |-> 0]
                                             ELSE r.claim[j]
  BY <1>2, ClaimsEnd
<1> HIDE DEF done
<1>4. Lapses(done, rest) /\ rest.response = done.response /\ rest.state = "open"
  <2>1. Active(done) \ LiveAt(done, u) \in SUBSET Active(done)
    OBVIOUS
  <2>2. rest.response = done.response /\ rest.state = "open"
    BY <1>1 DEF WithClaims, Request
  <2> QED BY <1>1, <2>1, <2>2, WorkEnds
<1> HIDE DEF rest
<1>5. /\ rest \in Request /\ rest.limit = done.limit /\ rest.expiresAt = done.expiresAt
      /\ rest.generation = done.generation
  BY <1>4 DEF Lapses
<1>6. Sound(rest, v)
  BY <1>1, <1>4, LapsesSound
<1>7. /\ LiveAt(rest, v) \subseteq LiveAt(r, v) \ {i}
      /\ ClaimsIn(rest, {"completed"}) = ClaimsIn(r, {"completed"}) \cup {i}
  <2>1. /\ LiveAt(rest, v) \subseteq LiveAt(done, v)
        /\ ClaimsIn(rest, {"completed"}) = ClaimsIn(done, {"completed"})
    BY <1>1, <1>4, LapsesInUse
  <2>2. /\ LiveAt(done, v) \subseteq LiveAt(r, v) \ {i}
        /\ ClaimsIn(done, {"completed"}) = ClaimsIn(r, {"completed"}) \cup {i}
    BY <1>2, <1>3 DEF LiveAt, Active, ClaimsIn, ActiveStates
  <2> QED BY <2>1, <2>2
<1>8. FinishedAt(r, rest, i, v)
  BY <1>3, <1>4, <1>5, <1>6, <1>7 DEF FinishedAt
<1>9. CASE LiveAt(rest, v) = {}
  <2>1. /\ end \in Request /\ end.limit = rest.limit /\ end.generation = rest.generation
        /\ end.state = "completed" /\ end.offerDeadline = rest.offerDeadline
        /\ end.expiresAt = rest.expiresAt /\ end.response = rest.response
        /\ end.claim = rest.claim
    BY <1>5 DEF Request, RequestStates
  <2> HIDE DEF end
  <2>2. /\ InUse(end, v) = InUse(rest, v) /\ Active(end) = Active(rest)
        /\ LiveAt(end, v) = LiveAt(rest, v)
        /\ ClaimsIn(end, {"completed"}) = ClaimsIn(rest, {"completed"})
        /\ \A g : Selection(end, g) = Selection(rest, g)
    BY <2>1 DEF InUse, LiveAt, Active, ClaimsIn, Selection
  <2>3. CapacityKept(end, v) /\ OneClaimPerAgent(end, v) /\ HistoryIsWhole(end)
    BY <1>6, <2>1, <2>2 DEF Sound, CapacityKept, OneClaimPerAgent, HistoryIsWhole
  <2>4. CompletionHasResult(end) /\ ClosedIsIdle(end, v)
    BY <1>7, <1>9, <2>2 DEF CompletionHasResult, ClosedIsIdle
  <2>5. ClaimsWereOffered(end) /\ LeasesEndWithRequest(end) /\ OffersAreOver(end, v)
        /\ AbsentIsBlank(end)
    BY <1>6, <2>1, <2>2 DEF Sound, ClaimsWereOffered, LeasesEndWithRequest, OffersAreOver,
       AbsentIsBlank
  <2>6. Sound(end, v)
    BY <2>3, <2>4, <2>5 DEF Sound
  <2>7. FinishedAt(r, end, i, v)
    BY <1>8, <2>1, <2>2, <2>6 DEF FinishedAt
  <2> QED BY <1>8, <2>7 DEF FinishWork, done, rest, end
<1>10. CASE LiveAt(rest, v) # {}
  BY <1>8, <1>10 DEF FinishWork, done, rest
<1> QED BY <1>9, <1>10

-----------------------------------------------------------------------------
(* The calls *)

\* What a call may do to the work and the results of a request r at time t, which it
\* leaves as s at time u: let work end, deliver one result, select, or open.
Calm(r, t, s, u) ==
    /\ s.limit = r.limit /\ (OpenAt(s, u) => OpenAt(r, t))
    /\ s.state = "absent" <=> r.state = "absent"
    /\ LiveAt(s, u) \subseteq LiveAt(r, t)
    /\ ClaimsIn(s, {"completed"}) = ClaimsIn(r, {"completed"})

Delivers(r, t, s, u) ==
    /\ s.limit = r.limit /\ OpenAt(r, t) /\ s.state # "absent"
    /\ \E i \in LiveAt(r, t) :
          /\ LiveAt(s, u) \subseteq LiveAt(r, t) \ {i}
          /\ ClaimsIn(s, {"completed"}) = ClaimsIn(r, {"completed"}) \cup {i}

Selects(r, t, s, u) ==
    /\ s.limit = r.limit /\ OpenAt(r, t) /\ OpenAt(s, u)
    /\ ClaimsIn(s, {"completed"}) = ClaimsIn(r, {"completed"})

Opens(r, t, s, u) ==
    /\ r.state = "absent" /\ OpenAt(s, u)
    /\ LiveAt(s, u) = {} /\ ClaimsIn(s, {"completed"}) = {}

\* An offer is made by a candidate that was asked, before the offer deadline.
Answered(r, t, s) ==
    \A a \in Agents : s.response[a] = "offered" =>
        \/ r.response[a] = "offered"
        \/ r.response[a] = "pending" /\ t < r.offerDeadline

Goes ==
    /\ Answered(request, now, request')
    /\ \/ Calm(request, now, request', now') \/ Delivers(request, now, request', now')
       \/ Selects(request, now, request', now') \/ Opens(request, now, request', now')

LEMMA LapsesCalmly ==
    ASSUME NEW r \in Request, NEW s, Lapses(r, s), NEW t \in Nat, NEW u \in Nat, t <= u
    PROVE  Calm(r, t, s, u)
<1>1. r.expiresAt \in Nat
  BY DEF Request
<1>2. OpenAt(s, u) => OpenAt(r, t)
  BY <1>1 DEF Lapses, OpenAt
<1> QED BY <1>2, LapsesInUse DEF Lapses, Calm

LEMMA LapsesAnswered ==
    ASSUME NEW r, NEW s, Lapses(r, s), NEW t PROVE Answered(r, t, s)
BY DEF Lapses, Answered

\* Every call of a live agent works on what reconciliation leaves of the request.
LEMMA CallReconciles ==
    ASSUME RequestIsSound, NEW c \in Readings, NEW r, r = Reconciled(request, c)
    PROVE  /\ Lapses(request, r) /\ r \in Request /\ WaitsForTheLiving(r, live)
           /\ \A k \in 3 .. 7 : Sound(r, c[k]) /\ Calm(request, now, r, c[k])
           /\ \A k \in 1 .. 7 : c[k] \in Nat /\ now <= c[k]
<1>1. Lapses(request, r)
  BY ReconciledLapses DEF Reconciled, RequestIsSound, RequestTypeOK
<1>2. \A k \in 1 .. 7 : c[k] \in Nat /\ now <= c[k]
  BY ReadingsAdvance DEF RequestIsSound, RequestTypeOK, Readings
<1>3. \A k \in 3 .. 7 : Sound(r, c[k])
  BY <1>1, <1>2, LapsesSound DEF RequestIsSound, RequestTypeOK
<1>4. \A k \in 3 .. 7 : Calm(request, now, r, c[k])
  BY <1>1, <1>2, LapsesCalmly DEF RequestIsSound, RequestTypeOK
<1> QED BY <1>1, <1>2, <1>3, <1>4, LapsesWaiting DEF Lapses, RequestIsSound

LEMMA OpenSound == RequestIsSound /\ Open => RequestIsSound' /\ Goes
<1> SUFFICES ASSUME RequestIsSound, Open PROVE RequestIsSound' /\ Goes
  OBVIOUS
<1>1. PICK window \in OfferWindows, lifetime \in Lifetimes, limit \in AssigneeLimits :
          /\ window < lifetime
          /\ request' = [AbsentRequest EXCEPT
                !.state = "open", !.limit = limit, !.offerDeadline = now + window,
                !.expiresAt = now + lifetime,
                !.response = [a \in Agents |->
                    IF a \in live \ {Coordinator} THEN "pending" ELSE "none"]]
  BY DEF Open
<1>2. /\ limit \in Nat /\ window \in Nat \ {0} /\ lifetime \in Nat /\ now \in Nat
      /\ now + window \in Nat /\ now + lifetime \in Nat /\ now + lifetime > now
      /\ 0 \in 0 .. MaxSelections
  BY <1>1, RequestAssumption DEF RequestIsSound, RequestTypeOK
<1>3. /\ request'.state = "open" /\ request'.limit = limit /\ request'.generation = 0
      /\ request'.offerDeadline = now + window /\ request'.expiresAt = now + lifetime
      /\ request'.response = [a \in Agents |->
                    IF a \in live \ {Coordinator} THEN "pending" ELSE "none"]
      /\ request'.claim = [i \in ClaimIds |-> NoClaim]
      /\ request' = [state |-> "open", limit |-> limit, generation |-> 0,
                     offerDeadline |-> now + window, expiresAt |-> now + lifetime,
                     response |-> request'.response, claim |-> request'.claim]
  BY <1>1 DEF AbsentRequest
<1>4. request' \in Request
  BY <1>2, <1>3 DEF Request, RequestStates, Responses, Claim, ClaimStates, NoClaim
<1>5. /\ \A states \in SUBSET (ClaimStates \ {"none"}) : ClaimsIn(request', states) = {}
      /\ \A g : Selection(request', g) = {}
  BY <1>3 DEF ClaimsIn, Selection, NoClaim
<1>6. /\ Active(request') = {} /\ LiveAt(request', now) = {} /\ InUse(request', now) = {}
      /\ ClaimsIn(request', {"completed"}) = {}
  BY <1>5 DEF Active, LiveAt, InUse, ActiveStates, ClaimStates
<1>7. Sound(request', now)
  <2>1. CapacityKept(request', now) /\ HistoryIsWhole(request')
    BY <1>2, <1>3, <1>5, <1>6, FS_EmptySet DEF CapacityKept, HistoryIsWhole
  <2>2. ClaimsWereOffered(request')
    BY <1>3 DEF ClaimsWereOffered, NoClaim
  <2> QED BY <1>2, <1>3, <1>6, <2>1, <2>2 DEF Sound, OneClaimPerAgent, CompletionHasResult,
             LeasesEndWithRequest, ClosedIsIdle, OffersAreOver, AbsentIsBlank
<1>8. WaitsForTheLiving(request', live) /\ UNCHANGED <<live, now>>
  BY <1>3 DEF WaitsForTheLiving, Open
<1>9. Opens(request, now, request', now')
  BY <1>2, <1>3, <1>6, <1>8 DEF Opens, OpenAt, Open
<1>10. Answered(request, now, request')
  BY <1>3 DEF Answered
<1> QED BY <1>4, <1>7, <1>8, <1>9, <1>10 DEF RequestIsSound, RequestTypeOK, Goes

LEMMA SelectSound ==
    ASSUME RequestIsSound, NEW selected \in SUBSET Agents, selected # {}, NEW lease \in Leases,
           Select(selected, lease)
    PROVE  RequestIsSound' /\ Goes
<1>1. PICK c \in Readings : LET r == Reconciled(request, c) IN
         /\ r.state = "open"
         /\ HistoryOpen(r)
         /\ CapacityFor(selected, r, c[4])
         /\ NotAssigned(selected, r, c[5])
         /\ SelectionDue(r, c[7])
         /\ Commit(c, Reserve(selected, lease, r, c[6]))
  BY DEF Select
<1>2. PICK r : r = Reconciled(request, c)
  OBVIOUS
<1>3. /\ Lapses(request, r) /\ r \in Request /\ WaitsForTheLiving(r, live)
      /\ Sound(r, c[4]) /\ Sound(r, c[5])
  BY <1>2, CallReconciles
<1>4. /\ c[4] \in Nat /\ c[5] \in Nat /\ c[6] \in Nat /\ c[7] \in Nat
      /\ c[4] <= c[5] /\ c[5] <= c[7] /\ lease \in Nat /\ now \in Nat
  BY ReadingsAdvance, RequestAssumption DEF RequestIsSound, RequestTypeOK
<1>5. CapacityFor(selected, r, c[5])
  <2>1. InUse(r, c[5]) \subseteq InUse(r, c[4])
    BY <1>3, <1>4, LapsesNot, LapsesInUse
  <2>2. InUse(r, c[4]) \in SUBSET ClaimIds /\ InUse(r, c[5]) \in SUBSET ClaimIds
    BY DEF InUse, LiveAt, Active, ClaimsIn
  <2>3. /\ Cardinality(InUse(r, c[4])) \in Nat /\ Cardinality(InUse(r, c[5])) \in Nat
        /\ Cardinality(InUse(r, c[5])) <= Cardinality(InUse(r, c[4]))
    BY <2>1, <2>2, ClaimSets
  <2>4. Cardinality(selected) \in Nat /\ r.limit \in Nat
    BY <1>3, RequestAssumption, FS_Subset, FS_CardinalityType DEF Request
  <2> QED BY <1>1, <1>2, <2>3, <2>4 DEF CapacityFor
<1>6. PICK s : s = Reserve(selected, lease, r, c[6])
  OBVIOUS
<1>7. Reserved(r, s, c[7])
  <2>1. r.state = "open" /\ HistoryOpen(r) /\ NotAssigned(selected, r, c[5]) /\ SelectionDue(r, c[7])
    BY <1>1, <1>2
  <2> QED BY <1>3, <1>4, <1>5, <1>6, <2>1, ReserveSound
<1>8. /\ request' = s /\ now' = c[7] /\ live' = live /\ OpenAt(request, now)
      /\ r.state = "open" /\ SelectionDue(r, c[7])
  BY <1>1, <1>2, <1>6 DEF Commit, Select, Calling
<1>9. WaitsForTheLiving(s, live)
  BY <1>3, <1>7 DEF Reserved, WaitsForTheLiving
<1>10. OpenAt(s, c[7])
  BY <1>7, <1>8 DEF OpenAt, Reserved, SelectionDue
<1>11. Selects(request, now, s, c[7])
  <2>1. ClaimsIn(r, {"completed"}) = ClaimsIn(request, {"completed"}) /\ r.limit = request.limit
    BY <1>2, CallReconciles DEF Calm
  <2> QED BY <1>7, <1>8, <1>10, <2>1 DEF Selects, Reserved
<1>12. Answered(request, now, s)
  BY <1>3, <1>7, LapsesAnswered DEF Answered, Reserved
<1> QED BY <1>4, <1>7, <1>8, <1>9, <1>11, <1>12 DEF RequestIsSound, RequestTypeOK, Goes, Reserved

\* The calls that only let work end.
LEMMA CalmSound ==
    ASSUME RequestIsSound, NEW s, Lapses(request, s), request' = s, now' \in Nat, now <= now',
           live' \subseteq Agents, WaitsForTheLiving(s, live')
    PROVE  RequestIsSound' /\ Goes
<1>1. request \in Request /\ now \in Nat /\ Sound(request, now)
  BY DEF RequestIsSound, RequestTypeOK
<1>2. Sound(s, now') /\ Calm(request, now, s, now')
  BY <1>1, LapsesSound, LapsesCalmly
<1>3. Answered(request, now, s)
  BY LapsesAnswered
<1> QED BY <1>2, <1>3 DEF RequestIsSound, RequestTypeOK, Goes, Lapses

LEMMA CancelSound == RequestIsSound /\ Cancel => RequestIsSound' /\ Goes
<1> SUFFICES ASSUME RequestIsSound, Cancel PROVE RequestIsSound' /\ Goes
  OBVIOUS
<1>0. PICK c \in Readings : LET r == Reconciled(request, c) IN
        /\ r.state = "open"
        /\ Commit(c, WithClaims([r EXCEPT !.state = "cancelled"], Active(r), "cancelled"))
  BY DEF Cancel
<1>1. PICK r : /\ r = Reconciled(request, c) /\ r.state = "open"
               /\ Commit(c, WithClaims([r EXCEPT !.state = "cancelled"], Active(r), "cancelled"))
  BY <1>0
<1>2. /\ Lapses(request, r) /\ r \in Request /\ c[7] \in Nat /\ now <= c[7]
      /\ WaitsForTheLiving(r, live) /\ request \in Request
  BY <1>1, CallReconciles DEF RequestIsSound, RequestTypeOK
<1>3. Lapses(r, request') /\ now' = c[7] /\ live' = live
  BY <1>1, <1>2, Closes DEF Commit, Cancel, Calling
<1>4. Lapses(request, request') /\ WaitsForTheLiving(request', live')
  BY <1>2, <1>3, LapsesTwice, LapsesWaiting
<1> QED BY <1>2, <1>3, <1>4, CalmSound DEF RequestIsSound, RequestTypeOK

LEMMA ReconcileSound == RequestIsSound /\ Reconcile => RequestIsSound' /\ Goes
<1> SUFFICES ASSUME RequestIsSound, Reconcile PROVE RequestIsSound' /\ Goes
  OBVIOUS
<1>1. PICK c \in Readings : Commit(c, Reconciled(request, c))
  BY DEF Reconcile
<1>2. /\ Lapses(request, request') /\ c[7] \in Nat /\ now <= c[7] /\ now' = c[7]
      /\ live' = live /\ WaitsForTheLiving(request', live)
  BY <1>1, CallReconciles DEF Commit, Reconcile
<1> QED BY <1>2, CalmSound DEF RequestIsSound, RequestTypeOK

LEMMA MoveAccountSound == RequestIsSound /\ MoveAccount => RequestIsSound' /\ Goes
<1> SUFFICES ASSUME RequestIsSound, MoveAccount PROVE RequestIsSound' /\ Goes
  OBVIOUS
<1>0. PICK c \in Readings : \E exported \in {request, Reconciled(request, c)} :
        Commit(c, ReconciledFrom(WithClaims(exported, Active(exported), "cancelled"), c, 4))
  BY DEF MoveAccount
<1>1. PICK exported \in {request, Reconciled(request, c)} :
        Commit(c, ReconciledFrom(WithClaims(exported, Active(exported), "cancelled"), c, 4))
  BY <1>0
<1>2. Lapses(request, exported) /\ exported \in Request /\ request \in Request
  BY <1>1, CallReconciles, LapsesNot DEF RequestIsSound, RequestTypeOK
<1>3. PICK idle : idle = WithClaims(exported, Active(exported), "cancelled")
  OBVIOUS
<1>4. Lapses(exported, idle)
  BY <1>2, <1>3, WorkEnds
<1>5. Lapses(idle, request') /\ now' = c[7] /\ live' = live
  BY <1>1, <1>3, <1>4, ReconciledLapses DEF Commit, MoveAccount, Lapses
<1>6. Lapses(request, request')
  BY <1>2, <1>4, <1>5, LapsesTwice
<1>7. WaitsForTheLiving(request', live) /\ c[7] \in Nat /\ now <= c[7]
  BY <1>6, LapsesWaiting, ReadingsAdvance DEF RequestIsSound, RequestTypeOK
<1> QED BY <1>5, <1>6, <1>7, CalmSound DEF RequestIsSound, RequestTypeOK

LEMMA TickSound == RequestIsSound /\ Tick => RequestIsSound' /\ Goes
BY LapsesNot, CalmSound DEF Tick, RequestIsSound, RequestTypeOK

\* A candidate answers.
LEMMA RespondSound ==
    ASSUME RequestIsSound, NEW a \in Agents, NEW response \in {"offered", "declined"},
           Respond(a, response)
    PROVE  RequestIsSound' /\ Goes
<1>0. PICK c \in Readings : LET r == Reconciled(request, c) IN
         /\ r.state = "open"
         /\ EarlierOf(r.offerDeadline, r.expiresAt) > c[7]
         /\ Commit(c, [r EXCEPT !.response[a] = response])
  BY DEF Respond
<1>1. PICK r : /\ r = Reconciled(request, c) /\ r.state = "open"
               /\ Commit(c, [r EXCEPT !.response[a] = response])
  BY <1>0
<1>2. /\ Lapses(request, r) /\ r \in Request /\ WaitsForTheLiving(r, live)
      /\ Sound(r, c[7]) /\ Calm(request, now, r, c[7]) /\ c[7] \in Nat
  BY <1>1, CallReconciles
<1>3. r.response[a] \in {"pending", "declined"}
  BY <1>2 DEF Lapses, Respond
<1>4. PICK s : s = [r EXCEPT !.response[a] = response]
  OBVIOUS
<1>5. s \in Request /\ Sound(s, c[7])
  BY <1>2, <1>3, <1>4, ResponseSound
<1>6. /\ s.limit = r.limit /\ s.state = r.state /\ s.expiresAt = r.expiresAt /\ s.claim = r.claim
      /\ \A b \in Agents : s.response[b] = "pending" => r.response[b] = "pending"
  BY <1>2, <1>4 DEF Request
<1>7. WaitsForTheLiving(s, live)
  BY <1>2, <1>6 DEF WaitsForTheLiving
<1>8. Calm(request, now, s, c[7])
  <2>1. /\ LiveAt(s, c[7]) = LiveAt(r, c[7])
        /\ ClaimsIn(s, {"completed"}) = ClaimsIn(r, {"completed"})
    BY <1>6 DEF LiveAt, Active, ClaimsIn
  <2> QED BY <1>2, <1>6, <2>1 DEF Calm, OpenAt
<1>9. request' = s /\ now' = c[7] /\ live' = live
  BY <1>1, <1>4 DEF Commit, Respond, Calling
<1>10. Answered(request, now, s)
  <2>1. /\ \A b \in Agents \ {a} : s.response[b] = r.response[b]
        /\ r.offerDeadline = request.offerDeadline /\ r.offerDeadline \in Nat /\ r.expiresAt \in Nat
    BY <1>2, <1>4 DEF Request, Lapses
  <2>2. EarlierOf(r.offerDeadline, r.expiresAt) > c[7] /\ now <= c[7] /\ now \in Nat
    BY <1>0, <1>1, CallReconciles DEF RequestIsSound, RequestTypeOK
  <2>3. now < request.offerDeadline
    <3>1. request.offerDeadline > c[7]
      BY <1>2, <2>1, <2>2 DEF EarlierOf
    <3> QED BY <1>2, <2>1, <2>2, <3>1
  <2>4. Answered(request, now, r) /\ request.response[a] = "pending"
    BY <1>2, LapsesAnswered DEF Respond
  <2> QED BY <2>1, <2>3, <2>4 DEF Answered
<1> QED BY <1>2, <1>5, <1>7, <1>8, <1>9, <1>10 DEF RequestIsSound, RequestTypeOK, Goes

\* Taking up a reservation and renewing a lease.
LEMMA LeaseTaken ==
    ASSUME RequestIsSound, NEW c \in Readings, NEW r, r = Reconciled(request, c), r.state = "open",
           NEW i \in ClaimIds, NEW state \in ActiveStates, HoldsAt(r, i, state, c[6]),
           NEW lease \in Leases, live' = live,
           Commit(c, WithLease(r, i, "claimed", EarlierOf(r.expiresAt, c[7] + lease)))
    PROVE  RequestIsSound' /\ Goes
<1>1. /\ Lapses(request, r) /\ r \in Request /\ WaitsForTheLiving(r, live)
      /\ Sound(r, c[6]) /\ Calm(request, now, r, c[6])
      /\ c[6] \in Nat /\ c[7] \in Nat /\ c[6] <= c[7]
  BY CallReconciles, ReadingsAdvance DEF RequestIsSound, RequestTypeOK
<1>2. i \in LiveAt(r, c[6]) /\ i \in ClaimIds
  BY DEF HoldsAt, LiveAt, Active, ClaimsIn, ActiveStates
<1>3. PICK until : until = EarlierOf(r.expiresAt, c[7] + lease)
  OBVIOUS
<1>4. until \in Nat /\ until <= r.expiresAt /\ r.expiresAt \in Nat
  <2>1. r.expiresAt \in Nat /\ c[7] + lease \in Nat
    BY <1>1, RequestAssumption DEF Request
  <2> QED BY <1>3, <2>1, EarlierIsBoth
<1>5. PICK s : s = WithLease(r, i, "claimed", until)
  OBVIOUS
<1>6. s \in Request /\ Sound(s, c[7])
  BY <1>1, <1>2, <1>4, <1>5, LeaseSound
<1>7. /\ s.limit = r.limit /\ s.state = r.state /\ s.expiresAt = r.expiresAt
      /\ s.response = r.response
      /\ s.claim[i] = [state |-> "claimed", lease |-> until]
      /\ \A j \in ClaimIds \ {i} : s.claim[j] = r.claim[j]
  BY <1>1, <1>2, <1>5 DEF WithLease, Request
<1>8. WaitsForTheLiving(s, live)
  BY <1>1, <1>7 DEF WaitsForTheLiving
<1>9. Calm(request, now, s, c[7])
  <2>1. \A j \in ClaimIds : r.claim[j].lease \in Nat
    BY <1>1 DEF Request, Claim
  <2>2. LiveAt(s, c[7]) \subseteq LiveAt(r, c[6])
    BY <1>1, <1>2, <1>7, <2>1 DEF LiveAt, Active, ClaimsIn
  <2>3. ClaimsIn(s, {"completed"}) = ClaimsIn(r, {"completed"})
    BY <1>2, <1>7 DEF LiveAt, Active, ClaimsIn, ActiveStates
  <2>4. OpenAt(s, c[7]) => OpenAt(r, c[6])
    BY <1>1, <1>4, <1>7 DEF OpenAt
  <2> QED BY <1>1, <1>7, <2>2, <2>3, <2>4 DEF Calm
<1>10. request' = s /\ now' = c[7]
  BY <1>3, <1>5 DEF Commit
<1>11. Answered(request, now, s)
  BY <1>1, <1>7, LapsesAnswered DEF Answered
<1> QED BY <1>1, <1>6, <1>8, <1>9, <1>10, <1>11 DEF RequestIsSound, RequestTypeOK, Goes

LEMMA ClaimingSound ==
    ASSUME RequestIsSound, NEW a \in Agents, NEW lease \in Leases, Claiming(a, lease)
    PROVE  RequestIsSound' /\ Goes
<1>1. PICK c \in Readings : LET r == Reconciled(request, c) IN
         /\ r.state = "open"
         /\ ClaimsOf(r, a) # {}
         /\ LET i == LatestClaim(r, a) IN
            /\ HoldsAt(r, i, "reserved", c[6])
            /\ Commit(c, WithLease(r, i, "claimed", EarlierOf(r.expiresAt, c[7] + lease)))
  BY DEF Claiming
<1>2. PICK r : r = Reconciled(request, c)
  OBVIOUS
<1>3. PICK i : i = LatestClaim(r, a)
  OBVIOUS
<1>4. /\ r.state = "open" /\ ClaimsOf(r, a) # {} /\ HoldsAt(r, i, "reserved", c[6])
      /\ Commit(c, WithLease(r, i, "claimed", EarlierOf(r.expiresAt, c[7] + lease)))
  BY <1>1, <1>2, <1>3
<1>5. i \in ClaimIds
  <2>1. \E m \in ClaimsOf(r, a) : \A j \in ClaimsOf(r, a) : j[1] <= m[1]
    <3>1. PICK k \in ClaimsOf(r, a) : TRUE
      BY <1>4
    <3> DEFINE G == {g \in 1 .. MaxSelections : \E j \in ClaimsOf(r, a) : j[1] = g}
    <3>2. G # {} /\ G \subseteq Nat /\ \A h \in G : h <= MaxSelections
      <4>1. k[1] \in G
        BY <3>1, ClaimPairs DEF ClaimsOf
      <4> QED BY <4>1
    <3>3. PICK g \in G : \A h \in G : h <= g
      <4>1. MaxSelections \in Nat
        BY RequestAssumption
      <4> HIDE DEF G
      <4> QED BY <3>2, <4>1, GreatestOf
    <3>4. PICK m \in ClaimsOf(r, a) : m[1] = g
      BY <3>3
    <3>5. \A j \in ClaimsOf(r, a) : j[1] \in G
      BY ClaimPairs DEF ClaimsOf
    <3> QED BY <3>3, <3>4, <3>5
  <2>2. i \in ClaimsOf(r, a)
    BY <1>3, <2>1 DEF LatestClaim
  <2> QED BY <2>2 DEF ClaimsOf
<1>6. live' = live /\ "reserved" \in ActiveStates
  BY DEF Claiming, Calling, ActiveStates
<1> QED BY <1>2, <1>4, <1>5, <1>6, LeaseTaken

LEMMA RenewSound ==
    ASSUME RequestIsSound, NEW i \in ClaimIds, NEW lease \in Leases, Renew(i, lease)
    PROVE  RequestIsSound' /\ Goes
<1>1. PICK c \in Readings : LET r == Reconciled(request, c) IN
         /\ r.state = "open"
         /\ HoldsAt(r, i, "claimed", c[6])
         /\ Commit(c, WithLease(r, i, "claimed", EarlierOf(r.expiresAt, c[7] + lease)))
  BY DEF Renew
<1>2. PICK r : /\ r = Reconciled(request, c) /\ r.state = "open" /\ HoldsAt(r, i, "claimed", c[6])
               /\ Commit(c, WithLease(r, i, "claimed", EarlierOf(r.expiresAt, c[7] + lease)))
  BY <1>1
<1>3. live' = live /\ "claimed" \in ActiveStates
  BY DEF Renew, Calling, ActiveStates
<1> QED BY <1>2, <1>3, LeaseTaken

LEMMA ReleaseSound ==
    ASSUME RequestIsSound, NEW i \in ClaimIds, Release(i)
    PROVE  RequestIsSound' /\ Goes
<1>1. PICK c \in Readings : LET r == Reconciled(request, c) IN
         /\ r.state = "open"
         /\ HoldsAt(r, i, "claimed", c[4])
         /\ Commit(c, SettleClaims(WithClaims(r, {i}, "released"), c[5], c[6]))
  BY DEF Release
<1>2. PICK r : /\ r = Reconciled(request, c) /\ HoldsAt(r, i, "claimed", c[4])
               /\ Commit(c, SettleClaims(WithClaims(r, {i}, "released"), c[5], c[6]))
  BY <1>1
<1>3. /\ Lapses(request, r) /\ r \in Request /\ request \in Request
      /\ c[7] \in Nat /\ now <= c[7]
  BY <1>2, CallReconciles DEF RequestIsSound, RequestTypeOK
<1>4. {i} \in SUBSET Active(r)
  BY <1>2 DEF HoldsAt, Active, ClaimsIn, ActiveStates
<1>5. PICK s : s = WithClaims(r, {i}, "released")
  OBVIOUS
<1>6. Lapses(r, s) /\ s \in Request
  <2>1. Lapses(r, s)
    BY <1>3, <1>4, <1>5, WorkEnds
  <2> QED BY <2>1 DEF Lapses
<1>7. Lapses(s, request') /\ now' = c[7] /\ live' = live
  BY <1>2, <1>5, <1>6, SettleClaimsLapses DEF Commit, Release, Calling
<1>8. Lapses(request, request')
  BY <1>3, <1>6, <1>7, LapsesTwice
<1>9. WaitsForTheLiving(request', live)
  BY <1>8, LapsesWaiting DEF RequestIsSound
<1> QED BY <1>3, <1>7, <1>8, <1>9, CalmSound DEF RequestIsSound, RequestTypeOK

LEMMA CompleteSound ==
    ASSUME RequestIsSound, NEW i \in ClaimIds, Complete(i)
    PROVE  RequestIsSound' /\ Goes
<1>1. PICK c \in Readings : LET r == Reconciled(request, c) IN
         /\ r.state = "open"
         /\ HoldsAt(r, i, "claimed", c[4])
         /\ Commit(c, FinishWork(r, i, c[5], c[6], c[7]))
  BY DEF Complete
<1>2. PICK r : /\ r = Reconciled(request, c) /\ r.state = "open" /\ HoldsAt(r, i, "claimed", c[4])
               /\ Commit(c, FinishWork(r, i, c[5], c[6], c[7]))
  BY <1>1
<1>3. /\ Lapses(request, r) /\ r \in Request /\ WaitsForTheLiving(r, live)
      /\ Sound(r, c[4]) /\ Calm(request, now, r, c[7])
      /\ c[4] \in Nat /\ c[6] \in Nat /\ c[7] \in Nat /\ c[4] <= c[6] /\ c[6] <= c[7]
  BY <1>2, CallReconciles, ReadingsAdvance DEF RequestIsSound, RequestTypeOK
<1>4. i \in LiveAt(r, c[4])
  BY <1>2 DEF HoldsAt, LiveAt, Active, ClaimsIn, ActiveStates
<1>5. PICK s : s = FinishWork(r, i, c[5], c[6], c[7])
  OBVIOUS
<1>6. FinishedAt(r, s, i, c[7])
  BY <1>2, <1>3, <1>4, <1>5, FinishWorkSound
<1>7. request' = s /\ now' = c[7] /\ live' = live
  BY <1>2, <1>5 DEF Commit, Complete, Calling
<1>8. WaitsForTheLiving(s, live)
  BY <1>2, <1>3, <1>6 DEF FinishedAt, WaitsForTheLiving
<1>9. Delivers(request, now, s, c[7])
  <2>1. OpenAt(request, now) /\ i \in LiveAt(request, now)
    BY DEF Complete, Calling, HoldsAt, LiveAt, Active, ClaimsIn, ActiveStates
  <2> QED BY <1>3, <1>6, <2>1 DEF Delivers, FinishedAt, Calm
<1>10. Answered(request, now, s)
  BY <1>3, <1>6, LapsesAnswered DEF Answered, FinishedAt
<1> QED BY <1>3, <1>6, <1>7, <1>8, <1>9, <1>10 DEF RequestIsSound, RequestTypeOK, Goes, FinishedAt

\* An agent is deleted: its answers and its work end, or its whole request does.
LEMMA WithoutAgentLapses ==
    ASSUME NEW r \in Request, NEW a \in Agents
    PROVE  /\ Lapses(r, WithoutAgent(r, a))
           /\ WithoutAgent(r, a).state = "open" =>
                 a # Coordinator /\ WithoutAgent(r, a).response[a] # "pending"
<1> DEFINE answer   == IF r.response[a] = "pending" THEN "declined" ELSE r.response[a]
           declined == [r EXCEPT !.response[a] = answer]
           ofAgent  == {i \in Active(r) : i[2] = a}
<1>1. CASE r.state # "open"
  BY <1>1, LapsesNot DEF WithoutAgent
<1>2. CASE r.state = "open" /\ a = Coordinator
  <2>1. WithoutAgent(r, a) = WithClaims([r EXCEPT !.state = "cancelled"], Active(r), "cancelled")
    BY <1>2 DEF WithoutAgent
  <2>2. Lapses(r, WithoutAgent(r, a))
    BY <1>2, <2>1, Closes
  <2>3. WithoutAgent(r, a).state = "cancelled"
    BY <2>1 DEF WithClaims, Request
  <2> QED BY <2>2, <2>3
<1>3. CASE r.state = "open" /\ a # Coordinator
  <2>1. answer \in Responses
    BY DEF Request, Responses
  <2>2. /\ declined \in Request /\ declined.limit = r.limit /\ declined.state = r.state
        /\ declined.generation = r.generation /\ declined.offerDeadline = r.offerDeadline
        /\ declined.expiresAt = r.expiresAt /\ declined.claim = r.claim
        /\ declined.response[a] = answer
        /\ \A b \in Agents \ {a} : declined.response[b] = r.response[b]
    BY <2>1 DEF Request
  <2>3. WithoutAgent(r, a) = WithClaims(declined, ofAgent, "cancelled")
    BY <1>3 DEF WithoutAgent
  <2> HIDE DEF declined
  <2>4. Lapses(r, declined) /\ ofAgent \in SUBSET Active(declined)
    BY <1>3, <2>2 DEF Lapses, Active, ClaimsIn
  <2>5. Lapses(declined, WithoutAgent(r, a))
    BY <2>2, <2>3, <2>4, WorkEnds
  <2>6. WithoutAgent(r, a).response = declined.response
    BY <2>2, <2>3 DEF WithClaims, Request
  <2> QED BY <1>3, <2>2, <2>4, <2>5, <2>6, LapsesTwice
<1> QED BY <1>1, <1>2, <1>3

LEMMA DeleteAgentSound ==
    ASSUME RequestIsSound, NEW a \in Agents, DeleteAgent(a)
    PROVE  RequestIsSound' /\ Goes
<1>1. PICK c \in Readings :
          Commit(c, SettleClaims(WithoutAgent(ExpireDue(request, c[1]), a), c[2], c[3]))
  BY DEF DeleteAgent
<1>2. PICK r : r = ExpireDue(request, c[1])
  OBVIOUS
<1>3. PICK s : s = WithoutAgent(r, a)
  OBVIOUS
<1>4. Lapses(request, r) /\ r \in Request /\ request \in Request
  BY <1>2, ExpireDueLapses DEF Lapses, RequestIsSound, RequestTypeOK
<1>5. Lapses(r, s) /\ s \in Request /\ (s.state = "open" => a # Coordinator /\ s.response[a] # "pending")
  BY <1>3, <1>4, WithoutAgentLapses DEF Lapses
<1>6. Lapses(s, request') /\ now' = c[7] /\ live' = live \ {a}
  BY <1>1, <1>2, <1>3, <1>5, SettleClaimsLapses DEF Commit, DeleteAgent
<1>7. Lapses(request, s) /\ Lapses(request, request')
  BY <1>4, <1>5, <1>6, LapsesTwice
<1>8. WaitsForTheLiving(s, live)
  BY <1>7, LapsesWaiting DEF RequestIsSound
<1>9. WaitsForTheLiving(s, live')
  BY <1>5, <1>6, <1>8 DEF WaitsForTheLiving
<1>10. WaitsForTheLiving(request', live') /\ now' \in Nat /\ now <= now'
  BY <1>6, <1>9, LapsesWaiting, ReadingsAdvance DEF RequestIsSound, RequestTypeOK
<1> QED BY <1>6, <1>7, <1>10, CalmSound DEF RequestIsSound, RequestTypeOK

-----------------------------------------------------------------------------
(* Every step *)

LEMMA RequestInit == Init => RequestIsSound
<1> SUFFICES ASSUME Init PROVE RequestIsSound
  OBVIOUS
<1>1. request = AbsentRequest /\ live = Agents /\ now = 0 /\ 0 \in 0 .. MaxSelections
  BY RequestAssumption DEF Init
<1>2. RequestTypeOK
  BY <1>1 DEF RequestTypeOK, Request, RequestStates, Responses, Claim, ClaimStates,
     AbsentRequest, NoClaim
<1>3. /\ \A states \in SUBSET (ClaimStates \ {"none"}) : ClaimsIn(request, states) = {}
      /\ \A g : Selection(request, g) = {}
  BY <1>1 DEF AbsentRequest, ClaimsIn, Selection, NoClaim
<1>4. /\ Active(request) = {} /\ LiveAt(request, now) = {} /\ InUse(request, now) = {}
  BY <1>3 DEF Active, LiveAt, InUse, ActiveStates, ClaimStates
<1>5. CapacityKept(request, now) /\ HistoryIsWhole(request)
  BY <1>1, <1>3, <1>4, FS_EmptySet DEF AbsentRequest, CapacityKept, HistoryIsWhole
<1>6. ClaimsWereOffered(request) /\ AbsentIsBlank(request)
  BY <1>1 DEF AbsentRequest, ClaimsWereOffered, AbsentIsBlank, NoClaim
<1>7. Sound(request, now)
  BY <1>1, <1>4, <1>5, <1>6 DEF Sound, AbsentRequest, OneClaimPerAgent, CompletionHasResult,
     LeasesEndWithRequest, ClosedIsIdle, OffersAreOver
<1>8. WaitsForTheLiving(request, live)
  BY <1>1 DEF AbsentRequest, WaitsForTheLiving
<1> QED BY <1>2, <1>7, <1>8 DEF RequestIsSound

LEMMA RequestNext == RequestIsSound /\ Next => RequestIsSound' /\ Goes
<1> SUFFICES ASSUME RequestIsSound, Next PROVE RequestIsSound' /\ Goes
  OBVIOUS
<1>1. CASE Open \/ Cancel \/ Reconcile \/ MoveAccount \/ Tick
  BY <1>1, OpenSound, CancelSound, ReconcileSound, MoveAccountSound, TickSound
<1>2. ASSUME NEW selected \in (SUBSET Agents) \ {{}}, NEW lease \in Leases, Select(selected, lease)
      PROVE  RequestIsSound' /\ Goes
  <2>1. selected \subseteq Agents /\ selected # {}
    BY <1>2
  <2> QED BY <1>2, <2>1, SelectSound
<1>3. ASSUME NEW a \in Agents, Offer(a) \/ Decline(a) \/ DeleteAgent(a)
      PROVE  RequestIsSound' /\ Goes
  BY <1>3, RespondSound, DeleteAgentSound DEF Offer, Decline
<1>4. ASSUME NEW a \in Agents, NEW lease \in Leases, Claiming(a, lease)
      PROVE  RequestIsSound' /\ Goes
  BY <1>4, ClaimingSound
<1>5. ASSUME NEW i \in ClaimIds, Release(i) \/ Complete(i) PROVE RequestIsSound' /\ Goes
  BY <1>5, ReleaseSound, CompleteSound
<1>6. ASSUME NEW i \in ClaimIds, NEW lease \in Leases, Renew(i, lease)
      PROVE  RequestIsSound' /\ Goes
  BY <1>6, RenewSound
<1> QED BY <1>1, <1>2, <1>3, <1>4, <1>5, <1>6 DEF Next

\* A step that changes nothing.
LEMMA RequestStutters == RequestIsSound /\ UNCHANGED vars => RequestIsSound'
BY DEF vars, RequestIsSound, RequestTypeOK

-----------------------------------------------------------------------------
(* The assignment a request implements *)

PhaseOf(r, t)   == IF r.state = "absent" THEN "before"
                   ELSE IF OpenAt(r, t) THEN "during" ELSE "after"
WorkersOf(r, t) == {i[2] : i \in LiveAt(r, t)}
ResultsOf(r)    == {i[2] : i \in ClaimsIn(r, {"completed"})}

\* The agents of some claims are no more than the claims.
LEMMA AgentsOfClaims ==
    ASSUME NEW S \in SUBSET ClaimIds
    PROVE  /\ IsFiniteSet({i[2] : i \in S}) /\ Cardinality({i[2] : i \in S}) \in Nat
           /\ Cardinality({i[2] : i \in S}) <= Cardinality(S)
<1> DEFINE T == {i[2] : i \in S}
           f == [i \in S |-> i[2]]
<1>1. f \in Surjection(S, T)
  BY DEF Surjection
<1>2. IsFiniteSet(S)
  BY ClaimSets
<1> HIDE DEF f, T
<1>3. IsFiniteSet(T) /\ Cardinality(T) <= Cardinality(S)
  BY <1>1, <1>2, FS_Surjection
<1>4. Cardinality(T) \in Nat
  BY <1>3, FS_CardinalityType
<1> QED BY <1>3, <1>4 DEF T

\* Outside its time a request gives nobody authority.
LEMMA IdleOutside ==
    ASSUME NEW r \in Request, NEW t \in Nat, Sound(r, t), ~ OpenAt(r, t)
    PROVE  LiveAt(r, t) = {}
<1>1. CASE r.state # "open"
  BY <1>1 DEF Sound, ClosedIsIdle
<1>2. CASE r.state = "open"
  <2>1. r.expiresAt \in Nat /\ \A i \in ClaimIds : r.claim[i].lease \in Nat
    BY DEF Request, Claim
  <2>2. r.expiresAt <= t
    BY <1>2, <2>1 DEF OpenAt
  <2> QED BY <2>1, <2>2 DEF Sound, LeasesEndWithRequest, LiveAt, Active, ClaimsIn
<1> QED BY <1>1, <1>2

\* Work and results together stay within the capacity.
LEMMA WithinCapacity ==
    ASSUME NEW r \in Request, NEW t \in Nat, Sound(r, t)
    PROVE  Cardinality(WorkersOf(r, t) \cup ResultsOf(r)) <= r.limit
<1>1. InUse(r, t) \in SUBSET ClaimIds
  BY DEF InUse, LiveAt, Active, ClaimsIn
<1>2. WorkersOf(r, t) \cup ResultsOf(r) = {i[2] : i \in InUse(r, t)}
  BY DEF WorkersOf, ResultsOf, InUse
<1>3. /\ Cardinality({i[2] : i \in InUse(r, t)}) \in Nat /\ Cardinality(InUse(r, t)) \in Nat
      /\ Cardinality({i[2] : i \in InUse(r, t)}) <= Cardinality(InUse(r, t))
  BY <1>1, AgentsOfClaims, ClaimSets
<1>4. r.limit \in Nat /\ Cardinality(InUse(r, t)) <= r.limit
  BY DEF Sound, CapacityKept, Request
<1>5. Cardinality(WorkersOf(r, t) \cup ResultsOf(r)) = Cardinality({i[2] : i \in InUse(r, t)})
  BY <1>2
<1> HIDE DEF WorkersOf, ResultsOf
<1>6. PICK m \in Nat : m = Cardinality({i[2] : i \in InUse(r, t)})
  BY <1>3
<1>7. PICK n \in Nat : n = Cardinality(InUse(r, t))
  BY <1>3
<1>8. m <= n /\ n <= r.limit /\ r.limit \in Nat
  BY <1>3, <1>4, <1>6, <1>7
<1>9. m <= r.limit
  BY <1>8
<1> QED BY <1>5, <1>6, <1>9

\* The abstract assignment counts as its implementation does.
LEMMA CountsAgree == \A S : Assignment!Cardinality(S) = Cardinality(S)
BY DEF Assignment!Cardinality, Cardinality

\* A step as the abstract assignment sees it.
LEMMA AssignmentStep ==
    ASSUME RequestIsSound, RequestIsSound', Goes
    PROVE  [Assignment!Next]_(Assignment!vars)
<1> DEFINE before == PhaseOf(request, now)    after == PhaseOf(request', now')
           had == WorkersOf(request, now)     has == WorkersOf(request', now')
           got == ResultsOf(request)          gets == ResultsOf(request')
<1>1. /\ request \in Request /\ now \in Nat /\ Sound(request, now)
      /\ request' \in Request /\ now' \in Nat /\ Sound(request', now')
  BY DEF RequestIsSound, RequestTypeOK
<1>2. /\ before # "during" => had = {}
      /\ after # "during" => has = {}
  <2>1. /\ ~ OpenAt(request, now) => LiveAt(request, now) = {}
        /\ ~ OpenAt(request', now') => LiveAt(request', now') = {}
    BY <1>1, IdleOutside
  <2> QED BY <2>1 DEF PhaseOf, WorkersOf, OpenAt
<1>3. /\ OpenAt(request, now) <=> before = "during"
      /\ OpenAt(request', now') <=> after = "during"
      /\ request.state = "absent" <=> before = "before"
      /\ request'.state = "absent" <=> after = "before"
      /\ before \in {"before", "during", "after"} /\ after \in {"before", "during", "after"}
  BY DEF PhaseOf, OpenAt
<1>4. ASSUME before = "before", after = "during", request'.limit \in Nat, has = had, gets = got
      PROVE  Assignment!Begin
  BY <1>4 DEF Assignment!Begin, PhaseOf, WorkersOf, ResultsOf
<1>10. ASSUME before = "during", after \in {"during", "after"}, request'.limit = request.limit,
              after = "after" => has = {},
              NEW delivered \in SUBSET had, Cardinality(delivered) <= 1,
              gets = got \cup delivered, has \in SUBSET (had \ delivered)
       PROVE  Assignment!Progress
  <2>1. \E d \in SUBSET had : /\ Cardinality(d) <= 1
                              /\ gets = got \cup d
                              /\ has \in SUBSET (had \ d)
    BY <1>10
  <2> QED BY <1>10, <2>1, CountsAgree, Zenon DEF Assignment!Progress, PhaseOf, WorkersOf, ResultsOf
<1>11. ASSUME NEW agents, before = "during", agents \cap (had \cup got) = {},
              NEW kept \in SUBSET had, has = kept \cup agents,
              Cardinality(has \cup got) <= request.limit,
              request'.limit = request.limit, after = before, gets = got
       PROVE  Assignment!Assign(agents)
  <2>1. \E k \in SUBSET had : has = k \cup agents /\ Cardinality(has \cup got) <= request.limit
    BY <1>11
  <2> QED BY <1>11, <2>1, CountsAgree, Zenon DEF Assignment!Assign, PhaseOf, WorkersOf, ResultsOf
<1>12. request'.limit = request.limit /\ after = before /\ has = had /\ gets = got
            => UNCHANGED Assignment!vars
  BY DEF Assignment!vars, PhaseOf, WorkersOf, ResultsOf
<1>5. /\ \A S, T : S \subseteq T => {i[2] : i \in S} \subseteq {i[2] : i \in T}
      /\ {} \in SUBSET had /\ Cardinality({}) <= 1
  BY FS_EmptySet
<1>6. CASE Calm(request, now, request', now')
  <2>1. /\ request'.limit = request.limit /\ (after = "during" => before = "during")
        /\ after = "before" <=> before = "before"
        /\ has \subseteq had /\ gets = got
    BY <1>3, <1>5, <1>6 DEF Calm, WorkersOf, ResultsOf
  <2> HIDE DEF before, after, had, has, got, gets
  <2>2. CASE before = "during"
    <3>1. Assignment!Progress
      BY <1>2, <1>3, <1>5, <1>10, <2>1, <2>2
    <3> QED BY <3>1 DEF Assignment!Next
  <2>3. CASE before # "during"
    BY <1>2, <1>3, <1>12, <2>1, <2>3
  <2> QED BY <2>2, <2>3
<1>7. CASE Delivers(request, now, request', now')
  <2>1. PICK i \in LiveAt(request, now) :
            /\ LiveAt(request', now') \subseteq LiveAt(request, now) \ {i}
            /\ ClaimsIn(request', {"completed"}) = ClaimsIn(request, {"completed"}) \cup {i}
    BY <1>7 DEF Delivers
  <2>2. /\ request'.limit = request.limit /\ before = "during" /\ after \in {"during", "after"}
    BY <1>3, <1>7 DEF Delivers
  <2>3. i[2] \in had /\ gets = got \cup {i[2]}
    BY <2>1 DEF WorkersOf, ResultsOf
  <2>4. has \subseteq had \ {i[2]}
    <3>1. \A j \in LiveAt(request, now) : j[2] = i[2] => j = i
      BY <1>1 DEF Sound, OneClaimPerAgent, InUse
    <3> QED BY <2>1, <3>1 DEF WorkersOf
  <2>5. {i[2]} \subseteq had /\ Cardinality({i[2]}) <= 1
    <3>1. Cardinality({i[2]}) = 1
      BY FS_Singleton
    <3> QED BY <2>3, <3>1
  <2> HIDE DEF before, after, had, has, got, gets
  <2>6. Assignment!Progress
    BY <1>2, <1>10, <2>2, <2>3, <2>4, <2>5
  <2> QED BY <2>6 DEF Assignment!Next
<1>8. CASE Selects(request, now, request', now')
  <2>1. /\ request'.limit = request.limit /\ before = "during" /\ after = "during" /\ gets = got
    BY <1>3, <1>8 DEF Selects, ResultsOf
  <2>2. Cardinality(has \cup gets) <= request.limit
    BY <1>1, <2>1, WithinCapacity
  <2>3. has \cap gets = {}
    <3>1. \A i \in LiveAt(request', now'), j \in ClaimsIn(request', {"completed"}) :
              i[2] = j[2] => i = j
      BY <1>1 DEF Sound, OneClaimPerAgent, InUse
    <3>2. LiveAt(request', now') \cap ClaimsIn(request', {"completed"}) = {}
      BY DEF LiveAt, Active, ClaimsIn, ActiveStates
    <3> QED BY <3>1, <3>2 DEF WorkersOf, ResultsOf
  <2>4. has \subseteq Agents
    BY ClaimPairs DEF WorkersOf, LiveAt, Active, ClaimsIn
  <2> HIDE DEF before, after, had, has, got, gets
  <2>5. PICK agents \in SUBSET Agents : agents = has \ had
    BY <2>4
  <2>6. PICK kept \in SUBSET had : has = kept \cup agents
    <3>1. has \cap had \in SUBSET had /\ has = (has \cap had) \cup agents
      BY <2>5
    <3> QED BY <3>1
  <2>7. Assignment!Assign(agents)
    <3>1. agents \cap (had \cup got) = {}
      BY <2>1, <2>3, <2>5
    <3>2. Cardinality(has \cup got) <= request.limit
      BY <2>1, <2>2
    <3> QED BY <1>11, <2>1, <2>6, <3>1, <3>2
  <2>8. Assignment!Next
    BY <2>7, Zenon DEF Assignment!Next
  <2> QED BY <2>8
<1>9. CASE Opens(request, now, request', now')
  <2>1. /\ before = "before" /\ after = "during" /\ request'.limit \in Nat
        /\ has = {} /\ gets = {} /\ had = {}
    BY <1>1, <1>2, <1>3, <1>9 DEF Opens, WorkersOf, ResultsOf, Request
  <2>2. got = {}
    BY <1>1, <1>9 DEF Opens, Sound, AbsentIsBlank, ResultsOf, ClaimsIn
  <2> QED BY <1>4, <2>1, <2>2 DEF Assignment!Next
<1> QED BY <1>6, <1>7, <1>8, <1>9 DEF Goes

-----------------------------------------------------------------------------
(* The theorems *)

\* In every reachable state the request is sound and waits for nobody who is gone.
THEOREM SoundRequest == Spec => []RequestIsSound
<1>1. RequestIsSound /\ [Next]_vars => RequestIsSound'
  BY RequestNext, RequestStutters
<1> QED BY <1>1, RequestInit, PTL DEF Spec

\* However many agents are selected, take up their work, finish it or let it lapse,
\* results and live work stay within max_assignees: SelectMessageRequest counts both,
\* and the leases that lapse between its statements only lower the count.
THEOREM CapacityIsKept == Spec => []CapacityHolds
<1>1. RequestIsSound => CapacityHolds
  BY DEF RequestIsSound, Sound, CapacityKept, CapacityHolds
<1> QED BY <1>1, SoundRequest, PTL

\* The import of an account accepts every request its calls can have led to.
THEOREM ArchivesAreAccepted == Spec => []ArchiveIsAccepted
<1>1. ASSUME RequestIsSound PROVE ArchiveIsAccepted
  <2>1. /\ request \in Request /\ Sound(request, now) /\ WaitsForTheLiving(request, live)
    BY <1>1 DEF RequestIsSound, RequestTypeOK
  <2>2. Cardinality(ClaimsIn(request, {"completed"})) <= request.limit
    <3>1. /\ ClaimsIn(request, {"completed"}) \in SUBSET InUse(request, now)
          /\ InUse(request, now) \in SUBSET ClaimIds
      BY DEF InUse, LiveAt, Active, ClaimsIn
    <3>2. /\ Cardinality(ClaimsIn(request, {"completed"})) \in Nat
          /\ Cardinality(InUse(request, now)) \in Nat /\ request.limit \in Nat
          /\ Cardinality(ClaimsIn(request, {"completed"})) <= Cardinality(InUse(request, now))
      BY <2>1, <3>1, ClaimSets DEF Request
    <3> QED BY <2>1, <3>2 DEF Sound, CapacityKept
  <2> QED BY <2>1, <2>2 DEF ArchiveIsAccepted, ArchiveAccepted, Sound, WaitsForTheLiving,
             ClaimsWereOffered, HistoryIsWhole, CompletionHasResult
<1> QED BY <1>1, SoundRequest, PTL

\* OfferMessageRequest lets nobody join once SelectMessageRequest has chosen among
\* the offers its coordinator could see.
THEOREM SelectionFreezesOffers == Spec => OffersFrozenBySelection
<1>1. RequestIsSound /\ [Next]_vars =>
        [request.generation > 0 =>
           \A a \in Agents : request'.response[a] = "offered" => request.response[a] = "offered"]_vars
  <2> SUFFICES ASSUME RequestIsSound, Next, request.generation > 0,
                      NEW a \in Agents, request'.response[a] = "offered"
               PROVE  request.response[a] = "offered"
    OBVIOUS
  <2>1. /\ Answered(request, now, request') /\ OffersAreOver(request, now)
        /\ request.offerDeadline \in Nat /\ now \in Nat
    BY RequestNext DEF Goes, RequestIsSound, RequestTypeOK, Sound, Request
  <2> QED BY <2>1 DEF Answered, OffersAreOver
<1> QED BY <1>1, SoundRequest, PTL DEF Spec, OffersFrozenBySelection

\* The open request implements the bounded assignment it stands for: every call,
\* deletion, move and lapse begins it, assigns within its capacity, delivers at most
\* one result of an agent with authority, ends work, or leaves it as it was.
THEOREM RequestImplementsAssignment == Spec => ImplementsAssignment
<1>1. Init => Assignment!Init
  <2> SUFFICES ASSUME Init PROVE Assignment!Init
    OBVIOUS
  <2>1. request = AbsentRequest
    BY DEF Init
  <2>2. \A i \in ClaimIds : request.claim[i].state = "none"
    BY <2>1 DEF AbsentRequest, NoClaim
  <2>3. LiveAt(request, now) = {} /\ ClaimsIn(request, {"completed"}) = {}
    BY <2>2 DEF LiveAt, Active, ClaimsIn, ActiveStates
  <2> QED BY <2>1, <2>3 DEF Assignment!Init, AbsentRequest
<1>2. RequestIsSound /\ [Next]_vars => [Assignment!Next]_(Assignment!vars)
  <2>1. CASE UNCHANGED vars
    BY <2>1 DEF vars, Assignment!vars, LiveAt, Active, ClaimsIn, OpenAt
  <2>2. ASSUME RequestIsSound, Next PROVE [Assignment!Next]_(Assignment!vars)
    BY <2>2, RequestNext, AssignmentStep
  <2> QED BY <2>1, <2>2
<1> QED BY <1>1, <1>2, SoundRequest, PTL DEF Spec, ImplementsAssignment, Assignment!Spec

==============================================================================
