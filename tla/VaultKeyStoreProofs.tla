------------------------ MODULE VaultKeyStoreProofs ------------------------
(***************************************************************************)
(* Theorems about the vault's key lifecycle, for every set of data keys,   *)
(* rotations, enrollments and installations.                               *)
(***************************************************************************)
EXTENDS VaultKeyStore, FiniteSetTheorems, TLAPS

(* The inductive invariant: what the runs check of the lifecycle in        *)
(* progress, and what must be remembered of the lifecycles that are over.  *)

\* A rotation that is over has no items, its source was a current key before
\* and never becomes pending again, and its target is where its end put it.
PastIsSettled == \A r \in Rotations :
    /\ rotations[r].state # "open" => rotations[r].items = {}
    /\ rotations[r].state \in ClosedRotations =>
           keys[rotations[r].source].state \in {"current", "retired"}
    /\ rotations[r].state = "committed" =>
           /\ keys[r].state \in {"current", "retired"}
           /\ rotations[r].stagedCount = rotations[r].itemCount
    /\ rotations[r].state = "cancelled" => keys[r].state = "retired"

\* No key precedes the one that was registered.
RegisteredFirst == keys[0].state = "absent" => \A k \in Keys : keys[k].state = "absent"

\* A deleted agent has no lifecycle in progress.
DeletedIsIdle == ~live => Open = {} /\ Active(enrollments) = {}

Sound ==
    /\ WrappersUnderCurrentKey /\ SnapshotIsVault /\ OneLifecycle
    /\ TransferCarriesCurrentKey
    /\ PastIsSettled /\ RegisteredFirst /\ DeletedIsIdle

-----------------------------------------------------------------------------
(* Types *)

\* The keys of rotations and the first key are natural numbers.
LEMMA KeyNumbers ==
    /\ Rotations \subseteq Keys \ {0} /\ 0 \in Keys /\ NoKey \notin Keys
    /\ Keys \subseteq Nat
BY VaultAssumption DEF Rotations, Keys, NoKey

\* What is stored is finite and so are its parts.
LEMMA StoredFinite ==
    ASSUME NEW S \in SUBSET Deks
    PROVE  IsFiniteSet(S) /\ Cardinality(S) \in Nat
BY VaultAssumption, FS_Subset, FS_CardinalityType

\* A vault without keys and lifecycle is well typed.
LEMMA TypeInit == StoreInit => StoreTypeOK
BY KeyNumbers DEF StoreInit, NoLifecycle, NoKeys, StoreTypeOK, KeyStates, NoDek,
   Rotation, RotationStates, Enrollment, EnrollmentStates, Nowhere, ClosedRotations

\* The sweep only expires enrollments.
LEMMA SweptRows ==
    ASSUME StoreTypeOK
    PROVE  /\ Swept \in [Enrollments -> Enrollment]
           /\ Active(Swept) \subseteq Active(enrollments)
           /\ \A e \in Enrollments : Swept[e].key = enrollments[e].key
BY DEF StoreTypeOK, Swept, Enrollment, EnrollmentStates, Active, ActiveEnrollment

\* The transactions of a rotation keep the types.
LEMMA StartTypes ==
    ASSUME StoreTypeOK, NEW r \in Rotations, NEW k \in Keys, Start(r, k)
    PROVE  StoreTypeOK'
<1> USE KeyNumbers DEF StoreTypeOK, KeyStates
<1>1. Stored \in SUBSET Deks /\ Cardinality(Stored) \in Nat
  BY StoredFinite DEF Stored
<1>2. keys' \in [Keys -> [state : KeyStates, version : Nat]]
  BY DEF Start
<1>3. rotations' \in [Rotations -> Rotation]
  BY <1>1 DEF Start, Rotation, RotationStates
<1> QED BY <1>2, <1>3, SweptRows DEF Start

LEMMA StageTypes ==
    ASSUME StoreTypeOK, NEW r \in Rotations, NEW row, NEW batch \in SUBSET Deks,
           Stage(r, row, batch)
    PROVE  StoreTypeOK'
BY KeyNumbers, StoredFinite DEF StoreTypeOK, KeyStates, Stage, Rotation

LEMMA CommitTypes ==
    ASSUME StoreTypeOK, NEW r \in Rotations, NEW row, NEW count, NEW mode \in Dispositions,
           Commit(r, row, count, mode)
    PROVE  StoreTypeOK'
<1> USE KeyNumbers DEF StoreTypeOK, KeyStates
<1>1. deks' \in [Deks -> Dek \cup {NoDek}]
  BY DEF Commit, Rewrapped, Dek, NoDek
<1>2. keys' \in [Keys -> [state : KeyStates, version : Nat]]
  BY DEF Commit
<1>3. rotations' \in [Rotations -> Rotation]
  BY DEF Commit, Closed, Rotation, RotationStates, ClosedRotations
<1> QED BY <1>1, <1>2, <1>3 DEF Commit

LEMMA CancelTypes ==
    ASSUME StoreTypeOK, NEW r \in Rotations, NEW row, Cancel(r, row)
    PROVE  StoreTypeOK'
BY KeyNumbers
   DEF StoreTypeOK, KeyStates, Cancel, Abandoned, Closed, Rotation, RotationStates, ClosedRotations

\* Every transaction keeps the types.
LEMMA TypeStep == StoreTypeOK /\ [StoreNext]_storeVars => StoreTypeOK'
<1> SUFFICES ASSUME StoreTypeOK, [StoreNext]_storeVars PROVE StoreTypeOK'
  OBVIOUS
<1> USE KeyNumbers DEF StoreTypeOK, KeyStates
<1>1. CASE RegisterVaultKey
  BY <1>1 DEF RegisterVaultKey, FirstKey, NoKeys
<1>2. CASE DeleteAgent
  BY <1>2 DEF DeleteAgent
<1>3. ASSUME NEW d \in Deks, DeleteSecret(d) PROVE StoreTypeOK'
  BY <1>3 DEF DeleteSecret, Purged
<1>4. ASSUME NEW d \in Deks, NEW k \in Keys, CreateSecret(d, k) PROVE StoreTypeOK'
  BY <1>4 DEF CreateSecret, Dek
<1>5. CASE RotationStep
  BY <1>5, StartTypes, StageTypes, CommitTypes, CancelTypes DEF RotationStep
<1>6. ASSUME NEW e \in Enrollments, NEW l \in Locations,
             CreateVaultKeyEnrollment(e, l) \/ ApproveVaultKeyEnrollment(e, l)
      PROVE  StoreTypeOK'
  <2>1. Swept[e] \in Enrollment /\ Current \subseteq Keys
    BY SweptRows DEF Current
  <2>2. \A k \in Keys :
            [Swept[e] EXCEPT !.state = "pending", !.key = k, !.to = l] \in Enrollment
    BY <2>1 DEF Enrollment, EnrollmentStates, ActiveEnrollment
  <2>3. [Swept[e] EXCEPT !.state = "approved", !.from = l] \in Enrollment
    BY <2>1 DEF Enrollment, EnrollmentStates, ActiveEnrollment
  <2>4. enrollments' \in [Enrollments -> Enrollment]
    <3>1. CASE CreateVaultKeyEnrollment(e, l)
      <4>1. PICK k \in Current : enrollments' =
              [Swept EXCEPT ![e] = [@ EXCEPT !.state = "pending", !.key = k, !.to = l]]
        BY <3>1 DEF CreateVaultKeyEnrollment
      <4> QED BY <4>1, <2>1, <2>2, SweptRows
    <3>2. CASE ApproveVaultKeyEnrollment(e, l)
      BY <3>2, <2>3, SweptRows DEF ApproveVaultKeyEnrollment
    <3> QED BY <1>6, <3>1, <3>2
  <2> QED BY <1>6, <2>4 DEF CreateVaultKeyEnrollment, ApproveVaultKeyEnrollment
<1>7. ASSUME NEW e \in Enrollments,
              \/ AccessVaultKeyEnrollmentTransfer(e) \/ ConsumeVaultKeyEnrollment(e)
              \/ CancelVaultKeyEnrollment(e) \/ ComeDue(e) \/ ListVaultKeyEnrollments
       PROVE  StoreTypeOK'
  <2>1. \A st \in EnrollmentStates : [Swept[e] EXCEPT !.state = st] \in Enrollment
    BY SweptRows DEF Enrollment
  <2>2. [enrollments[e] EXCEPT !.due = TRUE] \in Enrollment
    BY DEF Enrollment
  <2>3. enrollments' \in [Enrollments -> Enrollment]
    <3>1. CASE AccessVaultKeyEnrollmentTransfer(e) \/ ListVaultKeyEnrollments
      BY <3>1, SweptRows DEF AccessVaultKeyEnrollmentTransfer, ListVaultKeyEnrollments
    <3>2. CASE ConsumeVaultKeyEnrollment(e)
      BY <3>2, <2>1, SweptRows DEF ConsumeVaultKeyEnrollment, EnrollmentStates
    <3>3. CASE CancelVaultKeyEnrollment(e)
      BY <3>3, <2>1, SweptRows DEF CancelVaultKeyEnrollment, EnrollmentStates
    <3>4. CASE ComeDue(e)
      BY <3>4, <2>2 DEF ComeDue
    <3> QED BY <1>7, <3>1, <3>2, <3>3, <3>4
  <2> QED
    BY <1>7, <2>3
       DEF AccessVaultKeyEnrollmentTransfer, ConsumeVaultKeyEnrollment,
           CancelVaultKeyEnrollment, ComeDue, ListVaultKeyEnrollments
<1>8. CASE UNCHANGED storeVars
  BY <1>8 DEF storeVars
<1> QED
  BY <1>1, <1>2, <1>3, <1>4, <1>5, <1>6, <1>7, <1>8
     DEF StoreNext, SecretStep, EnrollmentStep

\* The rows of the key lifecycle never leave the ranges of their columns.
THEOREM StoreIsTyped == StoreSpec => []StoreTypeOK
BY TypeInit, TypeStep, PTL DEF StoreSpec

-----------------------------------------------------------------------------
(* The inductive invariant *)

\* A vault without keys is sound.
LEMMA SoundInit == StoreInit => Sound
BY KeyNumbers
   DEF StoreInit, NoLifecycle, NoKeys, Sound, WrappersUnderCurrentKey, Stored, NoDek,
       SnapshotIsVault, Open, OneLifecycle, Current, TransferCarriesCurrentKey, Active,
       ActiveEnrollment, PastIsSettled, ClosedRotations, RegisteredFirst, DeletedIsIdle

\* A step that touches enrollments only is sound if each one it leaves active was
\* active with the same key, or is given the current key with no rotation open.
LEMMA EnrollmentsOnly ==
    ASSUME Sound, UNCHANGED <<live, keys, deks, rotations>>,
           \A e \in Active(enrollments)' :
               \/ e \in Active(enrollments) /\ enrollments'[e].key = enrollments[e].key
               \/ live /\ Open = {} /\ keys[enrollments'[e].key].state = "current"
    PROVE  Sound'
<1>1. Stored' = Stored /\ Open' = Open /\ Current' = Current
  BY DEF Stored, Open, Current
<1>2. TransferCarriesCurrentKey'
  BY <1>1 DEF Sound, TransferCarriesCurrentKey
<1>3. DeletedIsIdle'
  BY <1>1 DEF Sound, DeletedIsIdle
<1>4. (WrappersUnderCurrentKey /\ SnapshotIsVault /\ OneLifecycle)'
  BY <1>1 DEF Sound, WrappersUnderCurrentKey, SnapshotIsVault, OneLifecycle
<1>5. (PastIsSettled /\ RegisteredFirst)'
  BY DEF Sound, PastIsSettled, RegisteredFirst
<1> QED BY <1>2, <1>3, <1>4, <1>5 DEF Sound

\* The calls of an enrollment, and the passing of its expiry.
LEMMA EnrollmentStepIsSound == StoreTypeOK /\ Sound /\ EnrollmentStep => Sound'
<1> SUFFICES ASSUME StoreTypeOK, Sound, NEW x \in Enrollments, NEW l,
                    \/ CreateVaultKeyEnrollment(x, l) \/ ApproveVaultKeyEnrollment(x, l)
                    \/ AccessVaultKeyEnrollmentTransfer(x) \/ ConsumeVaultKeyEnrollment(x)
                    \/ CancelVaultKeyEnrollment(x) \/ ComeDue(x) \/ ListVaultKeyEnrollments
             PROVE  Sound'
  BY DEF EnrollmentStep
<1> DEFINE Kept(e) ==
      \/ e \in Active(enrollments) /\ enrollments'[e].key = enrollments[e].key
      \/ live /\ Open = {} /\ keys[enrollments'[e].key].state = "current"
<1>1. UNCHANGED <<live, keys, deks, rotations>>
  BY DEF CreateVaultKeyEnrollment, ApproveVaultKeyEnrollment, ConsumeVaultKeyEnrollment,
         AccessVaultKeyEnrollmentTransfer, CancelVaultKeyEnrollment, ComeDue,
         ListVaultKeyEnrollments
<1>2. ASSUME NEW e \in Active(enrollments)' PROVE Kept(e)
  <2>0. e \in Enrollments /\ enrollments'[e].state \in ActiveEnrollment
    BY DEF Active
  <2>1. CASE CreateVaultKeyEnrollment(x, l)
    <3>1. PICK k \in Current : enrollments' =
            [Swept EXCEPT ![x] = [@ EXCEPT !.state = "pending", !.key = k, !.to = l]]
      BY <2>1 DEF CreateVaultKeyEnrollment
    <3>2. live /\ Open = {} /\ keys[k].state = "current"
      BY <2>1 DEF CreateVaultKeyEnrollment, NoOpenRotation, Current
    <3> QED BY <3>1, <3>2, <2>0, SweptRows DEF Enrollment, Active
  <2>2. CASE ApproveVaultKeyEnrollment(x, l)
    BY <2>0, <2>2, SweptRows DEF ApproveVaultKeyEnrollment, Enrollment, Active, ActiveEnrollment
  <2>3. CASE AccessVaultKeyEnrollmentTransfer(x) \/ ListVaultKeyEnrollments
    BY <2>0, <2>3, SweptRows DEF AccessVaultKeyEnrollmentTransfer, ListVaultKeyEnrollments, Active
  <2>4. CASE ConsumeVaultKeyEnrollment(x)
    BY <2>0, <2>4, SweptRows DEF ConsumeVaultKeyEnrollment, Enrollment, Active, ActiveEnrollment
  <2>5. CASE CancelVaultKeyEnrollment(x)
    BY <2>0, <2>5, SweptRows DEF CancelVaultKeyEnrollment, Enrollment, Active, ActiveEnrollment
  <2>6. CASE ComeDue(x)
    BY <2>0, <2>6 DEF ComeDue, StoreTypeOK, Enrollment, Active
  <2> QED BY <2>1, <2>2, <2>3, <2>4, <2>5, <2>6
<1> QED BY <1>1, <1>2, EnrollmentsOnly

\* Secrets come and go while no rotation is open; a key is registered once.
LEMMA SecretStepIsSound == StoreTypeOK /\ Sound /\ SecretStep => Sound'
<1> SUFFICES ASSUME StoreTypeOK, Sound, SecretStep PROVE Sound'
  OBVIOUS
<1> USE KeyNumbers
<1>1. CASE RegisterVaultKey
  <2>1. \A k \in Keys : keys[k].state = "absent"
    BY <1>1 DEF RegisterVaultKey, Sound, RegisteredFirst
  <2>2. Stored = {} /\ Open = {} /\ Active(enrollments) = {}
    <3>1. Stored = {}
      BY <2>1 DEF Sound, WrappersUnderCurrentKey, Stored, StoreTypeOK, Dek
    <3>2. Open = {}
      BY <2>1 DEF Sound, OneLifecycle, Open, StoreTypeOK, Rotation
    <3>3. Active(enrollments) = {}
      BY <2>1 DEF Sound, TransferCarriesCurrentKey, Active, StoreTypeOK, Enrollment
    <3> QED BY <3>1, <3>2, <3>3
  <2>3. \A r \in Rotations : rotations[r].state \notin {"committed", "cancelled"}
    BY <2>1 DEF Sound, PastIsSettled, ClosedRotations, StoreTypeOK, Rotation
  <2>4. /\ keys' = FirstKey
        /\ UNCHANGED <<live, deks, rotations, enrollments>>
        /\ Stored' = {} /\ Open' = {} /\ Active(enrollments)' = {}
    BY <1>1, <2>2 DEF RegisterVaultKey, Stored, Open, Active
  <2>5. /\ keys'[0].state = "current"
        /\ \A k \in Keys \ {0} : keys'[k].state = "absent"
    BY <2>4 DEF FirstKey, NoKeys
  <2>6. OneLifecycle'
    <3>1. Open' = {} /\ Current' = {0}
      BY <2>4, <2>5 DEF Current
    <3> QED BY <2>5, <3>1 DEF OneLifecycle
  <2>7. PastIsSettled'
    BY <2>3, <2>4 DEF Sound, PastIsSettled, ClosedRotations
  <2> QED
    BY <2>4, <2>5, <2>6, <2>7
       DEF Sound, WrappersUnderCurrentKey, SnapshotIsVault, TransferCarriesCurrentKey,
           RegisteredFirst, DeletedIsIdle
<1>2. CASE DeleteAgent
  <2>1. Stored' = Stored /\ Open' = Open /\ Current' = Current
        /\ Active(enrollments)' = Active(enrollments)
    BY <1>2 DEF DeleteAgent, Stored, Open, Current, Active
  <2> QED
    BY <1>2, <2>1
       DEF DeleteAgent, Sound, WrappersUnderCurrentKey, SnapshotIsVault, OneLifecycle,
           TransferCarriesCurrentKey, PastIsSettled, RegisteredFirst, DeletedIsIdle
<1>3. ASSUME NEW d \in Deks, NEW k \in Keys, DeleteSecret(d) \/ CreateSecret(d, k)
      PROVE  Sound'
  <2>1. Open = {} /\ UNCHANGED <<live, keys, rotations, enrollments>>
    BY <1>3 DEF DeleteSecret, CreateSecret, NoOpenRotation
  <2>2. Open' = {} /\ Current' = Current /\ Active(enrollments)' = Active(enrollments)
    BY <2>1 DEF Open, Current, Active
  <2>3. WrappersUnderCurrentKey'
    BY <1>3, <2>1
       DEF DeleteSecret, CreateSecret, SealedUnderCurrent, Purged, Sound,
           WrappersUnderCurrentKey, Stored, StoreTypeOK, NoDek
  <2> QED
    BY <2>1, <2>2, <2>3
       DEF Sound, SnapshotIsVault, OneLifecycle, TransferCarriesCurrentKey,
           PastIsSettled, RegisteredFirst, DeletedIsIdle
<1>4. ASSUME NEW d \in Deks, DeleteSecret(d) PROVE Sound'
  BY <1>3, <1>4
<1> QED BY <1>1, <1>2, <1>3, <1>4 DEF SecretStep

\* A rotation opens on the current key with the stored secrets as its snapshot.
LEMMA StartIsSound ==
    ASSUME StoreTypeOK, Sound, NEW r \in Rotations, NEW k \in Keys, Start(r, k)
    PROVE  Sound'
<1> USE KeyNumbers
<1>1. Open = {} /\ live /\ keys[k].state = "current" /\ keys[r].state = "absent" /\ k # r
  BY DEF Start
<1>2. Stored' = Stored /\ Active(enrollments)' = {} /\ UNCHANGED <<live, deks>>
  BY DEF Start, Stored, NoActiveTransfer, Active
<1>3. /\ keys'[r].state = "pending"
      /\ \A j \in Keys \ {r} : keys'[j] = keys[j]
  BY DEF Start, StoreTypeOK
<1>4. /\ rotations'[r].state = "open" /\ rotations'[r].source = k
      /\ rotations'[r].items = Stored /\ rotations'[r].staged = {}
      /\ rotations'[r].itemCount = Cardinality(Stored) /\ rotations'[r].stagedCount = 0
      /\ \A q \in Rotations \ {r} : rotations'[q] = rotations[q]
  BY DEF Start, StoreTypeOK
<1>5. Open' = {r}
  BY <1>1, <1>4 DEF Open
<1>6. Current' = Current
  BY <1>1, <1>3 DEF Current
<1>7. WrappersUnderCurrentKey'
  BY <1>1, <1>2, <1>3 DEF Sound, WrappersUnderCurrentKey, Stored, StoreTypeOK, Dek
<1>8. SnapshotIsVault'
  BY <1>2, <1>4, <1>5, FS_EmptySet DEF SnapshotIsVault
<1>9. OneLifecycle'
  BY <1>1, <1>3, <1>4, <1>5, <1>6 DEF Sound, OneLifecycle
<1>10. PastIsSettled'
  <2>1. ASSUME NEW q \in Rotations \ {r}, rotations[q].state \in ClosedRotations
        PROVE  keys'[rotations[q].source] = keys[rotations[q].source]
    BY <1>1, <1>3, <2>1 DEF Sound, PastIsSettled, StoreTypeOK, Rotation
  <2>2. ASSUME NEW q \in Rotations \ {r} PROVE keys'[q] = keys[q] /\ rotations'[q] = rotations[q]
    BY <1>3, <1>4
  <2>3. rotations'[r].state = "open"
    BY <1>4
  <2>4. ASSUME NEW q \in Rotations \ {r}
        PROVE  /\ rotations'[q].state # "open" => rotations'[q].items = {}
               /\ rotations'[q].state \in ClosedRotations =>
                      keys'[rotations'[q].source].state \in {"current", "retired"}
               /\ rotations'[q].state = "committed" =>
                      /\ keys'[q].state \in {"current", "retired"}
                      /\ rotations'[q].stagedCount = rotations'[q].itemCount
               /\ rotations'[q].state = "cancelled" => keys'[q].state = "retired"
    BY <2>1, <2>2 DEF Sound, PastIsSettled
  <2> QED BY <2>3, <2>4 DEF PastIsSettled, ClosedRotations
<1>11. RegisteredFirst'
  BY <1>1, <1>3 DEF Sound, RegisteredFirst
<1> QED
  BY <1>1, <1>2, <1>7, <1>8, <1>9, <1>10, <1>11
     DEF Sound, TransferCarriesCurrentKey, DeletedIsIdle

\* A batch adds to the staged items of the open rotation, never the same one twice.
LEMMA StageIsSound ==
    ASSUME StoreTypeOK, Sound, NEW r \in Rotations, NEW row, NEW batch \in SUBSET Deks,
           Stage(r, row, batch)
    PROVE  Sound'
<1> DEFINE rot == rotations[r]
<1>1. rot.state = "open" /\ batch \subseteq rot.items \ rot.staged
  BY DEF Stage
<1>2. /\ rotations'[r] = [rot EXCEPT !.staged = @ \cup batch,
                            !.stagedCount = @ + Cardinality(batch), !.row = @ + 1]
      /\ \A q \in Rotations \ {r} : rotations'[q] = rotations[q]
      /\ UNCHANGED <<live, keys, deks, enrollments>>
  BY DEF Stage, StoreTypeOK
<1>3. /\ rotations'[r].state = rot.state /\ rotations'[r].source = rot.source
      /\ rotations'[r].items = rot.items /\ rotations'[r].itemCount = rot.itemCount
      /\ rotations'[r].staged = rot.staged \cup batch
      /\ rotations'[r].stagedCount = rot.stagedCount + Cardinality(batch)
  BY <1>2 DEF StoreTypeOK, Rotation
<1>4. /\ Open' = Open /\ Current' = Current /\ Stored' = Stored
      /\ Active(enrollments)' = Active(enrollments)
      /\ \A q \in Rotations : /\ rotations'[q].state = rotations[q].state
                              /\ rotations'[q].source = rotations[q].source
  BY <1>2, <1>3 DEF Open, Current, Stored, Active
<1>5. Cardinality(rot.staged \cup batch) = Cardinality(rot.staged) + Cardinality(batch)
  <2>1. rot.staged \in SUBSET Deks
    BY DEF StoreTypeOK, Rotation
  <2>2. rot.staged \cap batch = {}
    BY <1>1
  <2>3. /\ IsFiniteSet(rot.staged) /\ IsFiniteSet(batch)
        /\ Cardinality(rot.staged) \in Nat /\ Cardinality(batch) \in Nat
    BY <2>1, StoredFinite
  <2>4. Cardinality(rot.staged \cup batch)
          = Cardinality(rot.staged) + Cardinality(batch) - Cardinality({})
    BY <2>2, <2>3, FS_Union
  <2> QED BY <2>3, <2>4, FS_EmptySet
<1>6. SnapshotIsVault'
  <2>1. rot.items = Stored /\ rot.staged \subseteq rot.items
        /\ rot.stagedCount = Cardinality(rot.staged) /\ rot.itemCount = Cardinality(Stored)
    BY <1>1 DEF Sound, SnapshotIsVault, Open
  <2>2. \A q \in Open : q = r
    BY <1>1 DEF Sound, OneLifecycle, Open
  <2>3. /\ rotations'[r].items = Stored /\ rotations'[r].itemCount = Cardinality(Stored)
        /\ rotations'[r].staged \subseteq rotations'[r].items
        /\ rotations'[r].stagedCount = Cardinality(rotations'[r].staged)
    BY <1>1, <1>3, <1>5, <2>1
  <2> QED BY <1>4, <2>2, <2>3 DEF SnapshotIsVault
<1>7. OneLifecycle'
  <2>1. Open \subseteq Rotations
    BY DEF Open
  <2> QED BY <1>2, <1>4, <2>1 DEF Sound, OneLifecycle
<1>8. PastIsSettled'
  <2>1. rotations'[r].state = "open"
    BY <1>1, <1>3
  <2>2. \A q \in Rotations \ {r} : rotations'[q] = rotations[q]
    BY <1>2
  <2>3. keys' = keys
    BY <1>2
  <2> QED BY <2>1, <2>2, <2>3 DEF Sound, PastIsSettled, ClosedRotations
<1> QED
  BY <1>2, <1>4, <1>6, <1>7, <1>8
     DEF Sound, WrappersUnderCurrentKey, TransferCarriesCurrentKey, RegisteredFirst,
         DeletedIsIdle

\* The end of the open rotation closes its row and leaves no other rotation open.
LEMMA ClosingRows ==
    ASSUME StoreTypeOK, Sound, NEW r \in Open, NEW st \in ClosedRotations, NEW mode,
           rotations' = Closed(r, st, mode)
    PROVE  /\ rotations'[r].state = st /\ rotations'[r].items = {}
           /\ rotations'[r].source = rotations[r].source
           /\ rotations'[r].itemCount = rotations[r].itemCount
           /\ rotations'[r].stagedCount = rotations[r].stagedCount
           /\ \A q \in Rotations \ {r} : rotations'[q] = rotations[q]
           /\ Open' = {}
<1>1. r \in Rotations
  BY DEF Open
<1>2. /\ rotations'[r] = [rotations[r] EXCEPT !.state = st, !.row = @ + 1, !.mode = mode,
                                                !.items = {}, !.staged = {}]
      /\ \A q \in Rotations \ {r} : rotations'[q] = rotations[q]
  BY <1>1 DEF Closed, StoreTypeOK
<1>3. rotations'[r].state = st /\ rotations'[r].items = {}
      /\ rotations'[r].source = rotations[r].source
      /\ rotations'[r].itemCount = rotations[r].itemCount
      /\ rotations'[r].stagedCount = rotations[r].stagedCount
  BY <1>1, <1>2 DEF StoreTypeOK, Rotation
<1>4. Open' = {}
  <2>1. \A q \in Open : q = r
    BY DEF Sound, OneLifecycle
  <2>2. ASSUME NEW q \in Rotations PROVE rotations'[q].state # "open"
    <3>1. CASE q = r
      BY <1>3, <3>1 DEF ClosedRotations
    <3>2. CASE q # r
      BY <1>2, <2>1, <3>2 DEF Open
    <3> QED BY <3>1, <3>2
  <2> QED BY <2>2 DEF Open
<1> QED BY <1>2, <1>3, <1>4

\* A commit moves every stored secret to the target, since all of them are staged.
LEMMA CommitIsSound ==
    ASSUME StoreTypeOK, Sound, NEW r \in Rotations, NEW row, NEW count, NEW mode,
           Commit(r, row, count, mode)
    PROVE  Sound'
<1> DEFINE src == rotations[r].source
<1> USE KeyNumbers
<1>1. /\ r \in Open /\ live /\ src \in Keys /\ src # r
      /\ keys[src].state = "current" /\ keys[r].state = "pending"
      /\ rotations[r].stagedCount = rotations[r].itemCount
  BY DEF Commit, Open, StoreTypeOK, Rotation
<1>2. /\ keys'[src].state = "retired" /\ keys'[r].state = "current"
      /\ \A k \in Keys \ {src, r} : keys'[k] = keys[k]
      /\ UNCHANGED <<live, enrollments>>
  BY <1>1 DEF Commit, StoreTypeOK
<1>3. /\ rotations'[r].state = "committed" /\ rotations'[r].items = {}
      /\ rotations'[r].source = src
      /\ rotations'[r].stagedCount = rotations'[r].itemCount
      /\ \A q \in Rotations \ {r} : rotations'[q] = rotations[q]
      /\ Open' = {}
  BY <1>1, ClosingRows DEF Commit, ClosedRotations
<1>4. rotations[r].items = Stored /\ rotations[r].staged = Stored
  <2>1. /\ rotations[r].items = Stored /\ rotations[r].staged \subseteq Stored
        /\ Cardinality(rotations[r].staged) = Cardinality(Stored)
    BY <1>1 DEF Sound, SnapshotIsVault
  <2>2. IsFiniteSet(Stored)
    BY StoredFinite DEF Stored
  <2> QED BY <2>1, <2>2, FS_Subset
<1>5. \A d \in Deks : deks'[d] = IF d \in Stored THEN [meta |-> r, blob |-> r] ELSE NoDek
  BY <1>4 DEF Commit, Rewrapped, Stored, StoreTypeOK
<1>6. Stored' = Stored
  BY <1>5 DEF Stored, NoDek, NoKey, Rotations
<1>7. WrappersUnderCurrentKey'
  BY <1>2, <1>5, <1>6 DEF WrappersUnderCurrentKey, Stored
<1>8. Active(enrollments)' = {}
  BY <1>1, <1>2 DEF Sound, TransferCarriesCurrentKey, Active
<1>9. Current' = {r}
  <2>1. \A k \in Current : k = src
    BY <1>1 DEF Sound, OneLifecycle, Current
  <2> QED BY <1>1, <1>2, <2>1 DEF Current
<1>10. OneLifecycle'
  <2>1. \A k \in Keys : keys[k].state = "pending" => k = r
    BY <1>1 DEF Sound, OneLifecycle
  <2>2. \A k \in Keys : keys'[k].state # "pending"
    BY <1>2, <2>1
  <2> QED BY <1>3, <1>9, <2>2 DEF OneLifecycle
<1>11. PastIsSettled'
  <2>1. ASSUME NEW q \in Rotations \ {r}, rotations[q].state \in ClosedRotations
        PROVE  /\ keys'[rotations[q].source].state \in {"current", "retired"}
               /\ rotations[q].state = "committed" => keys'[q].state \in {"current", "retired"}
               /\ rotations[q].state = "cancelled" => keys'[q].state = "retired"
    <3>1. rotations[q].source \in Keys /\ q \in Keys
      BY DEF StoreTypeOK, Rotation
    <3> QED BY <1>1, <1>2, <2>1, <3>1 DEF Sound, PastIsSettled
  <2> QED BY <1>2, <1>3, <2>1 DEF Sound, PastIsSettled, ClosedRotations
<1>12. RegisteredFirst'
  BY <1>1, <1>2 DEF Sound, RegisteredFirst
<1> QED
  BY <1>2, <1>3, <1>7, <1>8, <1>10, <1>11, <1>12
     DEF Sound, SnapshotIsVault, TransferCarriesCurrentKey, DeletedIsIdle

\* A cancelled rotation gives up its target and leaves the secrets as they are.
LEMMA CancelIsSound ==
    ASSUME StoreTypeOK, Sound, NEW r \in Rotations, NEW row, Cancel(r, row)
    PROVE  Sound'
<1> USE KeyNumbers
<1>1. r \in Open /\ keys[r].state = "pending"
  BY DEF Cancel, Open
<1>2. /\ keys'[r].state = "retired"
      /\ \A k \in Keys \ {r} : keys'[k] = keys[k]
      /\ UNCHANGED <<live, deks, enrollments>>
  BY <1>1 DEF Cancel, Abandoned, StoreTypeOK
<1>3. /\ rotations'[r].state = "cancelled" /\ rotations'[r].items = {}
      /\ rotations'[r].source = rotations[r].source
      /\ \A q \in Rotations \ {r} : rotations'[q] = rotations[q]
      /\ Open' = {}
  BY <1>1, ClosingRows DEF Cancel, ClosedRotations
<1>4. Current' = Current /\ Stored' = Stored /\ Active(enrollments)' = Active(enrollments)
  BY <1>1, <1>2 DEF Current, Stored, Active
<1>5. WrappersUnderCurrentKey'
  BY <1>1, <1>2, <1>4 DEF Sound, WrappersUnderCurrentKey, Stored, StoreTypeOK, Dek
<1>6. TransferCarriesCurrentKey'
  BY <1>1, <1>4 DEF Sound, TransferCarriesCurrentKey
<1>7. OneLifecycle'
  <2>1. \A k \in Keys : keys[k].state = "pending" => k = r
    BY <1>1 DEF Sound, OneLifecycle
  <2>2. \A k \in Keys : keys'[k].state # "pending"
    BY <1>2, <2>1
  <2> QED BY <1>3, <1>4, <2>2 DEF Sound, OneLifecycle
<1>8. PastIsSettled'
  <2>1. keys[rotations[r].source].state = "current" /\ rotations[r].source # r
    BY <1>1 DEF Sound, OneLifecycle
  <2>2. ASSUME NEW q \in Rotations PROVE rotations[q].source \in Keys /\ q \in Keys
    BY DEF StoreTypeOK, Rotation
  <2>3. ASSUME NEW q \in Rotations \ {r}, rotations[q].state \in ClosedRotations
        PROVE  keys'[rotations[q].source].state \in {"current", "retired"}
    BY <1>1, <1>2, <2>2, <2>3 DEF Sound, PastIsSettled
  <2>4. keys'[rotations[r].source].state = "current"
    BY <1>2, <2>1, <2>2
  <2> QED BY <1>2, <1>3, <2>2, <2>3, <2>4 DEF Sound, PastIsSettled, ClosedRotations
<1>9. RegisteredFirst'
  BY <1>1, <1>2 DEF Sound, RegisteredFirst
<1> QED
  BY <1>2, <1>3, <1>4, <1>5, <1>6, <1>7, <1>8, <1>9
     DEF Sound, SnapshotIsVault, DeletedIsIdle

\* Whatever transaction runs next, the vault stays sound.
LEMMA SoundStep == StoreTypeOK /\ Sound /\ [StoreNext]_storeVars => Sound'
<1> SUFFICES ASSUME StoreTypeOK, Sound, [StoreNext]_storeVars PROVE Sound'
  OBVIOUS
<1>1. CASE SecretStep
  BY <1>1, SecretStepIsSound
<1>2. CASE RotationStep
  BY <1>2, StartIsSound, StageIsSound, CommitIsSound, CancelIsSound DEF RotationStep
<1>3. CASE EnrollmentStep
  BY <1>3, EnrollmentStepIsSound
<1>4. CASE UNCHANGED storeVars
  <2>1. UNCHANGED <<live, keys, deks, rotations>> /\ enrollments' = enrollments
    BY <1>4 DEF storeVars
  <2>2. \A e \in Active(enrollments)' :
            e \in Active(enrollments) /\ enrollments'[e].key = enrollments[e].key
    BY <2>1 DEF Active
  <2> QED BY <2>1, <2>2, EnrollmentsOnly
<1> QED BY <1>1, <1>2, <1>3, <1>4 DEF StoreNext

\* The store never leaves the sound states.
THEOREM StoreIsSound == StoreSpec => []Sound
<1>1. StoreInit => StoreTypeOK /\ Sound
  BY TypeInit, SoundInit
<1>2. StoreTypeOK /\ Sound /\ [StoreNext]_storeVars => (StoreTypeOK /\ Sound)'
  BY TypeStep, SoundStep
<1> QED BY <1>1, <1>2, PTL DEF StoreSpec

-----------------------------------------------------------------------------
(* What follows for every vault *)

\* No sequence of calls leaves a secret that the key in force does not open.
THEOREM SecretsOpenWithCurrentKey == StoreSpec => []WrappersUnderCurrentKey
<1>1. Sound => WrappersUnderCurrentKey
  BY DEF Sound
<1> QED BY <1>1, StoreIsSound, PTL

\* The snapshot of an open rotation is exactly the vault.
THEOREM SnapshotsCoverTheVault == StoreSpec => []SnapshotIsVault
<1>1. Sound => SnapshotIsVault
  BY DEF Sound
<1> QED BY <1>1, StoreIsSound, PTL

\* One key is in force and one rotation at most is open.
THEOREM LifecycleIsSingle == StoreSpec => []OneLifecycle
<1>1. Sound => OneLifecycle
  BY DEF Sound
<1> QED BY <1>1, StoreIsSound, PTL

\* A transfer under way carries the key in force.
THEOREM TransfersAreCurrent == StoreSpec => []TransferCarriesCurrentKey
<1>1. Sound => TransferCarriesCurrentKey
  BY DEF Sound
<1> QED BY <1>1, StoreIsSound, PTL

\* An account whose rotations are over can always be exported.
THEOREM IdleVaultsArePortable == StoreSpec => []IdleIsPortable
<1>1. StoreTypeOK /\ Sound => IdleIsPortable
  <2> SUFFICES ASSUME StoreTypeOK, Sound PROVE IdleIsPortable
    OBVIOUS
  <2>1. ASSUME Open = {} PROVE Portable
    BY <2>1 DEF Sound, PastIsSettled, Open, Portable, ClosedRotations
  <2> QED BY <2>1 DEF Sound, DeletedIsIdle, IdleIsPortable
<1> QED BY <1>1, StoreIsTyped, StoreIsSound, PTL

-----------------------------------------------------------------------------
(* The store implements the abstract vault *)

KeyInForce == IF Current = {} THEN NoKey ELSE CHOOSE k \in Current : TRUE
Spent      == {k \in Keys : keys[k].state = "retired"}
Opens      == [d \in Deks |-> deks[d].blob]

\* The key in force is the current key.
LEMMA CurrentIsInForce ==
    ASSUME OneLifecycle, NEW k \in Current
    PROVE  KeyInForce = k /\ Current = {k}
<1>1. \A j \in Current : j = k
  BY DEF OneLifecycle
<1> QED BY <1>1 DEF KeyInForce

\* The same after the step.
LEMMA CurrentIsInForceNext ==
    ASSUME NEW k, Current' = {k}
    PROVE  KeyInForce' = k
BY DEF KeyInForce

\* A step that neither puts keys in force or out of it nor touches a secret is
\* a stutter of the abstract vault.
LEMMA NothingHappens ==
    ASSUME Current' = Current, Spent' = Spent, deks' = deks
    PROVE  UNCHANGED <<KeyInForce, Spent, Opens>>
BY DEF KeyInForce, Opens

\* What the vault does, with its variables replaced.
VaultStep ==
    \/ KeyInForce = NoKey /\ KeyInForce' \in Keys /\ UNCHANGED <<Spent, Opens>>
    \/ \E k \in Keys :
         /\ KeyInForce # NoKey /\ k \notin Spent \cup {KeyInForce}
         /\ KeyInForce' = k /\ Spent' = Spent \cup {KeyInForce}
         /\ Opens' = [d \in Deks |-> IF Opens[d] = NoKey THEN NoKey ELSE k]
    \/ \E k \in Keys :
         /\ k \notin Spent \cup {KeyInForce} /\ Spent' = Spent \cup {k}
         /\ UNCHANGED <<KeyInForce, Opens>>
    \/ \E d \in Deks :
         /\ KeyInForce # NoKey /\ Opens[d] = NoKey
         /\ Opens' = [Opens EXCEPT ![d] = KeyInForce] /\ UNCHANGED <<KeyInForce, Spent>>
    \/ \E d \in Deks :
         Opens' = [Opens EXCEPT ![d] = NoKey] /\ UNCHANGED <<KeyInForce, Spent>>
    \/ UNCHANGED <<KeyInForce, Spent, Opens>>

\* Every transaction is a step of the abstract vault or none: a commit its
\* rotation, a cancellation the discarding of a key.
LEMMA StepImplements == StoreTypeOK /\ Sound /\ [StoreNext]_storeVars => VaultStep
<1> SUFFICES ASSUME StoreTypeOK, Sound, [StoreNext]_storeVars PROVE VaultStep
  OBVIOUS
<1> USE KeyNumbers
<1>1. CASE RegisterVaultKey
  <2>1. \A k \in Keys : keys[k].state = "absent"
    BY <1>1 DEF RegisterVaultKey, Sound, RegisteredFirst
  <2>2. keys' = FirstKey /\ UNCHANGED deks /\ Current = {}
    BY <1>1 DEF RegisterVaultKey
  <2>3. keys'[0].state = "current" /\ \A k \in Keys \ {0} : keys'[k].state = "absent"
    BY <2>2 DEF FirstKey, NoKeys
  <2>4. Current' = {0} /\ Spent = {} /\ Spent' = {}
    BY <2>1, <2>3 DEF Current, Spent
  <2>5. KeyInForce = NoKey /\ KeyInForce' = 0
    BY <2>2, <2>4, CurrentIsInForceNext DEF KeyInForce
  <2> QED BY <2>2, <2>4, <2>5 DEF VaultStep, Opens
<1>2. ASSUME NEW d \in Deks, NEW k \in Keys, CreateSecret(d, k) PROVE VaultStep
  <2>1. /\ k \in Current /\ deks[d] = NoDek /\ keys' = keys
        /\ deks' = [deks EXCEPT ![d] = [meta |-> k, blob |-> k]]
    BY <1>2 DEF CreateSecret, SealedUnderCurrent, Current
  <2>2. KeyInForce = k /\ k # NoKey /\ UNCHANGED <<KeyInForce, Spent>>
    BY <2>1, CurrentIsInForce DEF Sound, KeyInForce, Current, Spent
  <2>3. Opens[d] = NoKey /\ Opens' = [Opens EXCEPT ![d] = k]
    <3>1. deks[d].blob = NoKey
      BY <2>1 DEF NoDek
    <3>2. \A c \in Deks : deks'[c].blob = IF c = d THEN k ELSE deks[c].blob
      BY <2>1 DEF StoreTypeOK
    <3> QED BY <3>1, <3>2 DEF Opens
  <2> QED BY <2>2, <2>3 DEF VaultStep
<1>3. ASSUME NEW d \in Deks, DeleteSecret(d) PROVE VaultStep
  <2>1. keys' = keys /\ deks' = [deks EXCEPT ![d] = NoDek]
    BY <1>3 DEF DeleteSecret, Purged
  <2>2. UNCHANGED <<KeyInForce, Spent>>
    BY <2>1 DEF KeyInForce, Current, Spent
  <2>3. Opens' = [Opens EXCEPT ![d] = NoKey]
    BY <2>1 DEF Opens, NoDek, StoreTypeOK
  <2> QED BY <2>2, <2>3 DEF VaultStep
<1>4. ASSUME NEW r \in Rotations, NEW k \in Keys, Start(r, k) PROVE VaultStep
  <2>1. /\ keys[r].state = "absent" /\ keys'[r].state = "pending" /\ deks' = deks
        /\ \A j \in Keys \ {r} : keys'[j] = keys[j]
    BY <1>4 DEF Start, StoreTypeOK
  <2>2. Current' = Current /\ Spent' = Spent
    BY <2>1 DEF Current, Spent
  <2> QED BY <2>1, <2>2, NothingHappens DEF VaultStep
<1>5. ASSUME NEW r \in Rotations, NEW row, NEW count, NEW mode, Commit(r, row, count, mode)
      PROVE  VaultStep
  <2> DEFINE src == rotations[r].source
  <2>1. /\ r \in Open /\ src \in Keys /\ src # r
        /\ keys[src].state = "current" /\ keys[r].state = "pending"
    BY <1>5 DEF Commit, Open, StoreTypeOK, Rotation
  <2>2. /\ keys'[src].state = "retired" /\ keys'[r].state = "current"
        /\ \A k \in Keys \ {src, r} : keys'[k] = keys[k]
    BY <1>5, <2>1 DEF Commit, StoreTypeOK
  <2>3. src \in Current /\ KeyInForce = src /\ Current = {src}
    BY <2>1, CurrentIsInForce DEF Sound, Current
  <2>4. Current' = {r} /\ KeyInForce' = r
    <3>1. \A k \in Keys : keys'[k].state = "current" <=> k = r
      BY <2>1, <2>2, <2>3 DEF Current
    <3>2. Current' = {r}
      BY <2>1, <3>1 DEF Current
    <3> QED BY <3>2, CurrentIsInForceNext
  <2>5. Spent' = Spent \cup {src}
    BY <2>1, <2>2 DEF Spent
  <2>6. Sound'
    BY <1>5, CommitIsSound
  <2>7. Opens' = [d \in Deks |-> IF Opens[d] = NoKey THEN NoKey ELSE r]
    <3>1. rotations[r].items = Stored
      BY <2>1 DEF Sound, SnapshotIsVault
    <3>2. deks' = Rewrapped(r)
      BY <1>5 DEF Commit
    <3>3. Stored' = Stored
      BY <3>1, <3>2 DEF Rewrapped, Stored, NoDek
    <3>4. ASSUME NEW d \in Stored PROVE deks'[d].blob = r /\ deks[d].blob # NoKey
      <4>1. deks'[d].blob = deks'[d].meta /\ keys'[deks'[d].meta].state = "current"
        BY <2>6, <3>3 DEF Sound, WrappersUnderCurrentKey
      <4>2. deks'[d].meta = r
        BY <3>1, <3>2 DEF Rewrapped, Stored
      <4>3. deks[d].blob = deks[d].meta /\ deks[d].meta \in Keys
        BY DEF Sound, WrappersUnderCurrentKey, Stored, StoreTypeOK, Dek
      <4> QED BY <4>1, <4>2, <4>3
    <3>5. ASSUME NEW d \in Deks \ Stored PROVE deks'[d].blob = NoKey /\ deks[d].blob = NoKey
      BY <3>1, <3>2 DEF Rewrapped, Stored, NoDek
    <3> QED BY <3>4, <3>5 DEF Opens
  <2>8. KeyInForce # NoKey /\ r \notin Spent \cup {KeyInForce}
    BY <2>1, <2>3 DEF Spent
  <2> QED BY <2>3, <2>4, <2>5, <2>7, <2>8 DEF VaultStep
<1>6. ASSUME NEW r \in Rotations, NEW row, Cancel(r, row) PROVE VaultStep
  <2>1. /\ keys[r].state = "pending" /\ keys'[r].state = "retired" /\ deks' = deks
        /\ \A k \in Keys \ {r} : keys'[k] = keys[k]
    BY <1>6 DEF Cancel, Abandoned, StoreTypeOK
  <2>2. Current' = Current /\ Spent' = Spent \cup {r} /\ r \notin Spent
    BY <2>1 DEF Current, Spent
  <2>3. r # KeyInForce
    <3>1. \A k \in Current : k # r
      BY <2>1 DEF Current
    <3> QED BY <3>1 DEF KeyInForce
  <2>4. UNCHANGED <<KeyInForce, Opens>>
    BY <2>1, <2>2 DEF KeyInForce, Opens
  <2> QED BY <2>2, <2>3, <2>4 DEF VaultStep
<1>7. CASE keys' = keys /\ deks' = deks
  <2>1. Current' = Current /\ Spent' = Spent
    BY <1>7 DEF Current, Spent
  <2> QED BY <1>7, <2>1, NothingHappens DEF VaultStep
<1>8. CASE DeleteAgent \/ EnrollmentStep \/ UNCHANGED storeVars
  BY <1>7, <1>8
     DEF DeleteAgent, EnrollmentStep, CreateVaultKeyEnrollment, ApproveVaultKeyEnrollment,
         AccessVaultKeyEnrollmentTransfer, ConsumeVaultKeyEnrollment,
         CancelVaultKeyEnrollment, ComeDue, ListVaultKeyEnrollments, storeVars
<1>9. ASSUME NEW r \in Rotations, NEW row, NEW batch, Stage(r, row, batch) PROVE VaultStep
  BY <1>7, <1>9 DEF Stage
<1> QED
  BY <1>1, <1>2, <1>3, <1>4, <1>5, <1>6, <1>8, <1>9 DEF StoreNext, SecretStep, RotationStep

\* A vault without keys is the abstract vault before its first key.
LEMMA InitImplements ==
    StoreInit => KeyInForce = NoKey /\ Spent = {} /\ Opens = [d \in Deks |-> NoKey]
BY DEF StoreInit, NoKeys, KeyInForce, Current, Spent, Opens, NoDek

\* Whatever the calls, every stored secret opens with the one key in force, a
\* rotation moves all of them at once, and a key given up never returns.
THEOREM StoreImplementsVault == StoreSpec => ImplementsVault
<1>1. StoreInit => Vault!Init
  BY InitImplements DEF Vault!Init, KeyInForce, Spent, Opens
<1>2. VaultStep => [Vault!Next]_(Vault!vars)
  BY KeyNumbers
     DEF VaultStep, KeyInForce, Spent, Opens, Vault!Next, Vault!vars, Vault!Begin,
         Vault!Rotate, Vault!Discard, Vault!Seal, Vault!Drop
<1>3. StoreTypeOK /\ Sound /\ [StoreNext]_storeVars => [Vault!Next]_(Vault!vars)
  BY <1>2, StepImplements
<1> QED
  BY <1>1, <1>3, StoreIsTyped, StoreIsSound, PTL DEF StoreSpec, ImplementsVault, Vault!Spec
=============================================================================
