--------------------------- MODULE VaultKeyStore ---------------------------
(***************************************************************************)
(* The key lifecycle of one agent's sealed vault in the store:             *)
(* internal/store/vault_key_rotation_mutation.go, vault_enrollment.go and  *)
(* the parts of secret_mutation.go, agent.go and export.go that read or    *)
(* write it.  The server never holds a key: a key is a name, a wrapped     *)
(* data-encryption key (DEK) is a row that names the key wrapping it.      *)
(*                                                                         *)
(* Every transaction of the lifecycle locks the agent's row first, so a    *)
(* transaction is one action.  What reaches the server is arbitrary: any   *)
(* call may arrive in any order, with the row version it was built from.   *)
(*                                                                         *)
(* Left out: calls repeated with their idempotency key, which return the   *)
(* recorded receipt; the plan hash, a function of the staged items, which  *)
(* change only with the row version; the row versions of keys and DEKs,    *)
(* which change only with the key in force; archiving; quotas; events.     *)
(***************************************************************************)
EXTENDS Integers, FiniteSets

CONSTANTS
    Deks,          \* data-encryption keys that may be created
    MaxRotations,  \* bound: rotations that may be started
    Enrollments,   \* enrollments that may be requested
    MaxActive,     \* maxActiveVaultEnrollments
    Locations,     \* installations of the agent
    Dispositions   \* recovery dispositions a commit may carry

ASSUME VaultAssumption ==
    /\ IsFiniteSet(Deks)
    /\ {MaxRotations, MaxActive} \subseteq Nat
    /\ Dispositions \subseteq {"artifact", "risk"}

VARIABLES
    live,         \* the agent is not deleted
    keys,         \* agent_vault_keys
    deks,         \* secret_deks
    rotations,    \* agent_vault_key_rotations and their items
    enrollments   \* agent_vault_key_enrollments

storeVars == <<live, keys, deks, rotations, enrollments>>

-----------------------------------------------------------------------------
(* Rows.  Rotation r targets the key r; the key 0 is the registered one. *)

Rotations == 1 .. MaxRotations
Keys      == 0 .. MaxRotations
NoKey     == -1

KeyStates        == {"absent", "pending", "current", "retired"}
RotationStates   == {"absent", "open", "committed", "cancelled"}
ClosedRotations  == {"committed", "cancelled"}
ActiveEnrollment == {"pending", "approved"}
EnrollmentStates == {"absent", "consumed", "cancelled", "expired"} \cup ActiveEnrollment

Dek   == [meta: Keys, blob: Keys \cup {NoKey}]
NoDek == [meta |-> NoKey, blob |-> NoKey]

Rotation == [state: RotationStates, source: Keys, items: SUBSET Deks, staged: SUBSET Deks,
             itemCount: Nat, stagedCount: Nat, row: Nat, mode: Dispositions \cup {"none"}]

Nowhere    == "nowhere"
Enrollment == [state: EnrollmentStates, key: Keys, to: Locations \cup {Nowhere},
               from: Locations \cup {Nowhere}, due: BOOLEAN]

StoreTypeOK ==
    /\ live \in BOOLEAN
    /\ keys \in [Keys -> [state: KeyStates, version: Nat]]
    /\ deks \in [Deks -> Dek \cup {NoDek}]
    /\ rotations \in [Rotations -> Rotation]
    /\ enrollments \in [Enrollments -> Enrollment]

NoKeys == [k \in Keys |-> [state |-> "absent", version |-> 0]]

NoLifecycle ==
    /\ live = TRUE
    /\ rotations = [r \in Rotations |->
           [state |-> "absent", source |-> 0, items |-> {}, staged |-> {},
            itemCount |-> 0, stagedCount |-> 0, row |-> 0, mode |-> "none"]]
    /\ enrollments = [e \in Enrollments |->
           [state |-> "absent", key |-> 0, to |-> Nowhere, from |-> Nowhere, due |-> FALSE]]

StoreInit == NoLifecycle /\ keys = NoKeys /\ deks = [d \in Deks |-> NoDek]

Stored        == {d \in Deks : deks[d] # NoDek}
Current       == {k \in Keys : keys[k].state = "current"}
Open          == {r \in Rotations : rotations[r].state = "open"}
Active(table) == {e \in Enrollments : table[e].state \in ActiveEnrollment}

\* Enrollments as every transaction of their lifecycle leaves them first.
Swept == [e \in Enrollments |->
    IF enrollments[e].state \in ActiveEnrollment /\ enrollments[e].due
    THEN [enrollments[e] EXCEPT !.state = "expired"] ELSE enrollments[e]]

-----------------------------------------------------------------------------
(* Keys and secrets *)

FirstKey == [NoKeys EXCEPT ![0] = [state |-> "current", version |-> 1]]

RegisterVaultKey ==
    /\ live /\ Current = {} /\ keys[0].state = "absent"
    /\ keys' = FirstKey
    /\ UNCHANGED <<live, deks, rotations, enrollments>>

NoRotationStaged == \A r \in Open : rotations[r].stagedCount = 0

\* ensureNoOpenVaultKeyRotationTx
NoOpenRotation == Open = {}

SealedUnderKnown(k) == keys[k].state # "absent"

SealedUnderCurrent(k) == keys[k].state = "current"

Purged(d) == [deks EXCEPT ![d] = NoDek]

\* A secret whose DEK the caller wrapped under k.
CreateSecret(d, k) ==
    /\ live /\ deks[d] = NoDek
    /\ NoOpenRotation
    /\ SealedUnderCurrent(k)
    /\ deks' = [deks EXCEPT ![d] = [meta |-> k, blob |-> k]]
    /\ UNCHANGED <<live, keys, rotations, enrollments>>

DeleteSecret(d) ==
    /\ live /\ d \in Stored
    /\ NoOpenRotation
    /\ deks' = Purged(d)
    /\ UNCHANGED <<live, keys, rotations, enrollments>>

-----------------------------------------------------------------------------
(* Rotation *)

NoApprovedTransfer == \A e \in Enrollments : Swept[e].state # "approved"

\* ensureNoActiveVaultKeyEnrollmentTx
NoActiveTransfer == Active(Swept) = {}

Start(r, k) ==
    /\ live /\ rotations[r].state = "absent"
    /\ NoActiveTransfer
    /\ Open = {}
    /\ keys[k].state = "current" /\ keys[r].state = "absent"
    /\ \A d \in Stored : deks[d].meta = k
    /\ keys' = [keys EXCEPT ![r] = [state |-> "pending", version |-> keys[k].version + 1]]
    /\ rotations' = [rotations EXCEPT ![r] =
           [state |-> "open", source |-> k, items |-> Stored, staged |-> {},
            itemCount |-> Cardinality(Stored), stagedCount |-> 0, row |-> 1, mode |-> "none"]]
    /\ enrollments' = Swept
    /\ UNCHANGED <<live, deks>>

\* Wrappers made under the target for the items of one batch, none of them
\* staged before; an item staged with another wrapper refuses the batch.
Stage(r, row, batch) ==
    LET rot == rotations[r] IN
    /\ live /\ rot.state = "open" /\ rot.row = row
    /\ batch # {} /\ batch \subseteq rot.items \ rot.staged
    /\ \A d \in batch : deks[d].meta = rot.source
    /\ rotations' = [rotations EXCEPT ![r].staged = @ \cup batch,
                                      ![r].stagedCount = @ + Cardinality(batch),
                                      ![r].row = @ + 1]
    /\ UNCHANGED <<live, keys, deks, enrollments>>

Renamed(r) == [d \in Deks |->
    IF d \in rotations[r].items THEN [deks[d] EXCEPT !.meta = r] ELSE deks[d]]

\* The staged wrappers replace the snapshotted ones.
Rewrapped(r) == [d \in Deks |->
    IF d \in rotations[r].items
    THEN [meta |-> r, blob |-> IF d \in rotations[r].staged THEN r ELSE NoKey] ELSE deks[d]]

ClosedInPlace(r, state, mode) ==
    [rotations EXCEPT ![r].state = state, ![r].row = @ + 1, ![r].mode = mode]

\* A rotation that is over keeps its counts and loses its items.
Closed(r, state, mode) ==
    [rotations EXCEPT ![r].state = state, ![r].row = @ + 1, ![r].mode = mode,
                      ![r].items = {}, ![r].staged = {}]

Commit(r, row, count, mode) ==
    LET rot == rotations[r] IN
    /\ live /\ rot.state = "open" /\ rot.row = row
    /\ rot.itemCount = count /\ rot.stagedCount = rot.itemCount
    /\ keys[rot.source].state = "current" /\ keys[r].state = "pending"
    /\ Cardinality({d \in rot.items : d \in Stored}) = rot.itemCount
    /\ Cardinality({d \in rot.staged : deks[d].meta = rot.source}) = rot.itemCount
    /\ deks' = Rewrapped(r)
    /\ keys' = [keys EXCEPT ![rot.source].state = "retired", ![r].state = "current"]
    /\ rotations' = Closed(r, "committed", mode)
    /\ UNCHANGED <<live, enrollments>>

LeftPending(r) == keys

Abandoned(r) == [keys EXCEPT ![r].state = "retired"]

\* A safety write: allowed to a suspended account too.
Cancel(r, row) ==
    /\ live /\ rotations[r].state = "open" /\ rotations[r].row = row
    /\ keys[r].state = "pending"
    /\ keys' = Abandoned(r)
    /\ rotations' = Closed(r, "cancelled", "none")
    /\ UNCHANGED <<live, deks, enrollments>>

-----------------------------------------------------------------------------
(* Enrollment of another installation *)

CreateVaultKeyEnrollment(e, to) ==
    /\ live /\ enrollments[e].state = "absent"
    /\ NoOpenRotation
    /\ Cardinality(Active(Swept)) < MaxActive
    /\ \E k \in Current :
           enrollments' = [Swept EXCEPT ![e] = [@ EXCEPT !.state = "pending", !.key = k, !.to = to]]
    /\ UNCHANGED <<live, keys, deks, rotations>>

ApproveVaultKeyEnrollment(e, from) ==
    /\ live /\ NoOpenRotation
    /\ Swept[e].state = "pending" /\ Swept[e].to # from
    /\ keys[Swept[e].key].state = "current"
    /\ enrollments' = [Swept EXCEPT ![e] = [@ EXCEPT !.state = "approved", !.from = from]]
    /\ UNCHANGED <<live, keys, deks, rotations>>

\* Returns the sealed transfer to the target; it takes no lock and writes only
\* the sweep.
AccessVaultKeyEnrollmentTransfer(e) ==
    /\ Swept[e].state = "approved"
    /\ enrollments' = Swept
    /\ UNCHANGED <<live, keys, deks, rotations>>

\* The reads of one enrollment and of all sweep too, and so does an export.
ListVaultKeyEnrollments ==
    /\ enrollments' = Swept
    /\ UNCHANGED <<live, keys, deks, rotations>>

ConsumeVaultKeyEnrollment(e) ==
    /\ live /\ NoOpenRotation
    /\ Swept[e].state = "approved"
    /\ enrollments' = [Swept EXCEPT ![e].state = "consumed"]
    /\ UNCHANGED <<live, keys, deks, rotations>>

CancelVaultKeyEnrollment(e) ==
    /\ live /\ Swept[e].state \in ActiveEnrollment
    /\ enrollments' = [Swept EXCEPT ![e].state = "cancelled"]
    /\ UNCHANGED <<live, keys, deks, rotations>>

\* expires_at passes.
ComeDue(e) ==
    /\ enrollments[e].state \in ActiveEnrollment /\ ~enrollments[e].due
    /\ enrollments' = [enrollments EXCEPT ![e].due = TRUE]
    /\ UNCHANGED <<live, keys, deks, rotations>>

-----------------------------------------------------------------------------
(* The agent *)

\* An enrollment that is due and not swept still counts.
DeleteAgent ==
    /\ live
    /\ Active(enrollments) = {} /\ Open = {}
    /\ \A k \in Keys : keys[k].state # "pending"
    /\ live' = FALSE
    /\ UNCHANGED <<keys, deks, rotations, enrollments>>

\* What an export requires of the closed lifecycle it archives.
Portable == \A r \in Rotations :
    /\ rotations[r].items = {}
    /\ rotations[r].state \in ClosedRotations => keys[rotations[r].source].state # "pending"
    /\ rotations[r].state = "committed" =>
           keys[r].state # "pending" /\ rotations[r].stagedCount = rotations[r].itemCount
    /\ rotations[r].state = "cancelled" => keys[r].state = "retired"

-----------------------------------------------------------------------------
SecretStep ==
    \/ RegisterVaultKey \/ DeleteAgent
    \/ \E d \in Deks : DeleteSecret(d) \/ \E k \in Keys : CreateSecret(d, k)

RotationStep == \E r \in Rotations :
    \/ \E k \in Keys : Start(r, k)
    \/ \E row \in 1 .. Cardinality(Deks) + 1 :
           \/ \E batch \in SUBSET Deks : Stage(r, row, batch)
           \/ \E count \in 0 .. Cardinality(Deks), mode \in Dispositions : Commit(r, row, count, mode)
           \/ Cancel(r, row)

EnrollmentStep == \E e \in Enrollments :
    \/ \E l \in Locations : CreateVaultKeyEnrollment(e, l) \/ ApproveVaultKeyEnrollment(e, l)
    \/ AccessVaultKeyEnrollmentTransfer(e) \/ ConsumeVaultKeyEnrollment(e)
    \/ CancelVaultKeyEnrollment(e) \/ ComeDue(e) \/ ListVaultKeyEnrollments

StoreNext == SecretStep \/ RotationStep \/ EnrollmentStep

StoreSpec == StoreInit /\ [][StoreNext]_storeVars

-----------------------------------------------------------------------------
(* Properties *)

\* Every stored secret names the key in force and opens with it: a commit
\* moves all of them or none, and no secret sealed under an older key is
\* stored after the flip or slips into the vault while a rotation is open.
WrappersUnderCurrentKey ==
    \A d \in Stored : keys[deks[d].meta].state = "current" /\ deks[d].blob = deks[d].meta

\* The snapshot of an open rotation stays exactly the stored secrets, so a
\* plan fully staged covers the vault.
SnapshotIsVault == \A r \in Open :
    /\ rotations[r].items = Stored
    /\ rotations[r].itemCount = Cardinality(Stored)
    /\ rotations[r].staged \subseteq rotations[r].items
    /\ rotations[r].stagedCount = Cardinality(rotations[r].staged)

\* One key is in force, one rotation is open, and a key is pending exactly
\* while the open rotation targets it: nothing is left to strand an export.
OneLifecycle ==
    /\ \A j, k \in Current : j = k
    /\ \A q, r \in Open : q = r
    /\ \A k \in Keys : keys[k].state = "pending" <=> k \in Open
    /\ \A r \in Open : keys[rotations[r].source].state = "current"

\* A transfer under way carries the key in force, and no rotation is open
\* that could make it stale before the other installation has it.
TransferCarriesCurrentKey == \A e \in Active(enrollments) :
    keys[enrollments[e].key].state = "current" /\ Open = {}

\* A vault with no lifecycle in progress is one the export accepts, and a
\* deleted agent never leaves a lifecycle only it could have ended.
IdleIsPortable ==
    /\ Open = {} => Portable
    /\ ~live => Open = {} /\ Active(enrollments) = {}

\* The store implements the vault of EpochVault.
Vault == INSTANCE EpochVault WITH
    key   <- IF Current = {} THEN NoKey ELSE CHOOSE k \in Current : TRUE,
    spent <- {k \in Keys : keys[k].state = "retired"},
    opens <- [d \in Deks |-> deks[d].blob]

ImplementsVault == Vault!Spec
=============================================================================
