--------------------------- MODULE VaultRotation ---------------------------
(***************************************************************************)
(* The installations that hold an agent's vault keys rotate them, over     *)
(* VaultKeyStore: internal/secretclient (rotation.go, rotation_recovery.go,*)
(* enrollment.go) and the intent file of                                   *)
(* internal/local/vault_rotation_intent.go, as the vault commands of       *)
(* cmd/witself drive them.                                                 *)
(*                                                                         *)
(* A location keeps key files and one intent file, which survive a crash.  *)
(* A process runs a command at a location, one remote call or one file     *)
(* write at a time, and may stop anywhere: an error the code returns is a  *)
(* stop.  A request that gets no answer may have been served, may never    *)
(* be, or stays in flight and is served at any later time.                 *)
(*                                                                         *)
(* Left out: the contents of keys and wrappers (an item is wrapped under   *)
(* the target or it is not), the checks that a row has the shape and the   *)
(* identity the caller expects, pages, and the limit of three attempts,    *)
(* after which a command stops; the first registration, secrets created or *)
(* deleted and the store's side of enrollments, which VaultKeyStore has    *)
(* under arbitrary calls.                                                  *)
(***************************************************************************)
EXTENDS VaultKeyStore

CONSTANTS
    Procs,     \* commands that may run at the same time
    Home,      \* the location that holds the first key
    LateOps,   \* bound: requests that may stay in flight without a caller
    MaxBusy    \* bound: commands and late requests under way

ASSUME LocationAssumption ==
    /\ Home \in Locations
    /\ MaxBusy \in Nat
    /\ LateOps \subseteq {"start", "stage", "commit", "cancel"}

VARIABLES
    epochs,     \* key files of a location
    intent,     \* rotation intent file of a location
    proc,       \* a running command
    late,       \* requests whose caller has given up waiting
    artifacts   \* keys with a recovery artifact

clientVars == <<epochs, intent, proc, late, artifacts>>
vars == <<storeVars, clientVars>>

-----------------------------------------------------------------------------
(* Files, processes and requests *)

Intent   == [rot: Rotations, source: Keys, prepared: BOOLEAN]
NoIntent == [rot |-> 0, source |-> 0, prepared |-> FALSE]

\* Steps of a rotate command and of a cancel command, in order.
RotateSteps == {"resolve", "open", "observe_key", "prepare", "create", "lookup", "current",
                "advanced", "retire", "reopen", "replace", "start", "restart", "work", "stage",
                "refresh", "recover", "commit", "observe"}
CancelSteps == {"cancel_lookup", "cancel_open", "cancel_replace", "cancel_adopt", "cancel",
                "cancel_observe"}
Steps       == {"idle", "ack"} \cup RotateSteps \cup CancelSteps

\* at: where the command runs; want: the intent it works from; rot, row, state:
\* its last view of the rotation; seen: the key it saw in force; again: a
\* request was repeated.
Proc == [at: Locations, pc: Steps, want: Intent \cup {NoIntent}, rot: 0 .. MaxRotations,
         row: Nat, state: RotationStates, seen: Keys, mode: Dispositions \cup {"none"},
         again: BOOLEAN]
Idle == [at |-> Home, pc |-> "idle", want |-> NoIntent, rot |-> 0, row |-> 0, state |-> "absent",
         seen |-> 0, mode |-> "none", again |-> FALSE]

Request ==
    [op: {"start"}, rot: Rotations, source: Keys]
    \cup [op: {"stage"}, rot: Rotations, row: Nat, batch: SUBSET Deks]
    \cup [op: {"commit"}, rot: Rotations, row: Nat, count: Nat, mode: Dispositions]
    \cup [op: {"cancel"}, rot: Rotations, row: Nat]

TypeOK ==
    /\ StoreTypeOK
    /\ epochs \in [Locations -> SUBSET Keys]
    /\ intent \in [Locations -> Intent \cup {NoIntent}]
    /\ proc \in [Procs -> Proc]
    /\ late \subseteq Request
    /\ artifacts \subseteq Keys

Init ==
    /\ NoLifecycle
    /\ keys = FirstKey /\ deks = [d \in Deks |-> [meta |-> 0, blob |-> 0]]
    /\ epochs = [l \in Locations |-> IF l = Home THEN {0} ELSE {}]
    /\ intent = [l \in Locations |-> NoIntent]
    /\ proc = [p \in Procs |-> Idle]
    /\ late = {}
    /\ artifacts = {}

Serve(q) ==
    \/ q.op = "start"  /\ Start(q.rot, q.source)
    \/ q.op = "stage"  /\ Stage(q.rot, q.row, q.batch)
    \/ q.op = "commit" /\ Commit(q.rot, q.row, q.count, q.mode)
    \/ q.op = "cancel" /\ Cancel(q.rot, q.row)

\* A row of the rotation as a read or a reply shows it.
View(p, step) == [proc[p] EXCEPT !.pc = step]
Saw(p, step, r) ==
    [Idle EXCEPT !.at = proc[p].at, !.pc = step, !.rot = r,
                 !.row = rotations[r].row, !.state = rotations[r].state]
SawInstead(p, step, r) == [Saw(p, step, r) EXCEPT !.want = proc[p].want]
Replied(p, step, r) ==
    [Idle EXCEPT !.at = proc[p].at, !.pc = step, !.mode = proc[p].mode,
                 !.rot = r, !.row = rotations'[r].row, !.state = rotations'[r].state]
Over(p, r) == [Idle EXCEPT !.at = proc[p].at, !.pc = "ack", !.rot = r]

AdoptedNow(r) == [rot |-> r, source |-> CHOOSE k \in Current : TRUE, prepared |-> FALSE]

\* The intent that names a rotation found in the store.
Adopted(r) == [rot |-> r, source |-> rotations[r].source, prepared |-> FALSE]

Cleared(l) == [intent EXCEPT ![l] = NoIntent]

OnlyEpoch(l, k) == [epochs EXCEPT ![l] = {k}]

\* Every key has a file of its own.
WithEpoch(l, k) == [epochs EXCEPT ![l] = @ \cup {k}]

Matches(i, r) == i.rot = r /\ i.source = rotations[r].source

Moves(p, q)  == proc' = [proc EXCEPT ![p] = q]
OnlyMoves(p, q) ==
    Moves(p, q) /\ UNCHANGED <<storeVars, epochs, intent, late, artifacts>>

Room == Cardinality({p \in Procs : proc[p] # Idle}) + Cardinality(late) < MaxBusy

\* A mutation q that goes to `answered` with its reply and to `silent`
\* without one: refused, served with the reply lost, or still in flight.
Call(p, q, answered, silent) ==
    /\ UNCHANGED <<epochs, intent, artifacts>>
    /\ \/ Serve(q) /\ Moves(p, Replied(p, answered, q.rot)) /\ UNCHANGED late
       \/ Serve(q) /\ Moves(p, View(p, silent)) /\ UNCHANGED late
       \/ Moves(p, View(p, silent)) /\ UNCHANGED <<storeVars, late>>
       \/ /\ q.op \in LateOps /\ Room
          /\ late' = late \cup {q} /\ Moves(p, View(p, silent)) /\ UNCHANGED storeVars

\* An idempotency key lets a late request that was already served change
\* nothing; it is then simply dropped.
DeliverLate(q) ==
    /\ q \in late
    /\ Serve(q) \/ UNCHANGED storeVars
    /\ late' = late \ {q}
    /\ UNCHANGED <<epochs, intent, proc, artifacts>>

\* A crash, or any error the command returns.
Stop(p) == proc[p].pc # "idle" /\ OnlyMoves(p, Idle)

-----------------------------------------------------------------------------
(* The rotate command *)

BeginRotate(p) ==
    /\ proc[p] = Idle /\ Room
    /\ \E l \in Locations : OnlyMoves(p, [View(p, "resolve") EXCEPT !.at = l])

ResolveIntent(p) ==
    /\ proc[p].pc = "resolve"
    /\ LET i == intent[proc[p].at] IN
       OnlyMoves(p, [View(p, IF i = NoIntent THEN "open" ELSE "lookup") EXCEPT !.want = i])

FindOpen(p) ==
    /\ proc[p].pc = "open"
    /\ \/ \E r \in Open : OnlyMoves(p, [View(p, "create") EXCEPT !.want = Adopted(r)])
       \/ Open = {} /\ OnlyMoves(p, View(p, "observe_key"))

ObserveKey(p) ==
    /\ proc[p].pc = "observe_key"
    /\ \E k \in Current \cap epochs[proc[p].at] : OnlyMoves(p, [View(p, "prepare") EXCEPT !.seen = k])

\* The target, a key made now, has its file before the intent names it.
PrepareIntent(p) ==
    /\ proc[p].pc = "prepare"
    /\ \E r \in Rotations :
           /\ \A l \in Locations : r \notin epochs[l]
           /\ epochs' = WithEpoch(proc[p].at, r)
           /\ Moves(p, [View(p, "create") EXCEPT
                           !.want = [rot |-> r, source |-> proc[p].seen, prepared |-> TRUE]])
    /\ UNCHANGED <<storeVars, intent, late, artifacts>>

CreateIntent(p) ==
    /\ proc[p].pc = "create"
    /\ IF intent[proc[p].at] = NoIntent
       THEN /\ intent' = [intent EXCEPT ![proc[p].at] = proc[p].want]
            /\ Moves(p, View(p, "lookup"))
       ELSE UNCHANGED intent /\ Moves(p, [View(p, "resolve") EXCEPT !.want = NoIntent])
    /\ UNCHANGED <<storeVars, epochs, late, artifacts>>

Lookup(p) ==
    /\ proc[p].pc = "lookup"
    /\ LET i == proc[p].want IN
       \/ rotations[i.rot].state # "absent" /\ Matches(i, i.rot) /\ OnlyMoves(p, Saw(p, "work", i.rot))
       \/ /\ rotations[i.rot].state = "absent" /\ i.prepared
          /\ {i.source, i.rot} \subseteq epochs[proc[p].at]
          /\ OnlyMoves(p, View(p, "current"))

\* The key in force may have moved on without the prepared rotation.
CompareCurrent(p) ==
    /\ proc[p].pc = "current"
    /\ \E k \in Current :
       \/ k = proc[p].want.source /\ OnlyMoves(p, View(p, "reopen"))
       \/ /\ keys[k].version > keys[proc[p].want.source].version
          /\ OnlyMoves(p, [View(p, "advanced") EXCEPT !.seen = k])

Advanced(p) ==
    /\ proc[p].pc = "advanced"
    /\ \/ \E r \in Open : rotations[r].source = proc[p].seen /\ OnlyMoves(p, SawInstead(p, "replace", r))
       \/ Open = {} /\ OnlyMoves(p, View(p, "retire"))

\* The prepared intent gives way to the rotation that was found open, which
\* may be over by now; only while the file still is that intent.
Replace(p) ==
    LET v == proc[p] l == proc[p].at IN
    /\ v.pc \in {"replace", "cancel_replace"}
    /\ \/ intent[l] = v.want /\ intent' = [intent EXCEPT ![l] = Adopted(v.rot)]
       \/ intent[l] # v.want /\ Matches(intent[l], v.rot) /\ UNCHANGED intent
    /\ Moves(p, [v EXCEPT !.pc = IF v.pc = "replace" THEN "work" ELSE "cancel_adopt",
                          !.want = NoIntent])
    /\ UNCHANGED <<storeVars, epochs, late, artifacts>>

Retire(p) ==
    /\ proc[p].pc = "retire" /\ intent[proc[p].at] = proc[p].want
    /\ intent' = Cleared(proc[p].at)
    /\ Moves(p, Idle)
    /\ UNCHANGED <<storeVars, epochs, late, artifacts>>

FindOpenAgain(p) ==
    /\ proc[p].pc = "reopen"
    /\ \/ \E r \in Open : Matches(proc[p].want, r) /\ OnlyMoves(p, Saw(p, "work", r))
       \/ \E r \in Open : ~Matches(proc[p].want, r) /\ OnlyMoves(p, SawInstead(p, "replace", r))
       \/ Open = {} /\ OnlyMoves(p, View(p, "start"))

StartRotation(p) ==
    /\ proc[p].pc = "start"
    /\ Call(p, [op |-> "start", rot |-> proc[p].want.rot, source |-> proc[p].want.source],
            "work", "restart")

\* After a start without an answer the record decides; one more try is made.
CheckStart(p) ==
    /\ proc[p].pc = "restart"
    /\ LET i == proc[p].want IN
       \/ rotations[i.rot].state # "absent" /\ OnlyMoves(p, Saw(p, "work", i.rot))
       \/ /\ rotations[i.rot].state = "absent"
          /\ \/ \E r \in Open : OnlyMoves(p, SawInstead(p, "replace", r))
             \/ Open = {} /\ ~proc[p].again /\ OnlyMoves(p, [View(p, "start") EXCEPT !.again = TRUE])

\* Both keys are on disk and the one in force is the one the record implies.
CheckKeys(p) ==
    LET v == proc[p] s == rotations[v.rot].source IN
    /\ v.pc = "work"
    /\ {s, v.rot} \subseteq epochs[proc[p].at]
    /\ \/ v.state = "committed" /\ v.rot \in Current /\ OnlyMoves(p, Over(p, v.rot))
       \/ v.state = "cancelled" /\ s \in Current /\ OnlyMoves(p, Over(p, v.rot))
       \/ v.state = "open" /\ s \in Current /\ OnlyMoves(p, View(p, "stage"))

\* The batch is read from the record, the row version is the one in hand.
StageItems(p) ==
    LET v == proc[p] rot == rotations[v.rot] IN
    /\ v.pc = "stage"
    /\ \/ rot.staged = rot.items /\ OnlyMoves(p, View(p, "refresh"))
       \/ \E batch \in SUBSET (rot.items \ rot.staged) :
              batch # {} /\ Call(p, [op |-> "stage", rot |-> v.rot, row |-> v.row, batch |-> batch],
                                 "stage", "refresh")

\* The run is read again and every wrapper verified; a batch whose answer was
\* lost is told from the record, and may leave more to stage.
Refresh(p) ==
    LET v == proc[p] rot == rotations[v.rot] IN
    /\ v.pc = "refresh" /\ rot.state = "open"
    /\ \/ rot.staged = rot.items /\ OnlyMoves(p, Saw(p, "recover", v.rot))
       \/ /\ rot.staged # rot.items /\ (rot.row > v.row \/ ~v.again)
          /\ OnlyMoves(p, [Saw(p, "stage", v.rot) EXCEPT !.again = (rot.row = v.row)])

PublishedLater(r, mode) == artifacts

Published(r, mode) == artifacts \cup (IF mode = "artifact" THEN {r} ELSE {})

\* The recovery artifact is published and read back before the commit, unless
\* the caller accepted the risk.
PrepareRecovery(p) ==
    /\ proc[p].pc = "recover"
    /\ \E mode \in Dispositions :
           /\ artifacts' = Published(proc[p].rot, mode)
           /\ Moves(p, [View(p, "commit") EXCEPT !.mode = mode])
    /\ UNCHANGED <<storeVars, epochs, intent, late>>

CommitRotation(p) ==
    LET v == proc[p] IN
    /\ v.pc = "commit"
    /\ Call(p, [op |-> "commit", rot |-> v.rot, row |-> v.row,
                count |-> rotations[v.rot].itemCount, mode |-> v.mode], "observe", "observe")

\* What the record says after a commit, with or without its answer.
ObserveCommit(p) ==
    LET v == proc[p] rot == rotations[v.rot] IN
    /\ v.pc = "observe"
    /\ \/ /\ rot.state = "committed" /\ rot.mode = v.mode /\ v.rot \in Current
          /\ OnlyMoves(p, Over(p, v.rot))
       \/ /\ rot.state = "open" /\ rot.row = v.row /\ ~v.again
          /\ OnlyMoves(p, [View(p, "commit") EXCEPT !.again = TRUE])

\* The command has told its caller; the record is read once more and the
\* intent file of that rotation is removed.
Acknowledge(p) ==
    LET l == proc[p].at IN
    /\ proc[p].pc = "ack"
    /\ \/ intent[l] = NoIntent /\ UNCHANGED intent
       \/ /\ intent[l].rot = proc[p].rot /\ Matches(intent[l], proc[p].rot)
          /\ rotations[proc[p].rot].state \in ClosedRotations
          /\ intent' = Cleared(l)
    /\ Moves(p, Idle)
    /\ UNCHANGED <<storeVars, epochs, late, artifacts>>

-----------------------------------------------------------------------------
(* The cancel command *)

BeginCancel(p) ==
    /\ proc[p] = Idle /\ Room
    /\ \E l \in Locations : LET i == intent[l] IN
       OnlyMoves(p, [View(p, IF i = NoIntent THEN "cancel_open" ELSE "cancel_lookup")
                                    EXCEPT !.at = l, !.want = i])

CancelForgets(p) ==
    /\ proc[p].pc = "cancel_lookup"
    /\ LET i == proc[p].want IN
       \/ /\ rotations[i.rot].state # "absent" /\ Matches(i, i.rot)
          /\ OnlyMoves(p, Saw(p, "cancel_adopt", i.rot))
       \/ /\ rotations[i.rot].state = "absent" /\ i.prepared
          /\ intent' = Cleared(proc[p].at) /\ Moves(p, Idle)
          /\ UNCHANGED <<storeVars, epochs, late, artifacts>>

CancelLookup(p) ==
    /\ proc[p].pc = "cancel_lookup"
    /\ LET i == proc[p].want IN
       \/ /\ rotations[i.rot].state # "absent" /\ Matches(i, i.rot)
          /\ OnlyMoves(p, Saw(p, "cancel_adopt", i.rot))
       \/ /\ rotations[i.rot].state = "absent" /\ i.prepared
          /\ \E r \in Open : OnlyMoves(p, SawInstead(p, "cancel_replace", r))

CancelFindOpen(p) ==
    /\ proc[p].pc = "cancel_open"
    /\ \E r \in Open : OnlyMoves(p, Saw(p, "cancel_adopt", r))

\* A rotation already over is only reported; an open one is adopted first.
CancelAdopt(p) ==
    LET v == proc[p] l == proc[p].at IN
    /\ v.pc = "cancel_adopt"
    /\ \/ v.state \in ClosedRotations /\ OnlyMoves(p, Over(p, v.rot))
       \/ /\ v.state = "open"
          /\ \/ intent[l] = NoIntent /\ intent' = [intent EXCEPT ![l] = Adopted(v.rot)]
             \/ Matches(intent[l], v.rot) /\ UNCHANGED intent
          /\ Moves(p, View(p, "cancel"))
          /\ UNCHANGED <<storeVars, epochs, late, artifacts>>

CancelRotation(p) ==
    LET v == proc[p] IN
    /\ v.pc = "cancel"
    /\ Call(p, [op |-> "cancel", rot |-> v.rot, row |-> v.row], "ack", "cancel_observe")

ObserveCancel(p) ==
    LET v == proc[p] rot == rotations[v.rot] IN
    /\ v.pc = "cancel_observe"
    /\ \/ rot.state \in ClosedRotations /\ OnlyMoves(p, Over(p, v.rot))
       \/ /\ rot.state = "open" /\ rot.row = v.row /\ ~v.again
          /\ OnlyMoves(p, [View(p, "cancel") EXCEPT !.again = TRUE])

-----------------------------------------------------------------------------
(* Enrollment *)

\* An installation enrolls: it writes the key its transfer carries, the one in
\* force, which another installation sealed from its own file.
InstallEpoch(l) ==
    /\ \E from \in Locations : \E k \in epochs[from] :
           k \in Current /\ epochs' = WithEpoch(l, k)
    /\ UNCHANGED <<storeVars, intent, proc, late, artifacts>>

-----------------------------------------------------------------------------
RotateNext(p) ==
    \/ BeginRotate(p) \/ ResolveIntent(p) \/ FindOpen(p) \/ ObserveKey(p) \/ PrepareIntent(p)
    \/ CreateIntent(p) \/ Lookup(p) \/ CompareCurrent(p) \/ Advanced(p) \/ Retire(p)
    \/ FindOpenAgain(p) \/ Replace(p) \/ StartRotation(p)
    \/ CheckStart(p) \/ CheckKeys(p) \/ StageItems(p) \/ Refresh(p) \/ PrepareRecovery(p)
    \/ CommitRotation(p) \/ ObserveCommit(p) \/ Acknowledge(p)

CancelNext(p) ==
    \/ BeginCancel(p) \/ CancelLookup(p) \/ CancelFindOpen(p) \/ CancelAdopt(p)
    \/ CancelRotation(p) \/ ObserveCancel(p)

Next ==
    \/ \E p \in Procs : RotateNext(p) \/ CancelNext(p) \/ Stop(p)
    \/ \E q \in late : DeliverLate(q)
    \/ \E l \in Locations : InstallEpoch(l)

Spec == Init /\ [][Next]_vars

-----------------------------------------------------------------------------
(* Properties *)

\* Some installation always holds the key in force, and the key that an open
\* rotation would put in force: no crash between two files and the store, no
\* late start and no lost answer leaves a vault nobody can open.
CurrentKeyHeld ==
    /\ \A k \in Current : \E l \in Locations : k \in epochs[l]
    /\ \A r \in Open : \E l \in Locations : {r, rotations[r].source} \subseteq epochs[l]

\* A rotation committed as recoverable has its recovery artifact.
CommittedIsRecoverable == \A r \in Rotations :
    rotations[r].state = "committed" /\ rotations[r].mode = "artifact" => r \in artifacts

\* The intent file never lies: it names the rotation as the store has it, and
\* one the store has never seen only as a prepared start whose key is on disk.
IntentIsTruthful == \A l \in Locations : intent[l] # NoIntent =>
    LET i == intent[l] IN
    IF rotations[i.rot].state = "absent"
    THEN i.prepared /\ {i.rot, i.source} \subseteq epochs[l]
    ELSE Matches(i, i.rot)

\* An intent file goes away only when its rotation is over or can no longer
\* start: an open rotation whose installation has its keys is never forgotten
\* by it, unless another rotation was open in its place.
IntentOutlivesRotation == [][\A l \in Locations :
    intent[l] # NoIntent /\ intent'[l] # intent[l] =>
        IF intent'[l] = NoIntent
        THEN \/ rotations[intent[l].rot].state \in ClosedRotations
             \/ keys[intent[l].source].state = "retired"
        ELSE intent[l].prepared /\ rotations[intent'[l].rot].state # "absent"]_vars
=============================================================================
