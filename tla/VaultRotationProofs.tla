------------------------ MODULE VaultRotationProofs ------------------------
(***************************************************************************)
(* Theorems about the installations that rotate an agent's vault keys, for *)
(* every number of installations, commands, rotations and late requests.   *)
(* They rest on the lemmas of VaultKeyStoreProofs about the store's        *)
(* transactions.                                                           *)
(***************************************************************************)
EXTENDS VaultRotation, VaultKeyStoreProofs

(* The inductive invariant.  A rotation is spoken of in five places: the   *)
(* store, an intent file, a running command, a late request and the key    *)
(* files.  All of them agree on its source, and whoever names a rotation   *)
(* that the store has never seen has both its keys on disk: that is what   *)
(* lets a start be served at any later time.                               *)

\* Some row, intent file, command or late start names r as the rotation away from k.
Names(r, k, rows, files, commands, requests) ==
    \/ rows[r].state # "absent" /\ rows[r].source = k
    \/ \E l \in Locations : files[l].rot = r /\ files[l].source = k
    \/ \E p \in Procs : commands[p].want.rot = r /\ commands[p].want.source = k
    \/ \E q \in requests : q.op = "start" /\ q.rot = r /\ q.source = k

Named(r, k) == Names(r, k, rotations, intent, proc, late)

\* An installation holds all the keys of S.
Held(S, files) == \E l \in Locations : S \subseteq files[l]

Used == {"current", "retired"}

NamesAgree == \A r \in Rotations, j, k \in Keys : Named(r, j) /\ Named(r, k) => j = k

NamesAreHeld == \A r \in Rotations, k \in Keys :
    Named(r, k) => Held({r, k}, epochs) /\ keys[k].state \in Used

KeysAreHeld == \A k \in Keys : keys[k].state # "absent" => Held({k}, epochs)

\* An intent at l whose rotation the store has never seen is a prepared start.
Prepared(i, l, rows, files) ==
    i # NoIntent /\ rows[i.rot].state = "absent" => i.prepared /\ {i.rot, i.source} \subseteq files[l]

IntentsArePrepared == \A l \in Locations : Prepared(intent[l], l, rotations, epochs)

\* Steps that work from an intent, from a prepared one, and from a row.
IntentSteps   == {"create", "lookup", "cancel_lookup"}
PreparedSteps == {"current", "advanced", "retire", "reopen", "replace", "start", "restart",
                  "cancel_replace"}
RowSteps      == {"replace", "work", "stage", "refresh", "recover", "commit", "observe", "ack",
                  "cancel_replace", "cancel_adopt", "cancel", "cancel_observe"}

\* What a command knows at the step it is at.
Knows(v, table, rows, files, published) ==
    /\ Prepared(v.want, v.at, rows, files)
    /\ v.pc \in IntentSteps => v.want # NoIntent
    /\ v.pc \in PreparedSteps => v.want.prepared
    /\ v.pc \in RowSteps => v.rot \in Rotations /\ rows[v.rot].state # "absent"
    /\ v.pc = "prepare" => v.seen \in files[v.at] /\ table[v.seen].state \in Used
    /\ v.pc \in {"advanced", "retire"} => table[v.want.source].state = "retired"
    /\ IF v.pc \in {"commit", "observe"} THEN v.mode \in Dispositions ELSE v.mode = "none"
    /\ v.mode = "artifact" => v.rot \in published

CommandsKnow == \A p \in Procs : Knows(proc[p], keys, rotations, epochs, artifacts)

\* A commit that claims an artifact was sent after the artifact was published.
Backed(q, published) == q.op = "commit" /\ q.mode = "artifact" => q.rot \in published

LateAreBacked == \A q \in late : Backed(q, artifacts)

RotationIsSound ==
    /\ TypeOK /\ Sound
    /\ NamesAgree /\ NamesAreHeld /\ KeysAreHeld
    /\ IntentsArePrepared /\ CommandsKnow
    /\ LateAreBacked /\ CommittedIsRecoverable

-----------------------------------------------------------------------------
(* What the store does *)

\* What a request carries.
LEMMA RequestFields ==
    ASSUME NEW q \in Request
    PROVE  /\ q.rot \in Rotations /\ q.op \in {"start", "stage", "commit", "cancel"}
           /\ q.op = "start" => q.source \in Keys
           /\ q.op = "stage" => q.batch \in SUBSET Deks
           /\ q.op = "commit" => q.mode \in Dispositions
BY DEF Request

\* The store keeps what it has of keys and rotations, adds only what was named and
\* is held, and commits as recoverable only what has its artifact.
StoreGrows ==
    /\ StoreTypeOK' /\ Sound'
    /\ \A k \in Keys :
          /\ keys[k].state \in Used => keys'[k].state \in Used
          /\ keys[k].state = "retired" => keys'[k].state = "retired"
          /\ keys'[k].state # "absent" => Held({k}, epochs)
    /\ \A r \in Rotations :
          /\ rotations[r].state # "absent" =>
                rotations'[r].state # "absent" /\ rotations'[r].source = rotations[r].source
          /\ rotations'[r].state # "absent" => Named(r, rotations'[r].source)
          /\ rotations'[r].state = "committed" /\ rotations'[r].mode = "artifact" => r \in artifacts

\* Outside the store nothing of this changes.
LEMMA StoreStands ==
    ASSUME RotationIsSound, UNCHANGED storeVars
    PROVE  StoreGrows
<1>1. UNCHANGED <<live, keys, deks, rotations, enrollments>>
  BY DEF storeVars
<1>2. StoreTypeOK' /\ Sound'
  BY TypeStep, SoundStep DEF RotationIsSound, TypeOK
<1>3. \A r \in Rotations : rotations[r].state # "absent" => Named(r, rotations[r].source)
  BY DEF Named, Names
<1> QED BY <1>1, <1>2, <1>3
           DEF StoreGrows, RotationIsSound, KeysAreHeld, CommittedIsRecoverable

\* A rotation that is started was named by whoever asked for it.
LEMMA StartGrows ==
    ASSUME RotationIsSound, NEW r \in Rotations, NEW k \in Keys, Named(r, k), Start(r, k)
    PROVE  StoreGrows
<1>1. StoreTypeOK' /\ Sound'
  BY StartTypes, StartIsSound DEF RotationIsSound, TypeOK
<1>2. /\ keys[r].state = "absent" /\ keys'[r].state = "pending"
      /\ \A j \in Keys \ {r} : keys'[j] = keys[j]
      /\ rotations[r].state = "absent"
      /\ rotations'[r].state = "open" /\ rotations'[r].source = k
      /\ \A q \in Rotations \ {r} : rotations'[q] = rotations[q]
  BY KeyNumbers DEF Start, RotationIsSound, TypeOK, StoreTypeOK
<1>3. Held({r}, epochs)
  BY DEF RotationIsSound, NamesAreHeld, Held
<1>4. \A q \in Rotations : rotations[q].state # "absent" => Named(q, rotations[q].source)
  BY DEF Named, Names
<1> QED BY <1>1, <1>2, <1>3, <1>4
           DEF StoreGrows, RotationIsSound, KeysAreHeld, CommittedIsRecoverable, Used

\* Staging touches the row of an open rotation only.
LEMMA StageGrows ==
    ASSUME RotationIsSound, NEW r \in Rotations, NEW row, NEW batch \in SUBSET Deks,
           Stage(r, row, batch)
    PROVE  StoreGrows
<1>1. StoreTypeOK' /\ Sound'
  BY StageTypes, StageIsSound DEF RotationIsSound, TypeOK
<1>2. /\ keys' = keys /\ rotations'[r].state = rotations[r].state
      /\ rotations'[r].source = rotations[r].source
      /\ rotations'[r].mode = rotations[r].mode
      /\ \A q \in Rotations \ {r} : rotations'[q] = rotations[q]
  BY DEF Stage, RotationIsSound, TypeOK, StoreTypeOK, Rotation
<1>3. \A q \in Rotations : rotations[q].state # "absent" => Named(q, rotations[q].source)
  BY DEF Named, Names
<1> QED BY <1>1, <1>2, <1>3
           DEF StoreGrows, RotationIsSound, KeysAreHeld, CommittedIsRecoverable

\* A commit or a cancellation closes an open rotation: its keys are used from then on.
LEMMA ClosingGrows ==
    ASSUME RotationIsSound, NEW r \in Rotations, NEW st \in ClosedRotations, NEW mode,
           st = "committed" /\ mode = "artifact" => r \in artifacts,
           rotations[r].state = "open", rotations' = Closed(r, st, mode),
           keys[r].state = "pending", keys[rotations[r].source].state = "current",
           keys'[r].state \in Used, keys'[rotations[r].source].state \in Used,
           \A k \in Keys \ {r, rotations[r].source} : keys'[k] = keys[k],
           StoreTypeOK', Sound'
    PROVE  StoreGrows
<1>1. /\ rotations'[r].state = st /\ rotations'[r].source = rotations[r].source
      /\ rotations'[r].mode = mode /\ st # "absent"
      /\ \A q \in Rotations \ {r} : rotations'[q] = rotations[q]
  BY DEF Closed, RotationIsSound, TypeOK, StoreTypeOK, Rotation, ClosedRotations
<1>2. \A q \in Rotations : rotations[q].state # "absent" => Named(q, rotations[q].source)
  BY DEF Named, Names
<1>3. \A k \in Keys : /\ keys[k].state \in Used => keys'[k].state \in Used
                      /\ keys[k].state = "retired" => keys'[k].state = "retired"
                      /\ keys'[k].state # "absent" => keys[k].state # "absent"
  BY DEF Used
<1> QED BY <1>1, <1>2, <1>3
           DEF StoreGrows, RotationIsSound, KeysAreHeld, CommittedIsRecoverable

\* Whatever request is served, at whatever time.
LEMMA ServedGrows ==
    ASSUME RotationIsSound, NEW q \in Request, q.op = "start" => Named(q.rot, q.source),
           Backed(q, artifacts), Serve(q)
    PROVE  StoreGrows
<1>1. q.rot \in Rotations /\ q.rot \in Keys /\ StoreTypeOK /\ Sound
  BY RequestFields, KeyNumbers DEF RotationIsSound, TypeOK
<1>2. CASE q.op = "start" /\ Start(q.rot, q.source)
  BY <1>1, <1>2, RequestFields, StartGrows
<1>3. CASE q.op = "stage" /\ Stage(q.rot, q.row, q.batch)
  BY <1>1, <1>3, RequestFields, StageGrows
<1>4. CASE q.op = "commit" /\ Commit(q.rot, q.row, q.count, q.mode)
  <2> DEFINE r == q.rot    k == rotations[r].source
  <2>1. k \in Keys
    BY <1>1 DEF StoreTypeOK, Rotation
  <2>2. /\ rotations[r].state = "open" /\ keys[r].state = "pending" /\ keys[k].state = "current"
        /\ rotations' = Closed(r, "committed", q.mode)
        /\ keys' = [keys EXCEPT ![k].state = "retired", ![r].state = "current"]
    BY <1>4 DEF Commit
  <2>3. /\ keys'[r].state \in Used /\ keys'[k].state \in Used
        /\ \A j \in Keys \ {r, k} : keys'[j] = keys[j]
    BY <1>1, <2>1, <2>2 DEF StoreTypeOK, Used
  <2>4. StoreTypeOK' /\ Sound'
    BY <1>1, <1>4, RequestFields, CommitTypes, CommitIsSound
  <2>5. "committed" \in ClosedRotations /\ (q.mode = "artifact" => r \in artifacts)
    BY <1>4 DEF Backed, ClosedRotations
  <2> QED BY <1>1, <2>2, <2>3, <2>4, <2>5, ClosingGrows
<1>5. CASE q.op = "cancel" /\ Cancel(q.rot, q.row)
  <2> DEFINE r == q.rot    k == rotations[r].source
  <2>1. k \in Keys
    BY <1>1 DEF StoreTypeOK, Rotation
  <2>2. /\ rotations[r].state = "open" /\ keys[r].state = "pending"
        /\ rotations' = Closed(r, "cancelled", "none")
        /\ keys' = [keys EXCEPT ![r].state = "retired"]
    BY <1>5 DEF Cancel, Abandoned
  <2>3. keys[k].state = "current"
    BY <1>1, <2>2 DEF Sound, OneLifecycle, Open
  <2>4. /\ keys'[r].state \in Used /\ keys'[k].state \in Used
        /\ \A j \in Keys \ {r, k} : keys'[j] = keys[j]
    BY <1>1, <2>1, <2>2, <2>3 DEF StoreTypeOK, Used
  <2>5. StoreTypeOK' /\ Sound'
    BY <1>1, <1>5, CancelTypes, CancelIsSound
  <2>6. "cancelled" \in ClosedRotations /\ "cancelled" # "committed"
    BY DEF ClosedRotations
  <2> QED BY <1>1, <2>2, <2>3, <2>4, <2>5, <2>6, ClosingGrows
<1> QED BY <1>2, <1>3, <1>4, <1>5 DEF Serve

-----------------------------------------------------------------------------
(* What a step may change *)

\* A step after which the names in use are among those of before, and everyone still
\* has what he needs, keeps the invariant.
LEMMA KeepsSound ==
    ASSUME RotationIsSound, StoreGrows,
           epochs' \in [Locations -> SUBSET Keys], \A l \in Locations : epochs[l] \subseteq epochs'[l],
           artifacts \subseteq artifacts', artifacts' \subseteq Keys,
           intent' \in [Locations -> Intent \cup {NoIntent}], proc' \in [Procs -> Proc],
           late' \subseteq Request,
           \A l \in Locations : Prepared(intent'[l], l, rotations', epochs'),
           \A p \in Procs : Knows(proc'[p], keys', rotations', epochs', artifacts'),
           \A q \in late' : Backed(q, artifacts'),
           \A r \in Rotations, k \in Keys : Named(r, k)' => Named(r, k)
    PROVE  RotationIsSound'
<1>1. TypeOK' /\ Sound'
  BY DEF StoreGrows, TypeOK
<1>2. NamesAgree'
  <2> SUFFICES ASSUME NEW r \in Rotations, NEW j \in Keys, NEW k \in Keys, Named(r, j)', Named(r, k)'
               PROVE  j = k
    BY DEF NamesAgree
  <2>1. Named(r, j) /\ Named(r, k)
    OBVIOUS
  <2> QED BY <2>1 DEF RotationIsSound, NamesAgree
<1>3. NamesAreHeld'
  <2> SUFFICES ASSUME NEW r \in Rotations, NEW k \in Keys, Named(r, k)'
               PROVE  Held({r, k}, epochs') /\ keys'[k].state \in Used
    BY DEF NamesAreHeld
  <2>1. Held({r, k}, epochs) /\ keys[k].state \in Used
    BY DEF RotationIsSound, NamesAreHeld
  <2> QED BY <2>1 DEF Held, StoreGrows
<1>4. KeysAreHeld'
  BY DEF KeysAreHeld, StoreGrows, Held
<1>5. CommittedIsRecoverable'
  BY DEF CommittedIsRecoverable, StoreGrows
<1>6. IntentsArePrepared' /\ CommandsKnow' /\ LateAreBacked'
  BY DEF IntentsArePrepared, CommandsKnow, LateAreBacked
<1> QED BY <1>1, <1>2, <1>3, <1>4, <1>5, <1>6 DEF RotationIsSound

\* What an intent or a command rests on stays.
LEMMA PreparedStill ==
    ASSUME StoreGrows, NEW i \in Intent \cup {NoIntent}, NEW l \in Locations,
           epochs[l] \subseteq epochs'[l], Prepared(i, l, rotations, epochs)
    PROVE  Prepared(i, l, rotations', epochs')
<1> SUFFICES ASSUME i # NoIntent, rotations'[i.rot].state = "absent"
             PROVE  i.prepared /\ {i.rot, i.source} \subseteq epochs'[l]
  BY DEF Prepared
<1>1. i.rot \in Rotations
  BY DEF Intent
<1>2. rotations[i.rot].state = "absent"
  BY <1>1 DEF StoreGrows
<1> QED BY <1>2 DEF Prepared

LEMMA KnowsStill ==
    ASSUME StoreGrows, NEW v \in Proc, \A l \in Locations : epochs[l] \subseteq epochs'[l],
           artifacts \subseteq artifacts', Knows(v, keys, rotations, epochs, artifacts)
    PROVE  Knows(v, keys', rotations', epochs', artifacts')
<1>1. /\ v.at \in Locations /\ v.want \in Intent \cup {NoIntent} /\ v.seen \in Keys
      /\ v.rot \in 0 .. MaxRotations
  BY DEF Proc
<1>2. v.want.source \in Keys
  BY <1>1, KeyNumbers DEF Intent, NoIntent
<1>3. Prepared(v.want, v.at, rotations', epochs')
  BY <1>1, PreparedStill DEF Knows
<1>4. v.pc \in RowSteps => v.rot \in Rotations /\ rotations'[v.rot].state # "absent"
  BY DEF Knows, StoreGrows
<1>5. v.pc = "prepare" => v.seen \in epochs'[v.at] /\ keys'[v.seen].state \in Used
  BY <1>1 DEF Knows, StoreGrows
<1>6. v.pc \in {"advanced", "retire"} => keys'[v.want.source].state = "retired"
  BY <1>2 DEF Knows, StoreGrows
<1> QED BY <1>3, <1>4, <1>5, <1>6 DEF Knows

\* A command moves on, and whatever it leaves behind names only what was named.
LEMMA MovedSound ==
    ASSUME RotationIsSound, StoreGrows, NEW p \in Procs, NEW v \in Proc, Moves(p, v),
           v.want # NoIntent => Named(v.want.rot, v.want.source),
           Knows(v, keys', rotations', epochs', artifacts'),
           UNCHANGED epochs, artifacts \subseteq artifacts', artifacts' \subseteq Keys,
           late' \subseteq Request,
           \A q \in late' : Backed(q, artifacts') /\ (q.op = "start" => Named(q.rot, q.source)),
           intent' \in [Locations -> Intent \cup {NoIntent}],
           \A l \in Locations :
               /\ intent'[l] # NoIntent => Named(intent'[l].rot, intent'[l].source)
               /\ Prepared(intent'[l], l, rotations', epochs')
    PROVE  RotationIsSound'
<1>1. /\ epochs \in [Locations -> SUBSET Keys] /\ proc \in [Procs -> Proc]
      /\ \A x \in Procs : Knows(proc[x], keys, rotations, epochs, artifacts)
  BY DEF RotationIsSound, TypeOK, CommandsKnow
<1>2. proc'[p] = v /\ proc' \in [Procs -> Proc] /\ \A x \in Procs \ {p} : proc'[x] = proc[x]
  BY <1>1 DEF Moves
<1>3. ASSUME NEW x \in Procs PROVE Knows(proc'[x], keys', rotations', epochs', artifacts')
  <2>1. CASE x = p
    BY <1>2, <2>1
  <2>2. CASE x # p
    BY <1>1, <1>2, <2>2, KnowsStill
  <2> QED BY <2>1, <2>2
<1>4. \A r \in Rotations, k \in Keys : Named(r, k)' => Named(r, k)
  <2> SUFFICES ASSUME NEW r \in Rotations, NEW k \in Keys, Names(r, k, rotations', intent', proc', late')
               PROVE  Named(r, k)
    BY DEF Named
  <2>1. CASE rotations'[r].state # "absent" /\ rotations'[r].source = k
    BY <2>1 DEF StoreGrows
  <2>2. ASSUME NEW l \in Locations, intent'[l].rot = r, intent'[l].source = k PROVE Named(r, k)
    BY <2>2 DEF NoIntent, Rotations
  <2>3. ASSUME NEW x \in Procs, proc'[x].want.rot = r, proc'[x].want.source = k PROVE Named(r, k)
    <3>1. CASE x = p
      BY <1>2, <2>3, <3>1 DEF NoIntent, Rotations
    <3>2. CASE x # p
      BY <1>2, <2>3, <3>2 DEF Named, Names
    <3> QED BY <3>1, <3>2
  <2>4. ASSUME NEW q \in late', q.op = "start", q.rot = r, q.source = k PROVE Named(r, k)
    BY <2>4
  <2> QED BY <2>1, <2>2, <2>3, <2>4 DEF Names
<1> QED BY <1>1, <1>2, <1>3, <1>4, KeepsSound

\* What the places that name rotations hold before a step.
LEMMA NamesBefore ==
    ASSUME RotationIsSound
    PROVE  /\ \A r \in Rotations : rotations[r].state # "absent" => Named(r, rotations[r].source)
           /\ \A l \in Locations :
                 intent[l] # NoIntent => Named(intent[l].rot, intent[l].source)
           /\ \A p \in Procs :
                 proc[p].want # NoIntent => Named(proc[p].want.rot, proc[p].want.source)
           /\ \A q \in late : q.op = "start" => Named(q.rot, q.source)
BY DEF Named, Names

\* A command that only moves on.
LEMMA OnlyMovedSound ==
    ASSUME RotationIsSound, NEW p \in Procs, NEW v \in Proc, OnlyMoves(p, v),
           v.want # NoIntent => Named(v.want.rot, v.want.source),
           Knows(v, keys, rotations, epochs, artifacts)
    PROVE  RotationIsSound'
<1>1. StoreGrows
  BY StoreStands DEF OnlyMoves
<1>2. UNCHANGED <<live, keys, deks, rotations, enrollments, epochs, intent, late, artifacts>> /\ Moves(p, v)
  BY DEF OnlyMoves, storeVars
<1>3. /\ intent \in [Locations -> Intent \cup {NoIntent}] /\ late \subseteq Request
      /\ artifacts \subseteq Keys
      /\ \A l \in Locations : Prepared(intent[l], l, rotations, epochs)
      /\ \A q \in late : Backed(q, artifacts)
  BY DEF RotationIsSound, TypeOK, IntentsArePrepared, LateAreBacked
<1>4. Knows(v, keys', rotations', epochs', artifacts')
  BY <1>2
<1> QED BY <1>1, <1>2, <1>3, <1>4, NamesBefore, MovedSound

-----------------------------------------------------------------------------
(* Steps that only read *)

\* A command that runs.
LEMMA Standing ==
    ASSUME RotationIsSound, NEW p \in Procs
    PROVE  /\ proc[p] \in Proc /\ Knows(proc[p], keys, rotations, epochs, artifacts)
           /\ proc[p].want # NoIntent => Named(proc[p].want.rot, proc[p].want.source)
BY NamesBefore DEF RotationIsSound, TypeOK, CommandsKnow

\* The command goes to a step at which it needs to know what it knows already.
LEMMA ViewSound ==
    ASSUME RotationIsSound, NEW p \in Procs, NEW step \in Steps, OnlyMoves(p, View(p, step)),
           Knows(View(p, step), keys, rotations, epochs, artifacts)
    PROVE  RotationIsSound'
<1>1. View(p, step) \in Proc /\ View(p, step).want = proc[p].want
  BY Standing DEF View, Proc
<1> QED BY <1>1, Standing, OnlyMovedSound

\* An intent that names a row of the store.
LEMMA AdoptedIntent ==
    ASSUME RotationIsSound, NEW r \in Rotations, rotations[r].state # "absent"
    PROVE  /\ Adopted(r) \in Intent /\ Adopted(r) # NoIntent
           /\ Named(Adopted(r).rot, Adopted(r).source)
           /\ \A l \in Locations : Prepared(Adopted(r), l, rotations, epochs)
<1>1. rotations[r].source \in Keys
  BY DEF RotationIsSound, TypeOK, StoreTypeOK, Rotation
<1> QED BY <1>1, NamesBefore DEF Adopted, Intent, NoIntent, Rotations, Prepared

\* The command has read a row and goes on from it.
LEMMA SawSound ==
    ASSUME RotationIsSound, NEW p \in Procs, NEW r \in Rotations, rotations[r].state # "absent",
           NEW step \in RowSteps \ {"replace", "cancel_replace", "commit", "observe"},
           NEW again \in BOOLEAN,
           NEW v, v = Saw(p, step, r) \/ v = [Saw(p, step, r) EXCEPT !.again = again],
           OnlyMoves(p, v)
    PROVE  RotationIsSound'
<1>1. /\ v.at = proc[p].at /\ v.pc = step /\ v.want = NoIntent /\ v.rot = r /\ v.mode = "none"
      /\ v.row = rotations[r].row /\ v.state = rotations[r].state /\ v.seen = 0 /\ v.again \in BOOLEAN
  BY DEF Saw, Idle
<1>2. v \in Proc
  <2>1. /\ proc[p].at \in Locations /\ rotations[r].row \in Nat
        /\ rotations[r].state \in RotationStates
    BY Standing DEF RotationIsSound, TypeOK, StoreTypeOK, Rotation, Proc
  <2>2. r \in 0 .. MaxRotations /\ 0 \in Keys /\ step \in Steps
    BY KeyNumbers DEF Rotations, Keys, RowSteps, Steps, RotateSteps, CancelSteps
  <2> QED BY <2>1, <2>2 DEF Saw, Idle, Proc
<1>3. Knows(v, keys, rotations, epochs, artifacts)
  BY <1>1 DEF Knows, Prepared, IntentSteps, PreparedSteps, RowSteps
<1> QED BY <1>1, <1>2, <1>3, OnlyMovedSound

\* It has found another rotation open instead of the one it was to start.
LEMMA SawInsteadSound ==
    ASSUME RotationIsSound, NEW p \in Procs, NEW r \in Open, proc[p].want.prepared,
           NEW step \in {"replace", "cancel_replace"},
           OnlyMoves(p, SawInstead(p, step, r))
    PROVE  RotationIsSound'
<1>1. PICK v : v = SawInstead(p, step, r)
  OBVIOUS
<1>2. /\ v.at = proc[p].at /\ v.pc = step /\ v.want = proc[p].want /\ v.rot = r /\ v.mode = "none"
  BY <1>1 DEF SawInstead, Saw, Idle
<1>3. v \in Proc
  <2>1. /\ proc[p].at \in Locations /\ rotations[r].row \in Nat /\ r \in Rotations
        /\ rotations[r].state \in RotationStates /\ proc[p].want \in Intent \cup {NoIntent}
    BY Standing DEF RotationIsSound, TypeOK, StoreTypeOK, Rotation, Proc, Open
  <2>2. r \in 0 .. MaxRotations /\ 0 \in Keys /\ step \in Steps
    BY <2>1, KeyNumbers DEF Rotations, Keys, Steps, RotateSteps, CancelSteps
  <2> QED BY <1>1, <2>1, <2>2 DEF SawInstead, Saw, Idle, Proc
<1>4. Knows(v, keys, rotations, epochs, artifacts)
  BY <1>2, Standing DEF Knows, IntentSteps, PreparedSteps, RowSteps, Open
<1> QED BY <1>1, <1>2, <1>3, <1>4, Standing, OnlyMovedSound

\* The rotation is over as far as the command is concerned.
LEMMA OverSound ==
    ASSUME RotationIsSound, NEW p \in Procs, NEW r \in Rotations, rotations[r].state # "absent",
           OnlyMoves(p, Over(p, r))
    PROVE  RotationIsSound'
<1>1. PICK v : v = Over(p, r)
  OBVIOUS
<1>2. v.at = proc[p].at /\ v.pc = "ack" /\ v.want = NoIntent /\ v.rot = r /\ v.mode = "none"
  BY <1>1 DEF Over, Idle
<1>3. v \in Proc
  <2>1. r \in 0 .. MaxRotations /\ 0 \in Keys /\ "ack" \in Steps /\ proc[p].at \in Locations
    BY Standing, KeyNumbers DEF Rotations, Keys, Steps, Proc
  <2> QED BY <1>1, <2>1 DEF Over, Idle, Proc, RotationStates
<1>4. Knows(v, keys, rotations, epochs, artifacts)
  BY <1>2 DEF Knows, Prepared, IntentSteps, PreparedSteps, RowSteps
<1> QED BY <1>1, <1>2, <1>3, <1>4, OnlyMovedSound

\* An idle command.
LEMMA IdleKnows ==
    ASSUME RotationIsSound
    PROVE  Idle \in Proc /\ Knows(Idle, keys, rotations, epochs, artifacts)
<1>1. Idle \in Proc
  BY KeyNumbers, LocationAssumption, VaultAssumption DEF Idle, Proc, Steps, RotationStates, Keys
<1> QED BY <1>1 DEF Idle, Knows, Prepared, IntentSteps, PreparedSteps, RowSteps

LEMMA StopSound ==
    ASSUME RotationIsSound, NEW p \in Procs, Stop(p)
    PROVE  RotationIsSound'
<1>1. Idle.want = NoIntent /\ OnlyMoves(p, Idle)
  BY DEF Idle, Stop
<1> QED BY <1>1, IdleKnows, OnlyMovedSound

\* A command that begins at a location and takes up the intent it finds there.
LEMMA BeginningSound ==
    ASSUME RotationIsSound, NEW p \in Procs,
           BeginRotate(p) \/ ResolveIntent(p) \/ FindOpen(p) \/ ObserveKey(p) \/ BeginCancel(p)
    PROVE  RotationIsSound'
<1> DEFINE old == proc[p]
<1>1. /\ old \in Proc /\ Knows(old, keys, rotations, epochs, artifacts)
      /\ \A l \in Locations : intent[l] \in Intent \cup {NoIntent}
      /\ \A l \in Locations : Prepared(intent[l], l, rotations, epochs)
  BY Standing DEF RotationIsSound, TypeOK, IntentsArePrepared
<1>2. CASE BeginRotate(p)
  <2>1. PICK l \in Locations : OnlyMoves(p, [View(p, "resolve") EXCEPT !.at = l])
    BY <1>2 DEF BeginRotate
  <2>2. PICK v : v = [View(p, "resolve") EXCEPT !.at = l]
    OBVIOUS
  <2>3. old = Idle
    BY <1>2 DEF BeginRotate
  <2>4. v = [Idle EXCEPT !.pc = "resolve", !.at = l]
    BY <2>2, <2>3 DEF View, Idle
  <2>5. v \in Proc /\ v.want = NoIntent
    BY <2>4, IdleKnows DEF Proc, Idle, Steps, RotateSteps
  <2>6. Knows(v, keys, rotations, epochs, artifacts)
    BY <2>4 DEF Idle, Knows, Prepared, IntentSteps, PreparedSteps, RowSteps
  <2> QED BY <2>1, <2>2, <2>5, <2>6, OnlyMovedSound
<1>3. CASE ResolveIntent(p)
  <2>1. PICK i : i = intent[old.at]
    OBVIOUS
  <2>2. PICK step : step = IF i = NoIntent THEN "open" ELSE "lookup"
    OBVIOUS
  <2>3. PICK v : v = [View(p, step) EXCEPT !.want = i]
    OBVIOUS
  <2>4. old.pc = "resolve" /\ OnlyMoves(p, v)
    BY <1>3, <2>1, <2>2, <2>3 DEF ResolveIntent
  <2>5. /\ v.at = old.at /\ v.pc = step /\ v.want = i /\ v.mode = old.mode /\ v.rot = old.rot
        /\ old.at \in Locations /\ step \in {"open", "lookup"}
    BY <1>1, <2>2, <2>3 DEF View, Proc
  <2>6. v \in Proc
    BY <1>1, <2>1, <2>3, <2>5 DEF View, Proc, Steps, RotateSteps
  <2>7. Knows(v, keys, rotations, epochs, artifacts)
    BY <1>1, <2>1, <2>2, <2>4, <2>5 DEF Knows, IntentSteps, PreparedSteps, RowSteps
  <2>8. v.want # NoIntent => Named(v.want.rot, v.want.source)
    BY <2>1, <2>5, NamesBefore
  <2> QED BY <2>4, <2>6, <2>7, <2>8, OnlyMovedSound
<1>4. CASE FindOpen(p)
  <2>1. ASSUME NEW r \in Open, OnlyMoves(p, [View(p, "create") EXCEPT !.want = Adopted(r)])
        PROVE  RotationIsSound'
    <3>1. PICK v : v = [View(p, "create") EXCEPT !.want = Adopted(r)]
      OBVIOUS
    <3>2. r \in Rotations /\ rotations[r].state # "absent" /\ old.pc = "open"
      BY <1>4 DEF Open, FindOpen
    <3>3. /\ v.at = old.at /\ v.pc = "create" /\ v.want = Adopted(r) /\ v.mode = old.mode
          /\ v.rot = old.rot /\ old.at \in Locations
      BY <1>1, <3>1 DEF View, Proc
    <3>4. v \in Proc
      BY <1>1, <3>1, <3>2, AdoptedIntent DEF View, Proc, Steps, RotateSteps
    <3>5. Knows(v, keys, rotations, epochs, artifacts)
      BY <1>1, <3>2, <3>3, AdoptedIntent DEF Knows, IntentSteps, PreparedSteps, RowSteps
    <3>6. Named(v.want.rot, v.want.source)
      BY <3>2, <3>3, AdoptedIntent
    <3> QED BY <2>1, <3>1, <3>4, <3>5, <3>6, OnlyMovedSound
  <2>2. CASE OnlyMoves(p, View(p, "observe_key"))
    <3>1. old.pc = "open" /\ "observe_key" \in Steps
      BY <1>4 DEF FindOpen, Steps, RotateSteps
    <3>2. Knows(View(p, "observe_key"), keys, rotations, epochs, artifacts)
      BY <1>1, <3>1 DEF View, Proc, Knows, IntentSteps, PreparedSteps, RowSteps
    <3> QED BY <2>2, <3>1, <3>2, ViewSound
  <2> QED BY <1>4, <2>1, <2>2 DEF FindOpen
<1>5. CASE ObserveKey(p)
  <2>1. PICK k \in Current \cap epochs[old.at] :
            OnlyMoves(p, [View(p, "prepare") EXCEPT !.seen = k])
    BY <1>5 DEF ObserveKey
  <2>2. PICK v : v = [View(p, "prepare") EXCEPT !.seen = k]
    OBVIOUS
  <2>3. /\ v.at = old.at /\ v.pc = "prepare" /\ v.want = old.want /\ v.mode = old.mode
        /\ v.rot = old.rot /\ v.seen = k /\ old.pc = "observe_key"
        /\ k \in Keys /\ keys[k].state = "current" /\ k \in epochs[old.at]
    BY <1>1, <1>5, <2>1, <2>2 DEF View, Proc, ObserveKey, Current
  <2>4. v \in Proc
    BY <1>1, <2>2, <2>3 DEF View, Proc, Steps, RotateSteps
  <2>5. Knows(v, keys, rotations, epochs, artifacts)
    BY <1>1, <2>3 DEF Knows, IntentSteps, PreparedSteps, RowSteps, Used
  <2> QED BY <2>1, <2>2, <2>3, <2>4, <2>5, Standing, OnlyMovedSound
<1>6. CASE BeginCancel(p)
  <2>1. PICK l \in Locations :
            OnlyMoves(p, [View(p, IF intent[l] = NoIntent THEN "cancel_open" ELSE "cancel_lookup")
                              EXCEPT !.at = l, !.want = intent[l]])
    BY <1>6 DEF BeginCancel
  <2>2. PICK step : step = IF intent[l] = NoIntent THEN "cancel_open" ELSE "cancel_lookup"
    OBVIOUS
  <2>3. PICK v : v = [View(p, step) EXCEPT !.at = l, !.want = intent[l]]
    OBVIOUS
  <2>4. /\ v.at = l /\ v.pc = step /\ v.want = intent[l] /\ v.mode = "none" /\ v.rot = 0
        /\ step \in {"cancel_open", "cancel_lookup"}
    <3>1. old = Idle
      BY <1>6 DEF BeginCancel
    <3>2. v = [Idle EXCEPT !.pc = step, !.at = l, !.want = intent[l]]
      BY <2>3, <3>1 DEF View, Idle
    <3> QED BY <2>2, <3>2 DEF Idle
  <2>5. v \in Proc
    BY <1>1, <2>3, <2>4 DEF View, Proc, Steps, CancelSteps
  <2>6. Knows(v, keys, rotations, epochs, artifacts)
    BY <1>1, <2>2, <2>4 DEF Knows, IntentSteps, PreparedSteps, RowSteps
  <2>7. v.want # NoIntent => Named(v.want.rot, v.want.source)
    BY <2>4, NamesBefore
  <2> QED BY <2>1, <2>2, <2>3, <2>5, <2>6, <2>7, OnlyMovedSound
<1> QED BY <1>2, <1>3, <1>4, <1>5, <1>6

\* A command that looks for the rotation its intent names.
LEMMA LookingSound ==
    ASSUME RotationIsSound, NEW p \in Procs,
           \/ Lookup(p) \/ CompareCurrent(p) \/ Advanced(p) \/ FindOpenAgain(p) \/ CheckStart(p)
           \/ CancelLookup(p) \/ CancelFindOpen(p)
    PROVE  RotationIsSound'
<1> DEFINE old == proc[p]
           i == old.want
<1>1. old \in Proc /\ Knows(old, keys, rotations, epochs, artifacts)
  BY Standing
<1>2. \A r \in Open : r \in Rotations /\ rotations[r].state # "absent"
  BY DEF Open
<1>3. i # NoIntent => i.rot \in Rotations /\ i.source \in Keys
  BY <1>1 DEF Proc, Intent
<1>4. NoIntent.prepared = FALSE
  BY DEF NoIntent
<1>5. ASSUME NEW step \in RowSteps \ {"replace", "cancel_replace", "commit", "observe"},
             NEW r \in Rotations, rotations[r].state # "absent", OnlyMoves(p, Saw(p, step, r))
      PROVE  RotationIsSound'
  BY <1>5, SawSound
<1>6. /\ "work" \in RowSteps \ {"replace", "cancel_replace", "commit", "observe"}
      /\ "cancel_adopt" \in RowSteps \ {"replace", "cancel_replace", "commit", "observe"}
  BY DEF RowSteps
<1>7. CASE Lookup(p)
  <2>1. old.pc = "lookup" /\ i # NoIntent
    BY <1>1, <1>7 DEF Lookup, Knows, IntentSteps
  <2>2. CASE rotations[i.rot].state # "absent" /\ OnlyMoves(p, Saw(p, "work", i.rot))
    BY <1>3, <1>5, <1>6, <2>1, <2>2
  <2>3. CASE i.prepared /\ OnlyMoves(p, View(p, "current"))
    <3>1. Knows(View(p, "current"), keys, rotations, epochs, artifacts) /\ "current" \in Steps
      BY <1>1, <2>1, <2>3
         DEF View, Proc, Knows, IntentSteps, PreparedSteps, RowSteps, Steps, RotateSteps
    <3> QED BY <2>3, <3>1, ViewSound
  <2> QED BY <1>7, <2>2, <2>3 DEF Lookup
<1>8. CASE CompareCurrent(p)
  <2>1. old.pc = "current" /\ i.prepared /\ i # NoIntent
    BY <1>1, <1>4, <1>8 DEF CompareCurrent, Knows, PreparedSteps
  <2>2. CASE OnlyMoves(p, View(p, "reopen"))
    <3>1. Knows(View(p, "reopen"), keys, rotations, epochs, artifacts) /\ "reopen" \in Steps
      BY <1>1, <2>1
         DEF View, Proc, Knows, IntentSteps, PreparedSteps, RowSteps, Steps, RotateSteps
    <3> QED BY <2>2, <3>1, ViewSound
  <2>3. ASSUME NEW k \in Current, keys[k].version > keys[i.source].version,
               OnlyMoves(p, [View(p, "advanced") EXCEPT !.seen = k])
        PROVE  RotationIsSound'
    <3>1. PICK v : v = [View(p, "advanced") EXCEPT !.seen = k]
      OBVIOUS
    <3>2. /\ v.at = old.at /\ v.pc = "advanced" /\ v.want = i /\ v.mode = old.mode
          /\ v.rot = old.rot /\ v.seen = k /\ k \in Keys
      BY <1>1, <3>1 DEF View, Proc, Current
    <3>3. v \in Proc
      BY <1>1, <3>1, <3>2 DEF View, Proc, Steps, RotateSteps
    <3>4. keys[i.source].state = "retired"
      <4>1. keys[k].version \in Nat /\ keys[i.source].version \in Nat
        BY <1>3, <2>1, <3>2 DEF RotationIsSound, TypeOK, StoreTypeOK
      <4>2. i.source # k
        BY <2>3, <4>1
      <4>3. keys[i.source].state # "current"
        BY <1>3, <2>1, <4>2 DEF RotationIsSound, Sound, OneLifecycle, Current
      <4>4. keys[i.source].state \in Used
        BY <1>3, <2>1, Standing DEF RotationIsSound, NamesAreHeld
      <4> QED BY <4>3, <4>4 DEF Used
    <3>5. Knows(v, keys, rotations, epochs, artifacts)
      BY <1>1, <2>1, <3>2, <3>4 DEF Knows, IntentSteps, PreparedSteps, RowSteps
    <3> QED BY <2>3, <3>1, <3>2, <3>3, <3>5, Standing, OnlyMovedSound
  <2> QED BY <1>8, <2>2, <2>3 DEF CompareCurrent
<1>9. CASE Advanced(p)
  <2>1. old.pc = "advanced" /\ i.prepared
    BY <1>1, <1>9 DEF Advanced, Knows, PreparedSteps
  <2>2. CASE OnlyMoves(p, View(p, "retire"))
    <3>1. Knows(View(p, "retire"), keys, rotations, epochs, artifacts) /\ "retire" \in Steps
      BY <1>1, <2>1
         DEF View, Proc, Knows, IntentSteps, PreparedSteps, RowSteps, Steps, RotateSteps
    <3> QED BY <2>2, <3>1, ViewSound
  <2> QED BY <1>9, <2>1, <2>2, SawInsteadSound DEF Advanced
<1>10. CASE FindOpenAgain(p)
  <2>1. old.pc = "reopen" /\ i.prepared
    BY <1>1, <1>10 DEF FindOpenAgain, Knows, PreparedSteps
  <2>2. CASE OnlyMoves(p, View(p, "start"))
    <3>1. Knows(View(p, "start"), keys, rotations, epochs, artifacts) /\ "start" \in Steps
      BY <1>1, <2>1
         DEF View, Proc, Knows, IntentSteps, PreparedSteps, RowSteps, Steps, RotateSteps
    <3> QED BY <2>2, <3>1, ViewSound
  <2>3. ASSUME NEW r \in Open, OnlyMoves(p, Saw(p, "work", r)) PROVE RotationIsSound'
    BY <1>2, <1>5, <1>6, <2>3
  <2> QED BY <1>10, <2>1, <2>2, <2>3, SawInsteadSound DEF FindOpenAgain
<1>11. CASE CheckStart(p)
  <2>1. old.pc = "restart" /\ i.prepared /\ i # NoIntent
    BY <1>1, <1>4, <1>11 DEF CheckStart, Knows, PreparedSteps
  <2>2. CASE rotations[i.rot].state # "absent" /\ OnlyMoves(p, Saw(p, "work", i.rot))
    BY <1>3, <1>5, <1>6, <2>1, <2>2
  <2>3. CASE OnlyMoves(p, [View(p, "start") EXCEPT !.again = TRUE])
    <3>1. PICK v : v = [View(p, "start") EXCEPT !.again = TRUE]
      OBVIOUS
    <3>2. /\ v.at = old.at /\ v.pc = "start" /\ v.want = i /\ v.mode = old.mode /\ v.rot = old.rot
      BY <1>1, <3>1 DEF View, Proc
    <3>3. v \in Proc
      BY <1>1, <3>1 DEF View, Proc, Steps, RotateSteps
    <3>4. Knows(v, keys, rotations, epochs, artifacts)
      BY <1>1, <2>1, <3>2 DEF Knows, IntentSteps, PreparedSteps, RowSteps
    <3> QED BY <2>3, <3>1, <3>2, <3>3, <3>4, Standing, OnlyMovedSound
  <2> QED BY <1>11, <2>1, <2>2, <2>3, SawInsteadSound DEF CheckStart
<1>12. CASE CancelLookup(p)
  <2>1. old.pc = "cancel_lookup" /\ i # NoIntent
    BY <1>1, <1>12 DEF CancelLookup, Knows, IntentSteps
  <2>2. CASE rotations[i.rot].state # "absent" /\ OnlyMoves(p, Saw(p, "cancel_adopt", i.rot))
    BY <1>3, <1>5, <1>6, <2>1, <2>2
  <2> QED BY <1>12, <2>2, SawInsteadSound DEF CancelLookup
<1>13. CASE CancelFindOpen(p)
  BY <1>2, <1>5, <1>6, <1>13 DEF CancelFindOpen
<1> QED BY <1>7, <1>8, <1>9, <1>10, <1>11, <1>12, <1>13

-----------------------------------------------------------------------------
(* Remote calls *)

\* A request that is served leaves its rotation in the store.
LEMMA ServedRow ==
    ASSUME RotationIsSound, NEW q \in Request, Serve(q)
    PROVE  rotations'[q.rot].state # "absent"
<1>1. q.rot \in Rotations /\ rotations \in [Rotations -> Rotation]
  BY RequestFields DEF RotationIsSound, TypeOK, StoreTypeOK
<1> DEFINE r == q.rot
<1>2. CASE Start(r, q.source)
  BY <1>1, <1>2 DEF Start
<1>3. CASE Stage(r, q.row, q.batch)
  <2>1. rotations[r].state = "open" /\ rotations'[r].state = rotations[r].state
    BY <1>1, <1>3 DEF Stage, Rotation
  <2> QED BY <2>1
<1>4. CASE Commit(r, q.row, q.count, q.mode)
  <2>1. rotations'[r].state = "committed"
    BY <1>1, <1>4 DEF Commit, Closed, Rotation
  <2> QED BY <2>1
<1>5. CASE Cancel(r, q.row)
  <2>1. rotations'[r].state = "cancelled"
    BY <1>1, <1>5 DEF Cancel, Closed, Rotation
  <2> QED BY <2>1
<1> QED BY <1>2, <1>3, <1>4, <1>5 DEF Serve

\* A call that may be answered, stay unanswered, or be served at a later time.
LEMMA CallSound ==
    ASSUME RotationIsSound, NEW p \in Procs, NEW q \in Request,
           q.op = "start" => Named(q.rot, q.source), Backed(q, artifacts),
           NEW answered \in RowSteps \ {"replace", "cancel_replace"}, NEW silent \in Steps,
           Call(p, q, answered, silent),
           IF answered \in {"commit", "observe"} THEN proc[p].mode \in Dispositions
           ELSE proc[p].mode = "none",
           proc[p].mode = "artifact" => q.rot \in artifacts,
           Knows(View(p, silent), keys, rotations, epochs, artifacts)
    PROVE  RotationIsSound'
<1>1. /\ proc[p] \in Proc /\ q.rot \in Rotations /\ UNCHANGED <<epochs, intent, artifacts>>
      /\ epochs \in [Locations -> SUBSET Keys]
  BY Standing, RequestFields DEF Call, RotationIsSound, TypeOK
<1>2. ASSUME StoreGrows, NEW v \in Proc, Moves(p, v),
             v.want # NoIntent => Named(v.want.rot, v.want.source),
             Knows(v, keys', rotations', epochs', artifacts'), late' \subseteq late \cup {q}
      PROVE  RotationIsSound'
  <2>1. \A l \in Locations : Prepared(intent'[l], l, rotations', epochs')
    BY <1>1, <1>2, PreparedStill DEF RotationIsSound, TypeOK, IntentsArePrepared
  <2>2. /\ late' \subseteq Request
        /\ \A x \in late' : Backed(x, artifacts') /\ (x.op = "start" => Named(x.rot, x.source))
    BY <1>1, <1>2, NamesBefore DEF RotationIsSound, TypeOK, LateAreBacked
  <2>3. /\ intent' \in [Locations -> Intent \cup {NoIntent}] /\ artifacts' \subseteq Keys
        /\ \A l \in Locations : intent'[l] # NoIntent => Named(intent'[l].rot, intent'[l].source)
    BY <1>1, NamesBefore DEF RotationIsSound, TypeOK
  <2> QED BY <1>1, <1>2, <2>1, <2>2, <2>3, MovedSound
<1>3. ASSUME StoreGrows, Moves(p, View(p, silent)), late' \subseteq late \cup {q}
      PROVE  RotationIsSound'
  <2>1. View(p, silent) \in Proc /\ View(p, silent).want = proc[p].want
    BY <1>1 DEF View, Proc
  <2>2. Knows(View(p, silent), keys', rotations', epochs', artifacts')
    BY <1>1, <1>3, <2>1, KnowsStill
  <2> QED BY <1>2, <1>3, <2>1, <2>2, Standing
<1>4. CASE Serve(q) /\ Moves(p, Replied(p, answered, q.rot)) /\ UNCHANGED late
  <2>1. StoreGrows /\ rotations'[q.rot].state # "absent"
    BY <1>4, ServedGrows, ServedRow
  <2>2. PICK v : v = Replied(p, answered, q.rot)
    OBVIOUS
  <2>3. /\ v.at = proc[p].at /\ v.pc = answered /\ v.mode = proc[p].mode /\ v.rot = q.rot
        /\ v.want = NoIntent
    BY <2>2 DEF Replied, Idle
  <2>4. v \in Proc
    <3>1. rotations'[q.rot].row \in Nat /\ rotations'[q.rot].state \in RotationStates
      BY <1>1, <2>1 DEF StoreGrows, StoreTypeOK, Rotation
    <3>2. q.rot \in 0 .. MaxRotations /\ 0 \in Keys /\ answered \in Steps
      BY <1>1, KeyNumbers DEF Rotations, Keys, RowSteps, Steps, RotateSteps, CancelSteps
    <3> QED BY <1>1, <2>2, <3>1, <3>2 DEF Replied, Idle, Proc
  <2>5. Knows(v, keys', rotations', epochs', artifacts')
    BY <1>1, <2>1, <2>3 DEF Knows, Prepared, IntentSteps, PreparedSteps, RowSteps
  <2> QED BY <1>2, <1>4, <2>1, <2>2, <2>3, <2>4, <2>5
<1>5. CASE Serve(q) /\ Moves(p, View(p, silent)) /\ UNCHANGED late
  BY <1>3, <1>5, ServedGrows
<1>6. CASE /\ Moves(p, View(p, silent)) /\ UNCHANGED storeVars
           /\ late' = late \/ late' = late \cup {q}
  BY <1>3, <1>6, StoreStands
<1> QED BY <1>4, <1>5, <1>6 DEF Call

\* A late request that reaches the store, or has been served before.
LEMMA DeliverLateSound ==
    ASSUME RotationIsSound, NEW q \in late, DeliverLate(q)
    PROVE  RotationIsSound'
<1>1. /\ q \in Request /\ Backed(q, artifacts) /\ (q.op = "start" => Named(q.rot, q.source))
  BY NamesBefore DEF RotationIsSound, TypeOK, LateAreBacked
<1>2. StoreGrows
  BY <1>1, ServedGrows, StoreStands DEF DeliverLate
<1>3. UNCHANGED <<epochs, intent, proc, artifacts>> /\ late' \subseteq late
  BY DEF DeliverLate
<1>4. /\ epochs \in [Locations -> SUBSET Keys] /\ intent \in [Locations -> Intent \cup {NoIntent}]
      /\ proc \in [Procs -> Proc] /\ late \subseteq Request /\ artifacts \subseteq Keys
      /\ \A l \in Locations : Prepared(intent[l], l, rotations, epochs)
      /\ \A p \in Procs : Knows(proc[p], keys, rotations, epochs, artifacts)
      /\ \A x \in late : Backed(x, artifacts)
  BY DEF RotationIsSound, TypeOK, IntentsArePrepared, CommandsKnow, LateAreBacked
<1>5. \A l \in Locations : Prepared(intent'[l], l, rotations', epochs')
  BY <1>2, <1>3, <1>4, PreparedStill
<1>6. \A p \in Procs : Knows(proc'[p], keys', rotations', epochs', artifacts')
  BY <1>2, <1>3, <1>4, KnowsStill
<1>7. \A r \in Rotations, k \in Keys : Named(r, k)' => Named(r, k)
  <2> SUFFICES ASSUME NEW r \in Rotations, NEW k \in Keys, Names(r, k, rotations', intent', proc', late')
               PROVE  Named(r, k)
    BY DEF Named
  <2>1. CASE rotations'[r].state # "absent" /\ rotations'[r].source = k
    BY <1>2, <2>1 DEF StoreGrows
  <2>2. CASE ~ (rotations'[r].state # "absent" /\ rotations'[r].source = k)
    BY <1>3, <2>2 DEF Named, Names
  <2> QED BY <2>1, <2>2
<1> QED BY <1>2, <1>3, <1>4, <1>5, <1>6, <1>7, KeepsSound

\* An installation that receives the key in force.
LEMMA InstallEpochSound ==
    ASSUME RotationIsSound, NEW l \in Locations, InstallEpoch(l)
    PROVE  RotationIsSound'
<1>1. /\ StoreGrows /\ UNCHANGED <<keys, rotations, intent, proc, late, artifacts>>
      /\ \E k \in Current : epochs' = WithEpoch(l, k)
  BY StoreStands DEF InstallEpoch, storeVars
<1>2. /\ epochs \in [Locations -> SUBSET Keys] /\ intent \in [Locations -> Intent \cup {NoIntent}]
      /\ proc \in [Procs -> Proc] /\ late \subseteq Request /\ artifacts \subseteq Keys
      /\ \A x \in Locations : Prepared(intent[x], x, rotations, epochs)
      /\ \A p \in Procs : Knows(proc[p], keys, rotations, epochs, artifacts)
      /\ \A x \in late : Backed(x, artifacts)
  BY DEF RotationIsSound, TypeOK, IntentsArePrepared, CommandsKnow, LateAreBacked
<1>3. epochs' \in [Locations -> SUBSET Keys] /\ \A x \in Locations : epochs[x] \subseteq epochs'[x]
  BY <1>1, <1>2 DEF WithEpoch, Current
<1>4. \A x \in Locations : Prepared(intent'[x], x, rotations', epochs')
  BY <1>1, <1>2, <1>3, PreparedStill
<1>5. \A p \in Procs : Knows(proc'[p], keys', rotations', epochs', artifacts')
  BY <1>1, <1>2, <1>3, KnowsStill
<1>6. \A r \in Rotations, k \in Keys : Named(r, k)' => Named(r, k)
  BY <1>1 DEF Named
<1> QED BY <1>1, <1>2, <1>3, <1>4, <1>5, <1>6, KeepsSound

\* A command at work on a rotation of the store.
LEMMA WorkingSound ==
    ASSUME RotationIsSound, NEW p \in Procs,
           \/ StartRotation(p) \/ CheckKeys(p) \/ StageItems(p) \/ Refresh(p) \/ CommitRotation(p)
           \/ ObserveCommit(p) \/ CancelRotation(p) \/ ObserveCancel(p)
    PROVE  RotationIsSound'
<1> DEFINE old == proc[p]
           r   == old.rot
<1>1. old \in Proc /\ Knows(old, keys, rotations, epochs, artifacts)
  BY Standing
<1>2. rotations \in [Rotations -> Rotation]
  BY DEF RotationIsSound, TypeOK, StoreTypeOK
<1>3. ASSUME old.pc \in RowSteps PROVE r \in Rotations /\ rotations[r].state # "absent"
  BY <1>1, <1>3 DEF Knows
<1>4. CASE StartRotation(p)
  <2> DEFINE q == [op |-> "start", rot |-> old.want.rot, source |-> old.want.source]
  <2>1. old.pc = "start" /\ Call(p, q, "work", "restart")
    BY <1>4 DEF StartRotation
  <2>2. old.want.prepared /\ old.want # NoIntent /\ old.mode = "none"
    BY <1>1, <2>1 DEF Knows, PreparedSteps, NoIntent
  <2>3. q \in Request /\ q.op = "start" /\ Named(q.rot, q.source) /\ Backed(q, artifacts)
    BY <1>1, <2>2, Standing DEF Proc, Intent, Request, Backed
  <2>4. Knows(View(p, "restart"), keys, rotations, epochs, artifacts)
    BY <1>1, <2>1, <2>2 DEF View, Proc, Knows, IntentSteps, PreparedSteps, RowSteps
  <2>5. "work" \in RowSteps \ {"replace", "cancel_replace"} /\ "restart" \in Steps
    BY DEF RowSteps, Steps, RotateSteps
  <2> HIDE DEF q
  <2> QED BY <2>1, <2>2, <2>3, <2>4, <2>5, CallSound
<1>5. CASE CheckKeys(p)
  <2>1. old.pc = "work" /\ r \in Rotations /\ rotations[r].state # "absent"
    BY <1>3, <1>5 DEF CheckKeys, RowSteps
  <2>2. CASE OnlyMoves(p, Over(p, r))
    BY <2>1, <2>2, OverSound
  <2>3. CASE OnlyMoves(p, View(p, "stage"))
    <3>1. Knows(View(p, "stage"), keys, rotations, epochs, artifacts) /\ "stage" \in Steps
      BY <1>1, <2>1
         DEF View, Proc, Knows, IntentSteps, PreparedSteps, RowSteps, Steps, RotateSteps
    <3> QED BY <2>3, <3>1, ViewSound
  <2> QED BY <1>5, <2>2, <2>3 DEF CheckKeys
<1>6. CASE StageItems(p)
  <2>1. old.pc = "stage" /\ r \in Rotations /\ rotations[r].state # "absent" /\ old.mode = "none"
    BY <1>1, <1>3, <1>6 DEF StageItems, RowSteps, Knows
  <2>2. Knows(View(p, "refresh"), keys, rotations, epochs, artifacts) /\ "refresh" \in Steps
    BY <1>1, <2>1
       DEF View, Proc, Knows, IntentSteps, PreparedSteps, RowSteps, Steps, RotateSteps
  <2>3. CASE OnlyMoves(p, View(p, "refresh"))
    BY <2>2, <2>3, ViewSound
  <2>4. ASSUME NEW batch \in SUBSET (rotations[r].items \ rotations[r].staged),
               Call(p, [op |-> "stage", rot |-> r, row |-> old.row, batch |-> batch], "stage", "refresh")
        PROVE  RotationIsSound'
    <3>1. PICK q : q = [op |-> "stage", rot |-> r, row |-> old.row, batch |-> batch]
      OBVIOUS
    <3>2. batch \in SUBSET Deks
      BY <1>2, <2>1 DEF Rotation
    <3>3. q \in Request /\ q.op = "stage" /\ q.rot = r /\ Backed(q, artifacts)
      BY <1>1, <2>1, <3>1, <3>2 DEF Proc, Request, Backed
    <3>4. "stage" \in RowSteps \ {"replace", "cancel_replace"}
      BY DEF RowSteps
    <3> QED BY <2>1, <2>2, <2>4, <3>1, <3>3, <3>4, CallSound
  <2> QED BY <1>6, <2>3, <2>4 DEF StageItems
<1>7. CASE Refresh(p)
  <2>1. r \in Rotations /\ rotations[r].state = "open"
    BY <1>3, <1>7 DEF Refresh, RowSteps
  <2>2. CASE OnlyMoves(p, Saw(p, "recover", r))
    <3>1. "recover" \in RowSteps \ {"replace", "cancel_replace", "commit", "observe"}
      BY DEF RowSteps
    <3> QED BY <2>1, <2>2, <3>1, SawSound
  <2>3. CASE OnlyMoves(p, [Saw(p, "stage", r) EXCEPT !.again = (rotations[r].row = old.row)])
    <3>1. "stage" \in RowSteps \ {"replace", "cancel_replace", "commit", "observe"}
      BY DEF RowSteps
    <3>2. PICK b \in BOOLEAN : b = (rotations[r].row = old.row)
      OBVIOUS
    <3>3. OnlyMoves(p, [Saw(p, "stage", r) EXCEPT !.again = b])
      BY <2>3, <3>2
    <3> QED BY <2>1, <3>1, <3>3, SawSound
  <2> QED BY <1>7, <2>2, <2>3 DEF Refresh
<1>8. CASE CommitRotation(p)
  <2>1. /\ old.pc = "commit" /\ r \in Rotations /\ rotations[r].state # "absent"
        /\ old.mode \in Dispositions /\ (old.mode = "artifact" => r \in artifacts)
    BY <1>1, <1>3, <1>8 DEF CommitRotation, RowSteps, Knows
  <2>2. PICK q : q = [op |-> "commit", rot |-> r, row |-> old.row,
                      count |-> rotations[r].itemCount, mode |-> old.mode]
    OBVIOUS
  <2>3. q \in Request /\ q.op = "commit" /\ q.rot = r /\ Backed(q, artifacts)
    BY <1>1, <1>2, <2>1, <2>2 DEF Proc, Rotation, Request, Backed
  <2>4. Knows(View(p, "observe"), keys, rotations, epochs, artifacts) /\ "observe" \in Steps
    BY <1>1, <2>1
       DEF View, Proc, Knows, IntentSteps, PreparedSteps, RowSteps, Steps, RotateSteps
  <2>5. Call(p, q, "observe", "observe") /\ "observe" \in RowSteps \ {"replace", "cancel_replace"}
    BY <1>8, <2>2 DEF CommitRotation, RowSteps
  <2> QED BY <2>1, <2>3, <2>4, <2>5, CallSound
<1>9. CASE ObserveCommit(p)
  <2>1. old.pc = "observe" /\ r \in Rotations /\ rotations[r].state # "absent"
    BY <1>3, <1>9 DEF ObserveCommit, RowSteps
  <2>2. CASE OnlyMoves(p, Over(p, r))
    BY <2>1, <2>2, OverSound
  <2>3. CASE OnlyMoves(p, [View(p, "commit") EXCEPT !.again = TRUE])
    <3>1. PICK v : v = [View(p, "commit") EXCEPT !.again = TRUE]
      OBVIOUS
    <3>2. /\ v.at = old.at /\ v.pc = "commit" /\ v.want = old.want /\ v.mode = old.mode
          /\ v.rot = old.rot
      BY <1>1, <3>1 DEF View, Proc
    <3>3. v \in Proc
      BY <1>1, <3>1 DEF View, Proc, Steps, RotateSteps
    <3>4. Knows(v, keys, rotations, epochs, artifacts)
      BY <1>1, <2>1, <3>2 DEF Knows, IntentSteps, PreparedSteps, RowSteps
    <3> QED BY <2>3, <3>1, <3>2, <3>3, <3>4, Standing, OnlyMovedSound
  <2> QED BY <1>9, <2>2, <2>3 DEF ObserveCommit
<1>10. CASE CancelRotation(p)
  <2>1. old.pc = "cancel" /\ r \in Rotations /\ rotations[r].state # "absent" /\ old.mode = "none"
    BY <1>1, <1>3, <1>10 DEF CancelRotation, RowSteps, Knows
  <2>2. PICK q : q = [op |-> "cancel", rot |-> r, row |-> old.row]
    OBVIOUS
  <2>3. q \in Request /\ q.op = "cancel" /\ q.rot = r /\ Backed(q, artifacts)
    BY <1>1, <2>1, <2>2 DEF Proc, Request, Backed
  <2>4. /\ Knows(View(p, "cancel_observe"), keys, rotations, epochs, artifacts)
        /\ "cancel_observe" \in Steps
    BY <1>1, <2>1
       DEF View, Proc, Knows, IntentSteps, PreparedSteps, RowSteps, Steps, CancelSteps
  <2>5. Call(p, q, "ack", "cancel_observe") /\ "ack" \in RowSteps \ {"replace", "cancel_replace"}
    BY <1>10, <2>2 DEF CancelRotation, RowSteps
  <2> QED BY <2>1, <2>3, <2>4, <2>5, CallSound
<1>11. CASE ObserveCancel(p)
  <2>1. old.pc = "cancel_observe" /\ r \in Rotations /\ rotations[r].state # "absent"
    BY <1>3, <1>11 DEF ObserveCancel, RowSteps
  <2>2. CASE OnlyMoves(p, Over(p, r))
    BY <2>1, <2>2, OverSound
  <2>3. CASE OnlyMoves(p, [View(p, "cancel") EXCEPT !.again = TRUE])
    <3>1. PICK v : v = [View(p, "cancel") EXCEPT !.again = TRUE]
      OBVIOUS
    <3>2. /\ v.at = old.at /\ v.pc = "cancel" /\ v.want = old.want /\ v.mode = old.mode
          /\ v.rot = old.rot
      BY <1>1, <3>1 DEF View, Proc
    <3>3. v \in Proc
      BY <1>1, <3>1 DEF View, Proc, Steps, CancelSteps
    <3>4. Knows(v, keys, rotations, epochs, artifacts)
      BY <1>1, <2>1, <3>2 DEF Knows, IntentSteps, PreparedSteps, RowSteps
    <3> QED BY <2>3, <3>1, <3>2, <3>3, <3>4, Standing, OnlyMovedSound
  <2> QED BY <1>11, <2>2, <2>3 DEF ObserveCancel
<1> QED BY <1>4, <1>5, <1>6, <1>7, <1>8, <1>9, <1>10, <1>11

-----------------------------------------------------------------------------
(* Files *)

\* A command that writes the intent file of its location.
LEMMA FiledSound ==
    ASSUME RotationIsSound, NEW p \in Procs, NEW v \in Proc, Moves(p, v),
           UNCHANGED <<storeVars, epochs, late, artifacts>>,
           NEW i \in Intent \cup {NoIntent}, intent' = [intent EXCEPT ![proc[p].at] = i],
           i # NoIntent => Named(i.rot, i.source),
           Prepared(i, proc[p].at, rotations, epochs),
           v.want # NoIntent => Named(v.want.rot, v.want.source),
           Knows(v, keys, rotations, epochs, artifacts)
    PROVE  RotationIsSound'
<1>1. StoreGrows /\ UNCHANGED <<keys, rotations>>
  BY StoreStands DEF storeVars
<1>2. /\ intent \in [Locations -> Intent \cup {NoIntent}] /\ late \subseteq Request
      /\ artifacts \subseteq Keys /\ proc[p].at \in Locations
      /\ \A l \in Locations : Prepared(intent[l], l, rotations, epochs)
      /\ \A q \in late : Backed(q, artifacts)
  BY Standing DEF RotationIsSound, TypeOK, IntentsArePrepared, LateAreBacked, Proc
<1>3. /\ intent' \in [Locations -> Intent \cup {NoIntent}]
      /\ intent'[proc[p].at] = i
      /\ \A l \in Locations \ {proc[p].at} : intent'[l] = intent[l]
  BY <1>2
<1>4. \A l \in Locations :
          /\ intent'[l] # NoIntent => Named(intent'[l].rot, intent'[l].source)
          /\ Prepared(intent'[l], l, rotations', epochs')
  BY <1>1, <1>2, <1>3, NamesBefore
<1>5. Knows(v, keys', rotations', epochs', artifacts')
  BY <1>1
<1> QED BY <1>1, <1>2, <1>3, <1>4, <1>5, NamesBefore, MovedSound

\* A command that creates, replaces or removes the intent file.
LEMMA FilingSound ==
    ASSUME RotationIsSound, NEW p \in Procs,
           CreateIntent(p) \/ Replace(p) \/ Retire(p) \/ Acknowledge(p) \/ CancelAdopt(p)
    PROVE  RotationIsSound'
<1> DEFINE old == proc[p]
           l   == old.at
           r   == old.rot
<1>1. /\ old \in Proc /\ Knows(old, keys, rotations, epochs, artifacts) /\ l \in Locations
      /\ intent \in [Locations -> Intent \cup {NoIntent}]
      /\ Prepared(intent[l], l, rotations, epochs)
      /\ intent[l] # NoIntent => Named(intent[l].rot, intent[l].source)
  BY Standing, NamesBefore DEF RotationIsSound, TypeOK, IntentsArePrepared, Proc
<1>2. Prepared(NoIntent, l, rotations, epochs) /\ intent = [intent EXCEPT ![l] = intent[l]]
  BY <1>1 DEF Prepared
<1>3. Idle.want = NoIntent
  BY DEF Idle
<1>4. CASE CreateIntent(p)
  <2>1. old.pc = "create" /\ old.want # NoIntent
    BY <1>1, <1>4 DEF CreateIntent, Knows, IntentSteps
  <2>2. CASE intent[l] = NoIntent
    <3>1. /\ intent' = [intent EXCEPT ![l] = old.want] /\ Moves(p, View(p, "lookup"))
          /\ UNCHANGED <<storeVars, epochs, late, artifacts>>
      BY <1>4, <2>2 DEF CreateIntent
    <3>2. View(p, "lookup") \in Proc /\ View(p, "lookup").want = old.want
      BY <1>1 DEF View, Proc, Steps, RotateSteps
    <3>3. Knows(View(p, "lookup"), keys, rotations, epochs, artifacts)
      BY <1>1, <2>1 DEF View, Proc, Knows, IntentSteps, PreparedSteps, RowSteps
    <3>4. old.want \in Intent \cup {NoIntent} /\ Prepared(old.want, l, rotations, epochs)
      BY <1>1 DEF Proc, Knows
    <3> QED BY <3>1, <3>2, <3>3, <3>4, Standing, FiledSound
  <2>3. CASE intent[l] # NoIntent
    <3>1. PICK v : v = [View(p, "resolve") EXCEPT !.want = NoIntent]
      OBVIOUS
    <3>2. OnlyMoves(p, v)
      BY <1>4, <2>3, <3>1 DEF CreateIntent, OnlyMoves
    <3>3. /\ v.at = old.at /\ v.pc = "resolve" /\ v.want = NoIntent /\ v.mode = old.mode
          /\ v.rot = old.rot
      BY <1>1, <3>1 DEF View, Proc
    <3>4. v \in Proc
      BY <1>1, <3>1 DEF View, Proc, Steps, RotateSteps
    <3>5. Knows(v, keys, rotations, epochs, artifacts)
      BY <1>1, <1>2, <2>1, <3>3 DEF Knows, IntentSteps, PreparedSteps, RowSteps
    <3> QED BY <3>2, <3>3, <3>4, <3>5, OnlyMovedSound
  <2> QED BY <2>2, <2>3
<1>5. CASE Replace(p)
  <2>1. /\ old.pc \in {"replace", "cancel_replace"} /\ r \in Rotations
        /\ rotations[r].state # "absent" /\ old.mode = "none"
        /\ UNCHANGED <<storeVars, epochs, late, artifacts>>
    BY <1>1, <1>5 DEF Replace, Knows, RowSteps
  <2>2. PICK step : step = IF old.pc = "replace" THEN "work" ELSE "cancel_adopt"
    OBVIOUS
  <2>3. PICK v : v = [old EXCEPT !.pc = step, !.want = NoIntent]
    OBVIOUS
  <2>4. Moves(p, v)
    BY <1>5, <2>2, <2>3 DEF Replace
  <2>5. /\ v.at = old.at /\ v.pc = step /\ v.want = NoIntent /\ v.mode = old.mode
        /\ v.rot = old.rot /\ step \in {"work", "cancel_adopt"}
    BY <1>1, <2>2, <2>3 DEF Proc
  <2>6. v \in Proc
    BY <1>1, <2>3, <2>5 DEF Proc, Steps, RotateSteps, CancelSteps
  <2>7. Knows(v, keys, rotations, epochs, artifacts)
    BY <1>1, <1>2, <2>1, <2>5 DEF Knows, IntentSteps, PreparedSteps, RowSteps
  <2>8. CASE intent' = [intent EXCEPT ![l] = Adopted(r)]
    <3>1. PICK i \in Intent : i = Adopted(r)
      BY <2>1, AdoptedIntent
    <3>2. Named(i.rot, i.source) /\ Prepared(i, l, rotations, epochs)
      BY <1>1, <2>1, <3>1, AdoptedIntent
    <3> QED BY <2>1, <2>4, <2>5, <2>6, <2>7, <2>8, <3>1, <3>2, FiledSound
  <2>9. CASE UNCHANGED intent
    BY <1>1, <1>2, <2>1, <2>4, <2>5, <2>6, <2>7, <2>9, FiledSound
  <2> QED BY <1>5, <2>8, <2>9 DEF Replace
<1>6. CASE Retire(p)
  BY <1>2, <1>3, <1>6, IdleKnows, FiledSound DEF Retire, Cleared
<1>7. CASE Acknowledge(p)
  <2>1. /\ intent' = [intent EXCEPT ![l] = NoIntent] /\ Moves(p, Idle)
        /\ UNCHANGED <<storeVars, epochs, late, artifacts>>
    BY <1>2, <1>7 DEF Acknowledge, Cleared
  <2> QED BY <1>2, <1>3, <2>1, IdleKnows, FiledSound
<1>8. CASE CancelAdopt(p)
  <2>1. old.pc = "cancel_adopt" /\ r \in Rotations /\ rotations[r].state # "absent"
    BY <1>1, <1>8 DEF CancelAdopt, Knows, RowSteps
  <2>2. CASE OnlyMoves(p, Over(p, r))
    BY <2>1, <2>2, OverSound
  <2>3. CASE /\ intent' = [intent EXCEPT ![l] = Adopted(r)] \/ UNCHANGED intent
             /\ Moves(p, View(p, "cancel")) /\ UNCHANGED <<storeVars, epochs, late, artifacts>>
    <3>1. View(p, "cancel") \in Proc /\ View(p, "cancel").want = old.want
      BY <1>1 DEF View, Proc, Steps, CancelSteps
    <3>2. Knows(View(p, "cancel"), keys, rotations, epochs, artifacts)
      BY <1>1, <2>1 DEF View, Proc, Knows, IntentSteps, PreparedSteps, RowSteps
    <3>3. PICK i \in Intent : i = Adopted(r)
      BY <2>1, AdoptedIntent
    <3>4. Named(i.rot, i.source) /\ Prepared(i, l, rotations, epochs)
      BY <1>1, <2>1, <3>3, AdoptedIntent
    <3>5. CASE intent' = [intent EXCEPT ![l] = Adopted(r)]
      BY <2>3, <3>1, <3>2, <3>3, <3>4, <3>5, Standing, FiledSound
    <3>6. CASE UNCHANGED intent
      BY <1>1, <1>2, <2>3, <3>1, <3>2, <3>6, Standing, FiledSound
    <3> QED BY <2>3, <3>5, <3>6
  <2> QED BY <1>8, <2>2, <2>3 DEF CancelAdopt
<1> QED BY <1>4, <1>5, <1>6, <1>7, <1>8

\* The artifact is there before the commit that claims it.
LEMMA PrepareRecoverySound ==
    ASSUME RotationIsSound, NEW p \in Procs, PrepareRecovery(p)
    PROVE  RotationIsSound'
<1> DEFINE old == proc[p]
           r   == old.rot
<1>1. PICK mode \in Dispositions : /\ artifacts' = Published(r, mode)
                                   /\ Moves(p, [View(p, "commit") EXCEPT !.mode = mode])
  BY DEF PrepareRecovery
<1>2. PICK v : v = [View(p, "commit") EXCEPT !.mode = mode]
  OBVIOUS
<1>3. /\ old \in Proc /\ Knows(old, keys, rotations, epochs, artifacts) /\ old.pc = "recover"
      /\ UNCHANGED <<storeVars, epochs, intent, late>>
  BY Standing DEF PrepareRecovery
<1>4. r \in Rotations /\ rotations[r].state # "absent" /\ r \in Keys
  BY <1>3, KeyNumbers DEF Knows, RowSteps
<1>5. StoreGrows /\ UNCHANGED <<keys, rotations>>
  BY <1>3, StoreStands DEF storeVars
<1>6. artifacts \subseteq artifacts' /\ artifacts' \subseteq Keys /\ (mode = "artifact" => r \in artifacts')
  BY <1>1, <1>4 DEF Published, RotationIsSound, TypeOK
<1>7. /\ v.at = old.at /\ v.pc = "commit" /\ v.want = old.want /\ v.mode = mode /\ v.rot = r
  BY <1>2, <1>3 DEF View, Proc
<1>8. v \in Proc
  BY <1>2, <1>3 DEF View, Proc, Steps, RotateSteps
<1>9. Knows(v, keys', rotations', epochs', artifacts')
  BY <1>3, <1>4, <1>5, <1>6, <1>7 DEF Knows, IntentSteps, PreparedSteps, RowSteps
<1>10. /\ intent \in [Locations -> Intent \cup {NoIntent}] /\ late \subseteq Request
       /\ \A l \in Locations : Prepared(intent[l], l, rotations, epochs)
       /\ \A q \in late : Backed(q, artifacts)
  BY DEF RotationIsSound, TypeOK, IntentsArePrepared, LateAreBacked
<1>11. \A q \in late' : Backed(q, artifacts') /\ (q.op = "start" => Named(q.rot, q.source))
  BY <1>3, <1>6, <1>10, NamesBefore DEF Backed
<1>12. \A l \in Locations :
           /\ intent'[l] # NoIntent => Named(intent'[l].rot, intent'[l].source)
           /\ Prepared(intent'[l], l, rotations', epochs')
  BY <1>3, <1>5, <1>10, NamesBefore
<1>13. Moves(p, v) /\ (v.want # NoIntent => Named(v.want.rot, v.want.source))
  BY <1>1, <1>2, <1>7, Standing
<1> QED BY <1>3, <1>5, <1>6, <1>8, <1>9, <1>10, <1>11, <1>12, <1>13, MovedSound

\* A prepared rotation is new to everyone, and its keys are on disk first.
LEMMA PrepareIntentSound ==
    ASSUME RotationIsSound, NEW p \in Procs, PrepareIntent(p)
    PROVE  RotationIsSound'
<1> DEFINE old == proc[p]
           l   == old.at
           k   == old.seen
<1>1. PICK r \in Rotations :
          /\ \A x \in Locations : r \notin epochs[x]
          /\ epochs' = WithEpoch(l, r)
          /\ Moves(p, [View(p, "create") EXCEPT
                          !.want = [rot |-> r, source |-> k, prepared |-> TRUE]])
  BY DEF PrepareIntent
<1>2. PICK i : i = [rot |-> r, source |-> k, prepared |-> TRUE]
  OBVIOUS
<1>3. PICK v : v = [View(p, "create") EXCEPT !.want = i]
  OBVIOUS
<1>4. /\ old \in Proc /\ Knows(old, keys, rotations, epochs, artifacts) /\ old.pc = "prepare"
      /\ UNCHANGED <<storeVars, intent, late, artifacts>> /\ Moves(p, v)
  BY <1>1, <1>2, <1>3, Standing DEF PrepareIntent
<1>5. k \in Keys /\ k \in epochs[l] /\ keys[k].state \in Used /\ l \in Locations
  BY <1>4 DEF Knows, Proc
<1>6. /\ StoreGrows /\ UNCHANGED <<keys, rotations>>
  BY <1>4, StoreStands DEF storeVars
<1>7. /\ epochs \in [Locations -> SUBSET Keys] /\ intent \in [Locations -> Intent \cup {NoIntent}]
      /\ proc \in [Procs -> Proc] /\ late \subseteq Request /\ artifacts \subseteq Keys
      /\ \A x \in Locations : Prepared(intent[x], x, rotations, epochs)
      /\ \A x \in Procs : Knows(proc[x], keys, rotations, epochs, artifacts)
      /\ \A q \in late : Backed(q, artifacts)
  BY DEF RotationIsSound, TypeOK, IntentsArePrepared, CommandsKnow, LateAreBacked
<1>8. /\ epochs' \in [Locations -> SUBSET Keys]
      /\ \A x \in Locations : epochs[x] \subseteq epochs'[x]
      /\ {r, k} \subseteq epochs'[l]
  BY <1>1, <1>5, <1>7, KeyNumbers DEF WithEpoch
<1>9. /\ v.at = l /\ v.pc = "create" /\ v.want = i /\ v.mode = old.mode /\ v.rot = old.rot
      /\ i \in Intent /\ i # NoIntent
  BY <1>2, <1>3, <1>4, <1>5 DEF View, Proc, Intent, NoIntent, Rotations
<1>10. v \in Proc
  BY <1>3, <1>4, <1>9 DEF View, Proc, Steps, RotateSteps
<1>11. Knows(v, keys', rotations', epochs', artifacts')
  <2>1. Prepared(i, l, rotations', epochs')
    BY <1>2, <1>8 DEF Prepared
  <2> QED BY <1>4, <1>9, <2>1 DEF Knows, IntentSteps, PreparedSteps, RowSteps
<1>12. proc'[p] = v /\ proc' \in [Procs -> Proc] /\ \A x \in Procs \ {p} : proc'[x] = proc[x]
  BY <1>4, <1>7, <1>10 DEF Moves
<1>13. \A x \in Procs : Knows(proc'[x], keys', rotations', epochs', artifacts')
  <2> SUFFICES ASSUME NEW x \in Procs PROVE Knows(proc'[x], keys', rotations', epochs', artifacts')
    OBVIOUS
  <2>1. CASE x = p
    BY <1>11, <1>12, <2>1
  <2>2. CASE x # p
    BY <1>4, <1>6, <1>7, <1>8, <1>12, <2>2, KnowsStill
  <2> QED BY <2>1, <2>2
<1>14. \A j \in Keys : ~ Named(r, j)
  BY <1>1 DEF RotationIsSound, NamesAreHeld, Held
<1>15. \A x \in Rotations, j \in Keys : Named(x, j)' => Named(x, j) \/ (x = r /\ j = k)
  <2> SUFFICES ASSUME NEW x \in Rotations, NEW j \in Keys, Names(x, j, rotations', intent', proc', late')
               PROVE  Named(x, j) \/ (x = r /\ j = k)
    BY DEF Named
  <2>1. ASSUME NEW y \in Procs, proc'[y].want.rot = x, proc'[y].want.source = j
        PROVE  Named(x, j) \/ (x = r /\ j = k)
    <3>1. CASE y = p
      BY <1>2, <1>9, <1>12, <2>1, <3>1
    <3>2. CASE y # p
      BY <1>12, <2>1, <3>2 DEF Named, Names
    <3> QED BY <3>1, <3>2
  <2> QED BY <1>4, <1>6, <2>1 DEF Named, Names
<1>16. NamesAgree'
  <2> SUFFICES ASSUME NEW x \in Rotations, NEW i1 \in Keys, NEW i2 \in Keys,
                      Named(x, i1)', Named(x, i2)'
               PROVE  i1 = i2
    BY DEF NamesAgree
  <2>1. /\ Named(x, i1) \/ (x = r /\ i1 = k)
        /\ Named(x, i2) \/ (x = r /\ i2 = k)
    BY <1>15
  <2> QED BY <1>14, <2>1 DEF RotationIsSound, NamesAgree
<1>17. NamesAreHeld'
  <2> SUFFICES ASSUME NEW x \in Rotations, NEW j \in Keys, Named(x, j)'
               PROVE  Held({x, j}, epochs') /\ keys'[j].state \in Used
    BY DEF NamesAreHeld
  <2>1. CASE Named(x, j)
    <3>1. Held({x, j}, epochs) /\ keys[j].state \in Used
      BY <2>1 DEF RotationIsSound, NamesAreHeld
    <3> QED BY <1>6, <1>8, <3>1 DEF Held
  <2>2. CASE x = r /\ j = k
    BY <1>5, <1>6, <1>8, <2>2 DEF Held
  <2> QED BY <1>15, <2>1, <2>2
<1>18. KeysAreHeld'
  BY <1>6, <1>8 DEF KeysAreHeld, StoreGrows, Held
<1>19. IntentsArePrepared'
  BY <1>4, <1>6, <1>7, <1>8, PreparedStill DEF IntentsArePrepared
<1>20. TypeOK' /\ Sound' /\ CommandsKnow' /\ LateAreBacked' /\ CommittedIsRecoverable'
  BY <1>4, <1>6, <1>7, <1>8, <1>12, <1>13
     DEF StoreGrows, TypeOK, CommandsKnow, LateAreBacked, RotationIsSound, CommittedIsRecoverable
<1> QED BY <1>16, <1>17, <1>18, <1>19, <1>20 DEF RotationIsSound

-----------------------------------------------------------------------------
(* The theorems *)

\* One installation with the registered key, nobody rotating.
LEMMA RotationInit == Init => RotationIsSound
<1> SUFFICES ASSUME Init PROVE RotationIsSound
  OBVIOUS
<1> USE KeyNumbers
<1>1. /\ keys[0] = [state |-> "current", version |-> 1]
      /\ \A k \in Keys \ {0} : keys[k].state = "absent"
      /\ keys \in [Keys -> [state : KeyStates, version : Nat]]
  BY DEF Init, FirstKey, NoKeys, KeyStates
<1>2. /\ \A d \in Deks : deks[d] = [meta |-> 0, blob |-> 0]
      /\ deks \in [Deks -> Dek \cup {NoDek}]
  BY DEF Init, Dek
<1>3. /\ live = TRUE /\ rotations \in [Rotations -> Rotation]
      /\ enrollments \in [Enrollments -> Enrollment]
      /\ \A r \in Rotations : rotations[r].state = "absent" /\ rotations[r].items = {}
      /\ \A e \in Enrollments : enrollments[e].state = "absent"
  BY DEF Init, NoLifecycle, Rotation, RotationStates, Enrollment, EnrollmentStates, Nowhere
<1>4. StoreTypeOK
  BY <1>1, <1>2, <1>3 DEF StoreTypeOK
<1>5. Sound
  BY <1>1, <1>2, <1>3
     DEF Sound, WrappersUnderCurrentKey, Stored, SnapshotIsVault, Open, OneLifecycle, Current,
         TransferCarriesCurrentKey, Active, ActiveEnrollment, PastIsSettled, ClosedRotations,
         RegisteredFirst, DeletedIsIdle
<1>6. /\ epochs \in [Locations -> SUBSET Keys] /\ 0 \in epochs[Home] /\ Home \in Locations
      /\ \A l \in Locations : intent[l] = NoIntent
      /\ \A p \in Procs : proc[p] = Idle
      /\ intent \in [Locations -> Intent \cup {NoIntent}] /\ late = {} /\ artifacts = {}
  BY LocationAssumption DEF Init
<1>7. proc \in [Procs -> Proc]
  BY IdleKnows, LocationAssumption, VaultAssumption
     DEF Init, Idle, Proc, Steps, RotationStates, Keys
<1>8. TypeOK
  BY <1>4, <1>6, <1>7 DEF TypeOK
<1>9. \A r \in Rotations, k \in Keys : ~ Named(r, k)
  BY <1>3, <1>6 DEF Named, Names, NoIntent, Idle, Rotations
<1>10. NamesAgree /\ NamesAreHeld
  BY <1>9 DEF NamesAgree, NamesAreHeld
<1>11. KeysAreHeld
  BY <1>1, <1>6 DEF KeysAreHeld, Held
<1>12. IntentsArePrepared /\ LateAreBacked /\ CommittedIsRecoverable
  BY <1>3, <1>6 DEF IntentsArePrepared, Prepared, LateAreBacked, CommittedIsRecoverable
<1>13. CommandsKnow
  BY <1>6 DEF CommandsKnow, Idle, Knows, Prepared, IntentSteps, PreparedSteps, RowSteps
<1> QED BY <1>5, <1>8, <1>10, <1>11, <1>12, <1>13 DEF RotationIsSound

\* Whatever a command, a late request or an enrollment does next.
LEMMA RotationNext == RotationIsSound /\ [Next]_vars => RotationIsSound'
<1> SUFFICES ASSUME RotationIsSound, [Next]_vars PROVE RotationIsSound'
  OBVIOUS
<1>1. ASSUME NEW p \in Procs, RotateNext(p) PROVE RotationIsSound'
  BY <1>1, BeginningSound, LookingSound, WorkingSound, FilingSound, PrepareRecoverySound,
     PrepareIntentSound DEF RotateNext
<1>2. ASSUME NEW p \in Procs, CancelNext(p) PROVE RotationIsSound'
  BY <1>2, BeginningSound, LookingSound, WorkingSound, FilingSound DEF CancelNext
<1>3. ASSUME NEW p \in Procs, Stop(p) PROVE RotationIsSound'
  BY <1>3, StopSound
<1>4. ASSUME NEW q \in late, DeliverLate(q) PROVE RotationIsSound'
  BY <1>4, DeliverLateSound
<1>5. ASSUME NEW l \in Locations, InstallEpoch(l) PROVE RotationIsSound'
  BY <1>5, InstallEpochSound
<1>6. CASE UNCHANGED vars
  <2>1. UNCHANGED <<live, keys, deks, rotations, enrollments, epochs, intent, proc, late, artifacts>>
    BY <1>6 DEF vars, storeVars, clientVars
  <2>2. StoreGrows
    BY <2>1, StoreStands DEF storeVars
  <2>3. TypeOK' /\ Sound'
    BY <2>1, <2>2 DEF StoreGrows, TypeOK, RotationIsSound
  <2> QED BY <2>1, <2>3
          DEF RotationIsSound, NamesAgree, NamesAreHeld, Named, KeysAreHeld, IntentsArePrepared,
              CommandsKnow, LateAreBacked, CommittedIsRecoverable
<1> QED BY <1>1, <1>2, <1>3, <1>4, <1>5, <1>6 DEF Next

\* In every reachable state the rotation is sound.
THEOREM SoundRotation == Spec => []RotationIsSound
BY RotationInit, RotationNext, PTL DEF Spec

\* Whatever crashes, late starts and lost answers there were, the secrets open with the
\* key in force, and some installation has that key, and both keys of an open rotation.
THEOREM VaultsStayOpenable == Spec => [](WrappersUnderCurrentKey /\ CurrentKeyHeld)
<1>1. ASSUME RotationIsSound PROVE WrappersUnderCurrentKey /\ CurrentKeyHeld
  <2>1. ASSUME NEW k \in Current PROVE \E l \in Locations : k \in epochs[l]
    <3>1. k \in Keys /\ keys[k].state # "absent"
      BY DEF Current
    <3> QED BY <1>1, <3>1 DEF RotationIsSound, KeysAreHeld, Held
  <2>2. ASSUME NEW r \in Open PROVE \E l \in Locations : {r, rotations[r].source} \subseteq epochs[l]
    <3>1. r \in Rotations /\ rotations[r].state # "absent" /\ rotations[r].source \in Keys
      BY <1>1 DEF Open, RotationIsSound, TypeOK, StoreTypeOK, Rotation
    <3>2. Named(r, rotations[r].source)
      BY <1>1, <3>1, NamesBefore
    <3> QED BY <1>1, <3>1, <3>2 DEF RotationIsSound, NamesAreHeld, Held
  <2> QED BY <1>1, <2>1, <2>2 DEF RotationIsSound, Sound, CurrentKeyHeld
<1> QED BY <1>1, SoundRotation, PTL

\* A commit that says it is recoverable, however late it is served, has its artifact.
THEOREM CommitsAreRecoverable == Spec => []CommittedIsRecoverable
<1>1. RotationIsSound => CommittedIsRecoverable
  BY DEF RotationIsSound
<1> QED BY <1>1, SoundRotation, PTL

\* An intent file names the rotation as the store has it, or a start it can still make.
THEOREM IntentsAreTruthful == Spec => []IntentIsTruthful
<1>1. ASSUME RotationIsSound PROVE IntentIsTruthful
  <2> SUFFICES ASSUME NEW l \in Locations, intent[l] # NoIntent
               PROVE  LET i == intent[l] IN
                      IF rotations[i.rot].state = "absent"
                      THEN i.prepared /\ {i.rot, i.source} \subseteq epochs[l]
                      ELSE Matches(i, i.rot)
    BY DEF IntentIsTruthful
  <2>1. PICK i \in Intent : i = intent[l]
    BY <1>1 DEF RotationIsSound, TypeOK
  <2>2. i.rot \in Rotations /\ i.source \in Keys /\ i # NoIntent
    BY <2>1 DEF Intent
  <2>3. CASE rotations[i.rot].state = "absent"
    BY <1>1, <2>1, <2>2, <2>3 DEF RotationIsSound, IntentsArePrepared, Prepared
  <2>4. CASE rotations[i.rot].state # "absent"
    <3>1. Named(i.rot, i.source) /\ Named(i.rot, rotations[i.rot].source)
      BY <1>1, <2>1, <2>2, <2>4, NamesBefore
    <3>2. rotations[i.rot].source \in Keys
      BY <1>1, <2>2 DEF RotationIsSound, TypeOK, StoreTypeOK, Rotation
    <3>3. i.source = rotations[i.rot].source
      BY <1>1, <2>2, <3>1, <3>2 DEF RotationIsSound, NamesAgree
    <3> QED BY <2>1, <2>4, <3>3 DEF Matches
  <2> QED BY <2>1, <2>3, <2>4
<1> QED BY <1>1, SoundRotation, PTL

\* No command removes the intent of a rotation that is open or can still start, and one
\* gives way to another only for a rotation that the store has.
THEOREM IntentsOutliveRotations == Spec => IntentOutlivesRotation
<1> DEFINE Outlives == \A l \in Locations :
      intent[l] # NoIntent /\ intent'[l] # intent[l] =>
        IF intent'[l] = NoIntent
        THEN \/ rotations[intent[l].rot].state \in ClosedRotations
             \/ keys[intent[l].source].state = "retired"
        ELSE intent[l].prepared /\ rotations[intent'[l].rot].state # "absent"
<1>1. ASSUME RotationIsSound, Next PROVE Outlives
  <2> SUFFICES ASSUME NEW l \in Locations, intent[l] # NoIntent, intent'[l] # intent[l]
               PROVE  IF intent'[l] = NoIntent
                      THEN \/ rotations[intent[l].rot].state \in ClosedRotations
                           \/ keys[intent[l].source].state = "retired"
                      ELSE intent[l].prepared /\ rotations[intent'[l].rot].state # "absent"
    OBVIOUS
  <2>1. PICK p \in Procs : \/ CreateIntent(p) \/ Replace(p) \/ Retire(p) \/ Acknowledge(p)
                           \/ CancelAdopt(p)
    <3>1. ASSUME NEW p \in Procs, RotateNext(p) PROVE
             CreateIntent(p) \/ Replace(p) \/ Retire(p) \/ Acknowledge(p) \/ intent' = intent
      BY <3>1 DEF RotateNext, BeginRotate, ResolveIntent, FindOpen, ObserveKey, PrepareIntent,
         Lookup, CompareCurrent, Advanced, FindOpenAgain, StartRotation, CheckStart, CheckKeys,
         StageItems, Refresh, PrepareRecovery, CommitRotation, ObserveCommit, OnlyMoves, Call
    <3>2. ASSUME NEW p \in Procs, CancelNext(p) PROVE CancelAdopt(p) \/ intent' = intent
      BY <3>2 DEF CancelNext, BeginCancel, CancelLookup, CancelFindOpen, CancelRotation,
         ObserveCancel, OnlyMoves, Call
    <3> QED BY <1>1, <3>1, <3>2 DEF Next, Stop, DeliverLate, InstallEpoch, OnlyMoves
  <2> DEFINE old == proc[p]
  <2>2. /\ Knows(old, keys, rotations, epochs, artifacts)
        /\ intent \in [Locations -> Intent \cup {NoIntent}]
    BY <1>1, Standing DEF RotationIsSound, TypeOK
  <2>3. CASE CreateIntent(p)
    BY <2>2, <2>3 DEF CreateIntent
  <2>4. CASE Replace(p)
    <3>1. /\ l = old.at /\ intent[l] = old.want /\ intent'[l] = Adopted(old.rot)
          /\ old.pc \in {"replace", "cancel_replace"}
      BY <2>2, <2>4 DEF Replace
    <3>2. old.want.prepared /\ old.rot \in Rotations /\ rotations[old.rot].state # "absent"
      BY <2>2, <3>1 DEF Knows, PreparedSteps, RowSteps
    <3>3. Adopted(old.rot).rot = old.rot /\ Adopted(old.rot) # NoIntent
      BY <1>1, <3>2, AdoptedIntent DEF Adopted
    <3> QED BY <3>1, <3>2, <3>3
  <2>5. CASE Retire(p)
    <3>1. l = old.at /\ intent[l] = old.want /\ intent'[l] = NoIntent /\ old.pc = "retire"
      BY <2>2, <2>5 DEF Retire, Cleared
    <3> QED BY <2>2, <3>1 DEF Knows
  <2>6. CASE Acknowledge(p)
    <3>1. /\ l = old.at /\ intent[l].rot = old.rot /\ intent'[l] = NoIntent
          /\ rotations[old.rot].state \in ClosedRotations
      BY <2>2, <2>6 DEF Acknowledge, Cleared
    <3> QED BY <3>1
  <2>7. CASE CancelAdopt(p)
    BY <2>2, <2>7 DEF CancelAdopt, OnlyMoves
  <2> QED BY <2>1, <2>3, <2>4, <2>5, <2>6, <2>7
<1>2. RotationIsSound /\ [Next]_vars => [Outlives]_vars
  BY <1>1
<1> QED BY <1>2, SoundRotation, PTL DEF Spec, IntentOutlivesRotation

==============================================================================
