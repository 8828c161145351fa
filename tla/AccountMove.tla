---------------------------- MODULE AccountMove ----------------------------
(***************************************************************************)
(* The evacuation, move, restore and close of one account on its cells.  A *)
(* Durable Object holds the account's location and the phase of the one    *)
(* operation it has; a driver, called by an operator or by its alarm, does *)
(* the step of that phase and saves the next one.  Cells are asked over    *)
(* HTTP: a call may time out and still be carried out, or be answered and  *)
(* the driver stop before it saves; the step is then done again.  On a     *)
(* cell the account is one row, frozen by a marker that names an           *)
(* evacuation and the role of the row in it.                               *)
(*                                                                         *)
(* Pending and owner-suspended accounts, corrupt archives and the          *)
(* deregistration of cells are not modelled.                               *)
(***************************************************************************)
EXTENDS Integers, FiniteSets

CONSTANTS Cell,       \* cells
          Home,       \* the cell the account is created on
          MaxEpoch,   \* bound on operations
          MaxWrites,  \* bound on the writes of the account's agents
          None        \* no row, no object, no operation, no route

VARIABLES
  location,   \* the account's location in the Durable Object
  operation,  \* its operation, or None
  epoch,      \* its lifecycle epoch
  driver,     \* "idle", "asked" a cell, or "told" by it that the step is done
  calls,      \* requests a cell may yet carry out, any number of times
  rows,       \* rows[c]: the accounts row on cell c
  receipts,   \* receipts[c]: the evacuations whose source c has finalized
  jobs,       \* import jobs on the cells
  objects,    \* objects[e]: the archive of evacuation e in R2
  uploads,    \* multipart uploads whose completion R2 may yet carry out
  route,      \* the acct: key of the directory, a cell or None
  archived    \* the archived: key of the directory, an evacuation or 0

control == <<location, operation, epoch>>
directory == <<route, archived>>
cells == <<rows, receipts, jobs>>
bucket == <<objects, uploads>>
vars == <<control, driver, calls, cells, bucket, directory>>

Evacuation == 1..MaxEpoch

\* The requests a cell gets; that of an owner's close names no evacuation.
Call == [do : {"begin", "abort", "import", "complete", "finalize"},
         cell : Cell, evac : Evacuation]
        \cup [do : {"close"}, cell : Cell, evac : {0}]

\* A row with its status, what the account wrote, its marker (evac = 0 for
\* none) and the evacuation it last completed or aborted.
Row == [status : {"active", "closed"}, data : Nat, evac : 0 .. MaxEpoch,
        role : {"source", "target"}, last : 0 .. MaxEpoch,
        outcome : {"completed", "aborted"}]

NewRow == [status |-> "active", data |-> 0, evac |-> 0, role |-> "source",
           last |-> 0, outcome |-> "completed"]

\* The phases on the way out of the source, and on the way into the target.
Outward == {"source_suspended", "abort_requested", "abort_cleanup_pending",
            "archive_committed", "archive_projected", "route_retired"}
Inward == {"target_imported", "target_resumed", "live_committed", "route_projected",
           "source_finalized", "archive_retired", "archive_cleaned",
           "restored_closed_committed", "closed_archive_projected",
           "closed_archive_retained"}

\* An operation; a close exports nothing and has no evacuation.
Operation ==
  [evac : Evacuation, kind : {"evacuate"}, source : Cell, target : {None},
   phase : {"claimed"} \cup Outward]
  \cup [evac : Evacuation, kind : {"move"}, source : Cell, target : Cell,
        phase : {"claimed", "target_reserved"} \cup Outward \cup Inward]
  \cup [evac : Evacuation, kind : {"restore"}, source : Cell, target : Cell,
        phase : {"claimed", "target_reserved"} \cup Inward]
  \cup [evac : {0}, kind : {"close"}, source : Cell, target : {None},
        phase : {"claimed", "source_closed", "closed_committed", "route_retired"}]

ASSUME MoveAssumption ==
  /\ Home \in Cell /\ MaxEpoch \in Nat /\ MaxWrites \in Nat
  /\ None \notin Cell /\ None \notin Row /\ None \notin Operation

Unmarked(c) == rows[c] # None /\ rows[c].evac = 0
Marked(c, e, role) == rows[c] # None /\ rows[c].evac = e /\ rows[c].role = role
Serves(c) == Unmarked(c) /\ rows[c].status = "active"

\* The last evacuation of an unmarked row was e, and ended so.
Ended(c, e, outcome) == Unmarked(c) /\ rows[c].last = e /\ rows[c].outcome = outcome

\* The row has the status that the archive of e has.
Agrees(c, e) == rows[c] # None /\ objects[e] # None /\ rows[c].status = objects[e].status

At(kinds, phases) ==
  operation # None /\ operation.kind \in kinds /\ operation.phase \in phases
To(phase) == operation' = [operation EXCEPT !.phase = phase]

\* The side effect of a step stands whether or not the driver lives to save
\* the phase that follows it.
Saved(phase) == To(phase) \/ UNCHANGED operation
Finished == operation' = None \/ UNCHANGED operation

(***************************************************************************)
(* The claim of an operation.  A move or evacuation has an id of its own,  *)
(* a restore takes that of the archive.  Calls of earlier operations are   *)
(* not recalled.                                                           *)
(***************************************************************************)
Claim(kind, evac, target) ==
  /\ operation = None /\ epoch < MaxEpoch
  /\ epoch' = epoch + 1
  /\ operation' = [evac |-> evac, kind |-> kind, source |-> location.cell,
                   target |-> target, phase |-> "claimed"]
  /\ UNCHANGED <<location, driver, calls, cells, bucket, directory>>

ClaimOperation ==
  \/ location.kind = "live" /\ Claim("evacuate", epoch + 1, None)
  \/ \E c \in Cell \ {location.cell} :
       location.kind = "live" /\ Claim("move", epoch + 1, c)
  \/ \E c \in Cell :
       location.kind = "archived" /\ Claim("restore", location.archive, c)
  \/ location.kind = "live" /\ Claim("close", 0, None)

\* reserveTarget: the coordinator of the target cell admits the account, or
\* refuses it for good and the claim is cancelled.
ReserveTarget ==
  /\ At({"move", "restore"}, {"claimed"})
  /\ To("target_reserved") \/ operation' = None
  /\ UNCHANGED <<location, epoch, driver, calls, cells, bucket, directory>>

(***************************************************************************)
(* Calls to cells.                                                         *)
(***************************************************************************)
Importing == At({"move"}, {"route_retired"}) \/ At({"restore"}, {"target_reserved"})

\* Faulty: the source is asked back before the intent to abort is saved.
AskedBackEarly == At({"evacuate", "move"}, {"source_suspended", "abort_requested"})

AskedBack == At({"evacuate", "move"}, {"abort_requested"})

\* The call that the present phase makes.
Due(call) ==
  /\ operation # None /\ call.evac = operation.evac
  /\ \/ /\ call.do = "close" /\ call.cell = operation.source
        /\ At({"close"}, {"claimed"})
     \/ /\ call.do = "begin" /\ call.cell = operation.source
        /\ At({"evacuate"}, {"claimed"}) \/ At({"move"}, {"target_reserved"})
     \/ call.do = "abort" /\ call.cell = operation.source /\ AskedBack
     \/ call.do = "import" /\ call.cell = operation.target /\ Importing
     \/ /\ call.do = "complete" /\ call.cell = operation.target
        /\ operation.phase = "target_imported"
     \/ /\ call.do = "finalize" /\ call.cell = operation.source
        /\ operation.phase \in {"route_projected", "closed_archive_projected"}
        /\ operation.source # operation.target

\* The phase after the step of a call.
Finalized ==
  IF operation.phase = "route_projected" THEN "source_finalized" ELSE "closed_archive_retained"

Reached(call) ==
  [begin |-> "source_suspended", abort |-> "abort_cleanup_pending",
   import |-> "target_imported", complete |-> "target_resumed",
   finalize |-> Finalized][call.do]

Ask ==
  \E call \in Call :
    /\ driver = "idle" /\ Due(call)
    /\ driver' = "asked"
    /\ calls' = calls \cup {call}
    /\ UNCHANGED <<control, cells, bucket, directory>>

\* The answer of a call that succeeded reaches the driver that waits for it,
\* or is lost.  A refusal leaves everything as it is; the driver gives up.
Answer(call) ==
  \/ driver = "asked" /\ Due(call) /\ driver' = "told"
  \/ UNCHANGED driver

Learn ==
  \E call \in Call :
    /\ driver = "told" /\ Due(call)
    /\ To(Reached(call))
    /\ driver' = "idle"
    /\ UNCHANGED <<location, epoch, calls, cells, bucket, directory>>

\* A timeout, an error, or the end of the driver before it saved.
GiveUp ==
  /\ driver # "idle" /\ driver' = "idle"
  /\ UNCHANGED <<control, calls, cells, bucket, directory>>

(***************************************************************************)
(* What the cells do.                                                      *)
(***************************************************************************)
\* Faulty: the row's last evacuation may begin again.
AnyUnmarked(c, e) == Unmarked(c)

Beginnable(c, e) == Unmarked(c) /\ rows[c].last # e

\* BeginAccountEvacuation
Begin(call) ==
  /\ call.do = "begin"
  /\ \/ Marked(call.cell, call.evac, "source") /\ UNCHANGED rows
     \/ /\ Beginnable(call.cell, call.evac)
        /\ rows' = [rows EXCEPT ![call.cell].evac = call.evac,
                                ![call.cell].role = "source"]
  /\ Answer(call)
  /\ UNCHANGED <<control, calls, receipts, jobs, bucket, directory>>

\* AbortAccountEvacuation and CompleteAccountEvacuation: the marker of the
\* given role goes and the row remembers how, of this one evacuation only.
Unmark(call, role, outcome) ==
  /\ \/ Ended(call.cell, call.evac, outcome) /\ UNCHANGED rows
     \/ /\ Marked(call.cell, call.evac, role)
        /\ rows' = [rows EXCEPT ![call.cell] =
             [@ EXCEPT !.evac = 0, !.last = call.evac, !.outcome = outcome]]
  /\ UNCHANGED <<control, calls, receipts, jobs, bucket, directory>>

Abort(call) ==
  call.do = "abort" /\ Unmark(call, "source", "aborted") /\ Answer(call)

\* resumeTarget takes no answer whose status is not that of the import.
Complete(call) ==
  /\ call.do = "complete" /\ Unmark(call, "target", "completed")
  /\ \/ Agrees(call.cell, call.evac) /\ Answer(call)
     \/ UNCHANGED driver

\* FinalizeAccountEvacuationSource
Finalize(call) ==
  /\ call.do = "finalize"
  /\ \/ call.evac \in receipts[call.cell] /\ UNCHANGED <<rows, receipts>>
     \/ /\ call.evac \notin receipts[call.cell]
        /\ Marked(call.cell, call.evac, "source")
        /\ rows' = [rows EXCEPT ![call.cell] = None]
        /\ receipts' = [receipts EXCEPT ![call.cell] = @ \cup {call.evac}]
  /\ Answer(call)
  /\ UNCHANGED <<control, calls, jobs, bucket, directory>>

\* CloseAccount: its answer is not awaited here, see CloseSeen.
Close(call) ==
  /\ call.do = "close" /\ Serves(call.cell)
  /\ rows' = [rows EXCEPT ![call.cell].status = "closed"]
  /\ UNCHANGED <<control, driver, calls, receipts, jobs, bucket, directory>>

\* AccountImportReceipt: the row shows that this import is done.
Imported(c, e) == Marked(c, e, "target") \/ Ended(c, e, "completed")

\* START and POLL of an import: the receipt answers; without it a job takes
\* the session lock of the evacuation, unless another holds it.
Import(call) ==
  /\ call.do = "import"
  /\ \/ Imported(call.cell, call.evac) /\ Answer(call) /\ UNCHANGED jobs
     \/ /\ rows[call.cell] = None \/ Marked(call.cell, call.evac, "source")
        /\ \A j \in jobs :
             j.cell = call.cell /\ j.evac = call.evac => ~j.leased
        /\ jobs' = jobs \cup
             {[cell |-> call.cell, evac |-> call.evac, leased |-> TRUE, copy |-> None]}
        /\ UNCHANGED driver
  /\ UNCHANGED <<control, calls, rows, receipts, bucket, directory>>

\* The one-use token of the archive is good while its operation imports.
Download(j) ==
  /\ j.copy = None
  /\ Importing /\ operation.evac = j.evac /\ operation.target = j.cell
  /\ objects[j.evac] # None
  /\ jobs' = (jobs \ {j}) \cup {[j EXCEPT !.copy = objects[j.evac]]}
  /\ UNCHANGED <<control, driver, calls, rows, receipts, bucket, directory>>

\* Faulty: the import runs on any session of the pool.
AnySession(j) == TRUE

HoldsSession(j) == j.leased

\* importAccount, and the end of the job.
ImportRow(j) ==
  LET e == j.evac
  IN /\ j.copy # None /\ HoldsSession(j)
     /\ \/ /\ rows[j.cell] = None
           /\ rows' = [rows EXCEPT ![j.cell] =
                [j.copy EXCEPT !.evac = e, !.role = "target"]]
        \/ /\ Marked(j.cell, e, "source")
           /\ rows' = [rows EXCEPT ![j.cell].role = "target"]
        \/ Imported(j.cell, e) /\ UNCHANGED rows
     /\ jobs' = jobs \ {j}
     /\ UNCHANGED <<control, driver, calls, receipts, bucket, directory>>

\* The database drops the session of a job, and the lock with it.
LoseSession(j) ==
  /\ j.leased
  /\ jobs' = (jobs \ {j}) \cup {[j EXCEPT !.leased = FALSE]}
  /\ UNCHANGED <<control, driver, calls, rows, receipts, bucket, directory>>

\* A job fails, or ends with its server; its session has gone by then.
EndJob(j) ==
  /\ ~j.leased
  /\ jobs' = jobs \ {j}
  /\ UNCHANGED <<control, driver, calls, rows, receipts, bucket, directory>>

\* An agent writes on a cell that serves the account; a marker refuses it.
Write(c) ==
  /\ Serves(c) /\ rows[c].data < MaxWrites
  /\ rows' = [rows EXCEPT ![c].data = @ + 1]
  /\ UNCHANGED <<control, driver, calls, receipts, jobs, bucket, directory>>

(***************************************************************************)
(* The steps of the driver that ask no cell to change.                     *)
(***************************************************************************)
\* exportArchive, up to the upload: the source's export while its marker stands.
StreamArchive ==
  /\ At({"evacuate", "move"}, {"source_suspended"})
  /\ Marked(operation.source, operation.evac, "source")
  /\ uploads' = uploads \cup {[evac |-> operation.evac, copy |-> rows[operation.source]]}
  /\ UNCHANGED <<control, driver, calls, cells, objects, directory>>

\* The complete() of a multipart upload: the driver waits for it, or has long
\* given it up, aborted the evacuation and deleted the object.
UploadLands(u) ==
  /\ objects' = [objects EXCEPT ![u.evac] = u.copy]
  /\ uploads' = uploads \ {u}
  /\ UNCHANGED <<control, driver, calls, cells, directory>>

\* commitArchived: the verified archive becomes the account.
CommitArchived ==
  /\ At({"evacuate", "move"}, {"source_suspended"})
  /\ objects[operation.evac] # None
  /\ To("archive_committed")
  /\ location' = [kind |-> "archived", cell |-> operation.source,
                  archive |-> operation.evac]
  /\ UNCHANGED <<epoch, driver, calls, cells, bucket, directory>>

\* Any failure before that gives the source back.
RequestAbort ==
  /\ At({"evacuate", "move"}, {"source_suspended"})
  /\ To("abort_requested")
  /\ UNCHANGED <<location, epoch, driver, calls, cells, bucket, directory>>

CleanUpAbort ==
  /\ At({"evacuate", "move"}, {"abort_cleanup_pending"})
  /\ objects' = [objects EXCEPT ![operation.evac] = None]
  /\ Finished
  /\ UNCHANGED <<location, epoch, driver, calls, cells, uploads, directory>>

\* The archived: key, of an archive to be restored or of a closed account.
ProjectArchive ==
  /\ \/ At({"evacuate", "move"}, {"archive_committed"}) /\ Saved("archive_projected")
     \/ /\ At({"move", "restore"}, {"restored_closed_committed"})
        /\ Saved("closed_archive_projected")
  /\ archived \in {0, operation.evac} /\ archived' = operation.evac
  /\ UNCHANGED <<location, epoch, driver, calls, cells, bucket, route>>

RetireRoute ==
  /\ At({"evacuate", "move"}, {"archive_projected"}) \/ At({"close"}, {"closed_committed"})
  /\ route \in {None, operation.source} /\ route' = None
  /\ Saved("route_retired")
  /\ UNCHANGED <<location, epoch, driver, calls, cells, bucket, archived>>

\* The target answered its import and its completion with the status that
\* the archive has: a live account gets its route, a tombstone its archive.
CommitLive ==
  /\ At({"move", "restore"}, {"target_resumed"})
  /\ objects[operation.evac].status = "active"
  /\ To("live_committed")
  /\ location' = [kind |-> "live", cell |-> operation.target, archive |-> 0]
  /\ UNCHANGED <<epoch, driver, calls, cells, bucket, directory>>

CommitRestoredClosed ==
  /\ At({"move", "restore"}, {"target_resumed"})
  /\ objects[operation.evac].status = "closed"
  /\ To("restored_closed_committed")
  /\ location' = [location EXCEPT !.kind = "closed_archived"]
  /\ UNCHANGED <<epoch, driver, calls, cells, bucket, directory>>

ProjectRoute ==
  /\ At({"move", "restore"}, {"live_committed"})
  /\ route \in {None, operation.target} /\ route' = operation.target
  /\ Saved("route_projected")
  /\ UNCHANGED <<location, epoch, driver, calls, cells, bucket, archived>>

\* finalizeSource of a restore to the source itself, whose row was promoted.
FinalizeSameCell ==
  /\ At({"restore"}, {"route_projected", "closed_archive_projected"})
  /\ operation.source = operation.target
  /\ To(Finalized)
  /\ UNCHANGED <<location, epoch, driver, calls, cells, bucket, directory>>

RetireArchive ==
  /\ At({"move", "restore"}, {"source_finalized"})
  /\ archived \in {0, operation.evac} /\ archived' = 0
  /\ Saved("archive_retired")
  /\ UNCHANGED <<location, epoch, driver, calls, cells, bucket, route>>

CleanUpArchive ==
  /\ At({"move", "restore"}, {"archive_retired"})
  /\ objects' = [objects EXCEPT ![operation.evac] = None]
  /\ Saved("archive_cleaned")
  /\ UNCHANGED <<location, epoch, driver, calls, cells, uploads, directory>>

CompleteOperation ==
  /\ \/ At({"evacuate", "close"}, {"route_retired"})
     \/ At({"move", "restore"}, {"archive_cleaned", "closed_archive_retained"})
  /\ operation' = None
  /\ UNCHANGED <<location, epoch, driver, calls, cells, bucket, directory>>

\* closeSource: the contact of the account says that it is closed, whether
\* or not the owner's request was answered.
CloseSeen ==
  /\ At({"close"}, {"claimed"})
  /\ rows[operation.source].status = "closed"
  /\ To("source_closed") /\ driver' = "idle"
  /\ UNCHANGED <<location, epoch, calls, cells, bucket, directory>>

\* The cell refuses the owner and its contact says the account is not closed.
CancelClose ==
  /\ At({"close"}, {"claimed"}) /\ driver = "asked"
  /\ rows[operation.source].status # "closed"
  /\ operation' = None /\ driver' = "idle"
  /\ UNCHANGED <<location, epoch, calls, cells, bucket, directory>>

\* A closed location has no cell; the model keeps the last one.
CommitClosed ==
  /\ At({"close"}, {"source_closed"})
  /\ To("closed_committed")
  /\ location' = [location EXCEPT !.kind = "closed"]
  /\ UNCHANGED <<epoch, driver, calls, cells, bucket, directory>>

Step ==
  \/ CloseSeen \/ CancelClose \/ CommitClosed \/ CommitRestoredClosed
  \/ ReserveTarget \/ StreamArchive \/ CommitArchived \/ RequestAbort
  \/ CleanUpAbort \/ ProjectArchive \/ RetireRoute \/ CommitLive \/ ProjectRoute
  \/ FinalizeSameCell \/ RetireArchive \/ CleanUpArchive \/ CompleteOperation

Handle(call) ==
  \/ Begin(call) \/ Abort(call) \/ Complete(call) \/ Finalize(call)
  \/ Import(call) \/ Close(call)

Init ==
  /\ location = [kind |-> "live", cell |-> Home, archive |-> 0]
  /\ operation = None /\ epoch = 0 /\ driver = "idle"
  /\ calls = {} /\ jobs = {}
  /\ rows = [c \in Cell |-> IF c = Home THEN NewRow ELSE None]
  /\ receipts = [c \in Cell |-> {}]
  /\ objects = [e \in Evacuation |-> None] /\ uploads = {}
  /\ route = Home /\ archived = 0

Next ==
  \/ ClaimOperation \/ Step \/ Ask \/ Learn \/ GiveUp
  \/ \E call \in calls : Handle(call)
  \/ \E j \in jobs : Download(j) \/ ImportRow(j) \/ LoseSession(j) \/ EndJob(j)
  \/ \E u \in uploads : UploadLands(u)
  \/ \E c \in Cell : Write(c)

(***************************************************************************)
(* The alarm is armed before every claim and rearmed before every attempt, *)
(* so the driver goes on with whatever step it can take; and a step tried  *)
(* again and again is in the end carried through: not every call times     *)
(* out, not every save is lost, not every import job ends unfinished.      *)
(***************************************************************************)
Progress ==
  Step /\ operation' # operation

Told == \E call \in calls : Handle(call) /\ driver' = "told"

Fairness ==
  /\ SF_vars(Progress) /\ WF_vars(Ask) /\ SF_vars(Told) /\ SF_vars(Learn)
  /\ SF_vars(\E call \in calls : Due(call) /\ Import(call))
  /\ SF_vars(\E j \in jobs : j.leased /\ Download(j))
  /\ SF_vars(\E j \in jobs : ImportRow(j))

Spec == Init /\ [][Next]_vars /\ Fairness

(***************************************************************************)
(* What must hold.                                                         *)
(***************************************************************************)
Serving == {c \in Cell : Serves(c)}

\* The target has released the row that it imported.
Resumed ==
  /\ At({"move", "restore"}, {"target_imported", "target_resumed"})
  /\ ~Marked(operation.target, operation.evac, "target")

\* What the account is while no cell serves it: its location says so, unless
\* the target may have served it already.
Authority ==
  IF Resumed THEN rows[operation.target]
  ELSE IF location.kind \in {"archived", "closed_archived"} THEN objects[location.archive]
  ELSE rows[location.cell]

Copy == IF Serving = {} THEN Authority ELSE rows[CHOOSE c \in Serving : TRUE]

Served == INSTANCE ServedAccount WITH
  home <- IF Serving = {} THEN None
          ELSE IF Cardinality(Serving) = 1 THEN CHOOSE c \in Serving : TRUE
          ELSE "split",
  data <- IF Copy = None THEN -1 ELSE Copy.data

\* Whatever times out, stops or arrives late, no two cells serve the account
\* and the cell that takes it up serves all that was written: exports are
\* taken of frozen rows, a source is given back only if nothing of its
\* archive can still be imported, a copy goes only when another stands.
ImplementsServedAccount == Served!Spec

\* The row is frozen by an evacuation that is over: its begin came late.
LeftFrozen(c) == \E e \in Evacuation : Marked(c, e, "source")

\* The directory always leads to the account until its tombstone is all there
\* is: to a cell that has its row or to an archive that exists; and when no
\* operation is under way the account has one row, which the directory and
\* the location name alike, and which nothing holds that a later operation
\* cannot take up, except that a late begin may have frozen it anew.
DirectoryLeadsToAccount ==
  /\ route # None \/ archived # 0 \/ location.kind = "closed"
  /\ route # None => rows[route] # None
  /\ archived # 0 => objects[archived] # None
  /\ operation = None =>
       /\ archived = location.archive
       /\ route = IF location.kind = "live" THEN location.cell ELSE None
       /\ Cardinality({c \in Cell : rows[c] # None}) = 1
       /\ IF location.kind = "archived"
          THEN Marked(location.cell, location.archive, "source")
          ELSE \E c \in Cell :
                 /\ location.kind # "closed_archived" => c = location.cell
                 /\ Unmarked(c) \/ LeftFrozen(c)

\* The cell that the present phase of an evacuation or move asks, and whose
\* row the answer to a repeated request depends on.
Asks(c) ==
  \/ c = operation.source /\ At({"evacuate"}, {"claimed"})
  \/ c = operation.source /\ At({"move"}, {"target_reserved"})
  \/ c = operation.source /\ operation.phase = "abort_requested"
  \/ c = operation.target /\ operation.phase = "target_imported"

\* A call of an operation that is over, carried out late, has changed the row
\* of the present step: another evacuation has frozen it, or has been begun
\* and aborted since the step was carried out (after which even the begin of
\* a restored evacuation takes again), or its owner's close came.
Overtaken ==
  operation # None /\ \E c \in Cell :
    /\ Asks(c)
    /\ \/ rows[c].evac \notin {0, operation.evac}
       \/ /\ operation.phase \in {"abort_requested", "target_imported"}
          /\ Unmarked(c) /\ rows[c].last # operation.evac
       \/ /\ operation.phase = "target_imported"
          /\ \/ Marked(c, operation.evac, "source") /\ rows[c].last # operation.evac
             \/ Unmarked(c) /\ ~Agrees(c, operation.evac)

\* An operation that is claimed ends, whatever its own attempts have done and
\* left undone at the cells; what may stop it is a late call of another one.
\* A claimed close waits for the owner, whose word it cannot repeat.
OperationEnds ==
  operation # None /\ ~At({"close"}, {"claimed"}) ~> operation = None \/ Overtaken

\* "It is exact-id and receipt-backed so a lost response is retryable", of an abort,
\* and "A lost response is safely retryable because the last completed epoch remains
\* as an attestation after the active marker clears", of a completion (evacuation.go):
\* the row a step waits for bears out the step, before it or after it.
LostResponseIsRetryable ==
  operation # None /\ driver # "told" =>
    /\ operation.phase = "abort_requested" =>
         \/ Marked(operation.source, operation.evac, "source")
         \/ Ended(operation.source, operation.evac, "aborted")
    /\ operation.phase = "target_imported" =>
         \/ Marked(operation.target, operation.evac, "target")
         \/ Ended(operation.target, operation.evac, "completed")
=============================================================================
