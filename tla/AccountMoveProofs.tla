-------------------------- MODULE AccountMoveProofs --------------------------
(***************************************************************************)
(* Theorems about the move of an account, for any number of cells, of      *)
(* operations and of writes, whatever calls are lost, late or repeated and *)
(* wherever the driver stops.                                              *)
(***************************************************************************)
EXTENDS AccountMove, FiniteSetTheorems, TLAPS

Location == [kind : {"live", "archived", "closed_archived", "closed"}, cell : Cell,
             archive : 0 .. MaxEpoch]

Job == [cell : Cell, evac : Evacuation, leased : BOOLEAN, copy : Row \cup {None}]

Upload == [evac : Evacuation, copy : Row]

MoveTypeOK ==
    /\ location \in Location /\ operation \in Operation \cup {None} /\ epoch \in 0 .. MaxEpoch
    /\ driver \in {"idle", "asked", "told"} /\ calls \subseteq Call
    /\ rows \in [Cell -> Row \cup {None}] /\ receipts \in [Cell -> SUBSET Evacuation]
    /\ jobs \subseteq Job /\ objects \in [Evacuation -> Row \cup {None}]
    /\ uploads \subseteq Upload
    /\ route \in Cell \cup {None} /\ archived \in 0 .. MaxEpoch

-----------------------------------------------------------------------------
(* The stages of an operation *)

Freezing == At({"evacuate"}, {"claimed"}) \/ At({"move"}, {"target_reserved"})
Beginning == Freezing \/ At({"move"}, {"claimed"})
Aborting == At({"evacuate", "move"}, {"abort_requested", "abort_cleanup_pending"})
Closing == At({"close"}, {"claimed", "source_closed"})
Closed == At({"close"}, {"closed_committed", "route_retired"})
Suspended == At({"evacuate", "move"}, {"source_suspended"})
\* The account is what its source has.
AtSource == Beginning \/ Suspended \/ Aborting \/ Closing

Archiving == At({"evacuate", "move"}, {"archive_committed", "archive_projected"})
Archived == At({"evacuate"}, {"route_retired"}) \/ At({"restore"}, {"claimed"}) \/ Importing
Arriving == At({"move", "restore"}, {"target_imported", "target_resumed"})
\* The account is what its archive has, until the target has resumed it.
InArchive == Archiving \/ Archived \/ Arriving

\* The account is what its target has.
AtTarget == At({"move", "restore"}, {"live_committed", "route_projected", "source_finalized",
                                     "archive_retired", "archive_cleaned"})
Entombed == At({"move", "restore"}, {"restored_closed_committed", "closed_archive_projected",
                                     "closed_archive_retained"})

Finalizing == At({"move", "restore"}, {"route_projected", "closed_archive_projected"})
SourceGone == At({"move", "restore"}, {"source_finalized", "archive_retired", "archive_cleaned",
                                       "closed_archive_retained"})

\* Evacuation e is under way, or its archive is the account.
Alive(e) == \/ operation # None /\ operation.evac = e
            \/ location.kind = "archived" /\ location.archive = e

Alike(r, u) == r.status = u.status /\ r.data = u.data

\* A row that no import holds; a late begin may have frozen it.
Standing(c) == rows[c] # None /\ (rows[c].evac = 0 \/ rows[c].role = "source")

-----------------------------------------------------------------------------
(* The invariant *)

\* The location is that of the stage the operation has reached.
LocationFits ==
    IF operation = None
    THEN /\ location.archive = 0 <=> location.kind \in {"live", "closed"}
    ELSE location = [kind |-> IF AtSource \/ AtTarget THEN "live"
                              ELSE IF InArchive THEN "archived"
                              ELSE IF Entombed THEN "closed_archived" ELSE "closed",
                     cell |-> IF AtTarget THEN operation.target ELSE operation.source,
                     archive |-> IF InArchive \/ Entombed THEN operation.evac ELSE 0]

EvacIsClaimed ==
    /\ location.archive <= epoch
    /\ operation # None =>
         /\ operation.evac <= epoch
         /\ operation.kind = "move" => operation.source # operation.target

\* The row on the source: frozen before it is exported, gone only when the target
\* has what it had.
SourceFits ==
    operation # None =>
    LET s == operation.source
        e == operation.evac IN
    /\ AtSource \/ Closed => Standing(s)
    /\ Suspended \/ Archiving => Marked(s, e, "source")
    /\ s # operation.target =>
        /\ (Archived \/ Arriving \/ At({"move", "restore"}, {"live_committed", "restored_closed_committed"}))
             => Marked(s, e, "source")
        /\ Finalizing => rows[s] = None \/ Marked(s, e, "source")
        /\ SourceGone => rows[s] = None

\* The row on the target, and that no other cell has one.
TargetFits ==
    operation # None =>
    LET s == operation.source
        t == operation.target
        e == operation.evac IN
    /\ \A c \in Cell \ {s} :
         c # t \/ AtSource \/ Archiving \/ At({"restore"}, {"claimed"}) => rows[c] = None
    /\ At({"restore"}, {"claimed"}) => Marked(s, e, "source")
    /\ Importing => \/ t # s /\ rows[t] = None
                    \/ t = s /\ Marked(t, e, "source")
                    \/ Marked(t, e, "target")
    /\ At({"move", "restore"}, {"target_imported"}) => Marked(t, e, "target") \/ Standing(t)
    /\ At({"move", "restore"}, {"target_resumed"}) \/ AtTarget \/ Entombed => Standing(t)

\* The archive of the account is there while something leads to it.
ArchiveFits ==
    /\ \A x \in Evacuation : objects[x] # None => x <= epoch
    /\ operation = None /\ location.archive # 0 => objects[location.archive] # None
    /\ Beginning => objects[operation.evac] = None
    /\ InArchive \/ Entombed \/ At({"move", "restore"}, {"live_committed", "route_projected", "source_finalized"})
         => objects[operation.evac] # None

\* A copy of the account, wherever it is, has what the account has: a frozen row has
\* what was exported of it, and a target what its archive has until it is resumed.
ArchiveIsTrue ==
    /\ Suspended /\ objects[operation.evac] # None =>
         Alike(rows[operation.source], objects[operation.evac])
    /\ location.kind = "archived" =>
         \A c \in Cell :
           rows[c] # None /\ rows[c].evac = location.archive /\ (~ Arriving \/ rows[c].role = "target")
             => Alike(rows[c], objects[location.archive])
    /\ (Arriving \/ Entombed) /\ objects[operation.evac].status = "closed"
         => Alike(rows[operation.target], objects[operation.evac])
    /\ Entombed => objects[operation.evac].status = "closed"
    /\ At({"close"}, {"source_closed"}) \/ Closed => rows[operation.source].status = "closed"

\* An upload that may still land brings what is there already, or is of no use.
UploadFit(u) ==
    /\ u.evac <= epoch
    /\ u.evac = location.archive => Alike(u.copy, objects[u.evac])
    /\ operation # None /\ u.evac = operation.evac =>
         /\ ~ Beginning
         /\ Suspended => Alike(u.copy, rows[operation.source])

\* The directory keeps up with the phases.
DirectoryFits ==
    operation # None =>
    LET s == operation.source
        t == operation.target
        e == operation.evac IN
    /\ AtSource => route = s /\ archived = 0
    /\ At({"evacuate", "move"}, {"archive_committed"}) => route = s /\ archived \in {0, e}
    /\ At({"evacuate", "move"}, {"archive_projected"}) => route \in {s, None} /\ archived = e
    /\ Archived \/ Arriving \/ Entombed => route = None /\ archived = e
    /\ At({"move", "restore"}, {"live_committed"}) => route \in {None, t} /\ archived = e
    /\ At({"move", "restore"}, {"route_projected"}) => route = t /\ archived = e
    /\ At({"move", "restore"}, {"source_finalized"}) => route = t /\ archived \in {0, e}
    /\ At({"move", "restore"}, {"archive_retired", "archive_cleaned"}) => route = t /\ archived = 0
    /\ At({"close"}, {"closed_committed"}) => route \in {s, None} /\ archived = 0
    /\ At({"close"}, {"route_retired"}) => route = None /\ archived = 0

\* Between operations the account is one row, and its archive if it has one.
Rests ==
    operation = None =>
    LET l == location.cell
        a == location.archive IN
    /\ archived = a
    /\ route = IF location.kind = "live" THEN l ELSE None
    /\ location.kind # "closed_archived" =>
         /\ \A c \in Cell \ {l} : rows[c] = None
         /\ IF location.kind = "archived" THEN Marked(l, a, "source") ELSE Standing(l)
         /\ location.kind = "closed" => rows[l].status = "closed"
    /\ location.kind = "closed_archived" =>
         \E c \in Cell : /\ Standing(c) /\ rows[c].status = "closed"
                         /\ \A d \in Cell \ {c} : rows[d] = None

\* A call of the evacuation under way meets the phase it was made for or a later one;
\* one that would delete a row has left its receipt before the operation goes on.
CallFits(k) ==
    /\ k.evac <= epoch
    /\ k.do \in {"abort", "import", "complete", "finalize"} /\ Alive(k.evac) =>
         /\ operation # None /\ operation.evac = k.evac
         /\ k.do = "abort" => Aborting /\ k.cell = operation.source
         /\ k.do = "import" => (Importing \/ Arriving \/ AtTarget \/ Entombed) /\ k.cell = operation.target
         /\ k.do = "complete" => (Arriving \/ AtTarget \/ Entombed) /\ k.cell = operation.target
         /\ k.do = "finalize" => /\ Finalizing \/ SourceGone
                                 /\ k.cell = operation.source /\ operation.source # operation.target
    /\ k.do = "finalize" => \/ k.evac \in receipts[k.cell]
                            \/ operation # None /\ operation.evac = k.evac /\ Finalizing

\* A job holds a copy it could still insert only while its operation imports.
JobFits(j) ==
    /\ j.evac <= epoch
    /\ Alive(j.evac) => /\ operation # None /\ operation.evac = j.evac /\ j.cell = operation.target
                        /\ Importing \/ Arriving \/ AtTarget \/ Entombed
                        /\ j.leased /\ Importing => ~ Marked(j.cell, j.evac, "target")
    /\ j.leased /\ j.copy # None => /\ Alive(j.evac) /\ Importing
                                    /\ Alike(j.copy, objects[j.evac])

\* The session lock.
JobsAreApart == \A i, j \in jobs :
    i.leased /\ j.leased /\ i.cell = j.cell /\ i.evac = j.evac => i = j

\* A receipt is of an evacuation that is over, or whose source has gone.
ReceiptFits(c, e) ==
    /\ e <= epoch
    /\ Alive(e) => /\ operation # None /\ operation.evac = e /\ c = operation.source
                   /\ operation.source # operation.target /\ rows[operation.source] = None
                   /\ Finalizing \/ SourceGone

\* What the driver has been told is so.
DriverFits ==
    /\ driver # "idle" =>
         \/ Freezing \/ At({"close"}, {"claimed"}) \/ AskedBack \/ Importing
         \/ At({"move", "restore"}, {"target_imported"})
         \/ Finalizing /\ operation.source # operation.target
    /\ driver = "told" =>
         /\ operation.kind # "close"
         /\ Beginning => Marked(operation.source, operation.evac, "source")
         /\ Importing => Marked(operation.target, operation.evac, "target")
         /\ Arriving => Standing(operation.target)
         /\ Finalizing => /\ rows[operation.source] = None
                          /\ operation.evac \in receipts[operation.source]

MoveIsSound ==
    /\ MoveTypeOK /\ LocationFits /\ EvacIsClaimed /\ SourceFits /\ TargetFits
    /\ ArchiveFits /\ ArchiveIsTrue /\ DirectoryFits /\ Rests
    /\ \A u \in uploads : UploadFit(u)
    /\ \A k \in calls : CallFits(k)
    /\ \A j \in jobs : JobFits(j)
    /\ JobsAreApart
    /\ \A c \in Cell : \A e \in receipts[c] : ReceiptFits(c, e)
    /\ DriverFits

-----------------------------------------------------------------------------
(* The steps of the driver.  Each leaf works through the stages of the     *)
(* operation, so their definitions stay visible from here on.              *)

USE MoveAssumption
USE DEF vars, control, directory, cells, bucket, MoveIsSound, At, To, Saved, Finished, Unmarked,
   Marked, Ended, Standing, Freezing, Beginning, Suspended, Aborting, Closing, Closed, AtSource,
   Importing, Archiving, Archived, Arriving, InArchive, AtTarget, Entombed, Finalizing, SourceGone,
   AskedBack, Alive

\* The same operation, before and after a step.
GoesOn ==
    /\ operation # None /\ operation' # None
    /\ operation'.evac = operation.evac /\ operation'.kind = operation.kind
    /\ operation'.source = operation.source /\ operation'.target = operation.target

LEMMA PhaseAside ==
    ASSUME operation \in Operation, operation' \in Operation, NEW p, Saved(p)
    PROVE  GoesOn /\ operation'.phase \in {operation.phase, p} /\ (To(p) => operation'.phase = p)
  BY DEF Operation, GoesOn

LEMMA StreamArchiveSound == MoveIsSound /\ StreamArchive => MoveIsSound'
<1> SUFFICES ASSUME MoveIsSound, StreamArchive PROVE MoveIsSound'
  OBVIOUS
<1> USE DEF StreamArchive
<1>1. MoveTypeOK' /\ operation \in Operation
  BY DEF MoveTypeOK, Operation, Upload
<1>2. PICK new \in Upload : /\ uploads' = uploads \cup {new} /\ new.evac = operation.evac
                           /\ new.copy = rows[operation.source]
  BY <1>1 DEF MoveTypeOK, Operation, Upload
<1>3. LocationFits' /\ EvacIsClaimed' /\ SourceFits' /\ TargetFits' /\ ArchiveFits' /\ ArchiveIsTrue'
      /\ DirectoryFits' /\ Rests'
  BY DEF LocationFits, EvacIsClaimed, SourceFits, TargetFits, ArchiveFits, ArchiveIsTrue,
     DirectoryFits, Rests
<1>4. JobsAreApart' /\ (\A k \in calls' : CallFits(k)') /\ (\A j \in jobs' : JobFits(j)')
      /\ DriverFits' /\ \A c \in Cell : \A e \in receipts'[c] : ReceiptFits(c, e)'
  BY DEF CallFits, JobFits, JobsAreApart, ReceiptFits, DriverFits
<1>5. \A u \in uploads : UploadFit(u)'
  BY DEF UploadFit
<1>6. UploadFit(new)'
  <2>1. operation.evac <= epoch /\ operation.evac # 0 /\ location.archive = 0
    BY <1>1 DEF LocationFits, EvacIsClaimed, Operation, Evacuation
  <2> QED
    BY <1>2, <2>1 DEF UploadFit, Alike
<1>7. \A u \in uploads' : UploadFit(u)'
  BY <1>2, <1>5, <1>6
<1> QED
  BY <1>1, <1>3, <1>4, <1>7

\* An upload that lands leaves the archive of the account what it is.
LEMMA UploadLandsSound == ASSUME MoveIsSound, NEW u \in uploads, UploadLands(u) PROVE MoveIsSound'
<1> DEFINE x == u.evac
<1>1. /\ u \in Upload /\ x \in Evacuation /\ u.copy \in Row /\ UploadFit(u)
      /\ objects' = [objects EXCEPT ![x] = u.copy] /\ uploads' = uploads \ {u}
      /\ UNCHANGED <<control, driver, calls, cells, directory>>
  BY DEF UploadLands, MoveTypeOK, Upload
<1>2. objects'[x] = u.copy /\ \A y \in Evacuation \ {x} : objects'[y] = objects[y]
  BY <1>1 DEF MoveTypeOK
<1>3. /\ operation # None => operation \in Operation
      /\ operation # None /\ operation.kind # "close" => operation.evac \in Evacuation
      /\ location.archive \in Evacuation \cup {0}
  BY DEF MoveTypeOK, Operation, Location, Evacuation
<1>4. /\ operation # None /\ x = operation.evac => ~ Beginning
      /\ x <= epoch
  BY <1>1 DEF UploadFit
<1>5. location.archive = x => objects[x] # None /\ Alike(objects'[x], objects[x])
  <2>1. SUFFICES ASSUME location.archive = x PROVE objects[x] # None
    BY <1>1, <1>2 DEF UploadFit
  <2> QED
    BY <1>1, <1>3, <2>1 DEF LocationFits, ArchiveFits, Evacuation
<1>6. MoveTypeOK'
  BY <1>1 DEF MoveTypeOK
<1>7. LocationFits' /\ EvacIsClaimed' /\ SourceFits' /\ TargetFits' /\ DirectoryFits' /\ Rests'
      /\ DriverFits' /\ JobsAreApart'
  BY <1>1 DEF LocationFits, EvacIsClaimed, SourceFits, TargetFits, DirectoryFits, Rests, DriverFits,
     JobsAreApart
<1>8. ArchiveFits'
  BY <1>1, <1>2, <1>3, <1>4, <1>5 DEF ArchiveFits, LocationFits, Evacuation
<1>9. ArchiveIsTrue'
  BY <1>1, <1>2, <1>3, <1>5 DEF ArchiveIsTrue, UploadFit, LocationFits, ArchiveFits, Alike, Evacuation
<1>10. \A v \in uploads' : UploadFit(v)'
  <2> SUFFICES ASSUME NEW v \in uploads PROVE UploadFit(v)'
    BY <1>1
  <2>1. UploadFit(v) /\ v.evac \in Evacuation
    BY DEF MoveTypeOK, Upload
  <2> QED
    BY <1>1, <1>2, <1>5, <2>1 DEF UploadFit, Alike
<1>11. \A j \in jobs' : JobFits(j)'
  <2> SUFFICES ASSUME NEW j \in jobs PROVE JobFits(j)'
    BY <1>1
  <2>1. JobFits(j) /\ j.evac \in Evacuation
    BY DEF MoveTypeOK, Job
  <2> QED
    BY <1>1, <1>2, <1>5, <2>1 DEF JobFits, LocationFits, Alike
<1>12. (\A k \in calls' : CallFits(k)')
       /\ \A c \in Cell : \A e \in receipts'[c] : ReceiptFits(c, e)'
  BY <1>1 DEF CallFits, ReceiptFits
<1> QED
  BY <1>6, <1>7, <1>8, <1>9, <1>10, <1>11, <1>12

LEMMA CommitArchivedSound == MoveIsSound /\ CommitArchived => MoveIsSound'
<1> SUFFICES ASSUME MoveIsSound, CommitArchived PROVE MoveIsSound'
  OBVIOUS
<1> USE DEF CommitArchived
<1>1. MoveTypeOK' /\ operation' \in Operation
  BY DEF MoveTypeOK, Operation, Outward, Inward, Location, Evacuation
<1>2. GoesOn /\ operation'.phase = "archive_committed"
  BY <1>1, PhaseAside DEF MoveTypeOK
<1>3. LocationFits' /\ EvacIsClaimed' /\ DirectoryFits' /\ Rests'
  BY <1>1, <1>2 DEF LocationFits, EvacIsClaimed, DirectoryFits, Rests, GoesOn
<1>4. SourceFits' /\ TargetFits'
  BY <1>2 DEF EvacIsClaimed, SourceFits, TargetFits, GoesOn
<1>5. ArchiveFits' /\ ArchiveIsTrue'
  BY <1>1, <1>2 DEF MoveTypeOK, LocationFits, EvacIsClaimed, TargetFits, ArchiveFits, ArchiveIsTrue, Alike,
     GoesOn
<1>6. JobsAreApart' /\ \A k \in calls' : CallFits(k)'
  BY <1>2 DEF LocationFits, CallFits, JobsAreApart, GoesOn
<1>7. \A j \in jobs' : JobFits(j)'
  BY <1>2 DEF LocationFits, JobFits, GoesOn
<1>8. DriverFits' /\ \A c \in Cell : \A e \in receipts'[c] : ReceiptFits(c, e)'
  BY <1>2 DEF LocationFits, ReceiptFits, DriverFits, GoesOn
<1>9. \A u \in uploads' : UploadFit(u)'
  BY <1>1, <1>2 DEF MoveTypeOK, Upload, Evacuation, LocationFits, EvacIsClaimed, ArchiveIsTrue,
     UploadFit, Alike, GoesOn
<1> QED
  BY <1>1, <1>3, <1>4, <1>5, <1>6, <1>7, <1>8, <1>9

LEMMA RequestAbortSound == MoveIsSound /\ RequestAbort => MoveIsSound'
<1> SUFFICES ASSUME MoveIsSound, RequestAbort PROVE MoveIsSound'
  OBVIOUS
<1> USE DEF RequestAbort
<1>1. MoveTypeOK' /\ operation' \in Operation
  BY DEF MoveTypeOK, Operation, Outward, Inward, Location, Evacuation
<1>2. GoesOn /\ operation'.phase = "abort_requested"
  BY <1>1, PhaseAside DEF MoveTypeOK
<1>3. LocationFits' /\ EvacIsClaimed' /\ DirectoryFits' /\ Rests'
  BY <1>1, <1>2 DEF LocationFits, EvacIsClaimed, DirectoryFits, Rests, GoesOn
<1>4. SourceFits' /\ TargetFits'
  BY <1>2 DEF EvacIsClaimed, SourceFits, TargetFits, GoesOn
<1>5. ArchiveFits' /\ ArchiveIsTrue'
  BY <1>1, <1>2 DEF MoveTypeOK, LocationFits, EvacIsClaimed, ArchiveFits, ArchiveIsTrue, Alike,
     GoesOn
<1>6. JobsAreApart' /\ \A k \in calls' : CallFits(k)'
  BY <1>2 DEF LocationFits, CallFits, JobsAreApart, GoesOn
<1>7. \A j \in jobs' : JobFits(j)'
  BY <1>2 DEF LocationFits, JobFits, GoesOn
<1>8. DriverFits' /\ \A c \in Cell : \A e \in receipts'[c] : ReceiptFits(c, e)'
  BY <1>2 DEF LocationFits, ReceiptFits, DriverFits, GoesOn
<1>9. \A u \in uploads' : UploadFit(u)'
  BY <1>1, <1>2 DEF MoveTypeOK, Upload, Evacuation, LocationFits, EvacIsClaimed, ArchiveIsTrue,
     UploadFit, Alike, GoesOn
<1> QED
  BY <1>1, <1>3, <1>4, <1>5, <1>6, <1>7, <1>8, <1>9

LEMMA ProjectArchiveSound == MoveIsSound /\ ProjectArchive => MoveIsSound'
<1> SUFFICES ASSUME MoveIsSound, ProjectArchive PROVE MoveIsSound'
  OBVIOUS
<1> USE DEF ProjectArchive
<1>1. MoveTypeOK' /\ operation' \in Operation
  BY DEF MoveTypeOK, Operation, Outward, Inward, Location, Evacuation
<1>2. GoesOn /\ operation'.phase \in {operation.phase,
       IF operation.phase \in {"archive_committed"} THEN "archive_projected" ELSE "closed_archive_projected"}
  BY <1>1, PhaseAside DEF MoveTypeOK
<1>3. LocationFits' /\ EvacIsClaimed' /\ DirectoryFits' /\ Rests'
  BY <1>1, <1>2 DEF LocationFits, EvacIsClaimed, DirectoryFits, Rests, GoesOn
<1>4. SourceFits' /\ TargetFits'
  BY <1>2 DEF EvacIsClaimed, SourceFits, TargetFits, GoesOn
<1>5. ArchiveFits' /\ ArchiveIsTrue'
  BY <1>1, <1>2 DEF MoveTypeOK, LocationFits, EvacIsClaimed, ArchiveFits, ArchiveIsTrue, Alike,
     GoesOn
<1>6. JobsAreApart' /\ \A k \in calls' : CallFits(k)'
  BY <1>2 DEF LocationFits, CallFits, JobsAreApart, GoesOn
<1>7. \A j \in jobs' : JobFits(j)'
  BY <1>2 DEF LocationFits, JobFits, GoesOn
<1>8. DriverFits' /\ \A c \in Cell : \A e \in receipts'[c] : ReceiptFits(c, e)'
  BY <1>2 DEF LocationFits, ReceiptFits, DriverFits, GoesOn
<1>9. \A u \in uploads' : UploadFit(u)'
  BY <1>1, <1>2 DEF MoveTypeOK, Upload, Evacuation, LocationFits, EvacIsClaimed, ArchiveIsTrue,
     UploadFit, Alike, GoesOn
<1> QED
  BY <1>1, <1>3, <1>4, <1>5, <1>6, <1>7, <1>8, <1>9

LEMMA RetireRouteSound == MoveIsSound /\ RetireRoute => MoveIsSound'
<1> SUFFICES ASSUME MoveIsSound, RetireRoute PROVE MoveIsSound'
  OBVIOUS
<1> USE DEF RetireRoute
<1>1. MoveTypeOK' /\ operation' \in Operation
  BY DEF MoveTypeOK, Operation, Outward, Inward, Location, Evacuation
<1>2. GoesOn /\ operation'.phase \in {operation.phase, "route_retired"}
  BY <1>1, PhaseAside DEF MoveTypeOK
<1>3. LocationFits' /\ EvacIsClaimed' /\ DirectoryFits' /\ Rests'
  BY <1>1, <1>2 DEF LocationFits, EvacIsClaimed, DirectoryFits, Rests, GoesOn
<1>4. SourceFits' /\ TargetFits'
  BY <1>1, <1>2 DEF MoveTypeOK, Operation, EvacIsClaimed, SourceFits, TargetFits, GoesOn
<1>5. ArchiveFits' /\ ArchiveIsTrue'
  BY <1>1, <1>2 DEF MoveTypeOK, LocationFits, EvacIsClaimed, ArchiveFits, ArchiveIsTrue, Alike,
     GoesOn
<1>6. JobsAreApart' /\ \A k \in calls' : CallFits(k)'
  BY <1>2 DEF LocationFits, CallFits, JobsAreApart, GoesOn
<1>7. \A j \in jobs' : JobFits(j)'
  BY <1>2 DEF LocationFits, JobFits, GoesOn
<1>8. DriverFits' /\ \A c \in Cell : \A e \in receipts'[c] : ReceiptFits(c, e)'
  BY <1>2 DEF LocationFits, ReceiptFits, DriverFits, GoesOn
<1>9. \A u \in uploads' : UploadFit(u)'
  BY <1>1, <1>2 DEF MoveTypeOK, Upload, Evacuation, LocationFits, EvacIsClaimed, ArchiveIsTrue,
     UploadFit, Alike, GoesOn
<1> QED
  BY <1>1, <1>3, <1>4, <1>5, <1>6, <1>7, <1>8, <1>9

LEMMA CommitLiveSound == MoveIsSound /\ CommitLive => MoveIsSound'
<1> SUFFICES ASSUME MoveIsSound, CommitLive PROVE MoveIsSound'
  OBVIOUS
<1> USE DEF CommitLive
<1>1. MoveTypeOK' /\ operation' \in Operation
  BY DEF MoveTypeOK, Operation, Outward, Inward, Location, Evacuation
<1>2. GoesOn /\ operation'.phase = "live_committed"
  BY <1>1, PhaseAside DEF MoveTypeOK
<1>3. LocationFits' /\ EvacIsClaimed' /\ DirectoryFits' /\ Rests'
  BY <1>1, <1>2 DEF MoveTypeOK, LocationFits, EvacIsClaimed, DirectoryFits, Rests, GoesOn
<1>4. SourceFits' /\ TargetFits'
  BY <1>2 DEF EvacIsClaimed, SourceFits, TargetFits, GoesOn
<1>5. ArchiveFits' /\ ArchiveIsTrue'
  BY <1>1, <1>2 DEF MoveTypeOK, LocationFits, EvacIsClaimed, ArchiveFits, ArchiveIsTrue, Alike,
     GoesOn
<1>6. JobsAreApart' /\ \A k \in calls' : CallFits(k)'
  BY <1>2 DEF LocationFits, CallFits, JobsAreApart, GoesOn
<1>7. \A j \in jobs' : JobFits(j)'
  BY <1>2 DEF LocationFits, JobFits, GoesOn
<1>8. DriverFits' /\ \A c \in Cell : \A e \in receipts'[c] : ReceiptFits(c, e)'
  BY <1>2 DEF LocationFits, ReceiptFits, DriverFits, GoesOn
<1>9. \A u \in uploads' : UploadFit(u)'
  BY <1>1, <1>2 DEF MoveTypeOK, Upload, Evacuation, LocationFits, EvacIsClaimed, ArchiveIsTrue,
     UploadFit, Alike, GoesOn
<1> QED
  BY <1>1, <1>3, <1>4, <1>5, <1>6, <1>7, <1>8, <1>9

LEMMA CommitRestoredClosedSound == MoveIsSound /\ CommitRestoredClosed => MoveIsSound'
<1> SUFFICES ASSUME MoveIsSound, CommitRestoredClosed PROVE MoveIsSound'
  OBVIOUS
<1> USE DEF CommitRestoredClosed
<1>1. MoveTypeOK' /\ operation' \in Operation
  BY DEF MoveTypeOK, Operation, Outward, Inward, Location, Evacuation
<1>2. GoesOn /\ operation'.phase = "restored_closed_committed"
  BY <1>1, PhaseAside DEF MoveTypeOK
<1>3. LocationFits' /\ EvacIsClaimed' /\ DirectoryFits' /\ Rests'
  BY <1>1, <1>2 DEF LocationFits, EvacIsClaimed, DirectoryFits, Rests, GoesOn
<1>4. SourceFits' /\ TargetFits'
  BY <1>2 DEF EvacIsClaimed, SourceFits, TargetFits, GoesOn
<1>5. ArchiveFits' /\ ArchiveIsTrue'
  BY <1>1, <1>2 DEF MoveTypeOK, LocationFits, EvacIsClaimed, ArchiveFits, ArchiveIsTrue, Alike,
     GoesOn
<1>6. JobsAreApart' /\ \A k \in calls' : CallFits(k)'
  BY <1>2 DEF LocationFits, CallFits, JobsAreApart, GoesOn
<1>7. \A j \in jobs' : JobFits(j)'
  BY <1>2 DEF LocationFits, JobFits, GoesOn
<1>8. DriverFits' /\ \A c \in Cell : \A e \in receipts'[c] : ReceiptFits(c, e)'
  BY <1>2 DEF LocationFits, ReceiptFits, DriverFits, GoesOn
<1>9. \A u \in uploads' : UploadFit(u)'
  BY <1>1, <1>2 DEF MoveTypeOK, Upload, Evacuation, LocationFits, EvacIsClaimed, ArchiveIsTrue,
     UploadFit, Alike, GoesOn
<1> QED
  BY <1>1, <1>3, <1>4, <1>5, <1>6, <1>7, <1>8, <1>9

LEMMA ProjectRouteSound == MoveIsSound /\ ProjectRoute => MoveIsSound'
<1> SUFFICES ASSUME MoveIsSound, ProjectRoute PROVE MoveIsSound'
  OBVIOUS
<1> USE DEF ProjectRoute
<1>1. MoveTypeOK' /\ operation' \in Operation
  BY DEF MoveTypeOK, Operation, Outward, Inward, Location, Evacuation
<1>2. GoesOn /\ operation'.phase \in {operation.phase, "route_projected"}
  BY <1>1, PhaseAside DEF MoveTypeOK
<1>3. LocationFits' /\ EvacIsClaimed' /\ DirectoryFits' /\ Rests'
  BY <1>1, <1>2 DEF LocationFits, EvacIsClaimed, DirectoryFits, Rests, GoesOn
<1>4. SourceFits' /\ TargetFits'
  BY <1>2 DEF EvacIsClaimed, SourceFits, TargetFits, GoesOn
<1>5. ArchiveFits' /\ ArchiveIsTrue'
  BY <1>1, <1>2 DEF MoveTypeOK, LocationFits, EvacIsClaimed, ArchiveFits, ArchiveIsTrue, Alike,
     GoesOn
<1>6. JobsAreApart' /\ \A k \in calls' : CallFits(k)'
  BY <1>2 DEF LocationFits, CallFits, JobsAreApart, GoesOn
<1>7. \A j \in jobs' : JobFits(j)'
  BY <1>2 DEF LocationFits, JobFits, GoesOn
<1>8. DriverFits' /\ \A c \in Cell : \A e \in receipts'[c] : ReceiptFits(c, e)'
  BY <1>2 DEF LocationFits, ReceiptFits, DriverFits, GoesOn
<1>9. \A u \in uploads' : UploadFit(u)'
  BY <1>1, <1>2 DEF MoveTypeOK, Upload, Evacuation, LocationFits, EvacIsClaimed, ArchiveIsTrue,
     UploadFit, Alike, GoesOn
<1> QED
  BY <1>1, <1>3, <1>4, <1>5, <1>6, <1>7, <1>8, <1>9

LEMMA FinalizeSameCellSound == MoveIsSound /\ FinalizeSameCell => MoveIsSound'
<1> SUFFICES ASSUME MoveIsSound, FinalizeSameCell PROVE MoveIsSound'
  OBVIOUS
<1> USE DEF FinalizeSameCell
<1>1. MoveTypeOK' /\ operation' \in Operation
  BY DEF MoveTypeOK, Operation, Outward, Inward, Location, Evacuation, Finalized
<1>2. GoesOn /\ <<operation.phase, operation'.phase>> \in
       {<<"route_projected", "source_finalized">>, <<"closed_archive_projected", "closed_archive_retained">>}
  BY <1>1, PhaseAside DEF MoveTypeOK, Finalized
<1>3. LocationFits' /\ EvacIsClaimed' /\ DirectoryFits' /\ Rests'
  BY <1>1, <1>2 DEF LocationFits, EvacIsClaimed, DirectoryFits, Rests, GoesOn
<1>4. SourceFits' /\ TargetFits'
  BY <1>2 DEF EvacIsClaimed, SourceFits, TargetFits, GoesOn
<1>5. ArchiveFits' /\ ArchiveIsTrue'
  BY <1>1, <1>2 DEF MoveTypeOK, LocationFits, EvacIsClaimed, ArchiveFits, ArchiveIsTrue, Alike,
     GoesOn
<1>6. JobsAreApart' /\ \A k \in calls' : CallFits(k)'
  BY <1>2 DEF LocationFits, CallFits, JobsAreApart, GoesOn
<1>7. \A j \in jobs' : JobFits(j)'
  BY <1>2 DEF LocationFits, JobFits, GoesOn
<1>8. DriverFits' /\ \A c \in Cell : \A e \in receipts'[c] : ReceiptFits(c, e)'
  BY <1>2 DEF LocationFits, ReceiptFits, DriverFits, GoesOn
<1>9. \A u \in uploads' : UploadFit(u)'
  BY <1>1, <1>2 DEF MoveTypeOK, Upload, Evacuation, LocationFits, EvacIsClaimed, ArchiveIsTrue,
     UploadFit, Alike, GoesOn
<1> QED
  BY <1>1, <1>3, <1>4, <1>5, <1>6, <1>7, <1>8, <1>9

LEMMA RetireArchiveSound == MoveIsSound /\ RetireArchive => MoveIsSound'
<1> SUFFICES ASSUME MoveIsSound, RetireArchive PROVE MoveIsSound'
  OBVIOUS
<1> USE DEF RetireArchive
<1>1. MoveTypeOK' /\ operation' \in Operation
  BY DEF MoveTypeOK, Operation, Outward, Inward, Location, Evacuation
<1>2. GoesOn /\ operation'.phase \in {operation.phase, "archive_retired"}
  BY <1>1, PhaseAside DEF MoveTypeOK
<1>3. LocationFits' /\ EvacIsClaimed' /\ DirectoryFits' /\ Rests'
  BY <1>1, <1>2 DEF LocationFits, EvacIsClaimed, DirectoryFits, Rests, GoesOn
<1>4. SourceFits' /\ TargetFits'
  BY <1>2 DEF EvacIsClaimed, SourceFits, TargetFits, GoesOn
<1>5. ArchiveFits' /\ ArchiveIsTrue'
  BY <1>1, <1>2 DEF MoveTypeOK, LocationFits, EvacIsClaimed, ArchiveFits, ArchiveIsTrue, Alike,
     GoesOn
<1>6. JobsAreApart' /\ \A k \in calls' : CallFits(k)'
  BY <1>2 DEF LocationFits, CallFits, JobsAreApart, GoesOn
<1>7. \A j \in jobs' : JobFits(j)'
  BY <1>2 DEF LocationFits, JobFits, GoesOn
<1>8. DriverFits' /\ \A c \in Cell : \A e \in receipts'[c] : ReceiptFits(c, e)'
  BY <1>2 DEF LocationFits, ReceiptFits, DriverFits, GoesOn
<1>9. \A u \in uploads' : UploadFit(u)'
  BY <1>1, <1>2 DEF MoveTypeOK, Upload, Evacuation, LocationFits, EvacIsClaimed, ArchiveIsTrue,
     UploadFit, Alike, GoesOn
<1> QED
  BY <1>1, <1>3, <1>4, <1>5, <1>6, <1>7, <1>8, <1>9

LEMMA CleanUpArchiveSound == MoveIsSound /\ CleanUpArchive => MoveIsSound'
<1> SUFFICES ASSUME MoveIsSound, CleanUpArchive PROVE MoveIsSound'
  OBVIOUS
<1> USE DEF CleanUpArchive
<1>1. MoveTypeOK' /\ operation' \in Operation
  BY DEF MoveTypeOK, Operation, Outward, Inward, Location, Evacuation
<1>2. GoesOn /\ operation'.phase \in {operation.phase, "archive_cleaned"}
  BY <1>1, PhaseAside DEF MoveTypeOK
<1>3. LocationFits' /\ EvacIsClaimed' /\ DirectoryFits' /\ Rests'
  BY <1>1, <1>2 DEF LocationFits, EvacIsClaimed, DirectoryFits, Rests, GoesOn
<1>4. SourceFits' /\ TargetFits'
  BY <1>2 DEF EvacIsClaimed, SourceFits, TargetFits, GoesOn
<1>5. ArchiveFits' /\ ArchiveIsTrue'
  BY <1>1, <1>2 DEF MoveTypeOK, LocationFits, EvacIsClaimed, ArchiveFits, ArchiveIsTrue, Alike,
     GoesOn
<1>6. JobsAreApart' /\ \A k \in calls' : CallFits(k)'
  BY <1>2 DEF LocationFits, CallFits, JobsAreApart, GoesOn
<1>7. \A j \in jobs' : JobFits(j)'
  BY <1>2 DEF LocationFits, JobFits, GoesOn
<1>8. DriverFits' /\ \A c \in Cell : \A e \in receipts'[c] : ReceiptFits(c, e)'
  BY <1>2 DEF LocationFits, ReceiptFits, DriverFits, GoesOn
<1>9. \A u \in uploads' : UploadFit(u)'
  BY <1>1, <1>2 DEF MoveTypeOK, Upload, Evacuation, LocationFits, EvacIsClaimed, ArchiveIsTrue,
     UploadFit, Alike, GoesOn
<1> QED
  BY <1>1, <1>3, <1>4, <1>5, <1>6, <1>7, <1>8, <1>9

LEMMA CloseSeenSound == MoveIsSound /\ CloseSeen => MoveIsSound'
<1> SUFFICES ASSUME MoveIsSound, CloseSeen PROVE MoveIsSound'
  OBVIOUS
<1> USE DEF CloseSeen
<1>1. MoveTypeOK' /\ operation' \in Operation
  BY DEF MoveTypeOK, Operation, Outward, Inward, Location, Evacuation
<1>2. GoesOn /\ operation'.phase = "source_closed"
  BY <1>1, PhaseAside DEF MoveTypeOK
<1>3. LocationFits' /\ EvacIsClaimed' /\ DirectoryFits' /\ Rests'
  BY <1>1, <1>2 DEF LocationFits, EvacIsClaimed, DirectoryFits, Rests, GoesOn
<1>4. SourceFits' /\ TargetFits'
  BY <1>2 DEF EvacIsClaimed, SourceFits, TargetFits, GoesOn
<1>5. ArchiveFits' /\ ArchiveIsTrue'
  BY <1>1, <1>2 DEF MoveTypeOK, LocationFits, EvacIsClaimed, ArchiveFits, ArchiveIsTrue, Alike,
     GoesOn
<1>6. JobsAreApart' /\ \A k \in calls' : CallFits(k)'
  BY <1>2 DEF LocationFits, CallFits, JobsAreApart, GoesOn
<1>7. \A j \in jobs' : JobFits(j)'
  BY <1>2 DEF LocationFits, JobFits, GoesOn
<1>8. DriverFits' /\ \A c \in Cell : \A e \in receipts'[c] : ReceiptFits(c, e)'
  BY <1>2 DEF LocationFits, ReceiptFits, DriverFits, GoesOn
<1>9. \A u \in uploads' : UploadFit(u)'
  BY <1>1, <1>2 DEF MoveTypeOK, Upload, Evacuation, LocationFits, EvacIsClaimed, ArchiveIsTrue,
     UploadFit, Alike, GoesOn
<1> QED
  BY <1>1, <1>3, <1>4, <1>5, <1>6, <1>7, <1>8, <1>9

LEMMA CommitClosedSound == MoveIsSound /\ CommitClosed => MoveIsSound'
<1> SUFFICES ASSUME MoveIsSound, CommitClosed PROVE MoveIsSound'
  OBVIOUS
<1> USE DEF CommitClosed
<1>1. MoveTypeOK' /\ operation' \in Operation
  BY DEF MoveTypeOK, Operation, Outward, Inward, Location, Evacuation
<1>2. GoesOn /\ operation'.phase = "closed_committed"
  BY <1>1, PhaseAside DEF MoveTypeOK
<1>3. LocationFits' /\ EvacIsClaimed' /\ DirectoryFits' /\ Rests'
  BY <1>1, <1>2 DEF LocationFits, EvacIsClaimed, DirectoryFits, Rests, GoesOn
<1>4. SourceFits' /\ TargetFits'
  BY <1>2 DEF EvacIsClaimed, SourceFits, TargetFits, GoesOn
<1>5. ArchiveFits' /\ ArchiveIsTrue'
  BY <1>1, <1>2 DEF MoveTypeOK, LocationFits, EvacIsClaimed, ArchiveFits, ArchiveIsTrue, Alike,
     GoesOn
<1>6. JobsAreApart' /\ \A k \in calls' : CallFits(k)'
  BY <1>2 DEF LocationFits, CallFits, JobsAreApart, GoesOn
<1>7. \A j \in jobs' : JobFits(j)'
  BY <1>2 DEF LocationFits, JobFits, GoesOn
<1>8. DriverFits' /\ \A c \in Cell : \A e \in receipts'[c] : ReceiptFits(c, e)'
  BY <1>2 DEF LocationFits, ReceiptFits, DriverFits, GoesOn
<1>9. \A u \in uploads' : UploadFit(u)'
  BY <1>1, <1>2 DEF MoveTypeOK, Upload, Evacuation, LocationFits, EvacIsClaimed, ArchiveIsTrue,
     UploadFit, Alike, GoesOn
<1> QED
  BY <1>1, <1>3, <1>4, <1>5, <1>6, <1>7, <1>8, <1>9

\* The last step of an operation, its cancellation or its abort.
Ends ==
    /\ \/ At({"move", "restore"}, {"claimed"}) \/ At({"close"}, {"claimed"})
       \/ At({"evacuate", "move"}, {"abort_cleanup_pending"})
       \/ At({"evacuate", "close"}, {"route_retired"})
       \/ At({"move", "restore"}, {"archive_cleaned", "closed_archive_retained"})
    /\ operation' = None /\ driver' = "idle"
    /\ objects' = IF Aborting THEN [objects EXCEPT ![operation.evac] = None] ELSE objects
    /\ UNCHANGED <<location, epoch, calls, cells, uploads, directory>>

LEMMA EndSound == MoveIsSound /\ Ends => MoveIsSound'
<1> SUFFICES ASSUME MoveIsSound, Ends PROVE MoveIsSound'
  OBVIOUS
<1> USE DEF Ends
<1>1. MoveTypeOK' /\ operation \in Operation
  BY DEF MoveTypeOK
<1>2. /\ operation.kind # "close" => operation.evac \in 1 .. MaxEpoch
      /\ operation.kind \in {"close", "evacuate"} => operation.target = None
      /\ operation.kind \in {"move", "restore"} => operation.target \in Cell
      /\ operation.kind = "close" => operation.evac = 0
      /\ operation.source \in Cell
  BY <1>1 DEF Operation, Evacuation
<1>3. LocationFits' /\ EvacIsClaimed'
  BY <1>2 DEF LocationFits, EvacIsClaimed
<1>4. SourceFits' /\ TargetFits' /\ DirectoryFits' /\ ArchiveIsTrue'
  BY <1>2 DEF SourceFits, TargetFits, DirectoryFits, LocationFits, ArchiveIsTrue
<1>5. ArchiveFits'
  BY <1>2 DEF MoveTypeOK, LocationFits, ArchiveFits, Evacuation
<1>6. Rests'
  <2>1. archived = location.archive /\ route = IF location.kind = "live" THEN location.cell ELSE None
    BY <1>2 DEF LocationFits, DirectoryFits
  <2>2. CASE At({"move", "restore"}, {"claimed"}) \/ At({"close"}, {"claimed"})
    BY <1>2, <2>1, <2>2 DEF LocationFits, Rests, SourceFits, TargetFits
  <2>3. CASE At({"evacuate", "move"}, {"abort_cleanup_pending"}) \/ At({"evacuate", "close"}, {"route_retired"})
    BY <1>2, <2>1, <2>3 DEF LocationFits, Rests, SourceFits, TargetFits, ArchiveIsTrue
  <2>4. CASE At({"move", "restore"}, {"archive_cleaned", "closed_archive_retained"})
    BY <1>2, <2>1, <2>4 DEF LocationFits, Rests, SourceFits, TargetFits, ArchiveIsTrue, Alike
  <2> QED
    BY <2>2, <2>3, <2>4
<1>7. \A k \in calls' : CallFits(k)'
  BY <1>2 DEF LocationFits, CallFits
<1>8. JobsAreApart' /\ \A j \in jobs' : JobFits(j)'
  BY <1>2 DEF LocationFits, ArchiveFits, JobFits, JobsAreApart
<1>9. DriverFits' /\ \A c \in Cell : \A e \in receipts'[c] : ReceiptFits(c, e)'
  BY <1>2 DEF LocationFits, ReceiptFits, DriverFits
<1>10. \A u \in uploads' : UploadFit(u)'
  BY <1>1, <1>2 DEF MoveTypeOK, Upload, Evacuation, LocationFits, UploadFit
<1> QED
  BY <1>1, <1>3, <1>4, <1>5, <1>6, <1>7, <1>8, <1>9, <1>10

LEMMA CancelCloseSound == MoveIsSound /\ CancelClose => MoveIsSound'
  BY EndSound DEF CancelClose, Ends

LEMMA CompleteOperationSound == MoveIsSound /\ CompleteOperation => MoveIsSound'
<1> SUFFICES ASSUME MoveIsSound, CompleteOperation PROVE Ends
  BY EndSound
<1> QED
  BY DEF CompleteOperation, Ends, DriverFits

LEMMA ReserveTargetSound == MoveIsSound /\ ReserveTarget => MoveIsSound'
<1> SUFFICES ASSUME MoveIsSound, ReserveTarget PROVE MoveIsSound'
  OBVIOUS
<1> USE DEF ReserveTarget
<1>0. CASE operation' = None
  BY <1>0, EndSound DEF Ends, DriverFits
<1>a. CASE To("target_reserved")
  <2>1. MoveTypeOK' /\ operation' \in Operation
    BY <1>a DEF MoveTypeOK, Operation, Evacuation
  <2>2. GoesOn /\ operation'.phase = "target_reserved"
    BY <1>a, <2>1, PhaseAside DEF MoveTypeOK
  <2>3. LocationFits' /\ EvacIsClaimed' /\ DirectoryFits' /\ Rests'
    BY <2>1, <2>2 DEF LocationFits, EvacIsClaimed, DirectoryFits, Rests, GoesOn
  <2>4. SourceFits' /\ TargetFits'
    BY <2>1, <2>2 DEF MoveTypeOK, Operation, EvacIsClaimed, SourceFits, TargetFits, GoesOn
  <2>5. ArchiveFits' /\ ArchiveIsTrue'
    BY <2>1, <2>2 DEF MoveTypeOK, LocationFits, ArchiveFits, ArchiveIsTrue, GoesOn
  <2>6. JobsAreApart' /\ \A k \in calls' : CallFits(k)'
    BY <2>2 DEF LocationFits, CallFits, JobsAreApart, GoesOn
  <2>7. \A j \in jobs' : JobFits(j)'
    BY <2>2 DEF LocationFits, JobFits, GoesOn
  <2>8. DriverFits' /\ \A c \in Cell : \A e \in receipts'[c] : ReceiptFits(c, e)'
    BY <2>2 DEF LocationFits, ReceiptFits, DriverFits, GoesOn
  <2>9. \A u \in uploads' : UploadFit(u)'
    BY <2>1, <2>2 DEF MoveTypeOK, Upload, Evacuation, LocationFits, UploadFit, GoesOn
  <2> QED
    BY <2>1, <2>3, <2>4, <2>5, <2>6, <2>7, <2>8, <2>9
<1> QED
  BY <1>0, <1>a

LEMMA CleanUpAbortSound == MoveIsSound /\ CleanUpAbort => MoveIsSound'
<1> SUFFICES ASSUME MoveIsSound, CleanUpAbort PROVE MoveIsSound'
  OBVIOUS
<1> USE DEF CleanUpAbort
<1>0. CASE operation' = None
  BY <1>0, EndSound DEF Ends, DriverFits
<1>a. CASE UNCHANGED operation
  <2>1. MoveTypeOK' /\ operation' \in Operation
    BY <1>a DEF MoveTypeOK, Operation, Evacuation
  <2>2. GoesOn /\ operation'.phase = "abort_cleanup_pending"
    BY <1>a, <2>1 DEF MoveTypeOK, GoesOn
  <2>3. LocationFits' /\ EvacIsClaimed' /\ DirectoryFits' /\ Rests'
    BY <2>1, <2>2 DEF LocationFits, EvacIsClaimed, DirectoryFits, Rests, GoesOn
  <2>4. SourceFits' /\ TargetFits'
    BY <2>2 DEF SourceFits, TargetFits, GoesOn
  <2>5. ArchiveFits' /\ ArchiveIsTrue'
    BY <2>1, <2>2 DEF MoveTypeOK, LocationFits, ArchiveFits, ArchiveIsTrue, GoesOn
  <2>6. JobsAreApart' /\ \A k \in calls' : CallFits(k)'
    BY <2>2 DEF LocationFits, CallFits, JobsAreApart, GoesOn
  <2>7. \A j \in jobs' : JobFits(j)'
    BY <2>2 DEF LocationFits, JobFits, GoesOn
  <2>8. DriverFits' /\ \A c \in Cell : \A e \in receipts'[c] : ReceiptFits(c, e)'
    BY <2>2 DEF LocationFits, ReceiptFits, DriverFits, GoesOn
  <2>9. \A u \in uploads' : UploadFit(u)'
    BY <2>1, <2>2 DEF MoveTypeOK, Upload, Evacuation, LocationFits, UploadFit, GoesOn
  <2> QED
    BY <2>1, <2>3, <2>4, <2>5, <2>6, <2>7, <2>8, <2>9
<1> QED
  BY <1>0, <1>a

LEMMA ClaimSound ==
    ASSUME MoveIsSound, NEW kind, NEW evac, NEW target, Claim(kind, evac, target),
           \/ location.kind = "live" /\ kind = "evacuate" /\ evac = epoch + 1 /\ target = None
           \/ location.kind = "live" /\ kind = "move" /\ evac = epoch + 1 /\ target \in Cell \ {location.cell}
           \/ location.kind = "archived" /\ kind = "restore" /\ evac = location.archive /\ target \in Cell
           \/ location.kind = "live" /\ kind = "close" /\ evac = 0 /\ target = None
    PROVE  MoveIsSound'
<1> USE DEF Claim
<1>1. evac \in 0 .. MaxEpoch /\ (kind # "close" => evac \in 1 .. MaxEpoch)
  BY DEF MoveTypeOK, Location, LocationFits
<1>2. MoveTypeOK' /\ operation' \in Operation
  BY <1>1 DEF MoveTypeOK, Operation, Evacuation, Location
<1>3. /\ operation' # None /\ operation'.evac = evac /\ operation'.kind = kind
      /\ operation'.source = location.cell /\ operation'.target = target
      /\ operation'.phase = "claimed" /\ epoch' = epoch + 1 /\ epoch \in Nat
  BY <1>2 DEF MoveTypeOK
<1>4. LocationFits' /\ EvacIsClaimed' /\ DirectoryFits' /\ Rests'
  BY <1>1, <1>2, <1>3 DEF MoveTypeOK, Location, LocationFits, EvacIsClaimed, DirectoryFits, Rests
<1>5. SourceFits' /\ TargetFits'
  BY <1>1, <1>2, <1>3 DEF SourceFits, TargetFits, Rests
<1>6. ArchiveFits' /\ ArchiveIsTrue'
  BY <1>1, <1>2, <1>3 DEF MoveTypeOK, Evacuation, LocationFits, EvacIsClaimed, ArchiveFits,
     ArchiveIsTrue, Rests
<1>7. \A k \in calls' : CallFits(k)'
  BY <1>1, <1>3 DEF MoveTypeOK, Call, Evacuation, LocationFits, EvacIsClaimed, CallFits
<1>8. JobsAreApart' /\ \A j \in jobs' : JobFits(j)'
  BY <1>1, <1>3 DEF MoveTypeOK, Job, Evacuation, LocationFits, EvacIsClaimed, JobFits, JobsAreApart
<1>9. DriverFits' /\ \A c \in Cell : \A e \in receipts'[c] : ReceiptFits(c, e)'
  BY <1>1, <1>3 DEF MoveTypeOK, Evacuation, LocationFits, EvacIsClaimed, ReceiptFits, DriverFits
<1>10. \A u \in uploads' : UploadFit(u)'
  BY <1>1, <1>3 DEF MoveTypeOK, Upload, Evacuation, LocationFits, EvacIsClaimed, UploadFit
<1> QED
  BY <1>2, <1>4, <1>5, <1>6, <1>7, <1>8, <1>9, <1>10

LEMMA ClaimOperationSound == MoveIsSound /\ ClaimOperation => MoveIsSound'
  BY ClaimSound DEF ClaimOperation

\* What the driver asks for fits the phase it is in.
LEMMA DueFits ==
    ASSUME MoveTypeOK, NEW call \in Call, Due(call)
    PROVE  /\ operation \in Operation /\ operation # None /\ call.evac = operation.evac
           /\ call.cell = operation.source \/ call.cell = operation.target
           /\ call.do = "close" => At({"close"}, {"claimed"}) /\ call.cell = operation.source
           /\ call.do = "begin" => Freezing /\ call.cell = operation.source
           /\ call.do = "abort" => AskedBack /\ call.cell = operation.source
           /\ call.do = "import" => Importing /\ call.cell = operation.target
           /\ call.do = "complete" =>
                At({"move", "restore"}, {"target_imported"}) /\ call.cell = operation.target
           /\ call.do = "finalize" =>
                /\ At({"move", "restore"}, {"route_projected", "closed_archive_projected"})
                /\ call.cell = operation.source /\ operation.source # operation.target
<1>1. operation \in Operation /\ operation # None /\ call.evac = operation.evac
  BY DEF MoveTypeOK, Due
<1>2. /\ operation.phase = "target_imported" => operation.kind \in {"move", "restore"}
      /\ operation.phase \in {"route_projected", "closed_archive_projected"} =>
           operation.kind \in {"move", "restore"}
  BY <1>1 DEF Operation, Outward
<1> QED
  BY <1>1, <1>2 DEF Due

LEMMA AskSound == MoveIsSound /\ Ask => MoveIsSound'
<1> SUFFICES ASSUME MoveIsSound, NEW call \in Call, Due(call), driver' = "asked",
                    calls' = calls \cup {call},
                    UNCHANGED <<control, cells, bucket, directory>>
             PROVE  MoveIsSound'
  BY DEF Ask
<1>1. MoveTypeOK'
  BY DEF MoveTypeOK
<1>2. LocationFits' /\ EvacIsClaimed' /\ SourceFits' /\ TargetFits' /\ ArchiveFits' /\ ArchiveIsTrue'
      /\ DirectoryFits' /\ Rests'
  BY DEF LocationFits, EvacIsClaimed, SourceFits, TargetFits, ArchiveFits, ArchiveIsTrue,
     DirectoryFits, Rests
<1>3. CallFits(call)'
  BY DueFits DEF CallFits, MoveTypeOK, LocationFits, EvacIsClaimed
<1>4. \A k \in calls : CallFits(k)'
  BY DEF CallFits
<1>5. JobsAreApart' /\ (\A u \in uploads' : UploadFit(u)') /\ (\A j \in jobs' : JobFits(j)')
      /\ \A c \in Cell : \A e \in receipts'[c] : ReceiptFits(c, e)'
  BY DEF UploadFit, JobFits, JobsAreApart, ReceiptFits
<1>6. DriverFits'
  BY DueFits DEF DriverFits, Call
<1> QED
  BY <1>1, <1>2, <1>3, <1>4, <1>5, <1>6

LEMMA GiveUpSound == MoveIsSound /\ GiveUp => MoveIsSound'
<1> SUFFICES ASSUME MoveIsSound, driver' = "idle", UNCHANGED <<control, calls, cells, bucket, directory>>
             PROVE  MoveIsSound'
  BY DEF GiveUp
<1>1. MoveTypeOK' /\ DriverFits'
  BY DEF MoveTypeOK, DriverFits
<1>2. LocationFits' /\ EvacIsClaimed' /\ SourceFits' /\ TargetFits' /\ ArchiveFits' /\ ArchiveIsTrue'
      /\ DirectoryFits' /\ Rests'
  BY DEF LocationFits, EvacIsClaimed, SourceFits, TargetFits, ArchiveFits, ArchiveIsTrue,
     DirectoryFits, Rests
<1>3. JobsAreApart' /\ (\A u \in uploads' : UploadFit(u)') /\ (\A k \in calls' : CallFits(k)') /\ (\A j \in jobs' : JobFits(j)')
      /\ \A c \in Cell : \A e \in receipts'[c] : ReceiptFits(c, e)'
  BY DEF UploadFit, CallFits, JobFits, JobsAreApart, ReceiptFits
<1> QED
  BY <1>1, <1>2, <1>3

\* The driver goes on with the phase that follows what the cell has done.
LEMMA LearnSound == MoveIsSound /\ Learn => MoveIsSound'
<1> SUFFICES ASSUME MoveIsSound, NEW call \in Call, driver = "told", Due(call),
                    To(Reached(call)), driver' = "idle",
                    UNCHANGED <<location, epoch, calls, cells, bucket, directory>>
             PROVE  MoveIsSound'
  BY DEF Learn
<1>1. operation \in Operation /\ call.do # "close"
  BY DueFits DEF DriverFits
<1>0. /\ operation.kind # "close" => operation.evac \in Evacuation /\ operation.evac # 0
      /\ operation.kind \in {"move", "restore"} => operation.target \in Cell
  BY <1>1 DEF Operation, Evacuation
<1>2. \/ call.do = "begin" /\ Freezing /\ Reached(call) = "source_suspended"
      \/ call.do = "abort" /\ AskedBack /\ Reached(call) = "abort_cleanup_pending"
      \/ call.do = "import" /\ Importing /\ Reached(call) = "target_imported"
      \/ /\ call.do = "complete" /\ At({"move", "restore"}, {"target_imported"})
         /\ Reached(call) = "target_resumed"
      \/ /\ call.do = "finalize" /\ At({"move", "restore"}, {"route_projected"})
         /\ operation.source # operation.target /\ Reached(call) = "source_finalized"
      \/ /\ call.do = "finalize" /\ At({"move", "restore"}, {"closed_archive_projected"})
         /\ operation.source # operation.target /\ Reached(call) = "closed_archive_retained"
  BY <1>1, DueFits DEF Reached, Finalized, Call
<1>3. MoveTypeOK' /\ operation' \in Operation
  BY <1>1, <1>2 DEF MoveTypeOK, Operation, Outward, Inward
<1>4. GoesOn /\ operation'.phase = Reached(call)
  BY <1>1, <1>3, PhaseAside
<1> HIDE DEF To
<1>5. LocationFits' /\ EvacIsClaimed' /\ DirectoryFits' /\ Rests'
  BY <1>2, <1>3, <1>4 DEF LocationFits, EvacIsClaimed, DirectoryFits, Rests, GoesOn
<1>6. SourceFits' /\ TargetFits'
  BY <1>2, <1>3, <1>4 DEF EvacIsClaimed, SourceFits, TargetFits, DriverFits, GoesOn
<1>7. ArchiveFits' /\ ArchiveIsTrue'
  BY <1>0, <1>2, <1>3, <1>4 DEF MoveTypeOK, LocationFits, DriverFits, ArchiveFits, ArchiveIsTrue,
     Alike, GoesOn
<1>8. JobsAreApart' /\ \A k \in calls' : CallFits(k)'
  BY <1>0, <1>2, <1>4 DEF LocationFits, DriverFits, CallFits, JobsAreApart, GoesOn
<1>9. \A j \in jobs' : JobFits(j)'
  BY <1>2, <1>4 DEF LocationFits, DriverFits, JobFits, GoesOn
<1>10. DriverFits' /\ \A c \in Cell : \A e \in receipts'[c] : ReceiptFits(c, e)'
  BY <1>2, <1>4 DEF LocationFits, ReceiptFits, DriverFits, GoesOn
<1>11. \A u \in uploads' : UploadFit(u)'
  BY <1>0, <1>2, <1>3, <1>4
  DEF MoveTypeOK, Upload, Evacuation, LocationFits, ArchiveFits, UploadFit, GoesOn
<1> QED
  BY <1>3, <1>5, <1>6, <1>7, <1>8, <1>9, <1>10, <1>11

-----------------------------------------------------------------------------
(* What the cells make of a row.                                           *)

RowsFit == rows \in [Cell -> Row \cup {None}]

\* Every other row stays as it is.
OnlyRow(c) == \A d \in Cell \ {c} : rows'[d] = rows[d]

LEMMA BeginRow ==
    ASSUME RowsFit, NEW c \in Cell, rows[c] \in Row, NEW e \in 0 .. MaxEpoch,
           rows' = [rows EXCEPT ![c].evac = e, ![c].role = "source"]
    PROVE  /\ RowsFit' /\ OnlyRow(c) /\ rows'[c] \in Row /\ rows'[c] # None
           /\ rows'[c].evac = e /\ rows'[c].role = "source" /\ Alike(rows'[c], rows[c])
<1>1. rows'[c] = [rows[c] EXCEPT !.evac = e, !.role = "source"] /\ OnlyRow(c)
  BY DEF RowsFit, OnlyRow
<1>2. rows'[c] = [status |-> rows[c].status, data |-> rows[c].data, evac |-> e, role |-> "source",
                  last |-> rows[c].last, outcome |-> rows[c].outcome]
  <2>1. PICK st \in {"active", "closed"}, da \in Nat, la \in 0 .. MaxEpoch, ou \in {"completed", "aborted"} :
          \E ev, ro : rows[c] = [status |-> st, data |-> da, evac |-> ev, role |-> ro, last |-> la, outcome |-> ou]
    BY DEF Row
  <2> QED
    BY ONLY <1>1, <2>1
<1>3. rows'[c] \in Row /\ rows'[c].evac = e /\ rows'[c].role = "source" /\ Alike(rows'[c], rows[c])
  BY <1>2 DEF Row, Alike
<1> QED
  BY <1>1, <1>3 DEF RowsFit, OnlyRow

LEMMA UnmarkRow ==
    ASSUME RowsFit, NEW c \in Cell, rows[c] \in Row, NEW e \in 0 .. MaxEpoch,
           NEW outcome \in {"completed", "aborted"},
           rows' = [rows EXCEPT ![c] = [@ EXCEPT !.evac = 0, !.last = e, !.outcome = outcome]]
    PROVE  /\ RowsFit' /\ OnlyRow(c) /\ rows'[c] \in Row /\ rows'[c] # None /\ rows'[c].evac = 0
           /\ rows'[c].last = e /\ rows'[c].outcome = outcome /\ Alike(rows'[c], rows[c])
<1>1. rows'[c] = [rows[c] EXCEPT !.evac = 0, !.last = e, !.outcome = outcome] /\ OnlyRow(c)
  BY DEF RowsFit, OnlyRow
<1>2. rows'[c] = [status |-> rows[c].status, data |-> rows[c].data, evac |-> 0, role |-> rows[c].role,
                  last |-> e, outcome |-> outcome]
  <2>1. PICK st \in {"active", "closed"}, da \in Nat, ro \in {"source", "target"} :
          \E ev, la, ou : rows[c] = [status |-> st, data |-> da, evac |-> ev, role |-> ro, last |-> la, outcome |-> ou]
    BY DEF Row
  <2> QED
    BY ONLY <1>1, <2>1
<1>3. /\ rows'[c] \in Row /\ rows'[c].evac = 0 /\ rows'[c].last = e /\ rows'[c].outcome = outcome
      /\ Alike(rows'[c], rows[c])
  BY <1>2 DEF Row, Alike
<1> QED
  BY <1>1, <1>3 DEF RowsFit, OnlyRow

LEMMA PromoteRow ==
    ASSUME RowsFit, NEW c \in Cell, rows[c] \in Row, rows' = [rows EXCEPT ![c].role = "target"]
    PROVE  /\ RowsFit' /\ OnlyRow(c) /\ rows'[c] \in Row /\ rows'[c] # None
           /\ rows'[c].evac = rows[c].evac /\ rows'[c].role = "target" /\ Alike(rows'[c], rows[c])
<1>1. rows'[c] = [rows[c] EXCEPT !.role = "target"] /\ OnlyRow(c)
  BY DEF RowsFit, OnlyRow
<1>2. rows'[c] \in Row /\ rows'[c].evac = rows[c].evac /\ rows'[c].role = "target" /\ Alike(rows'[c], rows[c])
  BY <1>1 DEF Row, Alike
<1> QED
  BY <1>1, <1>2 DEF RowsFit, OnlyRow

LEMMA InsertRow ==
    ASSUME RowsFit, NEW c \in Cell, NEW copy \in Row, NEW e \in 0 .. MaxEpoch,
           rows' = [rows EXCEPT ![c] = [copy EXCEPT !.evac = e, !.role = "target"]]
    PROVE  /\ RowsFit' /\ OnlyRow(c) /\ rows'[c] \in Row /\ rows'[c] # None
           /\ rows'[c].evac = e /\ rows'[c].role = "target" /\ Alike(rows'[c], copy)
<1>1. rows'[c] = [copy EXCEPT !.evac = e, !.role = "target"] /\ OnlyRow(c)
  BY DEF RowsFit, OnlyRow
<1>2. rows'[c] = [status |-> copy.status, data |-> copy.data, evac |-> e, role |-> "target",
                  last |-> copy.last, outcome |-> copy.outcome]
  BY <1>1 DEF Row
<1>3. rows'[c] \in Row /\ rows'[c].evac = e /\ rows'[c].role = "target" /\ Alike(rows'[c], copy)
  BY <1>2 DEF Row, Alike
<1> QED
  BY <1>1, <1>3 DEF RowsFit, OnlyRow

\* An agent's write and an owner's close.
LEMMA ServedRow ==
    ASSUME RowsFit, NEW c \in Cell, rows[c] \in Row,
           \/ rows' = [rows EXCEPT ![c].status = "closed"]
           \/ rows' = [rows EXCEPT ![c].data = @ + 1]
    PROVE  /\ RowsFit' /\ OnlyRow(c) /\ rows'[c] \in Row /\ rows'[c] # None
           /\ rows'[c].evac = rows[c].evac /\ rows'[c].role = rows[c].role
           /\ rows'[c].last = rows[c].last /\ rows'[c].outcome = rows[c].outcome
<1>1. /\ rows'[c] \in {[rows[c] EXCEPT !.status = "closed"], [rows[c] EXCEPT !.data = @ + 1]}
      /\ OnlyRow(c)
  BY DEF RowsFit, OnlyRow
<1>2. /\ rows'[c] \in Row /\ rows'[c].evac = rows[c].evac /\ rows'[c].role = rows[c].role
      /\ rows'[c].last = rows[c].last /\ rows'[c].outcome = rows[c].outcome
  BY <1>1 DEF Row
<1> QED
  BY <1>1, <1>2 DEF RowsFit, OnlyRow

-----------------------------------------------------------------------------
(* The cells.                                                              *)

\* What the call asked for is done.
Done(call) ==
    /\ call.do = "begin" => Marked(call.cell, call.evac, "source")
    /\ call.do = "import" => Marked(call.cell, call.evac, "target")
    /\ call.do = "complete" => Standing(call.cell)
    /\ call.do = "finalize" => rows[call.cell] = None /\ call.evac \in receipts[call.cell]
    /\ call.do # "close"

\* A driver that is told of something has been told the truth.
LEMMA ToldTheTruth ==
    ASSUME MoveIsSound, NEW call \in calls, Answer(call), UNCHANGED control, MoveTypeOK',
           Due(call) => Done(call)',
           UNCHANGED driver => DriverFits'
    PROVE  DriverFits'
<1>1. CASE driver = "asked" /\ Due(call) /\ driver' = "told"
  <2>1. call \in Call
    BY DEF MoveTypeOK
  <2> QED
    BY <1>1, <2>1, DueFits DEF Done, DriverFits, Call, MoveTypeOK
<1> QED
  BY <1>1 DEF Answer

\* A call that finds its work done changes nothing on the cell.
LEMMA RepeatSound ==
    ASSUME MoveIsSound, NEW call \in calls, Answer(call), Due(call) => Done(call),
           UNCHANGED <<control, calls, cells, bucket, directory>>
    PROVE  MoveIsSound'
<1>1. MoveTypeOK'
  BY DEF MoveTypeOK, Answer
<1>2. LocationFits' /\ EvacIsClaimed' /\ SourceFits' /\ TargetFits' /\ ArchiveFits' /\ ArchiveIsTrue'
      /\ DirectoryFits' /\ Rests'
  BY DEF LocationFits, EvacIsClaimed, SourceFits, TargetFits, ArchiveFits, ArchiveIsTrue,
     DirectoryFits, Rests
<1>3. JobsAreApart' /\ (\A u \in uploads' : UploadFit(u)') /\ (\A k \in calls' : CallFits(k)')
      /\ (\A j \in jobs' : JobFits(j)')
      /\ \A c \in Cell : \A e \in receipts'[c] : ReceiptFits(c, e)'
  BY DEF UploadFit, CallFits, JobFits, JobsAreApart, ReceiptFits
<1>4. DriverFits'
  BY <1>1, ToldTheTruth DEF Done, DriverFits
<1> QED
  BY <1>1, <1>2, <1>3, <1>4

\* The operation of a call that is still of use.
OfUse(e) == operation \in Operation /\ operation # None /\ e = operation.evac /\ e \in Evacuation

\* Nothing holds the row, or only an evacuation that is over or being taken back.
Released(c) ==
    /\ rows[c] # None
    /\ \/ rows[c].evac = 0
       \/ rows[c].role = "source" /\ (Aborting \/ ~ Alive(rows[c].evac))

\* Such a row is the account's own, at a stage that asks no more of it than to stand.
LEMMA OwnRow ==
    ASSUME MoveIsSound, NEW c \in Cell, Released(c)
    PROVE  \/ /\ operation = None /\ location.kind # "archived"
              /\ \A d \in Cell \ {c} : rows[d] = None
           \/ /\ operation # None /\ (Beginning \/ Aborting \/ Closing \/ Closed) /\ c = operation.source
           \/ /\ operation # None /\ (Arriving \/ AtTarget \/ Entombed) /\ c = operation.target
<1> USE DEF Released
<1>1. CASE operation = None
  BY <1>1 DEF Rests, MoveTypeOK, Location, LocationFits
<1>2. CASE operation # None
  <2>1. /\ operation \in Operation
        /\ operation.kind # "close" => operation.evac # 0
    BY <1>2 DEF MoveTypeOK, Operation, Evacuation
  <2>2. CASE c = operation.source /\ c # operation.target
    BY <1>2, <2>1, <2>2 DEF SourceFits, Operation, Outward, Inward
  <2>3. CASE c = operation.target
    BY <1>2, <2>1, <2>3 DEF SourceFits, TargetFits, EvacIsClaimed, Operation, Outward, Inward
  <2>4. CASE c # operation.source /\ c # operation.target
    BY <1>2, <2>1, <2>4 DEF TargetFits
  <2> QED
    BY <2>2, <2>3, <2>4
<1> QED
  BY <1>1, <1>2

\* What a driver was told of outlasts a change of that row.
LEMMA OwnRowTold ==
    ASSUME MoveIsSound, NEW c \in Cell, Released(c), OnlyRow(c), Standing(c)',
           UNCHANGED <<control, driver, receipts>>
    PROVE  DriverFits'
<1>1. CASE driver # "told"
  BY <1>1 DEF DriverFits
<1>2. CASE driver = "told"
  <2>1. operation \in Operation /\ (operation.kind # "close" => operation.evac # 0)
    BY <1>2 DEF DriverFits, MoveTypeOK, Operation, Evacuation
  <2>2. Beginning => c # operation.source
    BY <1>2, <2>1 DEF DriverFits, Released
  <2>3. ~ Importing
    BY <2>1, OwnRow
  <2>4. Finalizing => c # operation.source
    BY <1>2 DEF DriverFits, Released
  <2> QED
    BY <1>2, <2>1, <2>2, <2>3, <2>4 DEF DriverFits, OnlyRow, MoveTypeOK, Operation
<1> QED
  BY <1>1, <1>2

\* Late or not, what is done to that row disturbs no operation.
LEMMA OwnRowSound ==
    ASSUME MoveIsSound, NEW c \in Cell, Released(c),
           RowsFit', OnlyRow(c), rows'[c] \in Row, Standing(c)',
           rows'[c].status \in {rows[c].status, "closed"},
           rows'[c].data = rows[c].data \/ Serves(c),
           driver' \in {"idle", "asked", "told"}, DriverFits',
           UNCHANGED <<control, calls, receipts, jobs, bucket, directory>>
    PROVE  MoveIsSound'
<1> USE DEF OnlyRow
<1>0. operation # None => /\ operation \in Operation /\ operation.source \in Cell
                          /\ operation.kind # "close" => operation.evac \in Evacuation
                          /\ operation.kind # "close" => operation.evac # 0
  BY DEF MoveTypeOK, Operation, Evacuation
<1>1. MoveTypeOK'
  BY DEF MoveTypeOK, RowsFit
<1>2. LocationFits' /\ EvacIsClaimed' /\ ArchiveFits' /\ DirectoryFits'
  BY DEF LocationFits, EvacIsClaimed, ArchiveFits, DirectoryFits
<1>3. SourceFits' /\ TargetFits'
  BY <1>0, OwnRow DEF SourceFits, TargetFits, Operation
<1>4. ArchiveIsTrue'
  BY <1>0, OwnRow DEF ArchiveIsTrue, LocationFits, ArchiveFits, Serves, Alike, Evacuation, Operation
<1>5. Rests'
  BY OwnRow DEF Rests, MoveTypeOK, Location
<1>6. (\A u \in uploads' : UploadFit(u)') /\ (\A k \in calls' : CallFits(k)')
  BY <1>0, OwnRow DEF UploadFit, CallFits
<1>7. JobsAreApart' /\ (\A j \in jobs' : JobFits(j)')
  BY <1>0, OwnRow DEF JobFits, JobsAreApart
<1>8. \A d \in Cell : \A x \in receipts'[d] : ReceiptFits(d, x)'
  BY <1>0, OwnRow DEF ReceiptFits, MoveTypeOK, Operation, Released
<1> QED
  BY <1>1, <1>2, <1>3, <1>4, <1>5, <1>6, <1>7, <1>8

\* A begin, whenever it comes, freezes the account's own row.
LEMMA BeginTakes ==
    ASSUME MoveIsSound, NEW call \in calls, call.do = "begin", Beginnable(call.cell, call.evac),
           rows' = [rows EXCEPT ![call.cell].evac = call.evac, ![call.cell].role = "source"]
    PROVE  /\ Released(call.cell) /\ call.cell \in Cell /\ call.evac # 0
           /\ RowsFit' /\ OnlyRow(call.cell) /\ rows'[call.cell] \in Row /\ rows'[call.cell] # None
           /\ rows'[call.cell].evac = call.evac /\ rows'[call.cell].role = "source"
           /\ Alike(rows'[call.cell], rows[call.cell])
<1>1. call.cell \in Cell /\ call.evac \in 0 .. MaxEpoch /\ call.evac # 0 /\ Released(call.cell)
  BY DEF MoveTypeOK, Call, Evacuation, Beginnable, Released
<1>2. RowsFit /\ rows[call.cell] \in Row
  BY <1>1 DEF MoveTypeOK, RowsFit, Released
<1> HIDE DEF MoveIsSound
<1> QED
  BY <1>1, <1>2, BeginRow

LEMMA BeginSound == ASSUME MoveIsSound, NEW call \in calls, Begin(call) PROVE MoveIsSound'
<1> DEFINE s == call.cell
           e == call.evac
<1>1. CASE Marked(s, e, "source") /\ UNCHANGED rows
  BY <1>1, RepeatSound DEF Begin, Done
<1>2. CASE /\ Beginnable(s, e)
           /\ rows' = [rows EXCEPT ![s].evac = e, ![s].role = "source"]
  <2>1. /\ call.do = "begin" /\ Answer(call)
        /\ UNCHANGED <<control, calls, receipts, jobs, bucket, directory>>
    BY DEF Begin
  <2>2. /\ Released(s) /\ s \in Cell
        /\ RowsFit' /\ OnlyRow(s) /\ rows'[s] \in Row /\ rows'[s] # None
        /\ rows'[s].evac = e /\ rows'[s].role = "source" /\ Alike(rows'[s], rows[s])
    BY <1>2, <2>1, BeginTakes
  <2>3. MoveTypeOK'
    BY <2>1, <2>2 DEF MoveTypeOK, RowsFit, Answer
  <2>4. Done(call)' /\ Standing(s)'
    BY <2>1, <2>2 DEF Done
  <2>5. UNCHANGED driver => DriverFits'
    BY <2>1, <2>2, <2>4, OwnRowTold
  <2>6. DriverFits' /\ driver' \in {"idle", "asked", "told"}
    BY <2>1, <2>3, <2>4, <2>5, ToldTheTruth DEF MoveTypeOK
  <2> HIDE DEF MoveIsSound, s, e
  <2> QED
    BY <2>1, <2>2, <2>4, <2>6, OwnRowSound DEF Alike
<1> QED
  BY <1>1, <1>2 DEF Begin

\* An abort of a row that its evacuation has marked gives the account's own row back.
LEMMA AbortTakes ==
    ASSUME MoveIsSound, NEW call \in calls, call.do = "abort",
           Marked(call.cell, call.evac, "source"),
           rows' = [rows EXCEPT ![call.cell] =
             [@ EXCEPT !.evac = 0, !.last = call.evac, !.outcome = "aborted"]]
    PROVE  /\ Released(call.cell) /\ call.cell \in Cell /\ call.evac # 0
           /\ RowsFit' /\ OnlyRow(call.cell) /\ rows'[call.cell] \in Row /\ rows'[call.cell] # None
           /\ rows'[call.cell].evac = 0 /\ Alike(rows'[call.cell], rows[call.cell])
<1>1. call.cell \in Cell /\ call.evac \in 0 .. MaxEpoch /\ call.evac # 0
  BY DEF MoveTypeOK, Call, Evacuation
<1>2. Released(call.cell)
  BY DEF CallFits, Released
<1>3. RowsFit /\ rows[call.cell] \in Row
  BY <1>1 DEF MoveTypeOK, RowsFit
<1> HIDE DEF MoveIsSound
<1> QED
  BY <1>1, <1>2, <1>3, UnmarkRow

LEMMA AbortSound == ASSUME MoveIsSound, NEW call \in calls, Abort(call) PROVE MoveIsSound'
<1> DEFINE s == call.cell
           e == call.evac
<1>1. CASE Ended(s, e, "aborted") /\ UNCHANGED rows
  BY <1>1, RepeatSound DEF Abort, Unmark, Done
<1>2. CASE /\ Marked(s, e, "source")
           /\ rows' = [rows EXCEPT ![s] = [@ EXCEPT !.evac = 0, !.last = e, !.outcome = "aborted"]]
  <2>1. /\ call.do = "abort" /\ Answer(call)
        /\ UNCHANGED <<control, calls, receipts, jobs, bucket, directory>>
    BY DEF Abort, Unmark
  <2>2. /\ Released(s) /\ s \in Cell
        /\ RowsFit' /\ OnlyRow(s) /\ rows'[s] \in Row /\ rows'[s] # None /\ rows'[s].evac = 0
        /\ Alike(rows'[s], rows[s])
    BY <1>2, <2>1, AbortTakes
  <2>3. MoveTypeOK'
    BY <2>1, <2>2 DEF MoveTypeOK, RowsFit, Answer
  <2>4. Done(call)' /\ Standing(s)'
    BY <2>1, <2>2 DEF Done
  <2>5. UNCHANGED driver => DriverFits'
    BY <2>1, <2>2, <2>4, OwnRowTold
  <2>6. DriverFits' /\ driver' \in {"idle", "asked", "told"}
    BY <2>1, <2>3, <2>4, <2>5, ToldTheTruth DEF MoveTypeOK
  <2> HIDE DEF MoveIsSound, s, e
  <2> QED
    BY <2>1, <2>2, <2>4, <2>6, OwnRowSound DEF Alike
<1> QED
  BY <1>1, <1>2 DEF Abort, Unmark

LEMMA CloseSound == ASSUME MoveIsSound, NEW call \in calls, Close(call) PROVE MoveIsSound'
<1> DEFINE c == call.cell
<1>1. /\ c \in Cell /\ Released(c) /\ RowsFit /\ rows[c] \in Row
      /\ rows' = [rows EXCEPT ![c].status = "closed"]
  BY DEF Close, MoveTypeOK, Call, Serves, RowsFit, Released
<1>2. RowsFit' /\ OnlyRow(c) /\ rows'[c] \in Row /\ Standing(c)'
  BY <1>1, ServedRow DEF Released
<1>3. rows'[c].status = "closed" /\ rows'[c].data = rows[c].data
  BY <1>1 DEF RowsFit, Row
<1>4. UNCHANGED <<control, driver, calls, receipts, jobs, bucket, directory>>
  BY DEF Close
<1>5. driver' \in {"idle", "asked", "told"} /\ DriverFits'
  BY <1>1, <1>2, <1>4, OwnRowTold DEF MoveTypeOK
<1> HIDE DEF MoveIsSound, c
<1> QED
  BY <1>1, <1>2, <1>3, <1>4, <1>5, OwnRowSound

LEMMA WriteSound == ASSUME MoveIsSound, NEW c \in Cell, Write(c) PROVE MoveIsSound'
<1>1. /\ Serves(c) /\ Released(c) /\ RowsFit /\ rows[c] \in Row
      /\ rows' = [rows EXCEPT ![c].data = @ + 1]
  BY DEF Write, MoveTypeOK, Serves, RowsFit, Released
<1>2. RowsFit' /\ OnlyRow(c) /\ rows'[c] \in Row /\ Standing(c)'
  BY <1>1, ServedRow DEF Released
<1>3. rows'[c].status = rows[c].status
  BY <1>1 DEF RowsFit, Row
<1>4. UNCHANGED <<control, driver, calls, receipts, jobs, bucket, directory>>
  BY DEF Write
<1>5. driver' \in {"idle", "asked", "told"} /\ DriverFits'
  BY <1>1, <1>2, <1>4, OwnRowTold DEF MoveTypeOK
<1> HIDE DEF MoveIsSound
<1> QED
  BY <1>1, <1>2, <1>3, <1>4, <1>5, OwnRowSound

\* A marker that is completed is that of an import that the driver knows to be done.
LEMMA CompleteTakes ==
    ASSUME MoveIsSound, NEW call \in calls, call.do = "complete",
           Marked(call.cell, call.evac, "target"),
           rows' = [rows EXCEPT ![call.cell] =
             [@ EXCEPT !.evac = 0, !.last = call.evac, !.outcome = "completed"]]
    PROVE  /\ At({"move", "restore"}, {"target_imported"}) /\ call.cell = operation.target
           /\ OfUse(call.evac) /\ call.cell \in Cell /\ call.evac # 0 /\ rows[call.cell] \in Row
           /\ RowsFit' /\ OnlyRow(call.cell) /\ rows'[call.cell] \in Row /\ rows'[call.cell] # None
           /\ rows'[call.cell].evac = 0 /\ Alike(rows'[call.cell], rows[call.cell])
<1>1. call.cell \in Cell /\ call.evac \in Evacuation /\ call.evac # 0 /\ call.evac \in 0 .. MaxEpoch
  BY DEF MoveTypeOK, Call, Evacuation
<1>2. operation # None
  BY <1>1 DEF Rests, MoveTypeOK, Location
<1>3. operation \in Operation
  BY <1>2 DEF MoveTypeOK
<1>4. Importing \/ At({"move", "restore"}, {"target_imported"})
  BY <1>1, <1>2, <1>3 DEF SourceFits, TargetFits, Operation, Outward, Inward
<1>5. call.cell = operation.target /\ call.evac = operation.evac
  BY <1>1, <1>2, <1>3, <1>4 DEF SourceFits, TargetFits, Operation
<1>6. At({"move", "restore"}, {"target_imported"}) /\ OfUse(call.evac)
  BY <1>1, <1>3, <1>4, <1>5 DEF CallFits, OfUse
<1>7. RowsFit /\ rows[call.cell] \in Row
  BY <1>1 DEF MoveTypeOK, RowsFit
<1> HIDE DEF MoveIsSound
<1> QED
  BY <1>1, <1>5, <1>6, <1>7, UnmarkRow

LEMMA CompleteSound == ASSUME MoveIsSound, NEW call \in calls, Complete(call) PROVE MoveIsSound'
<1> DEFINE s == call.cell
           e == call.evac
<1>0. call.do = "complete" /\ Answer(call) /\ UNCHANGED <<control, calls, receipts, jobs, bucket, directory>>
  BY DEF Complete, Unmark, Answer
<1>1. CASE Ended(s, e, "completed") /\ UNCHANGED rows
  BY <1>0, <1>1, RepeatSound DEF Done
<1>2. CASE /\ Marked(s, e, "target")
           /\ rows' = [rows EXCEPT ![s] = [@ EXCEPT !.evac = 0, !.last = e, !.outcome = "completed"]]
  <2>1. /\ At({"move", "restore"}, {"target_imported"}) /\ s = operation.target /\ OfUse(e) /\ s \in Cell /\ e # 0
        /\ RowsFit' /\ OnlyRow(s) /\ rows'[s] \in Row /\ rows'[s] # None /\ rows'[s].evac = 0
        /\ Alike(rows'[s], rows[s])
    BY <1>0, <1>2, CompleteTakes
  <2>2. Done(call)'
    BY <1>0, <2>1 DEF Done
  <2> HIDE DEF s, e
  <2>3. MoveTypeOK'
    BY <1>0, <2>1 DEF MoveTypeOK, RowsFit, Answer
  <2>4. LocationFits' /\ EvacIsClaimed' /\ ArchiveFits' /\ DirectoryFits' /\ Rests'
    BY <1>0, <2>1 DEF LocationFits, EvacIsClaimed, ArchiveFits, DirectoryFits, Rests, OfUse
  <2>5. SourceFits' /\ TargetFits'
    BY <1>2, <1>0, <2>1 DEF SourceFits, TargetFits, OnlyRow, OfUse
  <2>6. ArchiveIsTrue'
    BY <1>0, <2>1 DEF ArchiveIsTrue, LocationFits, OnlyRow, OfUse, Alike, Evacuation
  <2>7. (\A u \in uploads' : UploadFit(u)') /\ (\A k \in calls' : CallFits(k)')
    BY <1>0, <2>1 DEF UploadFit, CallFits
  <2>8. JobsAreApart' /\ (\A j \in jobs' : JobFits(j)')
        /\ \A c \in Cell : \A x \in receipts'[c] : ReceiptFits(c, x)'
    BY <1>2, <1>0, <2>1 DEF JobFits, JobsAreApart, ReceiptFits, MoveTypeOK, Job, OnlyRow, OfUse
  <2>9. UNCHANGED driver => DriverFits'
    BY <1>0, <2>1 DEF DriverFits, OnlyRow, OfUse
  <2>10. DriverFits'
    BY <1>0, <2>2, <2>3, <2>9, ToldTheTruth
  <2> QED
    BY <2>3, <2>4, <2>5, <2>6, <2>7, <2>8, <2>10
<1> QED
  BY <1>1, <1>2 DEF Complete, Unmark

\* A row that is finalized is that of a source whose account stands on its target; a
\* call that comes when that is over finds its receipt.
LEMMA FinalizeTakes ==
    ASSUME MoveIsSound, NEW call \in calls, call.do = "finalize",
           call.evac \notin receipts[call.cell],
           Marked(call.cell, call.evac, "source"),
           rows' = [rows EXCEPT ![call.cell] = None]
    PROVE  /\ Finalizing /\ OfUse(call.evac) /\ call.cell = operation.source /\ call.cell # operation.target
           /\ call.cell \in Cell /\ call.evac # 0 /\ call.evac <= epoch
           /\ RowsFit' /\ OnlyRow(call.cell) /\ rows'[call.cell] = None
<1>1. call.cell \in Cell /\ call.evac \in Evacuation /\ call.evac # 0
  BY DEF MoveTypeOK, Call, Evacuation
<1>2. /\ operation # None /\ operation.evac = call.evac /\ Finalizing /\ call.evac <= epoch
      /\ call.cell = operation.source /\ call.cell # operation.target
  BY <1>1 DEF CallFits
<1>3. RowsFit' /\ OnlyRow(call.cell) /\ rows'[call.cell] = None
  BY <1>1 DEF MoveTypeOK, RowsFit, OnlyRow
<1> QED
  BY <1>1, <1>2, <1>3 DEF OfUse, MoveTypeOK

LEMMA FinalizeSound == ASSUME MoveIsSound, NEW call \in calls, Finalize(call) PROVE MoveIsSound'
<1> DEFINE s == call.cell
           e == call.evac
<1>1. call.do = "finalize" /\ s \in Cell /\ e \in Evacuation /\ e # 0
  BY DEF Finalize, MoveTypeOK, Call, Evacuation
<1>2. CASE e \in receipts[s] /\ UNCHANGED <<rows, receipts>>
  <2>1. Due(call) => Done(call)
    BY <1>1, <1>2 DEF Due, Done, ReceiptFits
  <2> QED
    BY <1>2, <2>1, RepeatSound DEF Finalize
<1>3. CASE /\ e \notin receipts[s] /\ Marked(s, e, "source")
           /\ rows' = [rows EXCEPT ![s] = None]
           /\ receipts' = [receipts EXCEPT ![s] = @ \cup {e}]
  <2>1. Answer(call) /\ UNCHANGED <<control, calls, jobs, bucket, directory>>
    BY DEF Finalize
  <2>2. /\ Finalizing /\ OfUse(e) /\ s = operation.source /\ s # operation.target /\ e <= epoch
        /\ RowsFit' /\ OnlyRow(s) /\ rows'[s] = None
    BY <1>1, <1>3, FinalizeTakes
  <2>3. \A c \in Cell : receipts'[c] = IF c = s THEN receipts[c] \cup {e} ELSE receipts[c]
    BY <1>1, <1>3 DEF MoveTypeOK
  <2>4. receipts' \in [Cell -> SUBSET Evacuation]
    BY <1>1, <1>3 DEF MoveTypeOK
  <2>5. Done(call)'
    BY <1>1, <2>2, <2>3 DEF Done
  <2> HIDE DEF s, e
  <2>6. MoveTypeOK'
    BY <2>1, <2>2, <2>4 DEF MoveTypeOK, RowsFit, Answer
  <2>7. LocationFits' /\ EvacIsClaimed' /\ ArchiveFits' /\ DirectoryFits' /\ Rests'
    BY <2>1, <2>2 DEF LocationFits, EvacIsClaimed, ArchiveFits, DirectoryFits, Rests, OfUse
  <2>8. SourceFits' /\ TargetFits'
    BY <1>1, <2>1, <2>2 DEF SourceFits, TargetFits, OnlyRow, OfUse, MoveTypeOK, Operation
  <2>9. ArchiveIsTrue'
    BY <1>1, <2>1, <2>2 DEF ArchiveIsTrue, OnlyRow, OfUse, MoveTypeOK, Operation
  <2>10. (\A u \in uploads' : UploadFit(u)') /\ \A k \in calls' : CallFits(k)'
    <3> SUFFICES ASSUME NEW k \in calls PROVE CallFits(k)'
      BY <2>1, <2>2 DEF UploadFit
    <3>1. k.cell \in Cell
      BY DEF MoveTypeOK, Call
    <3> QED
      BY <1>1, <2>1, <2>2, <2>3, <3>1 DEF CallFits, OnlyRow, OfUse
  <2>11. JobsAreApart' /\ \A j \in jobs' : JobFits(j)'
    BY <1>1, <2>1, <2>2 DEF JobFits, JobsAreApart, OfUse
  <2>12. \A c \in Cell : \A x \in receipts'[c] : ReceiptFits(c, x)'
    <3> SUFFICES ASSUME NEW c \in Cell, NEW x \in receipts'[c] PROVE ReceiptFits(c, x)'
      OBVIOUS
    <3>1. ReceiptFits(c, x) \/ (c = s /\ x = e)
      BY <2>3
    <3> QED
      BY <2>1, <2>2, <3>1 DEF ReceiptFits, OfUse
  <2>13. UNCHANGED driver => DriverFits'
    BY <1>1, <2>1, <2>2, <2>3 DEF DriverFits, OfUse
  <2>14. DriverFits'
    BY <2>1, <2>5, <2>6, <2>13, ToldTheTruth
  <2> QED
    BY <2>6, <2>7, <2>8, <2>9, <2>10, <2>11, <2>12, <2>14
<1> QED
  BY <1>2, <1>3 DEF Finalize

-----------------------------------------------------------------------------
(* The import jobs.                                                        *)

\* The steps that touch the jobs only.
LEMMA JobsSound ==
    ASSUME MoveIsSound, jobs' \subseteq Job, JobsAreApart', \A j \in jobs' : JobFits(j),
           UNCHANGED <<control, driver, calls, rows, receipts, bucket, directory>>
    PROVE  MoveIsSound'
<1>1. MoveTypeOK'
  BY DEF MoveTypeOK
<1>2. LocationFits' /\ EvacIsClaimed' /\ SourceFits' /\ TargetFits' /\ ArchiveFits' /\ ArchiveIsTrue'
      /\ DirectoryFits' /\ Rests' /\ DriverFits'
  BY DEF LocationFits, EvacIsClaimed, SourceFits, TargetFits, ArchiveFits, ArchiveIsTrue,
     DirectoryFits, Rests, DriverFits
<1>3. (\A u \in uploads' : UploadFit(u)') /\ (\A k \in calls' : CallFits(k)')
      /\ (\A j \in jobs' : JobFits(j)')
      /\ \A c \in Cell : \A e \in receipts'[c] : ReceiptFits(c, e)'
  BY DEF UploadFit, CallFits, JobFits, ReceiptFits
<1> QED
  BY <1>1, <1>2, <1>3

LEMMA ImportSound == ASSUME MoveIsSound, NEW call \in calls, Import(call) PROVE MoveIsSound'
<1> DEFINE t == call.cell
           e == call.evac
           new == [cell |-> t, evac |-> e, leased |-> TRUE, copy |-> None]
<1>1. call.do = "import" /\ t \in Cell /\ e \in Evacuation /\ e # 0
  BY DEF Import, MoveTypeOK, Call, Evacuation
<1>2. CASE Imported(t, e) /\ Answer(call) /\ UNCHANGED jobs
  <2>1. Due(call) => Done(call)
    <3> SUFFICES ASSUME Due(call) PROVE Marked(t, e, "target")
      BY <1>1 DEF Done
    <3>1. call \in Call /\ MoveTypeOK
      BY DEF MoveTypeOK
    <3>2. Importing /\ t = operation.target /\ e = operation.evac
      BY <1>1, <3>1, DueFits
    <3> QED
      BY <1>1, <1>2, <3>2 DEF Imported, TargetFits
  <2> QED
    BY <1>2, <2>1, RepeatSound DEF Import
<1>3. CASE /\ rows[t] = None \/ Marked(t, e, "source")
           /\ \A j \in jobs : j.cell = t /\ j.evac = e => ~ j.leased
           /\ jobs' = jobs \cup {new} /\ UNCHANGED driver
  <2>1. /\ new \in Job /\ new.cell = t /\ new.evac = e /\ new.leased /\ new.copy = None
    BY <1>1 DEF Job
  <2>2. UNCHANGED <<control, driver, calls, rows, receipts, bucket, directory>>
    BY <1>1, <1>3 DEF Import
  <2>3. JobFits(new)
    <3>1. CallFits(call)
      OBVIOUS
    <3>2. e <= epoch
      BY <3>1 DEF CallFits
    <3>3. ASSUME Alive(e)
          PROVE  /\ operation # None /\ operation.evac = e /\ t = operation.target
                 /\ Importing \/ Arriving \/ AtTarget \/ Entombed
      BY <1>1, <3>1, <3>3 DEF CallFits
    <3> HIDE DEF new
    <3> QED
      BY <1>1, <1>3, <2>1, <3>2, <3>3 DEF JobFits
  <2> HIDE DEF new, t, e
  <2>4. JobsAreApart'
    BY <1>3, <2>1 DEF JobsAreApart
  <2>5. jobs' \subseteq Job /\ \A j \in jobs' : JobFits(j)
    BY <1>3, <2>1, <2>3 DEF MoveTypeOK
  <2> QED
    BY <2>2, <2>4, <2>5, JobsSound
<1> QED
  BY <1>2, <1>3 DEF Import

LEMMA DownloadSound == ASSUME MoveIsSound, NEW j \in jobs, Download(j) PROVE MoveIsSound'
<1> DEFINE new == [j EXCEPT !.copy = objects[j.evac]]
<1>1. /\ j \in Job /\ jobs' = (jobs \ {j}) \cup {new} /\ operation # None /\ Importing
      /\ operation.evac = j.evac /\ operation.target = j.cell /\ objects[j.evac] # None
      /\ UNCHANGED <<control, driver, calls, rows, receipts, bucket, directory>>
  BY DEF Download, MoveTypeOK
<1>2. objects[j.evac] \in Row
  BY <1>1 DEF MoveTypeOK, Job
<1>3. new \in Job /\ new.cell = j.cell /\ new.evac = j.evac /\ new.leased = j.leased /\ new.copy = objects[j.evac]
  BY <1>1, <1>2 DEF Job
<1>4. JobFits(j)
  OBVIOUS
<1> HIDE DEF new
<1>5. JobFits(new)
  BY <1>1, <1>3, <1>4 DEF JobFits, Alike
<1>6. JobsAreApart'
  BY <1>1, <1>3 DEF JobsAreApart
<1>7. jobs' \subseteq Job /\ \A i \in jobs' : JobFits(i)
  BY <1>1, <1>3, <1>5 DEF MoveTypeOK
<1> QED
  BY <1>1, <1>6, <1>7, JobsSound

LEMMA LoseSessionSound == ASSUME MoveIsSound, NEW j \in jobs, LoseSession(j) PROVE MoveIsSound'
<1> DEFINE new == [j EXCEPT !.leased = FALSE]
<1>1. /\ j \in Job /\ jobs' = (jobs \ {j}) \cup {new}
      /\ UNCHANGED <<control, driver, calls, rows, receipts, bucket, directory>>
  BY DEF LoseSession, MoveTypeOK
<1>2. new \in Job /\ new.cell = j.cell /\ new.evac = j.evac /\ ~ new.leased
  BY <1>1 DEF Job
<1>3. JobFits(j)
  OBVIOUS
<1> HIDE DEF new
<1>4. JobFits(new)
  BY <1>2, <1>3 DEF JobFits
<1>5. JobsAreApart'
  BY <1>1, <1>2 DEF JobsAreApart
<1>6. jobs' \subseteq Job /\ \A i \in jobs' : JobFits(i)
  BY <1>1, <1>2, <1>4 DEF MoveTypeOK
<1> QED
  BY <1>1, <1>5, <1>6, JobsSound

LEMMA EndJobSound == ASSUME MoveIsSound, NEW j \in jobs, EndJob(j) PROVE MoveIsSound'
<1>1. jobs' = jobs \ {j} /\ UNCHANGED <<control, driver, calls, rows, receipts, bucket, directory>>
  BY DEF EndJob
<1>2. JobsAreApart' /\ jobs' \subseteq Job /\ \A i \in jobs' : JobFits(i)
  BY <1>1 DEF JobsAreApart, MoveTypeOK
<1> QED
  BY <1>1, <1>2, JobsSound

\* A row that is imported is that of an operation that still imports, and what its archive has.
LEMMA ImportTakes ==
    ASSUME MoveIsSound, NEW j \in jobs, ImportRow(j)
    PROVE  /\ Importing /\ OfUse(j.evac) /\ j.cell = operation.target /\ j.cell \in Cell /\ j.evac # 0
           /\ j.leased /\ (rows[j.cell] = None \/ Marked(j.cell, j.evac, "source"))
           /\ RowsFit' /\ OnlyRow(j.cell) /\ rows'[j.cell] \in Row /\ rows'[j.cell] # None
           /\ rows'[j.cell].evac = j.evac /\ rows'[j.cell].role = "target"
           /\ Alike(rows'[j.cell], objects[j.evac])
<1> DEFINE t == j.cell
           e == j.evac
<1>1. /\ j \in Job /\ j.copy # None /\ j.leased
  BY DEF ImportRow, HoldsSession, MoveTypeOK
<1>2. /\ t \in Cell /\ e \in Evacuation /\ e # 0 /\ e \in 0 .. MaxEpoch /\ j.copy \in Row
  BY <1>1 DEF Job, Evacuation
<1>3. /\ Importing /\ OfUse(e) /\ t = operation.target /\ Alike(j.copy, objects[e])
      /\ ~ Marked(t, e, "target")
  BY <1>1, <1>2 DEF JobFits, OfUse, MoveTypeOK
<1>4. /\ RowsFit' /\ OnlyRow(t) /\ rows'[t] \in Row /\ rows'[t] # None
      /\ rows'[t].evac = e /\ rows'[t].role = "target" /\ Alike(rows'[t], objects[e])
  <2>1. RowsFit
    BY DEF MoveTypeOK, RowsFit
  <2>2. CASE rows[t] = None /\ rows' = [rows EXCEPT ![t] = [j.copy EXCEPT !.evac = e, !.role = "target"]]
    <3>1. /\ RowsFit' /\ OnlyRow(t) /\ rows'[t] \in Row /\ rows'[t] # None
          /\ rows'[t].evac = e /\ rows'[t].role = "target" /\ Alike(rows'[t], j.copy)
      BY <1>2, <2>1, <2>2, InsertRow
    <3> QED
      BY <1>3, <3>1 DEF Alike
  <2>3. CASE Marked(t, e, "source") /\ rows' = [rows EXCEPT ![t].role = "target"]
    <3>1. rows[t] \in Row /\ Alike(rows[t], objects[e])
      BY <1>1, <1>2, <1>3, <2>1, <2>3 DEF RowsFit, LocationFits, ArchiveIsTrue, OfUse
    <3> QED
      BY <1>2, <2>1, <2>3, <3>1, PromoteRow DEF Alike
  <2>4. ~ Imported(t, e)
    BY <1>2, <1>3 DEF Imported, TargetFits, OfUse
  <2> QED
    BY <2>2, <2>3, <2>4 DEF ImportRow
<1>5. rows[t] = None \/ Marked(t, e, "source")
  BY <1>2, <1>3 DEF TargetFits, OfUse
<1> QED
  BY <1>1, <1>2, <1>3, <1>4, <1>5

LEMMA ImportRowSound == ASSUME MoveIsSound, NEW j \in jobs, ImportRow(j) PROVE MoveIsSound'
<1> DEFINE t == j.cell
           e == j.evac
<1>1. jobs' = jobs \ {j} /\ UNCHANGED <<control, driver, calls, receipts, bucket, directory>>
  BY DEF ImportRow
<1>2. /\ Importing /\ OfUse(e) /\ t = operation.target /\ t \in Cell /\ e # 0 /\ j.leased
      /\ RowsFit' /\ OnlyRow(t) /\ rows'[t] \in Row /\ rows'[t] # None
      /\ rows'[t].evac = e /\ rows'[t].role = "target" /\ Alike(rows'[t], objects[e])
  BY ImportTakes
<1> HIDE DEF t, e
<1>3. MoveTypeOK'
  BY <1>1, <1>2 DEF MoveTypeOK, RowsFit
<1>4. LocationFits' /\ EvacIsClaimed' /\ ArchiveFits' /\ DirectoryFits' /\ Rests'
  BY <1>1, <1>2 DEF LocationFits, EvacIsClaimed, ArchiveFits, DirectoryFits, Rests, OfUse
<1>5. SourceFits' /\ TargetFits'
  BY <1>1, <1>2 DEF SourceFits, TargetFits, OnlyRow, OfUse, EvacIsClaimed, MoveTypeOK, Operation
<1>6. ArchiveIsTrue'
  BY <1>1, <1>2 DEF ArchiveIsTrue, LocationFits, OnlyRow, OfUse
<1>7. (\A u \in uploads' : UploadFit(u)') /\ \A k \in calls' : CallFits(k)'
  BY <1>1, <1>2 DEF UploadFit, CallFits
<1>8. \A i \in jobs' : JobFits(i)'
  <2> SUFFICES ASSUME NEW i \in jobs, i # j PROVE JobFits(i)'
    BY <1>1
  <2>1. i.leased => ~ Alive(i.evac)
    BY <1>1, <1>2 DEF JobFits, JobsAreApart, OfUse, t, e
  <2> QED
    BY <1>1, <1>2, <2>1 DEF JobFits
<1>9. JobsAreApart' /\ \A c \in Cell : \A x \in receipts'[c] : ReceiptFits(c, x)'
  BY <1>1, <1>2 DEF JobsAreApart, ReceiptFits
<1>10. DriverFits'
  BY <1>1, <1>2 DEF DriverFits, OfUse
<1> QED
  BY <1>3, <1>4, <1>5, <1>6, <1>7, <1>8, <1>9, <1>10

-----------------------------------------------------------------------------
(* The invariant holds.                                                    *)

LEMMA InitSound == Init => MoveIsSound
<1> SUFFICES ASSUME Init PROVE MoveIsSound
  OBVIOUS
<1> USE DEF Init
<1>1. NewRow \in Row /\ NewRow.evac = 0 /\ NewRow # None
  BY DEF NewRow, Row
<1>2. rows[Home] = NewRow /\ \A c \in Cell \ {Home} : rows[c] = None
  OBVIOUS
<1>3. MoveTypeOK
  BY <1>1 DEF MoveTypeOK, Location, Evacuation
<1>4. LocationFits /\ EvacIsClaimed /\ SourceFits /\ TargetFits /\ DirectoryFits /\ DriverFits
  BY DEF LocationFits, EvacIsClaimed, SourceFits, TargetFits, DirectoryFits, DriverFits
<1>5. ArchiveFits /\ ArchiveIsTrue /\ Rests
  BY <1>1, <1>2 DEF ArchiveFits, ArchiveIsTrue, Rests, Evacuation
<1>6. JobsAreApart /\ (\A u \in uploads : UploadFit(u)) /\ (\A k \in calls : CallFits(k)) /\ (\A j \in jobs : JobFits(j))
      /\ \A c \in Cell : \A e \in receipts[c] : ReceiptFits(c, e)
  BY DEF JobsAreApart
<1> QED
  BY <1>3, <1>4, <1>5, <1>6

LEMMA StepSound == MoveIsSound /\ Step => MoveIsSound'
  BY CloseSeenSound, CancelCloseSound, CommitClosedSound, CommitRestoredClosedSound,
     ReserveTargetSound,
     StreamArchiveSound, CommitArchivedSound, RequestAbortSound, CleanUpAbortSound, ProjectArchiveSound,
     RetireRouteSound, CommitLiveSound, ProjectRouteSound, FinalizeSameCellSound, RetireArchiveSound,
     CleanUpArchiveSound, CompleteOperationSound
  DEF Step

LEMMA HandleSound == ASSUME MoveIsSound, NEW call \in calls, Handle(call) PROVE MoveIsSound'
  BY BeginSound, AbortSound, CompleteSound, FinalizeSound, ImportSound, CloseSound DEF Handle

LEMMA NextSound == MoveIsSound /\ [Next]_vars => MoveIsSound'
<1> SUFFICES ASSUME MoveIsSound, [Next]_vars PROVE MoveIsSound'
  OBVIOUS
<1> HIDE DEF MoveIsSound, vars
<1>1. CASE ClaimOperation \/ Step \/ Ask \/ Learn \/ GiveUp
  BY <1>1, ClaimOperationSound, StepSound, AskSound, LearnSound, GiveUpSound
<1>2. CASE \E call \in calls : Handle(call)
  BY <1>2, HandleSound
<1>3. CASE \E j \in jobs : Download(j) \/ ImportRow(j) \/ LoseSession(j) \/ EndJob(j)
  BY <1>3, DownloadSound, ImportRowSound, LoseSessionSound, EndJobSound
<1>4. CASE (\E u \in uploads : UploadLands(u)) \/ \E c \in Cell : Write(c)
  BY <1>4, UploadLandsSound, WriteSound
<1>5. CASE UNCHANGED vars
  <2>1. LocationFits' = LocationFits /\ EvacIsClaimed' = EvacIsClaimed /\ SourceFits' = SourceFits
        /\ TargetFits' = TargetFits /\ ArchiveFits' = ArchiveFits /\ ArchiveIsTrue' = ArchiveIsTrue
    BY <1>5 DEF vars, LocationFits, EvacIsClaimed, SourceFits, TargetFits, ArchiveFits,
       ArchiveIsTrue
  <2>2. MoveTypeOK' = MoveTypeOK /\ DirectoryFits' = DirectoryFits /\ Rests' = Rests /\ JobsAreApart' = JobsAreApart
        /\ DriverFits' = DriverFits
    BY <1>5 DEF vars, MoveTypeOK, DirectoryFits, Rests, JobsAreApart, DriverFits
  <2>3. (MoveIsSound => \A u \in uploads' : UploadFit(u)')
        /\ (MoveIsSound => \A k \in calls' : CallFits(k)') /\ (MoveIsSound => \A j \in jobs' : JobFits(j)')
        /\ (MoveIsSound => \A c \in Cell : \A e \in receipts'[c] : ReceiptFits(c, e)')
    BY <1>5 DEF vars, MoveIsSound, UploadFit, CallFits, JobFits, ReceiptFits
  <2> QED
    BY <2>1, <2>2, <2>3 DEF MoveIsSound
<1> QED
  BY <1>1, <1>2, <1>3, <1>4, <1>5 DEF Next

\* Every stage of an operation fixes where the account is: its rows, archive and route
\* are what the stage says.  Late calls do not change that, but they are not harmless:
\* a begin, an abort or a close of an operation that is over may still freeze, release
\* or close a row, though only the row that is the account, and only while it is not
\* frozen for the present evacuation.  A late finalize has left its receipt, a job of
\* an evacuation that is over holds no copy it could insert, and an upload that may
\* land brings what the archive of the account has, or is one that nothing leads to.
THEOREM SoundMove == Spec => []MoveIsSound
  BY InitSound, NextSound, PTL DEF Spec

-----------------------------------------------------------------------------
(* The directory leads to the account.                                     *)

LEMMA SoundLeads == MoveIsSound => DirectoryLeadsToAccount
<1> SUFFICES ASSUME MoveIsSound PROVE DirectoryLeadsToAccount
  OBVIOUS
<1>1. /\ route # None \/ archived # 0 \/ location.kind = "closed"
      /\ route # None => rows[route] # None
      /\ archived # 0 => objects[archived] # None
  <2>1. CASE operation = None
    BY <2>1 DEF MoveTypeOK, Location, LocationFits, Rests, ArchiveFits, Evacuation
  <2>2. CASE operation # None
    <3>1. operation \in Operation
      BY <2>2 DEF MoveTypeOK
    <3>2. CASE AtSource
      BY <2>2, <3>1, <3>2 DEF DirectoryFits, SourceFits, Operation
    <3>3. CASE InArchive
      BY <2>2, <3>1, <3>3 DEF DirectoryFits, SourceFits, ArchiveFits, Operation, Evacuation
    <3>4. CASE AtTarget
      BY <2>2, <3>1, <3>4 DEF DirectoryFits, TargetFits, ArchiveFits, Operation, Evacuation
    <3>5. CASE Entombed \/ Closed
      BY <2>2, <3>1, <3>5 DEF DirectoryFits, LocationFits, SourceFits, ArchiveFits, Operation,
         Evacuation
    <3> QED
      BY <3>1, <3>2, <3>3, <3>4, <3>5 DEF Operation, Outward, Inward
  <2> QED
    BY <2>1, <2>2
<1>2. ASSUME operation = None
      PROVE  /\ Cardinality({c \in Cell : rows[c] # None}) = 1
             /\ archived = location.archive
             /\ route = IF location.kind = "live" THEN location.cell ELSE None
             /\ IF location.kind = "archived"
                THEN Marked(location.cell, location.archive, "source")
                ELSE \E c \in Cell :
                       /\ location.kind # "closed_archived" => c = location.cell
                       /\ Unmarked(c) \/ LeftFrozen(c)
  <2>1. location.cell \in Cell /\ location.kind \in {"live", "archived", "closed_archived", "closed"}
    BY DEF MoveTypeOK, Location
  <2>2. \E q \in Cell : {c \in Cell : rows[c] # None} = {q}
    BY <1>2, <2>1 DEF Rests
  <2>3. PICK q \in Cell : {c \in Cell : rows[c] # None} = {q}
    BY <2>2
  <2>4. Cardinality({q}) = 1
    BY FS_Singleton
  <2>5. \A c \in Cell : Standing(c) => Unmarked(c) \/ LeftFrozen(c)
    <3> SUFFICES ASSUME NEW c \in Cell, Standing(c), ~ Unmarked(c) PROVE LeftFrozen(c)
      OBVIOUS
    <3>1. rows[c].evac \in Evacuation
      BY DEF MoveTypeOK, Row, Evacuation
    <3> QED
      BY <3>1 DEF LeftFrozen
  <2> QED
    BY <1>2, <2>1, <2>3, <2>4, <2>5 DEF Rests
<1> QED
  BY <1>1, <1>2 DEF DirectoryLeadsToAccount

\* Whatever times out, stops, is lost or comes late, the directory leads to the account
\* until its tombstone is all there is, and between operations the account is one row,
\* which a late begin may have frozen for an evacuation that is over.
THEOREM DirectoryLeads == Spec => []DirectoryLeadsToAccount
  BY SoundMove, SoundLeads, PTL

-----------------------------------------------------------------------------
(* The account that was closed.                                            *)

IsClosed == location.kind \in {"closed", "closed_archived"}

\* Whose row serves the account, if any does.
LEMMA ServingStage ==
    ASSUME MoveIsSound, NEW c \in Cell, Serves(c)
    PROVE  \/ operation = None /\ location.kind = "live" /\ c = location.cell
           \/ operation # None /\ AtSource /\ ~ Suspended /\ c = operation.source
           \/ operation # None /\ (Arriving \/ AtTarget) /\ c = operation.target
<1>1. Released(c) /\ rows[c].status = "active"
  BY DEF Serves, Released
<1>2. CASE operation = None
  BY <1>1, <1>2 DEF LocationFits, Rests, Serves, MoveTypeOK, Location
<1>3. CASE operation # None
  <2>1. operation \in Operation
    BY <1>3 DEF MoveTypeOK
  <2>2. Closed => c # operation.source
    BY <1>1, <1>3, <2>1 DEF ArchiveIsTrue
  <2>3. Entombed => c # operation.target
    BY <1>1, <1>3, <2>1 DEF ArchiveIsTrue, Alike
  <2> QED
    BY <1>1, <1>3, <2>1, <2>2, <2>3, OwnRow
<1> QED
  BY <1>2, <1>3

LEMMA ClosedUnserved == MoveIsSound /\ IsClosed => Serving = {}
<1> SUFFICES ASSUME MoveIsSound, IsClosed, NEW c \in Cell, Serves(c) PROVE FALSE
  BY DEF Serving
<1>1. operation # None => operation \in Operation
  BY DEF MoveTypeOK
<1> QED
  BY <1>1, ServingStage DEF IsClosed, LocationFits

LEMMA ClosedStays == MoveIsSound /\ IsClosed /\ [Next]_vars => IsClosed'
<1> SUFFICES ASSUME MoveIsSound, IsClosed, [Next]_vars PROVE IsClosed'
  OBVIOUS
<1> HIDE DEF MoveIsSound, vars
<1>1. CASE CommitArchived \/ CommitLive
  BY <1>1 DEF MoveIsSound, CommitArchived, CommitLive, LocationFits, IsClosed
<1>2. CASE CommitClosed \/ CommitRestoredClosed
  <2>1. location'.kind \in {"closed", "closed_archived"}
    BY <1>2 DEF MoveIsSound, MoveTypeOK, Location, CommitClosed, CommitRestoredClosed
  <2> QED
    BY <2>1 DEF IsClosed
<1>3. CASE UNCHANGED location
  BY <1>3 DEF IsClosed
<1>4. CASE Step
  BY <1>1, <1>2, <1>3, <1>4
  DEF Step, CloseSeen, CancelClose, ReserveTarget, StreamArchive, RequestAbort, CleanUpAbort,
      ProjectArchive, RetireRoute, ProjectRoute, FinalizeSameCell, RetireArchive,
      CleanUpArchive, CompleteOperation
<1>5. CASE \E call \in calls : Handle(call)
  BY <1>3, <1>5 DEF Handle, Begin, Abort, Complete, Finalize, Import, Close, Unmark
<1>6. CASE \E j \in jobs : Download(j) \/ ImportRow(j) \/ LoseSession(j) \/ EndJob(j)
  BY <1>3, <1>6 DEF Download, ImportRow, LoseSession, EndJob
<1>7. CASE \/ ClaimOperation \/ Ask \/ Learn \/ GiveUp \/ (\E c \in Cell : Write(c))
           \/ (\E u \in uploads : UploadLands(u)) \/ UNCHANGED vars
  BY <1>3, <1>7 DEF ClaimOperation, Claim, Ask, Learn, GiveUp, Write, UploadLands, vars
<1> QED
  BY <1>4, <1>5, <1>6, <1>7 DEF Next

\* Once the control plane records that the account was closed, by its owner or as a
\* restored tombstone, no cell serves it again, whatever calls and jobs still arrive.
THEOREM ClosedForGood == Spec => [](IsClosed => [](Serving = {}))
<1>1. MoveIsSound /\ IsClosed => Serving = {}
  BY ClosedUnserved
<1>2. MoveIsSound /\ IsClosed /\ [Next]_vars => IsClosed'
  BY ClosedStays
<1> HIDE DEF MoveIsSound, vars
<1> QED
  BY <1>1, <1>2, SoundMove, PTL DEF Spec

-----------------------------------------------------------------------------
(* The account as its owner sees it.                                       *)

ServedHome ==
    IF Serving = {} THEN None
    ELSE IF Cardinality(Serving) = 1 THEN CHOOSE c \in Serving : TRUE
    ELSE "split"

ServedData == IF Copy = None THEN -1 ELSE Copy.data

\* No two cells serve the account; while none does, its location still has it.
LEMMA ServedAtMostOnce ==
    ASSUME MoveIsSound
    PROVE  \/ Serving = {}
           \/ \E c \in Cell : Serving = {c}
<1> SUFFICES ASSUME NEW c \in Cell, NEW d \in Cell, Serves(c), Serves(d) PROVE c = d
  BY DEF Serving
<1>1. operation # None => operation \in Operation
  BY DEF MoveTypeOK
<1> QED
  BY <1>1, ServingStage

LEMMA AuthorityStands == MoveIsSound => Authority \in Row
<1> SUFFICES ASSUME MoveIsSound PROVE Authority \in Row
  OBVIOUS
<1>1. \A c \in Cell : rows[c] # None => rows[c] \in Row
  BY DEF MoveTypeOK
<1>2. \A x \in Evacuation : objects[x] # None => objects[x] \in Row
  BY DEF MoveTypeOK
<1>3. CASE operation = None
  BY <1>1, <1>2, <1>3 DEF Authority, Resumed, MoveTypeOK, Location, LocationFits, Rests, ArchiveFits,
     Evacuation
<1>4. CASE operation # None
  <2>1. operation \in Operation /\ location.cell \in Cell
    BY <1>4 DEF MoveTypeOK, Location
  <2>2. CASE Resumed
    BY <1>1, <1>4, <2>1, <2>2 DEF Authority, Resumed, TargetFits, Operation
  <2>3. CASE (InArchive \/ Entombed) /\ ~ Resumed
    BY <1>2, <1>4, <2>1, <2>3 DEF Authority, LocationFits, ArchiveFits, Operation
  <2>4. CASE AtSource \/ Closed
    BY <1>1, <1>4, <2>1, <2>4 DEF Authority, Resumed, LocationFits, SourceFits, Operation
  <2>5. CASE AtTarget
    BY <1>1, <1>4, <2>1, <2>5 DEF Authority, Resumed, LocationFits, TargetFits, Operation
  <2> QED
    BY <1>4, <2>1, <2>2, <2>3, <2>4, <2>5 DEF Operation, Outward, Inward
<1> QED
  BY <1>3, <1>4

\* What the mapping reads in a state.
Idle == Serving = {} /\ ServedHome = None /\ Authority \in Row /\ ServedData = Authority.data
ServedBy(c) == Serving = {c} /\ ServedHome = c /\ rows[c] \in Row /\ ServedData = rows[c].data

LEMMA ServedReads == MoveIsSound => Idle \/ \E c \in Cell : ServedBy(c)
<1> SUFFICES ASSUME MoveIsSound PROVE Idle \/ \E c \in Cell : ServedBy(c)
  OBVIOUS
<1>1. CASE Serving = {}
  BY <1>1, AuthorityStands DEF Idle, ServedHome, ServedData, Copy
<1>2. ASSUME NEW c \in Cell, Serving = {c} PROVE ServedBy(c)
  <2>1. Cardinality({c}) = 1
    BY FS_Singleton
  <2>2. (CHOOSE d \in {c} : TRUE) = c
    OBVIOUS
  <2>3. rows[c] \in Row
    BY <1>2 DEF Serving, Serves, MoveTypeOK
  <2>4. ServedHome = c /\ Copy = rows[c]
    BY <1>2, <2>1, <2>2 DEF ServedHome, Copy
  <2> QED
    BY <1>2, <2>3, <2>4 DEF ServedBy, ServedData
<1> QED
  BY <1>1, <1>2, ServedAtMostOnce

LEMMA ServedReadsNext == MoveIsSound' => Idle' \/ \E c \in Cell : ServedBy(c)'
<1> HIDE DEF MoveIsSound
<1>1. (MoveIsSound => Idle \/ \E c \in Cell : ServedBy(c))'
  BY ServedReads, PTL
<1> QED
  BY <1>1

\* The steps of the abstract specification.
OwnerSees ==
    \/ ServedHome # None /\ ServedData' = ServedData + 1 /\ UNCHANGED ServedHome
    \/ ServedHome # None /\ ServedHome' = None /\ UNCHANGED ServedData
    \/ \E c \in Cell : ServedHome = None /\ ServedHome' = c /\ UNCHANGED ServedData
    \/ UNCHANGED <<ServedHome, ServedData>>

\* The row of a cell that does not serve may change, its data where it is the account's only.
LEMMA ServesOn ==
    ASSUME MoveIsSound, MoveIsSound', Serving' = Serving,
           \A c \in Serving : rows'[c].data = rows[c].data,
           Serving = {} => Authority'.data = Authority.data
    PROVE  UNCHANGED <<ServedHome, ServedData>>
<1> HIDE DEF MoveIsSound
<1>1. Idle \/ \E c \in Cell : ServedBy(c)
  BY ServedReads
<1>2. Idle' \/ \E c \in Cell : ServedBy(c)'
  BY ServedReadsNext
<1>3. CASE Idle
  BY <1>2, <1>3 DEF Idle, ServedBy
<1>4. ASSUME NEW c \in Cell, ServedBy(c) PROVE UNCHANGED <<ServedHome, ServedData>>
  BY <1>2, <1>4 DEF Idle, ServedBy
<1> QED
  BY <1>1, <1>3, <1>4

LEMMA StepUnseen == ASSUME MoveIsSound, MoveIsSound', Step PROVE UNCHANGED <<ServedHome, ServedData>>
<1>1. UNCHANGED rows
  BY DEF Step, CloseSeen, CancelClose, CommitClosed, CommitRestoredClosed, ReserveTarget,
     StreamArchive, CommitArchived, RequestAbort, CleanUpAbort, ProjectArchive, RetireRoute,
     CommitLive, ProjectRoute, FinalizeSameCell, RetireArchive, CleanUpArchive, CompleteOperation
<1>2. Serving' = Serving
  BY <1>1 DEF Serving, Serves
<1>3. Authority'.data = Authority.data
  <2>0. /\ operation \in Operation /\ operation.kind # "close" => operation.evac # 0
        /\ operation' # None => operation' \in Operation
    BY DEF MoveTypeOK, Operation, Evacuation, Step, CloseSeen, CancelClose, CommitClosed,
       CommitRestoredClosed, ReserveTarget, StreamArchive, CommitArchived, RequestAbort, CleanUpAbort,
       ProjectArchive, RetireRoute, CommitLive, ProjectRoute, FinalizeSameCell, RetireArchive,
       CleanUpArchive, CompleteOperation
  <2>1. CASE CommitArchived
    <3>1. /\ Marked(operation.source, operation.evac, "source") /\ objects[operation.evac] # None
          /\ operation.source \in Cell /\ operation.evac \in Evacuation
      BY <2>1 DEF CommitArchived, SourceFits, MoveTypeOK, Operation
    <3>2. Alike(rows[operation.source], objects[operation.evac])
      BY <2>1, <3>1 DEF CommitArchived, ArchiveIsTrue
    <3>3. Authority = rows[operation.source] /\ Authority' = objects[operation.evac]
      BY <2>0, <2>1 DEF CommitArchived, Authority, Resumed, LocationFits, Operation
    <3> QED
      BY <3>2, <3>3 DEF Alike
  <2>2. CASE CommitLive \/ CommitRestoredClosed
    <3>0. At({"move", "restore"}, {"target_resumed"})
      BY <2>2 DEF CommitLive, CommitRestoredClosed
    <3>1. Standing(operation.target) /\ operation.evac # 0
      BY <2>0, <3>0 DEF TargetFits, MoveTypeOK
    <3>5. Resumed /\ Authority = rows[operation.target]
      BY <3>0, <3>1 DEF Resumed, Authority
    <3>2. ~ Resumed'
      BY <2>0, <2>2 DEF CommitLive, CommitRestoredClosed, Resumed, Operation
    <3>3. CASE CommitLive
      BY <3>2, <3>3, <3>5 DEF CommitLive, Authority
    <3>4. CASE CommitRestoredClosed
      <4>1. Authority' = objects[operation.evac]
        BY <3>2, <3>4 DEF CommitRestoredClosed, Authority, LocationFits, MoveTypeOK, Location
      <4>2. Alike(rows[operation.target], objects[operation.evac])
        BY <3>4 DEF CommitRestoredClosed, ArchiveIsTrue
      <4> QED
        BY <3>5, <4>1, <4>2 DEF Alike
    <3> QED
      BY <2>2, <3>3, <3>4
  <2>3. CASE ~ CommitArchived /\ ~ CommitLive /\ ~ CommitRestoredClosed
    <3>1. ~ Arriving /\ ~ Arriving'
      BY <2>0, <2>3
      DEF Step, CloseSeen, CancelClose, CommitClosed, ReserveTarget, StreamArchive, RequestAbort,
          CleanUpAbort, ProjectArchive, RetireRoute, ProjectRoute, FinalizeSameCell, RetireArchive,
          CleanUpArchive, CompleteOperation, Finalized, Operation
    <3>2. ~ Resumed /\ ~ Resumed'
      BY <3>1 DEF Resumed
    <3>3. CASE StreamArchive \/ CleanUpAbort \/ CleanUpArchive
      <4>1. location.kind = "live" /\ UNCHANGED <<rows, location>>
        BY <3>3 DEF StreamArchive, CleanUpAbort, CleanUpArchive, LocationFits
      <4> QED
        BY <3>2, <4>1 DEF Authority
    <3>4. CASE CommitClosed
      BY <3>2, <3>4 DEF CommitClosed, Authority, LocationFits, MoveTypeOK, Location
    <3>5. CASE UNCHANGED <<rows, location, objects>>
      BY <3>2, <3>5 DEF Authority
    <3> QED
      BY <2>3, <3>3, <3>4, <3>5
      DEF Step, CloseSeen, CancelClose, ReserveTarget, RequestAbort, ProjectArchive, RetireRoute,
          ProjectRoute, FinalizeSameCell, RetireArchive, CompleteOperation
  <2> QED
    BY <2>1, <2>2, <2>3
<1> HIDE DEF MoveIsSound
<1> QED
  BY <1>1, <1>2, <1>3, ServesOn

\* What leaves the rows, the location and the archives alone is not seen, unless it
\* changes whether the target has resumed the account.
LEMMA Unseen ==
    ASSUME MoveIsSound, MoveIsSound', UNCHANGED <<rows, location, objects>>,
           \/ UNCHANGED operation
           \/ ~ Resumed /\ ~ Resumed'
           \/ Resumed /\ Resumed' /\ operation'.target = operation.target
    PROVE  UNCHANGED <<ServedHome, ServedData>>
<1>1. Serving' = Serving /\ Authority' = Authority
  BY DEF Serving, Serves, Authority, Resumed
<1> HIDE DEF MoveIsSound
<1> QED
  BY <1>1, ServesOn

LEMMA ClaimUnseen ==
    ASSUME MoveIsSound, MoveIsSound', ClaimOperation PROVE UNCHANGED <<ServedHome, ServedData>>
<1>1. UNCHANGED <<rows, location, objects>> /\ operation = None /\ ~ Arriving'
  BY DEF ClaimOperation, Claim
<1>2. ~ Resumed /\ ~ Resumed'
  BY <1>1 DEF Resumed
<1> HIDE DEF MoveIsSound
<1> QED
  BY <1>1, <1>2, Unseen

\* What the driver learns the cells have already shown.
LEMMA LearnUnseen ==
    ASSUME MoveIsSound, MoveIsSound', Learn PROVE UNCHANGED <<ServedHome, ServedData>>
<1>1. PICK call \in Call : driver = "told" /\ Due(call) /\ To(Reached(call))
  BY DEF Learn
<1>2. UNCHANGED <<rows, location, objects>>
  BY DEF Learn
<1>3. /\ operation \in Operation /\ operation # None /\ call.do # "close"
      /\ operation.kind # "close" /\ operation.evac # 0
  BY <1>1, DueFits DEF DriverFits, Operation, Evacuation
<1>4. \/ call.do = "begin" /\ Freezing /\ Reached(call) = "source_suspended"
      \/ call.do = "abort" /\ AskedBack /\ Reached(call) = "abort_cleanup_pending"
      \/ call.do = "import" /\ Importing /\ Reached(call) = "target_imported"
      \/ /\ call.do = "complete" /\ At({"move", "restore"}, {"target_imported"})
         /\ Reached(call) = "target_resumed"
      \/ /\ call.do = "finalize" /\ Finalizing
         /\ Reached(call) \in {"source_finalized", "closed_archive_retained"}
  BY <1>1, <1>3, DueFits DEF Reached, Finalized, Call, MoveIsSound
<1>5. operation' \in Operation
  BY <1>1, <1>3, <1>4 DEF Operation, Outward, Inward
<1>6. GoesOn /\ operation'.phase = Reached(call)
  BY <1>1, <1>3, <1>5, PhaseAside
<1> HIDE DEF To
<1>7. \/ ~ Resumed /\ ~ Resumed'
      \/ Resumed /\ Resumed' /\ operation'.target = operation.target
  <2>1. CASE call.do \in {"begin", "abort", "finalize"}
    <3>1. /\ operation.phase \notin {"target_imported", "target_resumed"}
          /\ operation'.phase \notin {"target_imported", "target_resumed"}
      BY <1>3, <1>4, <1>6, <2>1
    <3> QED
      BY <3>1 DEF Resumed
  <2>2. CASE call.do = "import"
    <3>1. Importing /\ Marked(operation.target, operation.evac, "target")
      BY <1>1, <1>3, <1>4, <2>2 DEF DriverFits
    <3>2. Marked(operation.target, operation.evac, "target")'
      BY <1>2, <1>6, <3>1 DEF GoesOn
    <3>3. ~ Resumed
      BY <3>1 DEF Resumed
    <3> QED
      BY <3>2, <3>3 DEF Resumed
  <2>3. CASE call.do = "complete"
    BY <1>1, <1>2, <1>3, <1>4, <1>6, <2>3 DEF Resumed, GoesOn, DriverFits
  <2> QED
    BY <1>3, <2>1, <2>2, <2>3 DEF Call
<1> HIDE DEF MoveIsSound
<1> QED
  BY <1>2, <1>7, Unseen

\* Nor is an upload that lands, which brings what its archive has.
LEMMA UploadUnseen ==
    ASSUME MoveIsSound, MoveIsSound', NEW u \in uploads, UploadLands(u)
    PROVE  UNCHANGED <<ServedHome, ServedData>>
<1> DEFINE x == u.evac
<1>1. /\ x \in Evacuation /\ objects' = [objects EXCEPT ![x] = u.copy] /\ UploadFit(u)
      /\ UNCHANGED <<rows, location, operation>>
  BY DEF UploadLands, MoveTypeOK, Upload
<1>2. objects'[x] = u.copy /\ \A y \in Evacuation \ {x} : objects'[y] = objects[y]
  BY <1>1 DEF MoveTypeOK
<1>3. location.kind \in {"archived", "closed_archived"} => location.archive \in Evacuation
  BY DEF MoveTypeOK, Location, LocationFits, Operation, Evacuation
<1>4. location.kind \in {"archived", "closed_archived"} =>
        objects'[location.archive].data = objects[location.archive].data
  BY <1>1, <1>2, <1>3 DEF UploadFit, Alike
<1>5. Authority'.data = Authority.data /\ Serving' = Serving
  BY <1>1, <1>4 DEF Authority, Resumed, Serving, Serves
<1> HIDE DEF MoveIsSound
<1> QED
  BY <1>1, <1>5, ServesOn

\* A row takes the account up, unless it is a tombstone, with all that was written.
LEMMA Resumes ==
    ASSUME MoveIsSound, MoveIsSound', NEW c \in Cell, OnlyRow(c), Serving = {},
           rows'[c].data = Authority.data,
           Authority'.data = Authority.data
    PROVE  OwnerSees
<1> HIDE DEF MoveIsSound
<1>1. \A d \in Cell \ {c} : ~ Serves(d)'
  BY DEF Serves, Serving, OnlyRow
<1>2. Idle
  BY ServedReads DEF Idle, ServedBy
<1>3. Idle' \/ \E d \in Cell : ServedBy(d)'
  BY ServedReadsNext
<1>4. CASE Serves(c)'
  <2>1. Serving' = {c}
    BY <1>1, <1>4 DEF Serving
  <2>2. ServedBy(c)'
    BY <1>3, <2>1 DEF Idle, ServedBy
  <2> QED
    BY <1>2, <2>2 DEF OwnerSees, Idle, ServedBy
<1>5. CASE ~ Serves(c)'
  <2>1. Serving' = {}
    BY <1>1, <1>5 DEF Serving
  <2> QED
    BY <2>1, ServesOn DEF OwnerSees
<1> QED
  BY <1>4, <1>5

\* While a row is released no other serves, and it is what the account is; a
\* tombstone that was moved is what its archive is.
LEMMA OwnRowIsAuthority ==
    ASSUME MoveIsSound, NEW c \in Cell, Released(c)
    PROVE  /\ \A d \in Cell : Serves(d) => d = c
           /\ \/ Authority = rows[c]
              \/ location.kind = "closed_archived" /\ rows[c].status = "closed" /\ ~ Arriving
<1>1. operation # None => /\ operation \in Operation
                          /\ operation.kind # "close" => operation.evac # 0
  BY DEF MoveTypeOK, Operation, Evacuation
<1>2. \A d \in Cell : Serves(d) => d = c
  <2> SUFFICES ASSUME NEW d \in Cell, Serves(d), d # c PROVE FALSE
    OBVIOUS
  <2>1. CASE operation = None
    BY <2>1, OwnRow DEF Serves
  <2>2. CASE operation # None
    BY <1>1, <2>2, OwnRow, ServingStage
  <2> QED
    BY <2>1, <2>2
<1>3. CASE operation = None
  <2>1. ~ Resumed
    BY <1>3 DEF Resumed
  <2> QED
    BY <1>2, <1>3, <2>1, OwnRow DEF Authority, Released, Rests, MoveTypeOK, Location
<1>4. CASE operation # None /\ (Beginning \/ Aborting \/ Closing \/ Closed) /\ c = operation.source
  <2>1. ~ Resumed
    BY <1>1, <1>4 DEF Resumed
  <2> QED
    BY <1>1, <1>2, <1>4, <2>1 DEF Authority, LocationFits
<1>5. CASE operation # None /\ Arriving /\ c = operation.target
  <2>1. Resumed
    BY <1>1, <1>5 DEF Resumed, Released
  <2> QED
    BY <1>2, <1>5, <2>1 DEF Authority
<1>6. CASE operation # None /\ AtTarget /\ c = operation.target
  <2>1. ~ Resumed
    BY <1>6 DEF Resumed
  <2> QED
    BY <1>1, <1>2, <1>6, <2>1 DEF Authority, LocationFits
<1>7. CASE operation # None /\ Entombed /\ c = operation.target
  BY <1>1, <1>2, <1>7 DEF ArchiveIsTrue, LocationFits, Alike
<1> QED
  BY <1>3, <1>4, <1>5, <1>6, <1>7, OwnRow

\* Whatever a begin, an abort or a close does to that row, and whenever it comes, the
\* account stops being served, or is taken up again, with all that was written.
LEMMA OwnRowSeen ==
    ASSUME MoveIsSound, MoveIsSound', NEW c \in Cell, Released(c), OnlyRow(c), Standing(c)',
           rows'[c].data = rows[c].data, rows[c].status = "closed" => rows'[c].status = "closed",
           UNCHANGED <<location, operation, objects>>
    PROVE  OwnerSees
<1>1. \A d \in Cell \ {c} : ~ Serves(d) /\ ~ Serves(d)'
  <2>1. \A d \in Cell \ {c} : ~ Serves(d)
    BY OwnRowIsAuthority
  <2> QED
    BY <2>1 DEF Serves, OnlyRow
<1>2. \/ Authority = rows[c] /\ Authority' = rows'[c]
      \/ Authority' = Authority /\ ~ Serves(c) /\ ~ Serves(c)'
  <2>1. CASE location.kind = "closed_archived" /\ rows[c].status = "closed" /\ ~ Arriving
    <3>1. ~ Resumed /\ ~ Resumed'
      BY <2>1 DEF Resumed
    <3> QED
      BY <2>1, <3>1 DEF Authority, Serves
  <2>2. CASE /\ operation # None => ~ Arriving
             /\ location.kind \notin {"archived", "closed_archived"}
             /\ Authority = rows[c]
    <3>1. ~ Resumed /\ ~ Resumed'
      BY <2>2 DEF Resumed
    <3>2. c = location.cell
      BY <2>2, OwnRow DEF LocationFits, Rests, Released, MoveTypeOK, Location, Operation
    <3> QED
      BY <2>2, <3>1, <3>2 DEF Authority
  <2>3. CASE operation # None /\ Arriving
    <3>1. c = operation.target /\ operation.evac # 0
      BY <2>3, OwnRow DEF MoveTypeOK, Operation, Evacuation
    <3>2. Resumed /\ Resumed'
      BY <2>3, <3>1 DEF Resumed, Released
    <3> QED
      BY <3>1, <3>2 DEF Authority
  <2>4. location.kind # "archived" \/ (operation # None /\ Arriving)
    BY OwnRow DEF LocationFits, MoveTypeOK, Operation
  <2>5. location.kind = "closed_archived" => ~ Arriving /\ rows[c].status = "closed"
    BY OwnRow DEF LocationFits, ArchiveIsTrue, Alike, Rests, Released, MoveTypeOK, Operation
  <2> QED
    BY <2>1, <2>2, <2>3, <2>4, <2>5, OwnRowIsAuthority
<1> HIDE DEF MoveIsSound
<1>3. Serving = {} \/ Serving = {c}
  BY <1>1 DEF Serving
<1>4. CASE Serves(c) /\ ~ Serves(c)'
  <2>1. Serving = {c} /\ Serving' = {}
    BY <1>1, <1>4 DEF Serving
  <2>2. Idle' \/ \E d \in Cell : ServedBy(d)'
    BY ServedReadsNext
  <2>3. ServedBy(c) /\ Idle'
    BY <2>1, <2>2, ServedReads DEF Idle, ServedBy
  <2> QED
    BY <1>2, <1>4, <2>3 DEF OwnerSees, Idle, ServedBy
<1>5. CASE Serves(c) /\ Serves(c)'
  <2>1. Serving = {c} /\ Serving' = {c}
    BY <1>1, <1>5 DEF Serving
  <2> QED
    BY <2>1, ServesOn DEF OwnerSees
<1>6. CASE ~ Serves(c)
  <2>1. Serving = {}
    BY <1>1, <1>6 DEF Serving
  <2>2. CASE Authority = rows[c] /\ Authority' = rows'[c]
    BY <2>1, <2>2, Resumes
  <2>3. CASE Authority' = Authority /\ ~ Serves(c)'
    <3>1. Serving' = {}
      BY <1>1, <2>3 DEF Serving
    <3> QED
      BY <2>1, <2>3, <3>1, ServesOn DEF OwnerSees
  <2> QED
    BY <1>2, <2>2, <2>3
<1> QED
  BY <1>4, <1>5, <1>6

\* A row that served neither before nor after says nothing of the account.
LEMMA Unserved ==
    ASSUME MoveIsSound, MoveIsSound', NEW c \in Cell, OnlyRow(c), ~ Serves(c), ~ Serves(c)',
           UNCHANGED <<location, operation, objects>>, ~ Arriving,
           location.kind \in {"archived", "closed_archived"} \/ c # location.cell
    PROVE  OwnerSees
<1>1. Serving' = Serving /\ \A d \in Serving : rows'[d] = rows[d]
  BY DEF Serving, Serves, OnlyRow
<1>2. ~ Resumed /\ ~ Resumed'
  BY DEF Resumed
<1>3. Authority' = Authority
  BY <1>2 DEF Authority, OnlyRow, MoveTypeOK, Location
<1> HIDE DEF MoveIsSound
<1> QED
  BY <1>1, <1>3, ServesOn DEF OwnerSees

LEMMA BeginSeen == ASSUME MoveIsSound, MoveIsSound', NEW call \in calls, Begin(call) PROVE OwnerSees
<1> DEFINE s == call.cell
           e == call.evac
<1>0. UNCHANGED <<location, operation, objects>>
  BY DEF Begin
<1>1. CASE UNCHANGED rows
  BY <1>0, <1>1, Unseen DEF OwnerSees
<1>2. CASE /\ Beginnable(s, e)
           /\ rows' = [rows EXCEPT ![s].evac = e, ![s].role = "source"]
  <2>1. /\ Released(s) /\ s \in Cell /\ OnlyRow(s) /\ rows'[s] # None
        /\ rows'[s].evac = e /\ rows'[s].role = "source" /\ Alike(rows'[s], rows[s])
    BY <1>2, BeginTakes DEF Begin
  <2>2. Standing(s)'
    BY <2>1
  <2> HIDE DEF MoveIsSound, s, e, Standing
  <2> QED
    BY <1>0, <2>1, <2>2, OwnRowSeen DEF Alike
<1> QED
  BY <1>1, <1>2 DEF Begin

LEMMA AbortSeen == ASSUME MoveIsSound, MoveIsSound', NEW call \in calls, Abort(call) PROVE OwnerSees
<1> DEFINE s == call.cell
           e == call.evac
<1>1. UNCHANGED <<location, operation, objects>>
  BY DEF Abort, Unmark
<1>2. CASE UNCHANGED rows
  BY <1>1, <1>2, Unseen DEF OwnerSees
<1>3. CASE /\ Marked(s, e, "source")
           /\ rows' = [rows EXCEPT ![s] = [@ EXCEPT !.evac = 0, !.last = e, !.outcome = "aborted"]]
  <2>1. /\ Released(s) /\ s \in Cell /\ OnlyRow(s) /\ rows'[s] # None
        /\ rows'[s].evac = 0 /\ Alike(rows'[s], rows[s])
    BY <1>3, AbortTakes DEF Abort
  <2>2. Standing(s)'
    BY <2>1
  <2> HIDE DEF MoveIsSound, s, e, Standing
  <2> QED
    BY <1>1, <2>1, <2>2, OwnRowSeen DEF Alike
<1> QED
  BY <1>2, <1>3 DEF Abort, Unmark

LEMMA OwnerCloseSeen ==
    ASSUME MoveIsSound, MoveIsSound', NEW call \in calls, Close(call)
    PROVE  OwnerSees
<1> DEFINE c == call.cell
<1>1. /\ c \in Cell /\ Released(c) /\ RowsFit /\ rows[c] \in Row
      /\ rows' = [rows EXCEPT ![c].status = "closed"] /\ UNCHANGED <<location, operation, objects>>
  BY DEF Close, MoveTypeOK, Call, Serves, RowsFit, Released
<1>2. OnlyRow(c) /\ Standing(c)'
  BY <1>1, ServedRow DEF Released
<1>3. rows'[c].status = "closed" /\ rows'[c].data = rows[c].data
  BY <1>1 DEF RowsFit, Row
<1> HIDE DEF MoveIsSound, c, Standing
<1> QED
  BY <1>1, <1>2, <1>3, OwnRowSeen

LEMMA WriteSeen == ASSUME MoveIsSound, MoveIsSound', NEW c \in Cell, Write(c) PROVE OwnerSees
<1>1. Serves(c) /\ RowsFit /\ rows[c] \in Row /\ rows' = [rows EXCEPT ![c].data = @ + 1]
  BY DEF Write, MoveTypeOK, Serves, RowsFit
<1>2. OnlyRow(c) /\ rows'[c] = [rows[c] EXCEPT !.data = rows[c].data + 1]
  BY <1>1 DEF OnlyRow, RowsFit
<1>3. /\ rows'[c] # None /\ rows'[c].data = rows[c].data + 1 /\ rows'[c].evac = rows[c].evac
      /\ rows'[c].status = rows[c].status
  BY <1>1, <1>2 DEF Row
<1>4. Serving = {c} /\ Serving' = {c}
  <2>1. \A d \in Cell : Serves(d)' <=> Serves(d)
    BY <1>1, <1>2, <1>3 DEF Serves, OnlyRow
  <2> HIDE DEF MoveIsSound
  <2> QED
    BY <1>1, <2>1, ServedAtMostOnce DEF Serving
<1> HIDE DEF MoveIsSound
<1>5. Idle' \/ \E d \in Cell : ServedBy(d)'
  BY ServedReadsNext
<1>6. ServedBy(c) /\ ServedBy(c)'
  BY <1>4, <1>5, ServedReads DEF Idle, ServedBy
<1> QED
  BY <1>3, <1>6 DEF OwnerSees, ServedBy

LEMMA CompleteSeen ==
    ASSUME MoveIsSound, MoveIsSound', NEW call \in calls, Complete(call)
    PROVE  OwnerSees
<1> DEFINE s == call.cell
           e == call.evac
<1>1. UNCHANGED <<location, operation, objects>>
  BY DEF Complete, Unmark
<1>2. CASE UNCHANGED rows
  BY <1>1, <1>2, Unseen DEF OwnerSees
<1>3. CASE /\ Marked(s, e, "target")
           /\ rows' = [rows EXCEPT ![s] = [@ EXCEPT !.evac = 0, !.last = e, !.outcome = "completed"]]
  <2>1. /\ At({"move", "restore"}, {"target_imported"}) /\ OfUse(e) /\ s = operation.target /\ s \in Cell
        /\ e # 0 /\ OnlyRow(s) /\ rows'[s].evac = 0 /\ Alike(rows'[s], rows[s])
    BY <1>3, CompleteTakes DEF Complete
  <2>2. Serving = {}
    <3> SUFFICES ASSUME NEW d \in Cell, Serves(d) PROVE FALSE
      BY DEF Serving
    <3>1. d = s
      BY <2>1, ServingStage DEF OfUse
    <3> QED
      BY <1>3, <2>1, <3>1 DEF Serves
  <2>3. ~ Resumed /\ Resumed'
    BY <1>1, <1>3, <2>1 DEF Resumed, OfUse
  <2>4. Authority = objects[e] /\ Authority' = rows'[s]
    BY <1>1, <2>1, <2>3 DEF Authority, LocationFits, OfUse
  <2>5. Alike(rows[s], objects[e])
    BY <1>3, <2>1 DEF ArchiveIsTrue, LocationFits, OfUse
  <2> HIDE DEF MoveIsSound, s, e
  <2> QED
    BY <2>1, <2>2, <2>4, <2>5, Resumes DEF Alike
<1> QED
  BY <1>2, <1>3 DEF Complete, Unmark

LEMMA FinalizeSeen ==
    ASSUME MoveIsSound, MoveIsSound', NEW call \in calls, Finalize(call)
    PROVE  OwnerSees
<1> DEFINE s == call.cell
<1>1. UNCHANGED <<location, operation, objects>>
  BY DEF Finalize
<1>2. CASE UNCHANGED rows
  BY <1>1, <1>2, Unseen DEF OwnerSees
<1>3. CASE /\ call.evac \notin receipts[s] /\ Marked(s, call.evac, "source")
           /\ rows' = [rows EXCEPT ![s] = None]
  <2>1. /\ Finalizing /\ s = operation.source /\ s # operation.target /\ s \in Cell /\ call.evac # 0
        /\ OnlyRow(s) /\ rows'[s] = None
    BY <1>3, FinalizeTakes DEF Finalize
  <2>2. (location.kind = "closed_archived" \/ s # location.cell) /\ ~ Arriving
    BY <2>1 DEF LocationFits
  <2>3. ~ Serves(s) /\ ~ Serves(s)'
    BY <1>3, <2>1 DEF Serves
  <2> HIDE DEF MoveIsSound, s
  <2> QED
    BY <1>1, <2>1, <2>2, <2>3, Unserved
<1> QED
  BY <1>2, <1>3 DEF Finalize

LEMMA ImportRowSeen ==
    ASSUME MoveIsSound, MoveIsSound', NEW j \in jobs, ImportRow(j)
    PROVE  OwnerSees
<1> DEFINE t == j.cell
<1>1. UNCHANGED <<location, operation, objects>>
  BY DEF ImportRow
<1>2. /\ Importing /\ t \in Cell /\ j.evac # 0 /\ OnlyRow(t)
      /\ rows[t] = None \/ Marked(t, j.evac, "source")
      /\ rows'[t].evac = j.evac
  BY ImportTakes
<1>3. location.kind = "archived" /\ ~ Arriving
  BY <1>2 DEF LocationFits
<1>4. ~ Serves(t) /\ ~ Serves(t)'
  BY <1>2 DEF Serves
<1> HIDE DEF MoveIsSound, t
<1> QED
  BY <1>1, <1>2, <1>3, <1>4, Unserved

\* Every step of the account's move is a step of an account that is served by one
\* cell at a time and forgets nothing, or is not seen by its owner.
LEMMA NextSeen == ASSUME MoveIsSound, MoveIsSound', [Next]_vars PROVE OwnerSees
<1> HIDE DEF MoveIsSound
<1>1. CASE UNCHANGED <<rows, location, operation, objects>>
  BY <1>1, Unseen DEF OwnerSees
<1>2. CASE ClaimOperation \/ Step \/ Learn \/ \E u \in uploads : UploadLands(u)
  BY <1>2, ClaimUnseen, StepUnseen, LearnUnseen, UploadUnseen DEF OwnerSees
<1>3. CASE \E call \in calls : Handle(call) /\ ~ UNCHANGED <<rows, location, operation, objects>>
  <2>1. PICK call \in calls : Handle(call) /\ ~ UNCHANGED <<rows, location, operation, objects>>
    BY <1>3
  <2>2. ~ Import(call)
    BY <2>1 DEF Import
  <2> QED
    BY <2>1, <2>2, BeginSeen, AbortSeen, CompleteSeen, FinalizeSeen, OwnerCloseSeen DEF Handle
<1>4. CASE \E j \in jobs : ImportRow(j)
  BY <1>4, ImportRowSeen
<1>5. CASE \E c \in Cell : Write(c)
  BY <1>5, WriteSeen
<1> QED
  BY <1>1, <1>2, <1>3, <1>4, <1>5
  DEF Next, Ask, GiveUp, Download, LoseSession, EndJob

\* However calls time out, arrive late or are repeated, and wherever the driver stops,
\* at most one cell serves the account, and the cell that takes it up serves what
\* was last written.
THEOREM MoveServesAccount == Spec => ImplementsServedAccount
<1>1. Init /\ MoveIsSound => Served!Init
  <2> SUFFICES ASSUME Init, MoveIsSound PROVE Served!Init
    OBVIOUS
  <2>1. rows[Home] = NewRow /\ NewRow \in Row /\ NewRow.data = 0 /\ Serves(Home)
    BY DEF Init, NewRow, Row, Serves
  <2> HIDE DEF MoveIsSound
  <2>2. ServedBy(Home)
    BY <2>1, ServedReads DEF Idle, ServedBy, Serving
  <2>3. ServedHome = Home /\ ServedData = 0
    BY <2>1, <2>2 DEF ServedBy
  <2> QED
    BY <2>3 DEF Served!Init, ServedHome, ServedData
<1>2. MoveIsSound /\ MoveIsSound' /\ [Next]_vars => [Served!Next]_(Served!vars)
  <2> SUFFICES ASSUME MoveIsSound, MoveIsSound', [Next]_vars PROVE [Served!Next]_(Served!vars)
    OBVIOUS
  <2> HIDE DEF MoveIsSound, vars
  <2>1. OwnerSees
    BY NextSeen DEF vars
  <2> QED
    BY <2>1 DEF OwnerSees, ServedHome, ServedData, Served!Next, Served!Write, Served!Suspend,
       Served!Resume, Served!vars
<1> HIDE DEF MoveIsSound, vars
<1> QED
  BY <1>1, <1>2, SoundMove, PTL DEF Spec, ImplementsServedAccount, Served!Spec
=============================================================================
