SPECIFICATION Spec
CONSTANTS
    d1 = d1
    here = here
    there = there
    p = p
    q = q
    Deks <- OneDek
    MaxRotations = 2
    Enrollments <- NoEnrollments
    MaxActive = 1
    Locations <- TwoLocations
    Dispositions = {"artifact"}
    Procs <- TwoProcs
    Home <- here
    LateOps = {"start"}
    MaxBusy = 2
SYMMETRY Interchangeable
CHECK_DEADLOCK FALSE
INVARIANTS
    CurrentKeyHeld
    CommittedIsRecoverable
    IntentIsTruthful
PROPERTIES
    IntentOutlivesRotation
