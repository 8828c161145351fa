SPECIFICATION StoreSpec
CONSTANTS
    d1 = d1
    d2 = d2
    e1 = e1
    e2 = e2
    here = here
    there = there
    Deks <- TwoDeks
    MaxRotations = 2
    Enrollments <- TwoEnrollments
    MaxActive = 2
    Locations <- TwoLocations
    Dispositions = {"artifact", "risk"}
SYMMETRY Interchangeable
CHECK_DEADLOCK FALSE
INVARIANTS
    WrappersUnderCurrentKey
    SnapshotIsVault
    OneLifecycle
    TransferCarriesCurrentKey
    IdleIsPortable
PROPERTIES
    ImplementsVault
