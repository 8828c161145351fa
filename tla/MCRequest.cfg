SPECIFICATION Spec
CONSTANTS
    coordinator = coordinator
    a1 = a1
    a2 = a2
    Agents <- MCAgents
    Coordinator <- coordinator
    AssigneeLimits = {1, 2}
    MaxSelections = 2
    OfferWindows = {1}
    Lifetimes = {4}
    Leases = {1, 3}
    Slip = 1
    MaxTime = 5
SYMMETRY Candidates
CHECK_DEADLOCK FALSE
INVARIANTS
    CapacityHolds
    ArchiveIsAccepted
PROPERTIES
    ImplementsAssignment
    OffersFrozenBySelection
