CONSTANTS
    Aliases = {a1}
    Catalogs = {m1, m2}
    BootAlias = a1
    BootCatalog = m1
    NoCatalog = NoCatalog
    Operators = {o1, o2}
    Controllers = {p1, p2}
    Rollouts = {r1}
    MaxBindings = 4
    MaxRevision = 7
SPECIFICATION Spec
SYMMETRY Symmetry
INVARIANTS
    TypeOK
    LineageIsChain
    PromotedOverLastKnownGood
    RolledBackIsRestored
    EventsTellTheState
PROPERTY
    EntriesFollowTransitions
    MovesLikePointer
CHECK_DEADLOCK FALSE
