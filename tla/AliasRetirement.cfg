CONSTANTS
    Aliases = {a1}
    Catalogs = {m1, m2}
    BootAlias = a1
    BootCatalog = m1
    NoCatalog = NoCatalog
    Operators = {o1, o2}
    Controllers = {}
    Rollouts = {}
    MaxBindings = 3
    MaxRevision = 8
SPECIFICATION Spec
SYMMETRY Symmetry
INVARIANT
    RoutesAvailable
CHECK_DEADLOCK FALSE
