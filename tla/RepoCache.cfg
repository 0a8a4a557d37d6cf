SPECIFICATION Spec
CONSTANTS
    Tickets = {t1, t2}
    Us = us
    Them = them
    MaxLoaded = 1
    MaxPacks = 3
    None = None
SYMMETRY Interchangeable
INVARIANTS
    TypeOK
    CacheFaithful
    SingleCopy
    ShownIsLoaded
    WithinLimit
PROPERTIES
    OperationsKept
    OperationsAtomic
