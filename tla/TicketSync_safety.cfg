SPECIFICATION Spec
CONSTANTS
    Replicas = {r1, r2}
    Remotes = {origin}
    Tickets = {t1}
    Statuses = {"proposed", "vetted"}
    Proposed = "proposed"
    Transitions <- EngFragment
    NoChange = NoChange
    MaxPacks = 4
    MaxChain = 4
SYMMETRY Symmetry
INVARIANTS
    TypeOK
    NoDuplicateOps
    CausallyOrdered
    StatusPathLegal
PROPERTIES
    NothingLost
