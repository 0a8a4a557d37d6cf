SPECIFICATION Spec
CONSTANTS
    Replicas = {r1, r2}
    Remotes = {origin}
    Tickets = {t1, t2}
    Statuses = {"proposed"}
    Proposed = "proposed"
    Transitions = {}
    NoChange = NoChange
    MaxPacks = 3
    MaxChain = 4
SYMMETRY Symmetry
INVARIANTS
    CausalTimes
PROPERTIES
    ActsOnRefs
