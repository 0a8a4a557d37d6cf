SPECIFICATION FairSpec
CONSTANTS
    Replicas = {r1, r2}
    Remotes = {origin}
    Tickets = {t1}
    Statuses = {"proposed"}
    Proposed = "proposed"
    Transitions = {}
    NoChange = NoChange
    MaxPacks = 3
    MaxChain = 4
PROPERTY Convergence
