SPECIFICATION Spec
CONSTANTS
    Replicas = {r1}
    Remotes = {origin, fork}
    Tickets = {t1}
    Statuses = {"proposed"}
    Proposed = "proposed"
    Transitions = {}
    NoChange = NoChange
    MaxPacks = 4
    MaxChain = 6
PROPERTY PublishesHistory
