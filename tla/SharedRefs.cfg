SPECIFICATION FairSpec
CONSTANTS
    Clone = {c1, c2}
    Identity = {i1}
    Ticket = {t1}
    Config = {labels}
    MaxCommits = 4
    MaxCrashes = 1
INVARIANTS
    TypeOK
    TimesOrdered
PROPERTIES
    NothingDropped
    DivergenceLasts
    Convergence
