SPECIFICATION FairSpec
CONSTANTS
    Page = {p1}
    Request = {q1, q2}
    Ticket = {t1}
    Link = Link
    Column = {"proposed", "rejected"}
    First = "proposed"
    Transition <- ThereAndBack
    None = None
    MaxEdits = 2
    MaxDeaths = 1
INVARIANTS
    TypeOK
    BaseIsCurrent
    BoardFaithful
    PlaceholderFaithful
PROPERTIES
    CloneGivenBack
