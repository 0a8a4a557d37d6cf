SPECIFICATION Spec
CONSTANTS
    Users = {ann}
    CcbMembers = {ann}
    CcbStatuses = {"vetted", "accepted", "rejected"}
    Checklists = {"review"}
    LabelArgs <- LabelLists
INVARIANTS
    TypeOK
    OneWorkflow
    StatusInWorkflow
    ExcerptFaithful
    WorkIsApproved
PROPERTIES
    RejectionClears
