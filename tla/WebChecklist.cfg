SPECIFICATION FairSpec
CONSTANTS
    Reviewer = {anna, bob}
    First = anna
    Question = {top, middle}
    Covered = {top}
    Comment = {"missing", "wrong"}
    None = None
PROPERTIES
    AlertSettles
