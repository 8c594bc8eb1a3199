\* Two paths below one directory, one that only begins like it, and two beside.
SPECIFICATION Spec
CONSTANTS
    Names <- Entered
    Lists <- AskedLists
    Boundaries <- EnteredBoundaries
    Collates <- LocaleOrder
    Keys = {k1}
    MaxLength = 5
    MaxPaths = 3
INVARIANTS AnswersBySubtree
PROPERTIES KeyNamesOneSet
