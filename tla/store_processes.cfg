SPECIFICATION Spec
CONSTANTS
    NumPaths = 2
    Contents = {c1}
    NoFile = NoFile
    Torn = Torn
    Apps = {x1, x2}
    Hazards = {"crash", "fault", "early"}
SYMMETRY Symmetry
INVARIANTS
    WritersAreRecorded
    DiscardAllOrNothing
    FinishedViewIsReal
PROPERTIES
    CommitKeepsView
