SPECIFICATION Spec
CONSTANTS
    NumPaths = 2
    Contents = {c1, c2}
    NoFile = NoFile
    Torn = Torn
    Apps = {x1}
    Hazards = {"external", "crash", "fault", "rollback", "early"}
SYMMETRY Symmetry
INVARIANTS
    TypeOK
PROPERTIES
    BaselineFrozen
    CommitKeepsView
    CommitOnlyOverBaseline
    BackupBeforeLoss
