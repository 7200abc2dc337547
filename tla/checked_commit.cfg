SPECIFICATION Spec
CONSTANTS
    NumPaths = 2
    Contents = {c1}
    NoFile = NoFile
    Torn = Torn
    Apps = {x1}
    Hazards = {}
SYMMETRY Symmetry
INVARIANTS
    CheckedCommitCompletes
