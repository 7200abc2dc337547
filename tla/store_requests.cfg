SPECIFICATION FairSpec
CONSTANTS
    NumPaths = 3
    Contents = {c1, c2}
    NoFile = NoFile
    Torn = Torn
    Apps = {x1}
    Hazards = {}
PROPERTIES
    RequestEffects
    ImplementsView
    PausedIsServedAgain
