SPECIFICATION Spec
CONSTANTS
    Names <- AnyName
    ShortNames <- Short
    PlainFiles <- NoPaths
    Links <- NoPaths
    BoxesRoot <- Boxes
    Scenes <- SharedOnly
    Opened <- TwoPaths
    Removable <- OnlyDocs
    StageNames <- Asides
    MaxDriverRules = 2
    MaxStops = 0
PROPERTIES
    StoreIsOwn
