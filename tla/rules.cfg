SPECIFICATION Spec
CONSTANTS
    Names <- AnyName
    ShortNames <- Short
    PlainFiles <- NoPaths
    Links <- LinkInWork
    BoxesRoot <- Boxes
    Scenes <- AllScenes
    Opened <- WrittenPaths
    Removable <- OnlyDocs
    StageNames <- Asides
    MaxDriverRules = 2
    MaxStops = 2
INVARIANTS
    TypeOK
    RedirectsToShadow
    QueueSparesSources
    StagedIsQueued
PROPERTIES
    OthersUntouched
    StartSettlesQueue
