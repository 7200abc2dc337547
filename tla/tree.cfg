SPECIFICATION Spec
CONSTANTS
    Order <- Nested
    Trees <- OneDirectory
    Contents = {"old", "new"}
    NoFile = NoFile
    Dir = Dir
    Hazards = {}
INVARIANTS
    TypeOK
    ListingMatchesOpen
    OpensMatchWalk
PROPERTIES
    OperationsAreLocal
    RenameMovesTree
    CommitKeepsTree
