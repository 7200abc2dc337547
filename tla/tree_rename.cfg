SPECIFICATION Spec
CONSTANTS
    Order <- Nested
    Trees <- FirstDirectory
    Contents = {"old", "new"}
    NoFile = NoFile
    Dir = Dir
    Hazards = {"again", "gaps"}
PROPERTIES
    RenameKeepsDeletions
