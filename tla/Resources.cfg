SPECIFICATION Spec
CONSTANTS
    File = {"f", "g"}
    Name = {"a"}
    Packages <- MCPackages
    MaxEdits = 3
INVARIANTS
    TypeOK
    PageCanRender
PROPERTIES
    FunctionsFollowResources
    FreshUpdatesKeepOthers
