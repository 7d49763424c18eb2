\* Four repositories, two packages to clone, one call for each at a time.
CONSTANTS
    Namespace = {"web", "nginx"}
    Info = {"", "given"}
    Repository <- Repositories4
    Descriptor <- Descriptors
    Source <- Sources
    Origin <- Origins
    PackageName <- Names
    Shape <- Shapes
    MaxCalls = 1
SPECIFICATION Spec
CHECK_DEADLOCK FALSE
INVARIANTS
    TypeOK
    CloneIsAllowed
    ConfiguredAsConfirmed
    ConfigFilesExist
CONSTRAINTS
    UsualCatalog
    OneName
    OneCall
