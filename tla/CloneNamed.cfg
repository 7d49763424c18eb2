\* As AddPackage.cfg: there is no repository of Organizational Blueprints.
CONSTANTS
    Namespace = {"web", "nginx"}
    Info = {"", "given"}
    Repository <- Repositories4
    Descriptor <- Descriptors
    Source <- Sources
    Origin <- Origins
    PackageName <- Names
    Shape <- Shapes
    MaxCalls = 1
SPECIFICATION Spec
CHECK_DEADLOCK FALSE
INVARIANT ClonesWhatActionNames
