\* The same instance; PackageRevisionPage.tsx:730 throws.
CONSTANTS
    p1 = p1
    p2 = p2
    b1 = b1
    b2 = b2
    Package <- Packages
    Blueprint <- Blueprints
    MaxRevision = 2
    MaxTag = 2
SPECIFICATION Spec
SYMMETRY Symmetry
CONSTRAINTS
    FewLoads
    OneBlueprintChanges
INVARIANT SummaryDefined
