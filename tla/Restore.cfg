\* One tab restores an older revision.
CONSTANTS
    t1 = t1
    t2 = t2
    Edit = {t1}
    CatalogEdit = {t1}
    MaxRevision = 3
    MaxVersion = 4
    MaxLoads = 1
    DeletePublished = FALSE
SPECIFICATION Spec
INVARIANTS
    RestoreAccepted
\* the package may be deleted, and the bound on versions be reached
CHECK_DEADLOCK FALSE
