\* Two tabs race over one package whose published revisions stay.
CONSTANTS
    t1 = t1
    t2 = t2
    Edit <- Tabs
    CatalogEdit = {}
    MaxRevision = 2
    MaxVersion = 4
    MaxLoads = 1
    DeletePublished = FALSE
SPECIFICATION Spec
SYMMETRY Symmetry
CONSTRAINT FewLoads
INVARIANTS
    TypeOK
    SaveKeepsUpdates
PROPERTIES
    OneLineOfHistory
\* the package may be deleted, and the bound on versions be reached
CHECK_DEADLOCK FALSE
