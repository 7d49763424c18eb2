\* One tab, whose visits, reloads, edits and requests overlap.
CONSTANTS
    t1 = t1
    t2 = t2
    Edit = {t1}
    CatalogEdit = {t1}
    MaxRevision = 3
    MaxVersion = 5
    MaxLoads = 1
    DeletePublished = FALSE
SPECIFICATION FairSpec
INVARIANTS
    PublishedAsNamed
    AtMostOneUnpublished
PROPERTIES
    RequestEnds
\* the package may be deleted, and the bound on versions be reached
CHECK_DEADLOCK FALSE
