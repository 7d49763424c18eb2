\* Two tabs on a package with up to two revisions; any call may fail.
CONSTANTS
    t1 = t1
    t2 = t2
    Tab <- Tabs
    MaxRevision = 2
SPECIFICATION Spec
SYMMETRY Symmetry
CONSTRAINT FewReads
INVARIANTS
    TypeOK
    SyncHasSecret
    CreationAccepted
PROPERTIES
    OnlyFailuresStrandSecret
