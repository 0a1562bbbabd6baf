SPECIFICATION Spec
CONSTANTS
    PageBytes = 4
    class_sizes <- SlotSizes
    MallocAlign = 2
    GcMinThreshold = 4
    MemTop = 12
    Sizes = {1, 2, 3, 5}
    NoObj = NoObj
INVARIANTS
    NoOverlap
    FindsEveryObject
    FreeListsExact
    AccountingExact
CHECK_DEADLOCK FALSE
