SPECIFICATION Spec
CONSTANTS
    q = q
    r = r
    a = a
    b = b
    s1 = s1
    s2 = s2
    s3 = s3
    Refs <- TwoRefs
    Values <- TwoValues
    Stores <- ThreeStores
    Indexes <- ShortIndexes
    NoList = NoList
    NoLoop = NoLoop
    Done = Done
    Panic = Panic
    Zero = Zero
    ListMinCap = 1
    MaxCap = 2
SYMMETRY ListSymmetry
INVARIANT StorageIsSound
PROPERTY ImplementsLists
CHECK_DEADLOCK FALSE
