CONSTANTS
    w1 = w1
    w2 = w2
    main = main
    Nobody = Nobody
    Worker = {w1, w2}
    Owner = main
    Caller = {w1, w2, main}
    Exiter = {w2}
    Archiver = {w1, w2}
    MaxLogEventNum = 2
    MaxOpen = 3
    MaxCreates = 2
SPECIFICATION Spec
CHECK_DEADLOCK FALSE
INVARIANT StoredEventFound
