CONSTANTS
    w1 = w1
    w2 = w2
    main = main
    Nobody = Nobody
    Worker = {w1, w2}
    Owner = main
    Caller = {w1, w2, main}
    Exiter = {w2}
    Archiver = {w1, w2}
    MaxLogEventNum = 1
    MaxOpen = 3
    MaxCreates = 2
SPECIFICATION LiveSpec
CHECK_DEADLOCK FALSE
INVARIANT TypeOK
INVARIANT LinesWhole
INVARIANT OnceOnly
INVARIANT StatusTrusted
INVARIANT RuinFindsAll
PROPERTY HandleReturns
