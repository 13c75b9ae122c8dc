SPECIFICATION Spec
CONSTANTS
    Keys <- MCKeys
    NoKey = 0
    Bup = 2
    Len1 = 2
    Len2 = 2
    KickTimes = 3
    Hash1 <- MCHash1
    Hash2 <- MCHash2
INVARIANTS
    TypeOK
    EveryKeyFound
    NoSecondCopy
    NumIsSize
    VictimBucketFull
PROPERTIES
    InsertReturns
    ImplementsKeyTable
