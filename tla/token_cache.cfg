SPECIFICATION Spec
CONSTANTS
    t1 = t1
    t2 = t2
    t3 = t3
    t4 = t4
    Tokens = {t1, t2, t3, t4}
    Exp <- MCExp
    TTL = 3
    MaxSize = 2
    MaxTime = 8
INVARIANTS
    SizeBounded
    GoneAfterTTL
PROPERTIES
    GoodEntriesGoLast
    PutRespectsExp
