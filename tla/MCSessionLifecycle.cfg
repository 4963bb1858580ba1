SPECIFICATION MCSpec
CONSTANTS
    Nobody = Nobody
    Sessions = {s1, s2, s3}
INVARIANTS LiveIntact RemovalExclusive NoLockLeak ClaimsHonoured
SYMMETRY SessionSymmetry
CHECK_DEADLOCK FALSE
