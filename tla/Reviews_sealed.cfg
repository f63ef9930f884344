SPECIFICATION FairSpec
CONSTANTS
    Pairs = {k1}
    Slots = {s1, s2}
    Passes = {q1, q2}
    BothDays = 1
    OneDays = 3
    LastSubmit = 3
    LastDay = 6
INVARIANTS TypeOK Sealed SealInv
PROPERTIES FirstReviewStands Unsealed
