SPECIFICATION Spec
CONSTANTS
    Sides = {poster, taker}
    MaxMessages = 3
    Limit = 1
    Slots = {s1, s2}
SYMMETRY Interchangeable
INVARIANTS TypeOK NothingMissed ReceiptsCoverReads
