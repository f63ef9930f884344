SPECIFICATION Spec
CONSTANTS
    ip = ip
    email1 = email1
    email2 = email2
    Targets <- TwoTargets
    Attempts = {a1, a2}
    Window = 2
    MaxFailures = 2
    Attendees = {u}
    Slots = {s1, s2}
    CheckinWindow = 2
    CheckinMax = 1
    Step = 2
    Guess = guess
SYMMETRY Interchangeable
INVARIANTS TypeOK BurstBound ShutOutEnds CheckinBudget CodeLifetime
