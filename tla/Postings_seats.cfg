SPECIFICATION Spec
CONSTANTS
    poster = poster
    Users = {poster, a, b}
    Tasks = {t1}
    Poster <- MCPoster
    Events = {}
    DeadlineTasks = {}
    Caps = {1}
    PatchCaps = {1}
    Slots = {s1, s2}
    Passes = {q1}
    Discipline = "none"
SYMMETRY Interchangeable
INVARIANTS TypeOK GrantedSeats GrantInv
PROPERTY ImplementsSeatBook
