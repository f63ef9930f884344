SPECIFICATION Spec
CONSTANTS
    poster = poster
    Users = {poster, a}
    Tasks = {t1}
    Poster <- MCPoster
    Events = {t1}
    DeadlineTasks = {}
    Caps = {1}
    PatchCaps = {}
    Slots = {s1, s2}
    Passes = {q1}
    Discipline = "row"
SYMMETRY Interchangeable
PROPERTY CancelledTakesNoCheckin
