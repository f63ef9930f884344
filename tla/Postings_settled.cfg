SPECIFICATION Spec
CONSTANTS
    poster = poster
    Users = {poster, a, b, c}
    Tasks = {e1}
    Poster <- MCPoster
    Events = {e1}
    DeadlineTasks = {e1}
    Caps = {1, 2}
    PatchCaps = {}
    Slots = {s1, s2}
    Passes = {q1, q2}
    Discipline = "side"
SYMMETRY Interchangeable
INVARIANTS SeatCap CompletedMeansDone SeatInv
