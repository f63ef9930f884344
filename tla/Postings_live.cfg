SPECIFICATION FairSpec
CONSTANTS
    poster = poster
    Users = {poster, a, b}
    Tasks = {t1}
    Poster <- MCPoster
    Events = {}
    DeadlineTasks = {}
    Caps = {1, 2}
    PatchCaps = {}
    Slots = {s1}
    Passes = {q1}
    Discipline = "side"
PROPERTIES NoHostage Concludes
