SPECIFICATION Spec
CONSTANTS
    tag1 = tag1
    tag2 = tag2
    unknown = unknown
    Tasks = {t1}
    Users = {u1}
    Tags = {tag1, tag2}
    Asked <- SomeLists
    MaxWrites = 3
    Clients = {c1}
    Slots = {s1, s2}
SYMMETRY Interchangeable
INVARIANTS TypeOK NewestIsAnnounced EditStands
