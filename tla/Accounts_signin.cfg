SPECIFICATION Spec
CONSTANTS
    student = student
    studentId = studentId
    People = {admin, student}
    Ids = {studentId, otherId}
    NoId = none
    Directory <- MCDirectory
    Staff = {}
    Imported = {admin}
    Admins = {admin}
    Ttl = 1
    Lag = 1
    Slots = {s1, s2}
    Unused = {"TEACHER"}
    Joiners = {student}
PROPERTY TakenIdCostsNoSignIn
