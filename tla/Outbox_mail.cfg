SPECIFICATION FairSpec
CONSTANTS
    Notices = {n1}
    Warnings = {w1}
    Reminders = {}
    Poison = {w1}
    Batch = 2
    Slots = {s1, s2}
    Mail = mail
    MaxMishaps = 2
INVARIANTS TypeOK CopiesAreLostAnswers SentMeansAccepted MailInv
PROPERTIES ImplementsMailBook QueuedIsDelivered DueIsQueued
