SPECIFICATION FeaturesSpec
CONSTANTS
    Users = {u1, u2}
    Admins = {u2}
    Checklists = {c1, c2}
    Items = {i1, i2}
    Titles = {t1, t2}
    Texts = {x, y}
    Keys = {k1, k2, k3, k4}
    Slots = {s1, s2}
    MaxRequests = 5
    Absent = Absent
    Same = Same
    NoRequest = NoRequest
    Labels = {l1}
    Comments = {m1}
    Attachments = {c1, c2, c3}
    Names = {t1, t2}
    Bodies = {i1, i2}
    Values = {v1}
    DetailKeys = {k1, k2, k3}
    MaxAssignees = 1
    MaxAttachments = 1
    MaxDetailRequests = 3
    Parts = {"details"}
SYMMETRY Interchangeable
INVARIANTS
    EventsTellCard
    CapsPassedOnlyByRace
