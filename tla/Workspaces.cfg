SPECIFICATION Spec
CONSTANTS
    Users = {u1, u2, u3}
    Assignable = {"ADMIN", "MEMBER"}
    Invitations = {i1, i2}
    Slots = {s1, s2}
    Keys = {k1}
    MaxRequests = 5
    NoUser = NoUser
    NoInvitation = NoInvitation
    NoKey = NoKey
    NoRequest = NoRequest
INVARIANTS
    AtMostOneOwner
    OwnerLostOnlyToRoleWrite
PROPERTIES
    OwnerNeverRemoved
    InvitationsSettleOnce
SYMMETRY MCSymmetry
CHECK_DEADLOCK FALSE
