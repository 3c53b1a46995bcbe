SPECIFICATION Spec
CONSTANTS
    Users = {u1, u2}
    NoUser = NoUser
    Conns = {c1, c2, c3}
    NoConn = NoConn
    InviteIds = {i1, i2, i3}
    NoInvite = NoInvite
    Requests = {r1, r2}
    DailyLimit = 1
    MaxRestarts = 1
SYMMETRY Symmetry
INVARIANTS
    TypeOK
    BothSidesAgreed
    AcceptedInviteHasConnected
    DailyLimitBounded
