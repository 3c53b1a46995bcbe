SPECIFICATION MCSpec
CONSTANTS
    Requests = {r1}
    MaxRestarts = 1
    Codes = {k1, k2}
    NoCode = NoCode
    MaxAttempts = 2
    MaxSends = 2
    Cooldown = 1
    CodeTtl = 2
    Window = 3
    MaxLatency = 1
    Owners = {u1}
    Newcomers = {u1}
    Phones = {p1, p2}
    NoPhone = NoPhone
    People = {u1, u2}
    NoUser = NoUser
    Conns = {c1, c2}
    NoConn = NoConn
    InviteIds = {i1}
    NoInvite = NoInvite
    DailyLimit = 1
    Lookers = {"s1", "s2"}
    Lists <- MCLists
    Name <- MCName
    Matching <- MCResolved
    MaxChanges = 1
PROPERTIES
    NumberCanBeVerified
    PasswordCanBeReset
    ConsentCanBeGivenAgain
    InvitationCompletes
    ObservedCountCatchesUp
