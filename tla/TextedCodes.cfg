SPECIFICATION TextedSpec
CONSTANTS
    Requests = {r1, r2}
    Codes = {c1, c2, c3}
    NoCode = NoCode
    MaxAttempts = 2
    MaxSends = 2
    Cooldown = 1
    CodeTtl = 2
    Window = 3
    MaxLatency = 4
    MaxRestarts = 1
    Users = {u1}
    Newcomers = {u1}
    Phones = {p1, p2}
    NoPhone = NoPhone
    ConsentRequests = {q1}
SYMMETRY Symmetry
INVARIANTS
    TypeOK
    GuessesPerCodeBounded
    OutstandingIsAccepted
    ResetTypeOK
    ReplaysOnlyInFlight
    ConsentTypeOK
    TextsAreBackedByGrant
PROPERTIES
    PhoneCodeIsOneTime
    ResetIsOneTime
