SPECIFICATION Spec
CONSTANTS
    MaxUsers = 2
    LegacyUsers = 1
    Emails = {e1, e2}
    Phones = {p1, p2}
    Requests = {r1, r2}
    NoPhone = NoPhone
    NoEmail = NoEmail
SYMMETRY Symmetry
PROPERTY ReclaimSparesActivated
