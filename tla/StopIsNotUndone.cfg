SPECIFICATION Spec
CONSTANTS
    Users = {u1}
    Newcomers = {u1}
    Phones = {p1, p2}
    NoPhone = NoPhone
    Requests = {r1}
    MaxRestarts = 0
PROPERTIES
    StopIsNotUndone
