SPECIFICATION MCSpec
CONSTANTS
    Lists <- MCLists
    Name <- MCName
    Matching <- MCResolved
    Requests = {r1, r2}
    MaxChanges = 2
SYMMETRY Symmetry
INVARIANT MutedAreNotTold
