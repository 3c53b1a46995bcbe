SPECIFICATION SharedSpec
CONSTANTS
    SenderSize = 2
    ReceiverSize = 2
    SuggestLevels = 1
    AutoLevels = 2
    MaxDecisions = 2
    Lists = {l1, l2, l3}
    NoList = NoList
    Requests = {r1, r2}
    Names <- MCNames
    Score <- MCScore
    MaxAccounts <- MCMaxAccounts
    MaxReplaced = 2
SYMMETRY Symmetry
INVARIANTS
    TypeOK
    OneToOne
    NothingLeftOver
    DecisionsBind
    ViewsDifferBoundedly
    AcceptingASuggestionAdds
    RejectingShiftsByOne
    PartsTypeOK
    LastPublishedIsServed
    RacesStayBounded
    UpdatesNeverEmptyAList
    ChangesAreCounted
    MirroredViews
    DecisionFollowsItsNames
PROPERTIES
    SameFileChangesNothing
