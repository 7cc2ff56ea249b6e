SPECIFICATION Spec
CONSTANTS
    p1 = p1  p2 = p2  a = a  b = b  None = None
    MatchCount = 2
    Users = {a, b}
    Since <- Created
    Pros = {a}
    Rounds = {1, 2, 3}
    CloseAt <- Closing
    Ticket <- Played
    Result <- Outcome
    Periods = {"month"}
    Mesas = {"mesa"}
    Start <- From
    End <- To
    Processes = {p1, p2}
    LastMoment = 4
SYMMETRY ProcessSymmetry
CONSTRAINTS
    RoundsInOrder
    Focus
INVARIANTS
    HistoryIsExact
    HistoryFollowsRule
PROPERTIES
    BaselineExact
    ClosingCountsWindow
    ClosedScoresStay
    SnapshotIsStanding
CHECK_DEADLOCK FALSE
