SPECIFICATION Spec
CONSTANTS
    u1 = u1  u2 = u2  p1 = p1  p2 = p2  va = va  vb = vb  None = None
    Rounds = {1, 2}
    Users = {u1, u2}
    Processes = {p1, p2}
    Jobs = {"OPEN_SCHEDULED_ROUND", "SCORE_ROUND", "CLOSE_ROUND_PREDICTIONS"}
    Results = {va, vb}
    Points <- Scores
    Grant <- Grants
    Need <- Needs
    Inventory <- Paid
SYMMETRY ProcessSymmetry
CONSTRAINTS
    OneAtATime
    Ordered
    OneCrash
ACTION_CONSTRAINT GrantedAtOnce
INVARIANTS
    SingleOpenRound
    BenefitsSpentOnce
    ScoreIsSumOfHistory
    SameResultForAll
CHECK_DEADLOCK FALSE
