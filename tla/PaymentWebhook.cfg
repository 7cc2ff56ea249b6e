SPECIFICATION Spec
CONSTANTS
    u1 = u1  c1 = c1  s1 = s1  m1 = m1  m2 = m2  n1 = n1
    h1 = h1  h2 = h2  None = None
    Users = {u1}
    Payments = {c1, s1}
    MpPayments = {m1, m2, n1}
    Processes = {h1, h2}
    Owner <- Owners
    Price <- Prices
    Coins <- CoinsBought
    Months <- MonthsBought
    Reference <- References
    Amount <- Amounts
    EventId <- Events
    LegacyId <- Legacy
    Outcomes = {"approved", "rejected"}
    Cost = 2
    Quantity = 3
    Adjust = 1
    ManualEnds = {0, 1}
    MaxEntries = 1
    MaxMonth = 1
SYMMETRY Symmetry
CONSTRAINT OneAtATime
INVARIANTS
    EffectIsBacked
    EffectsBoundedByConcurrency
    ApprovalNotSwallowed
    WalletAccounts
    AccessIsPaid
CHECK_DEADLOCK FALSE
