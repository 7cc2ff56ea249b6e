SPECIFICATION Spec
CONSTANTS
    m1 = m1  m2 = m2  u1 = u1  u2 = u2  u3 = u3  owner = owner  i1 = i1
    t1 = t1  t2 = t2  t3 = t3  None = None
    Mesas <- TwoMesas
    Users <- TwoUsers
    Invites = {}
    Slots = {t1, t2, t3}
    Category <- PaidCategory
    AccessCost <- PaidCost
    SponsorPool <- NoSponsor
    MaxParticipants <- PaidSeats
    Shares <- PaidPrizes
    Creator <- PaidCreator
    InviteMesa <- NoInvite
    MaxUses <- NoInvite
    InitialBalance <- PaidBalances
    Pending <- PaidPending
    MayLapse = {}
    Standing <- PaidStanding
    Order <- PaidOrder
SYMMETRY SlotSymmetry
INVARIANTS
    SeatCountExact
    CollectedIsDebited
PROPERTIES
    ImplementsWallet
CHECK_DEADLOCK FALSE
