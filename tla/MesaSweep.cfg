SPECIFICATION FairSpec
CONSTANTS
    m1 = m1  m2 = m2  u1 = u1  u2 = u2  u3 = u3  owner = owner  i1 = i1
    t1 = t1  t2 = t2  t3 = t3  None = None
    Mesas <- OneMesa
    Users <- ThreeUsers
    Invites = {}
    Slots = {t1, t2}
    Category <- OneCategory
    AccessCost <- OneCost
    SponsorPool <- OneSponsor
    MaxParticipants <- OneSeats
    Shares <- OnePrizes
    Creator <- OneCreator
    InviteMesa <- NoInvite
    MaxUses <- NoInvite
    InitialBalance <- Balances
    Pending <- OnePending
    MayLapse = {}
    Standing <- Tie
    Order <- ById
PROPERTIES
    ExpiredMesaCloses
CHECK_DEADLOCK FALSE
