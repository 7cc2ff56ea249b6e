SPECIFICATION Spec
CONSTANTS
    m1 = m1  m2 = m2  u1 = u1  u2 = u2  u3 = u3  owner = owner  i1 = i1
    t1 = t1  t2 = t2  t3 = t3  None = None
    Mesas <- TwoMesas
    Users <- TwoUsers
    Invites = {i1}
    Slots = {t1, t2}
    Category <- MixedCategory
    AccessCost <- MixedCost
    SponsorPool <- MixedSponsor
    MaxParticipants <- MixedSeats
    Shares <- MixedPrizes
    Creator <- MixedCreator
    InviteMesa <- MixedInvite
    MaxUses <- SingleUse
    InitialBalance <- MixedBalances
    Pending <- MixedPending
    MayLapse = {u2}
    Standing <- PaidStanding
    Order <- PaidOrder
SYMMETRY SlotSymmetry
INVARIANTS
    TypeOK
    SeatsWithinCapacity
    PayoutsFollowAdmission
    PayoutsCovered
    InviteUsesAreEntries
PROPERTIES
    SettledOnceInFull
CHECK_DEADLOCK FALSE
