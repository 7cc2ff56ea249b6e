SPECIFICATION LoopSpec
CONSTANTS
    PrizeRows <- FourRows
    TechnicalOrder <- ById
    Pools <- SomePools
    Standings <- AnyStanding
    Distributions <- SomeDistributions
INVARIANTS
    DividedFairly
    ComputesPayouts
PROPERTIES
    Terminates
CHECK_DEADLOCK FALSE
