CONSTANT Cases <- Troubles
SPECIFICATION FairSpec
INVARIANTS NothingSkipped PaidTwiceNeedsDeath KnownIsComplete LocksLeftByFailures BalancesFollowDeliveries
PROPERTY ScansTheChain
\* the chain ends
CHECK_DEADLOCK FALSE
