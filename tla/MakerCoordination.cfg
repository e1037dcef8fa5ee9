SPECIFICATION FairSpec
CONSTANTS
    task = task
    rebalancer = rebalancer
    ma = ma
    mb = mb
    buy = buy
    sell = sell
    Owners = {task, rebalancer}
    Makers = {ma, mb}
    Sides = {buy, sell}
    Quotes <- BothAndOneSide
    NoOwner = NoOwner
    Blocks <- TaskAndRebalancer
    Rank <- ByName
    MaxFaults = 1
INVARIANTS
    TypeOK
    AcknowledgedMeansWithdrawn
PROPERTIES
    FirstOwnerServed
CHECK_DEADLOCK FALSE
