CONSTANTS
    m1 = m1
    m2 = m2
    p1 = p1
    p2 = p2
    Messages <- MCMessages
    Publishers <- MCPublishers
    OutboxAttempts = 2
    LeaseTerm = 2
    RetryDelays = {1}
SPECIFICATION OutboxFairSpec
INVARIANTS SettlementInv
PROPERTIES HolderUndisturbed NoStarvation
CHECK_DEADLOCK FALSE
