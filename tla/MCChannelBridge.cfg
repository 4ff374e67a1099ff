CONSTANTS
    m1 = m1
    Messages <- MCMessages
    MaxAttempts = 3
    LeaseTerm = 2
    RetryDelays = {0, 1}
SPECIFICATION BridgeFairSpec
INVARIANTS BridgeInv
PROPERTIES SettledRowsStay NoStarvation
CHECK_DEADLOCK FALSE
