CONSTANTS
    c1 = c1
    c2 = c2
    alice = alice
    bob = bob
    Commands <- MCOneCommand
    ApprovalCommands <- MCOneCommand
    Users <- MCUsers
    Owner = alice
    NoUser = NoUser
    NoCommand = NoCommand
    LeaseTerms = {1}
    CommandTTLs = {2}
    StartDelays = {0}
    ApprovalTTLs = {2}
    ObservationLags = {0}
    ObservationStatuses = {"healthy"}
    MaxFreshness = 2
    MaxTime = 2
    MaxDesired = 1
    MaxObservation = 1
    MaxAttempts = 2
    MaxReceiptSeq = 3
SPECIFICATION LoopFairSpec
INVARIANTS ExecutionInv ExecutesAtMostOnce
PROPERTIES ImplementsAuthority WorkIsSettled
CHECK_DEADLOCK FALSE
