CONSTANTS
    c1 = c1
    c2 = c2
    alice = alice
    bob = bob
    Commands <- MCCommands
    ApprovalCommands <- MCOneCommand
    Users <- MCUsers
    Owner = alice
    NoUser = NoUser
    LeaseTerms = {1, 2}
    CommandTTLs = {2}
    StartDelays = {0}
    ApprovalTTLs = {1}
    ObservationLags = {0}
    ObservationStatuses = {"healthy"}
    MaxFreshness = 2
    MaxTime = 2
    MaxDesired = 1
    MaxObservation = 1
    MaxAttempts = 2
    MaxReceiptSeq = 3
SPECIFICATION Spec
INVARIANTS LeaseCoherence AtMostOneStart ApprovalGatesLease SuccessIsWitnessed
PROPERTIES ImplementsLifecycle ProgressBeforeExpiry
CHECK_DEADLOCK FALSE
