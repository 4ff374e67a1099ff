SPECIFICATION Spec
CONSTANTS
    Revs = {1, 2}
    Images = {0, 1}
    BackupIds = {1}
    RestoreIds = {1, 2}
    PortCount = 2
    First = 0
    OtherFirst = 0
    MaxCommands = 3
    MaxFaults = 2
    MaxCrashes = 1
    MaxWrites = 1
    Workloads <- MCWorkloads
INVARIANTS HostInv RollbackRestores SuccessInForce
CHECK_DEADLOCK FALSE
