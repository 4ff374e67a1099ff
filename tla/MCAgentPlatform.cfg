SPECIFICATION Spec
CONSTANTS
    Areas = {"lifecycle", "health", "config", "backup", "release"}
    MaxCommands <- MCMaxCommands
    MaxAttempts <- MCMaxAttempts
INVARIANTS BackupInv CommandInv SupersededNotInForce
PROPERTIES OfflineAlertSettles
CHECK_DEADLOCK FALSE
