SPECIFICATION Spec
CONSTANTS
    Scenarios <- MCScenarios
    UserNotes = {"n1", "n2"}
    Natives = {"e"}
    Targets = {"memory"}
    Importances = {5}
    Size <- MCSize
    Limit <- MCLimit
    MaxAttempts = 2
INVARIANTS StatusInv ProjectionInv
PROPERTIES QueueDrains
CHECK_DEADLOCK FALSE
