SPECIFICATION Spec
CONSTANTS
    Scenarios <- MCQuietScenario
    UserNotes = {"n1", "n2"}
    Natives = {"e"}
    Targets = {"memory"}
    Importances = {5}
    Size <- MCSize
    Limit <- MCLimit
    MaxAttempts = 2
PROPERTIES
    ConflictStaysOut
CHECK_DEADLOCK FALSE
