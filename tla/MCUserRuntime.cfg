CONSTANTS
    Areas <- MCAreas
    Tabs = {"t1"}
    Runs = {"r1", "r2", "r3"}
    Requests = {"q1", "q2"}
    MaxRevisions <- MCMaxRevisions
    MaxErrors = 1
    MaxLoads = 1
    MaxRequests = 5
SPECIFICATION Spec
INVARIANTS TabInv RetryOfEnded
PROPERTIES FactsNeverGoBack Converges
CHECK_DEADLOCK FALSE
