SPECIFICATION Spec
CONSTANTS
    Areas = {"inventory", "qq", "feishu", "callback"}
    Channel <- MCChannel
    Slots = {1, 2, 3}
    MaxGeneration = 2
    MaxReports = 4
    WeChatMessages = {"m1", "m2"}
    MaxCallbacks = 3
    Attempts = 2
INVARIANTS BindingsInv AckedIsAccepted
PROPERTIES AdapterFollows
CHECK_DEADLOCK FALSE
