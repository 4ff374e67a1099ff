CONSTANTS
    Areas = {"logins", "users", "server", "worker", "mutations"}
    Users = {"ada", "bob"}
    Org <- MCOrg
    FirstRole <- MCFirstRole
    Slots = {"s1", "s2"}
    AttemptLimit = 2
    Minute = 2
    Keys = {"k1"}
    Hashes = {"h1", "h2"}
    Skew = 1
    MaxClock = 2
    MaxLogins = 2
    MaxNonces = 1
    MaxCredentials = 3
    MaxAudits = 3
SPECIFICATION Spec
INVARIANTS MachinesInv UsersInv RefusedWasDifferent
PROPERTIES TransactionsEnd
CHECK_DEADLOCK FALSE
