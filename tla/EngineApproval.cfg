SPECIFICATION Spec
CONSTANTS
    NumSteps = 1
    NoRetry = {}
    RetryCaps = {0, 1}
    Tasks = {t1}
    Procs = {p1}
    Users = {u1}
    NoTask = NoTask
    NoProc = NoProc
    SideEffects = {1}
    Conditional = {}
    Policies = {"allow", "deny"}
    Quota <- QuotaOne
    PoolSize = 1
    Attempts = 1
    UserActs = {"approve", "reject", "retry", "set_step", "set_retries", "wake"}
    Faults = {}
    MaxClaims = 4
    MaxCrashes = 1
INVARIANTS EachRunApproved AskIsCurrent RetriesCounted AlwaysAWayOn
