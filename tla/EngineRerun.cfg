SPECIFICATION Spec
CONSTANTS
    NumSteps = 2
    NoRetry = {}
    RetryCaps = {0}
    Tasks = {t1}
    Procs = {p1}
    Users = {u1}
    NoTask = NoTask
    NoProc = NoProc
    SideEffects = {}
    Conditional = {2}
    Policies = {"allow"}
    Quota <- QuotaOne
    PoolSize = 1
    Attempts = 2
    UserActs = {"retry", "force_step"}
    Faults = {}
    MaxClaims = 3
    MaxCrashes = 0
INVARIANTS FinalStatusTells
PROPERTIES AdvanceIsEarned
