SPECIFICATION FairSpec
CONSTANTS
    NumSteps = 1
    NoRetry = {}
    RetryCaps = {1}
    Tasks = {t1}
    Procs = {p1}
    Users = {u1}
    NoTask = NoTask
    NoProc = NoProc
    SideEffects = {}
    Conditional = {}
    Policies = {"allow"}
    Quota <- QuotaOne
    PoolSize = 1
    Attempts = 2
    UserActs = {"terminate", "pause"}
    Faults = {}
    MaxClaims = 2
    MaxCrashes = 0
PROPERTIES StopIsHonoured FailedIsRetried TasksMove
