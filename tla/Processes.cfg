SPECIFICATION CaseSpec
CONSTANTS
    NumSteps = 2
    NoRetry = {}
    RetryCaps = {1}
    External = {2}
    Skippable = {}
    MaxAttempts = 2
    Clients = {"c1", "c2"}
    NoClient = "none"
    UserActs = {"pause", "resume", "retry"}
    MaxClaims = 5
    MaxItems = 2
    MaxTickets = 2
    Writers = {"w1", "w2"}
    Followers = {"f1", "f2"}
    Followed = {"t1", "t2"}
    Limit = 1
    MaxEvents = 4
    Name = {"a", "b", "c"}
    Workflows <- TwoWorkflows
    TasksGiven <- TwoTasks
    Spawns <- NoChildren
    Skips = {"a"}
    Quota <- OneEach
    MaxRetries = 1
    Results = {"done", "defer", "delay", "fail", "failLater", "raise"}
    Resident = FALSE
    Size = 2
    Slack = 1
    MaxRefusals = 1
    MaxRaises = 1
    Pids = {"p1", "p2", "p3"}
    Askers = {"c1"}
    Kinds = {"daemon", "run", "forced", "stranger"}
    PidsReused = FALSE
    AtOnce = 1
    MaxCrashes = 2
    Opener = {"a", "b", "c"}
    New = {"b", "c"}
    Twins = {}
    OneProcess = TRUE
    Versions = {1}
    MaxEdits = 2
    MaxDeletes = 2
    MaxFailures = 2
    StepsAfter = TRUE
    AuthorWaits = TRUE
INVARIANTS ItemsAreAnswered NothingMissed RoundsHold
PROPERTIES AcceptedAdvances DaemonsHold UpgradesHold DraftsHold OtherCasesHold WorkEnds
CHECK_DEADLOCK FALSE
