SPECIFICATION CaseSpec
CONSTANTS
    NumSteps = 2
    NoRetry = {}
    RetryCaps = {1}
    Keys = {"a", "b"}
    NoKey = "none"
    Plans <- ThreePlans
    UserActs = {"terminate", "force_step"}
    MaxClaims = 3
    MaxFaults = 1
    Lazy = FALSE
    Policies = {"ask", "never", "absent"}
    Guards = 2
    MaxAttempts = 3
    Caller = {"a", "b", "c"}
    Together = 1
    First = 3
    Kind = {"a", "b"}
    Value = {"v"}
    ChainSteps = 2
    ResultArtifacts = 0
    Names = {"n"}
    Values = {"v"}
    MaxEdits = 2
    MaxCalls = 2
INVARIANTS ArtifactsAsPromised CredentialsAreCurrent
PROPERTIES ResultsAreAtomic GateHolds IntakeHolds OtherCasesHold
CHECK_DEADLOCK FALSE
