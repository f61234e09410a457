\* One question; while it is open the tree may become dirty, and the operator may adopt
\* an input or bind a research link, which moves the goal's revision; two runs, so that
\* the question can be asked again by a later run; one crash or failure.
SPECIFICATION FairSpec
CONSTANTS
    Commit = {c1}
    Bump = {b0}
    Content = {x}
    Branch = {main}
    TreeState = {FALSE, TRUE}
    Input = {i}
    Research = {r}
    WakeToken = {w1, w2}
    Question = {q}
    Failure = {}
    Task = {}
    Ttl = 1
    MaxRuntime = 1
    MaxRetries = 1
    MaxRepairs = 1
    MaxChildren = 2
    MaxBackoff = 2
    MaxWait = 1
    MaxTokens = 2
    MaxGoals = 1
    MaxCrashes = 1
    RoleOf <- NoRoles
    None = None
    Torn = Torn
    standards = standards
    verifier = verifier
    validator = validator
INVARIANTS NotAskedTwice CheckpointRecorded
PROPERTIES QuestionReachesOperatorUnlessTorn
