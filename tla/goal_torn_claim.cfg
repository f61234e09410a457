\* One question, one run, one crash between the creation of emission.json and the
\* write that gives it its time.
SPECIFICATION FairSpec
CONSTANTS
    Commit = {c1}
    Bump = {b0}
    Content = {x}
    Branch = {main}
    TreeState = {FALSE}
    Input = {}
    Research = {}
    WakeToken = {w1, w2}
    Question = {q}
    Failure = {}
    Task = {}
    Ttl = 1
    MaxRuntime = 1
    MaxRetries = 1
    MaxRepairs = 1
    MaxChildren = 2
    MaxBackoff = 2
    MaxWait = 1
    MaxTokens = 1
    MaxGoals = 1
    MaxCrashes = 1
    RoleOf <- NoRoles
    None = None
    Torn = Torn
    standards = standards
    verifier = verifier
    validator = validator
PROPERTIES QuestionReachesOperator
