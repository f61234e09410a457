\* A second branch, a run and a crash: the checkpoint journal against the branch
\* fence of reconcileLocked.
SPECIFICATION Spec
CONSTANTS
    Commit = {c1}
    Bump = {b0}
    Content = {x}
    Branch = {main, feature}
    TreeState = {FALSE}
    Input = {}
    Research = {}
    WakeToken = {w1, w2}
    Question = {}
    Failure = {}
    Task = {}
    Ttl = 1
    MaxRuntime = 2
    MaxRetries = 1
    MaxRepairs = 1
    MaxChildren = 2
    MaxBackoff = 2
    MaxWait = 1
    MaxTokens = 2
    MaxGoals = 1
    MaxCrashes = 1
    RoleOf <- NoRoles
    None = None
    Torn = Torn
    standards = standards
    verifier = verifier
    validator = validator
INVARIANTS CheckpointRecorded
