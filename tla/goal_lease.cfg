\* Checkouts of another branch fence the lease and block the goal; two runs, the second
\* of which may be a retry of a failed one; a deadline of three ticks and a lease of two,
\* so that a run needs a renewal to reach its deadline; one crash or failure, at any step
\* of any process.
SPECIFICATION FairSpec
CONSTANTS
    Commit = {c1}
    Bump = {b0}
    Content = {x}
    Branch = {main, feature}
    TreeState = {FALSE}
    Input = {}
    Research = {}
    WakeToken = {w1, w2}
    Question = {}
    Failure = {f}
    Task = {}
    Ttl = 2
    MaxRuntime = 3
    MaxRetries = 1
    MaxRepairs = 1
    MaxChildren = 2
    MaxBackoff = 2
    MaxWait = 1
    MaxTokens = 2
    MaxGoals = 1
    MaxCrashes = 1
    RoleOf <- NoRoles
    None = None
    Torn = Torn
    standards = standards
    verifier = verifier
    validator = validator
INVARIANTS TypeOK
PROPERTIES FencesNoLiveOwner LeaseEnds RunEnds
