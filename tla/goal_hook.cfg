\* The commit hook next to the controller.  State-only commits, the contents of the
\* owned inputs and two branches move the repository under a lease of two ticks and a
\* deadline of three, so that a renewal outlives the expiry it replaced; two runs and
\* one crash or failure, besides renewals that reach their journal alone.
SPECIFICATION HookSpec
CONSTANTS
    Commit = {c1}
    Bump = {b0, b1}
    Content = {x, y}
    Branch = {main, feature}
    TreeState = {FALSE}
    Input = {}
    Research = {}
    WakeToken = {w1, w2}
    Question = {}
    Failure = {}
    Task = {}
    Ttl = 2
    MaxRuntime = 3
    MaxRetries = 1
    MaxRepairs = 1
    MaxChildren = 2
    MaxBackoff = 2
    MaxWait = 1
    MaxTokens = 2
    MaxGoals = 1
    MaxCrashes = 1
    RoleOf <- NoRoles
    None = None
    Torn = Torn
    standards = standards
    verifier = verifier
    validator = validator
SYMMETRY Symmetry
INVARIANTS OnlyRunningOwner OneAuthority
PROPERTIES FencesNoLiveOwner
