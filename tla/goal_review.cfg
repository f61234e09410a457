\* A run completes only after a standards review, a verification and a validation;
\* two contents make the goal leave a revision with and without them, also while a
\* question is open; the second goal starts where the first one ended.
SPECIFICATION Spec
CONSTANTS
    Commit = {c1}
    Bump = {b0}
    Content = {x, y}
    Branch = {main}
    TreeState = {FALSE}
    Input = {}
    Research = {}
    WakeToken = {w1, w2}
    Question = {q}
    Failure = {}
    Task = {standards, verifier, validator}
    Ttl = 1
    MaxRuntime = 1
    MaxRetries = 1
    MaxRepairs = 1
    MaxChildren = 2
    MaxBackoff = 2
    MaxWait = 1
    MaxTokens = 2
    MaxGoals = 2
    MaxCrashes = 1
    RoleOf <- ReviewRoles
    None = None
    Torn = Torn
    standards = standards
    verifier = verifier
    validator = validator
SYMMETRY Symmetry
INVARIANTS CompleteByReview QuestionIsWhole
PROPERTIES ReviewedBeforeLeaving
