\* One participant, two ids of the form and the one of another client, three
\* requests in all, two of them handled at a time, one failing D1 call: enough
\* for a retry to race the attempt it repeats, for a late request to overtake,
\* and for an id reused with another payload.
SPECIFICATION Spec
CONSTANTS
    Actor = {a}
    Period = {p}
    Value = {none, yes}
    NoValue = none
    Unset = Unset
    Reason = {r}
    None = None
    Handler = {h1, h2}
    MaxKeys = 2
    MaxSends = 3
    MaxFailures = 1
SYMMETRY Symmetry
\* Requests run out.
CHECK_DEADLOCK FALSE
INVARIANTS
    TypeOK
    HistoryReplays
    OneAnswerPerRequest
    SavedIsRecorded
PROPERTY
    ImplementsPreferenceLog
