\* Two transitions over active.json and renewal.json, two events each, two
\* crashes and one event outside any transition: enough for a crash inside the
\* replay of a crashed transition, followed by a fresh transition.
SPECIFICATION FairSpec
CONSTANTS
    old = old
    Target = {active, renewal}
    Value = {old, new}
    Id = {t1, t2}
    NoId = NoId
    NoJournal = NoJournal
    MaxEvents = 2
    MaxNotes = 1
    MaxCrashes = 2
    InitialFiles <- MCInitialFiles
\* The identifiers run out: a controller nobody calls again has stopped.
CHECK_DEADLOCK FALSE
INVARIANTS
    TypeOK
    ExactlyOnce
    NoGap
PROPERTIES
    ImplementsTransitionLog
    EventuallyReplayed
