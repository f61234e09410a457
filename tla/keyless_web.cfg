\* The three keyless web searches.
SPECIFICATION Spec
CONSTANTS
    Feeds = {"ddg", "startpage", "searxng"}
    Enough = 2
    BatchSize = 2
    VideoBatchSize = 3
INVARIANT KeylessSurvives
CHECK_DEADLOCK FALSE
