\* Seven runs: X and Reddit, X with all its lanes, a quick run at the fetch cap, the sources
\* filtered at the end, GitHub's modes with the corpus, a missing corpus, and a plan that
\* repeats a label.  With
\* a floor of two and a cut to one, two URLs are enough to be thin, whole and cut.
SPECIFICATION FairSpec
CONSTANTS
    Source <- MCSource
    Label <- MCLabel
    Url = {1, 2}
    Run <- MCRuns
    Result <- MCResult
    OffTopic = {1}
    ThinFloor = 2
    PerStreamLimit = 1
    None = None
INVARIANTS HonestReport FusionInput
PROPERTY RunEnds
