\* Every part of the engine: every adapter with every combination of answers, every pair of
\* records of every source, every order of answers to a call with up to three tries, four
\* threads at a bucket of two, two processes at the store, the .env file, the library and the
\* cache, three requests to the Worker.
SPECIFICATION EngineSpec
CONSTANTS
    Parts = {"stream", "items", "http", "limiter", "planner", "fusion", "rerank", "clusters", "drill",
        "store", "discover", "verify", "settings", "setup", "library", "cache", "captures"}
    Adapters = {"reddit", "reddit_keyless", "reddit_paid_first", "x_cookies", "x_key", "x_lanes",
        "youtube", "youtube_keyless", "tiktok", "instagram", "threads", "pinterest", "linkedin",
        "truthsocial", "bluesky", "hackernews", "github", "digg", "arxiv", "techmeme", "dripstack",
        "polymarket", "stocktwits", "xiaohongshu", "trustpilot", "trustpilot_hint", "brave", "exa",
        "serper", "parallel", "keyless", "perplexity", "perplexity_both", "perplexity_deep", "jobs"}
    Feeds = {"bird", "xai", "xurl", "xquik", "bluesky", "truthsocial", "threads", "tiktok",
        "instagram", "pinterest", "youtube", "linkedin", "reddit_feed", "reddit_public",
        "reddit_paid", "hackernews", "digg", "arxiv", "techmeme", "dripstack", "stocktwits",
        "trustpilot", "polymarket", "github", "brave", "exa", "serper", "parallel", "ddg",
        "startpage", "searxng", "board", "jsonld"}
    Enough = 2
    BatchSize = 2
    VideoBatchSize = 3
    Retries = {1, 2, 3}
    Max429 = 2
    MinDns = 3
    Thread = {t1, t2, t3, t4}
    Capacity = 2
    MaxTime = 4
    Questions <- MCQuestions
    Address = {1, 2, 3}
    Author = {"a"}
    Pairings <- MCPairings
    StreamLength = 2
    MaxPerAuthor = 2
    MinPerSource = 1
    PoolLimit = 2
    RerankLimit = 1
    Kinds <- MCKinds
    Relevances = {0, 80}
    PoolSize = 3
    Shortlist = 2
    ClusterSize = 4
    SourcePatterns <- MCPatterns
    Mergeable = 2
    MaxRepresentatives = 2
    DrillSize = 3
    Stories = 2
    Job = {j1, j2}
    Name = {"a", "b"}
    Url = {"u", "v"}
    MaxScore = 1
    Initial = {"a"}
    Listings = {"digg"}
    Slots = 1
    TopicLimit = 1
    Evidence <- MCEvidence
    MaxTopics = 2
    Reports <- MCReports
    Moments <- MCMoments
    Lower <- MCLower
    Contents <- MCContents
    FromSettings <- MCFromSettings
    CookieStores <- MCJars
    Process = {p1, p2}
    Code = {"c", "d"}
    Answers = 2
    Scenarios <- MCScenarios
    File = {"f", "g"}
    Topic = {"s", "t"}
    MaxEvents = 2
    Entity = {"s", "t", "u"}
    Requests <- MCRequests
    Attempts = 1
    Actor = {"a", "b"}
    Link = {"u?utm_source", "u", "v"}
    Normalized <- MCNormalized
    Key = {1, 2}
    Nobody = Nobody
    Limit = 2
    MaxRequests = 3
    MaxMinutes = 2
    Offered <- MCOffered
INVARIANTS StreamsHonest ItemsFair CallHonest NoStampede PlanHonest RankingFair
    StoryKept StoreSound BriefSolid VerdictsHonest SettingsKept FilesShared
    CapturesHold
PROPERTY EngineEnds
CHECK_DEADLOCK FALSE
