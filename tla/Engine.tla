-------------------------------- MODULE Engine --------------------------------
(***************************************************************************)
(* The parts of the research engine, and the captures of the API Worker, side by  *)
(* side: an initial state chooses a part and what it starts from, and the part    *)
(* takes its steps alone.  The variables of the parts are mapped onto a common     *)
(* set; those a part has no use for stay empty.                               *)
(***************************************************************************)
EXTENDS Integers, Sequences, FiniteSets

CONSTANT Parts          \* the parts this instance runs
CONSTANTS               \* of the streams, the items, the calls, the limiter and the planner
    Adapters, Feeds, Enough, BatchSize, VideoBatchSize, Retries, Max429, MinDns,
    Thread, Capacity, MaxTime, Questions
CONSTANTS               \* of the fusion, the reranking, the clusters and a drill
    Address, Author, Pairings, StreamLength, MaxPerAuthor, MinPerSource, PoolLimit, RerankLimit,
    Kinds, Relevances, PoolSize, Shortlist,
    ClusterSize, SourcePatterns, Mergeable, MaxRepresentatives, DrillSize, Stories
CONSTANTS               \* of the store, a discovery and a verification
    Job, Name, Url, MaxScore, Initial,
    Listings, Slots, TopicLimit, Evidence, MaxTopics,
    Reports, Moments, Lower
CONSTANTS               \* of the settings, the setup, the library and the report cache
    Contents, FromSettings, CookieStores, Process, Code, Answers, Scenarios,
    File, Topic, MaxEvents, Entity, Requests, Attempts
CONSTANTS               \* of the captures
    Actor, Link, Normalized, Key, Nobody, Limit, MaxRequests, MaxMinutes, Offered

VARIABLES part, input, output, s1, s2, s3, s4, s5
engine == <<part, input, output, s1, s2, s3, s4, s5>>
spare == <<s1, s2, s3, s4, s5>>

-----------------------------------------------------------------------------
(* Streams, items, calls, the limiter and the planner.                          *)
Streams == INSTANCE SourceStream
Items == INSTANCE SourceItems
Http == INSTANCE HttpRequest WITH request <- input, call <- output
Limiter == INSTANCE RateLimiter WITH now <- s1, bucket <- s2, wakes <- s3, grants <- s4
Planning == INSTANCE Planner

(* The candidates: fused, reranked, clustered, drilled into.                    *)
Fusion == INSTANCE Ranking WITH Shortlist <- RerankLimit
Reranking == INSTANCE Rerank WITH Size <- PoolSize
Clustering == INSTANCE Clusters WITH Size <- ClusterSize
Drilling == INSTANCE Drill WITH Size <- DrillSize

(* The store, the discovery of topics, and the verification of a report.         *)
Store == INSTANCE ResearchStore WITH
    topics <- input, runs <- output, findings <- s1, sightings <- s2, jobs <- s3,
    inserted <- s4, removed <- s5
Discovering == INSTANCE Discovery WITH Feeds <- Listings
Verifying == INSTANCE Freshness

(* What the processes of one user share: settings, .env, library and cache.     *)
Configuring == INSTANCE Settings
Setup == INSTANCE SetupFlow WITH
    setup <- input, env <- output, handle <- s1, server <- s2, process <- s3
Library == INSTANCE LibraryIndex WITH
    files <- input, events <- output, docs <- s1, fts <- s2, broken <- s3, process <- s4
Cache == INSTANCE ReportCache WITH
    cache <- input, saved <- s1, process <- s2

(* The captures of the API Worker.                                            *)
Captures == INSTANCE CaptureItems WITH
    minute <- input, limits <- output, periods <- s1, captures <- s2, notes <- s3, requests <- s4,
    None <- Nobody

(* What the parts take for granted of their constants.                          *)
ASSUME FeedsAssumption == Items!FeedsAssumption
ASSUME CallsAssumption == Http!CallAssumption
ASSUME LimiterAssumption == Limiter!CapacityAssumption
ASSUME CapturesAssumption == Captures!CaptureAssumption
ASSUME PlanAssumption == Planning!PlanAssumption
ASSUME RankingAssumption == Fusion!RankingAssumption
ASSUME RerankAssumption == Reranking!RerankAssumption
ASSUME ClustersAssumption == Clustering!ClustersAssumption
ASSUME DrillAssumption == Drilling!DrillAssumption
ASSUME StoreAssumption == Store!StoreAssumption
ASSUME CacheAssumption == Cache!CacheAssumption
ASSUME SetupAssumption == Setup!SetupAssumption
ASSUME DiscoverAssumption == Discovering!DiscoverAssumption
ASSUME SubjectAssumption == Verifying!SubjectAssumption

-----------------------------------------------------------------------------
Chosen(p) == part = p /\ p \in Parts
NoSpare == s1 = {} /\ s2 = {} /\ s3 = {} /\ s4 = {} /\ s5 = {}

EngineInit ==
    \/ part = "stream" /\ Chosen("stream") /\ Streams!Init /\ NoSpare
    \/ part = "items" /\ Chosen("items") /\ Items!Init /\ NoSpare
    \/ part = "http" /\ Chosen("http") /\ Http!Init /\ NoSpare
    \/ part = "limiter" /\ Chosen("limiter") /\ Limiter!Init /\ s5 = {} /\ input = {} /\ output = {}
    \/ part = "planner" /\ Chosen("planner") /\ Planning!Init /\ NoSpare
    \/ part = "fusion" /\ Chosen("fusion") /\ Fusion!Init /\ NoSpare
    \/ part = "rerank" /\ Chosen("rerank") /\ Reranking!Init /\ NoSpare
    \/ part = "clusters" /\ Chosen("clusters") /\ Clustering!Init /\ NoSpare
    \/ part = "drill" /\ Chosen("drill") /\ Drilling!Init /\ NoSpare
    \/ part = "store" /\ Chosen("store") /\ Store!Init
    \/ part = "discover" /\ Chosen("discover") /\ Discovering!Init /\ NoSpare
    \/ part = "verify" /\ Chosen("verify") /\ Verifying!Init /\ NoSpare
    \/ part = "settings" /\ Chosen("settings") /\ Configuring!Init /\ NoSpare
    \/ part = "setup" /\ Chosen("setup") /\ Setup!Init /\ s4 = {} /\ s5 = {}
    \/ part = "library" /\ Chosen("library") /\ Library!Init /\ s5 = {}
    \/ part = "cache" /\ Chosen("cache") /\ Cache!Init /\ output = {} /\ s3 = {} /\ s4 = {} /\ s5 = {}
    \/ part = "captures" /\ Chosen("captures") /\ Captures!Init /\ s5 = {}

OnOne(p) == part = p /\ UNCHANGED <<part, spare>>
HttpStep == OnOne("http") /\ Http!Next
DiscoverMain == OnOne("discover") /\ Discovering!Main

EngineNext ==
    \/ OnOne("stream") /\ Streams!Next
    \/ OnOne("items") /\ Items!Next
    \/ HttpStep
    \/ part = "limiter" /\ Limiter!Next /\ UNCHANGED <<part, input, output, s5>>
    \/ OnOne("planner") /\ Planning!Next
    \/ OnOne("fusion") /\ Fusion!Next
    \/ OnOne("rerank") /\ Reranking!Next
    \/ OnOne("clusters") /\ Clustering!Next
    \/ OnOne("drill") /\ Drilling!Next
    \/ part = "store" /\ Store!Next /\ UNCHANGED part
    \/ OnOne("discover") /\ Discovering!Next
    \/ OnOne("verify") /\ Verifying!Next
    \/ OnOne("settings") /\ Configuring!Next
    \/ part = "setup" /\ Setup!Next /\ UNCHANGED <<part, s4, s5>>
    \/ part = "library" /\ Library!Next /\ UNCHANGED <<part, s5>>
    \/ part = "cache" /\ Cache!Next /\ UNCHANGED <<part, output, s3, s4, s5>>
    \/ part = "captures" /\ Captures!Next /\ UNCHANGED <<part, s5>>

(* The thread that makes a call carries it on, and the main thread of a          *)
(* discovery goes on and time passes; nothing else has to happen.              *)
EngineSpec == EngineInit /\ [][EngineNext]_engine /\ WF_engine(HttpStep) /\ WF_engine(DiscoverMain)

-----------------------------------------------------------------------------
(* A stream gives the run items or a reason (_retrieve_stream and the adapters):  *)
(* what one of its calls found is never lost in silence, and a stream without     *)
(* items whose calls failed says so, unless only calls failed whose failures the  *)
(* code drops: the RSS and listing reads of keyless Reddit, the first query of    *)
(* bird and the handle lanes of X, yt-dlp, and the command of Trustpilot          *)
(* (SourceStream!Overlooked), 10 of the 35 adapters.                           *)
StreamsHonest == part = "stream" => Streams!NothingSilent /\ Streams!ItemsKept
(* Items dated inside the window survive the adapters and the normalization, and  *)
(* items outside it are shown only as the last resort (normalize.py); posts of the *)
(* subject stay visible and noise buried (rerank_candidates).                    *)
ItemsFair ==
    /\ part = "items" => Items!InsideSurvives /\ Items!OutsideOnlyAsLastResort
    /\ part = "rerank" => Reranking!SubjectVisible /\ Reranking!NoiseBuried
(* A call keeps its budget and its outcome is recorded once (http.request), or    *)
(* not at all when an exception leaves it that it does not handle: a body that is  *)
(* not UTF-8, an answer cut short, a Retry-After that is no time to wait.        *)
CallHonest == part = "http" => Http!TypeOK /\ Http!BudgetKept /\ Http!OutcomeOnce
(* The limiter lets no more through than burst and refill (http.RateLimiter).     *)
NoStampede == part = "limiter" => Limiter!TypeOK /\ Limiter!NoStampede
(* Every plan can run, and searches what was asked for (planner.plan_query).  An  *)
(* answer of the model that is JSON but no plan ends the run instead.            *)
PlanHonest == part = "planner" => Planning!PlanCanRun /\ Planning!RequestHonoured
(* The pool represents its sources, does not depend on the order the streams      *)
(* ended in, and the corpus does not reach a prompt (fusion.weighted_rrf).       *)
RankingFair ==
    part = "fusion" => Fusion!SourcesRepresented /\ Fusion!OrderFree /\ Fusion!CorpusStaysLocal
(* A candidate is in one story and kept once (cluster.py, dedupe.py), and a drill  *)
(* leaves the other stories as they were (merge_drill_report).                  *)
StoryKept ==
    /\ part = "clusters" => Clustering!OneStoryEach /\ Clustering!KeptOnce
    /\ part = "drill" => Drilling!DrillKeeps
(* The rows of the store belong together and its counts add up (store.py).       *)
StoreSound ==
    part = "store" => Store!TypeOK /\ Store!NoOrphans /\ Store!RunsWhole /\ Store!CountsAddUp
(* The brief holds the solid topics and each its own research (run_discover).     *)
BriefSolid == part = "discover" => Discovering!BriefIsSolid /\ Discovering!ResearchKept
(* A verdict rests on one fetch of the thing it is about (verify_report).        *)
VerdictsHonest == part = "verify" => Verifying!OneMoment /\ Verifying!OwnEvidence
(* The layers of the settings and the cookies (env.get_config), and the files the   *)
(* setup commands share (setup_wizard.py): .env keeps its lines, and a device code   *)
(* is not offered again after a poll that came to an end, unless that raised or      *)
(* could not remove the file.                                                  *)
SettingsKept ==
    /\ part = "settings" => /\ Configuring!UntrustedSilent /\ Configuring!InspectionReadsNoCookies
                            /\ Configuring!PendingComesTrue
    /\ part = "setup" => Setup!EnvKept /\ Setup!SpentCodeGone /\ Setup!PinIsSafe
(* A search finds what the files say (library_index.py); a command gets the        *)
(* report of one run from the cache, and saves no result over another one          *)
(* (last30days.py).                                                          *)
FilesShared ==
    /\ part = "library" => Library!IndexWhole /\ Library!SearchFindsFiles
    /\ part = "cache" => Cache!ServedWhole /\ Cache!SavesKept
(* A request id makes one capture, which every answer to it names, a period was       *)
(* captured, rows a handler relies on are there, and nobody is refused for the         *)
(* requests of another minute (createCapture, update, createNote, withinRateLimit).     *)
CapturesHold ==
    part = "captures" =>
        /\ Captures!TypeOK /\ Captures!NoOrphans /\ Captures!OneCapture /\ Captures!CreatedOnce
        /\ Captures!GuardsUnreachable /\ Captures!RefusedWhenSpent /\ Captures!AuthorsTold
(* A call ends whatever the servers answer, and a discovery tells its brief      *)
(* whatever its research does (http.request, run_discover).                    *)
EngineEnds ==
    /\ part = "http" ~> part = "http" /\ Http!CallEnded
    /\ part = "discover" /\ Discovering!Nominated ~> part = "discover" /\ Discovering!BriefTold
=============================================================================
