---------------------------- MODULE SourceItems ----------------------------
(***************************************************************************)
(* From the records a source answers to the items of a research run: which    *)
(* records the parser of the source keeps, which date, address and date        *)
(* confidence they get, and which of them pass the date window of the run.    *)
(*                                                                         *)
(* A record says whether it has an address (the permalink or identifier the   *)
(* parser builds it from), a text (title, headline, body), whether it fits      *)
(* (what the parser of its source asks beyond that: on topic, an open market,  *)
(* a readable age, recent enough) and where its date lies.                    *)
(***************************************************************************)
EXTENDS Naturals, FiniteSets

CONSTANTS
    Feeds,          \* the sources of this instance
    Enough,         \* how many recent videos make the older ones superfluous
    BatchSize, VideoBatchSize \* bounds: how many records one answer holds, and one of YouTube

(* The names a source of records goes by.                                      *)
Microblogs == {"bluesky", "truthsocial", "threads"}
X == {"bird", "xai", "xurl", "xquik"}
Reddit == {"reddit_feed", "reddit_public", "reddit_paid"}
Web == {"brave", "exa", "serper", "parallel", "ddg", "startpage", "searxng"}
Keyless == {"ddg", "startpage", "searxng"}
Career == {"board", "jsonld"}
SourceNames ==
    Microblogs \cup X \cup Reddit \cup Web \cup Career \cup
    {"youtube", "tiktok", "instagram", "pinterest", "linkedin", "hackernews", "stocktwits",
     "dripstack", "digg", "arxiv", "techmeme", "trustpilot", "polymarket", "github"}
FeedsAssumption == Feeds \subseteq SourceNames

Date == {"before", "inside", "after", "none"}
Raw == [url : BOOLEAN, text : BOOLEAN, fits : BOOLEAN, date : Date]

Inside(r) == r.date = "inside"
Undated(r) == r.date = "none"
InRange(r) == Inside(r) \/ Undated(r)
(* The window test of StockTwits and GitHub drops what is dated outside it.    *)
NotOutside(r) == InRange(r)

(***************************************************************************)
(* Which records the parsers keep                                          *)
(***************************************************************************)
BirdKeeps(r) == r.url
XaiKeeps(r) == r.url
XurlKeeps(r) == TRUE
XquikKeeps(r) == r.url
BlueskyKeeps(r) == TRUE
TruthSocialKeeps(r) == TRUE
ThreadsKeeps(r) == TRUE
TikTokKeeps(r) == TRUE
InstagramKeeps(r) == TRUE
PinterestKeeps(r) == TRUE
YouTubeKeeps(r) == TRUE
LinkedInKeeps(r) == r.text
RedditFeedKeeps(r) == r.url
RedditPublicKeeps(r) == r.url
RedditPaidKeeps(r) == TRUE
HackerNewsKeeps(r) == r.fits
DiggKeeps(r) == r.url /\ (Undated(r) => r.fits)
ArxivKeeps(r) == r.text /\ ~Undated(r) /\ r.fits
TechmemeKeeps(r) == r.text /\ r.fits /\ r.url
DripStackKeeps(r) == TRUE
StockTwitsKeeps(r) == NotOutside(r)
TrustpilotKeeps(r) == r.fits
PolymarketKeeps(r) == r.fits
GitHubKeeps(r) == NotOutside(r)
BraveKeeps(r) == Inside(r)
ExaKeeps(r) == r.url /\ Inside(r)
SerperKeeps(r) == Inside(r)
ParallelKeeps(r) == r.url /\ Inside(r)
DuckDuckGoKeeps(r) == r.url
StartpageKeeps(r) == r.url /\ r.text
SearxngKeeps(r) == r.url
BoardKeeps(r) == TRUE
JsonLdKeeps(r) == r.fits /\ r.text

Keeps(s, r) ==
    CASE s = "bird" -> BirdKeeps(r)
      [] s = "xai" -> XaiKeeps(r)
      [] s = "xurl" -> XurlKeeps(r)
      [] s = "xquik" -> XquikKeeps(r)
      [] s = "bluesky" -> BlueskyKeeps(r)
      [] s = "truthsocial" -> TruthSocialKeeps(r)
      [] s = "threads" -> ThreadsKeeps(r)
      [] s = "tiktok" -> TikTokKeeps(r)
      [] s = "instagram" -> InstagramKeeps(r)
      [] s = "pinterest" -> PinterestKeeps(r)
      [] s = "youtube" -> YouTubeKeeps(r)
      [] s = "linkedin" -> LinkedInKeeps(r)
      [] s = "reddit_feed" -> RedditFeedKeeps(r)
      [] s = "reddit_public" -> RedditPublicKeeps(r)
      [] s = "reddit_paid" -> RedditPaidKeeps(r)
      [] s = "hackernews" -> HackerNewsKeeps(r)
      [] s = "digg" -> DiggKeeps(r)
      [] s = "arxiv" -> ArxivKeeps(r)
      [] s = "techmeme" -> TechmemeKeeps(r)
      [] s = "dripstack" -> DripStackKeeps(r)
      [] s = "stocktwits" -> StockTwitsKeeps(r)
      [] s = "trustpilot" -> TrustpilotKeeps(r)
      [] s = "polymarket" -> PolymarketKeeps(r)
      [] s = "github" -> GitHubKeeps(r)
      [] s = "brave" -> BraveKeeps(r)
      [] s = "exa" -> ExaKeeps(r)
      [] s = "serper" -> SerperKeeps(r)
      [] s = "parallel" -> ParallelKeeps(r)
      [] s = "ddg" -> DuckDuckGoKeeps(r)
      [] s = "startpage" -> StartpageKeeps(r)
      [] s = "searxng" -> SearxngKeeps(r)
      [] s = "board" -> BoardKeeps(r)
      [] s = "jsonld" -> JsonLdKeeps(r)

(* What the parsers set: the keyless search knows no dates, xAI's answers        *)
(* loses a date it cannot read, a relative age that cannot be read is none.   *)
ParsedDate(s, r) == IF s \in Keyless \/ (s = "xai" /\ ~r.fits) THEN "none" ELSE r.date
Parsed(s, batch) == {[r EXCEPT !.date = ParsedDate(s, r)] : r \in {r \in batch : Keeps(s, r)}}

(***************************************************************************)
(* What some adapters do with the batch as a whole: records inside the         *)
(* window when there are any (or enough of them), else all.                  *)
(***************************************************************************)
PreferInside(batch) == LET inside == {r \in batch : Inside(r)}
                       IN IF inside = {} THEN batch ELSE inside
PreferInRange(batch) == LET range == {r \in batch : InRange(r)}
                        IN IF range = {} THEN batch ELSE range
PreferRecent(batch) == LET recent == {r \in batch : r.date \in {"inside", "after"}}
                       IN IF Cardinality(recent) < Enough THEN batch ELSE recent

Adapted(s, batch) ==
    CASE s \in {"tiktok", "instagram", "threads", "linkedin"} -> PreferInside(Parsed(s, batch))
      [] s = "reddit_paid" -> PreferInRange(Parsed(s, batch))
      [] s = "youtube" -> PreferRecent(Parsed(s, batch))
      [] OTHER -> Parsed(s, batch)

(***************************************************************************)
(* normalize: one normaliser per source, then the window                     *)
(***************************************************************************)
Confidence(r, default) == IF Undated(r) THEN default ELSE IF Inside(r) THEN "high" ELSE "low"
Item(r, default) == [url |-> r.url, date |-> r.date, confidence |-> Confidence(r, default)]
(* Its address is built from the identifier the record always has.           *)
Addressed(i) == [i EXCEPT !.url = TRUE]

NormalizeReddit(r) == Item(r, "low")
NormalizeX(r) == Item(r, "low")
NormalizeYouTube(r) == Item(r, "high")
NormalizeShortformVideo(r) == Item(r, "high")
NormalizePinterest(r) == Item(r, "low")
NormalizeHackerNews(r) == Addressed(Item(r, "high"))
NormalizeMicroblog(r) == Item(r, "high")
NormalizeStockTwits(r) == Addressed(Item(r, "high"))
NormalizeDripStack(r) == Item(r, "high")
NormalizeDigg(r) == Addressed(Item(r, "high"))
NormalizeArxiv(r) == Item(r, "high")
NormalizeTechmeme(r) == Item(r, "low")
NormalizeTrustpilot(r) == Item(r, "low")
NormalizePolymarket(r) == Addressed(Item(r, "high"))
NormalizeGitHub(r) == Item(r, "high")
NormalizeGrounding(r) == Item(r, "low")
NormalizeJobs(r) == Item(r, "low")
NormalizeLinkedIn(r) == Item(r, "medium")

Normalizer(s, r) ==
    CASE s \in Reddit -> NormalizeReddit(r)
      [] s \in X -> NormalizeX(r)
      [] s = "youtube" -> NormalizeYouTube(r)
      [] s \in {"tiktok", "instagram"} -> NormalizeShortformVideo(r)
      [] s = "pinterest" -> NormalizePinterest(r)
      [] s = "hackernews" -> NormalizeHackerNews(r)
      [] s \in Microblogs -> NormalizeMicroblog(r)
      [] s = "stocktwits" -> NormalizeStockTwits(r)
      [] s = "dripstack" -> NormalizeDripStack(r)
      [] s = "digg" -> NormalizeDigg(r)
      [] s = "arxiv" -> NormalizeArxiv(r)
      [] s = "techmeme" -> NormalizeTechmeme(r)
      [] s = "trustpilot" -> NormalizeTrustpilot(r)
      [] s = "polymarket" -> NormalizePolymarket(r)
      [] s = "github" -> NormalizeGitHub(r)
      [] s \in Web -> NormalizeGrounding(r)
      [] s \in Career -> NormalizeJobs(r)
      [] s = "linkedin" -> NormalizeLinkedIn(r)

FilterByDateRange(items, requireDate) ==
    {i \in items : IF Undated(i) THEN ~requireDate ELSE Inside(i)}

(* Faulty variant: evergreen videos are kept beside the recent ones.           *)
NormalizeWithCatalogue(s, batch, evergreen) ==
    LET normalized == {Normalizer(s, r) : r \in batch}
    IN IF s \in Career \/ (evergreen /\ s = "youtube") THEN normalized
       ELSE FilterByDateRange(normalized, s \in Web)

Normalize(s, batch, evergreen) ==
    LET normalized == {Normalizer(s, r) : r \in batch}
        filtered == FilterByDateRange(normalized, s \in Web)
    IN IF s \in Career THEN normalized
       ELSE IF filtered = {} /\ evergreen /\ s = "youtube" THEN normalized
       ELSE filtered

(***************************************************************************)
(* One answer of one source                                                *)
(***************************************************************************)
VARIABLES input, output
vars == <<input, output>>

Batches(s) ==
    LET n == IF s = "youtube" THEN VideoBatchSize ELSE BatchSize
    IN {{b[i] : i \in 1..n} : b \in [1..n -> Raw]}

Init ==
    /\ \E s \in Feeds, e \in BOOLEAN : \E batch \in Batches(s) :
          input = [source |-> s, batch |-> batch, evergreen |-> e]
    /\ output = {}

Ingest ==
    /\ output = {}
    /\ output' = {Normalize(input.source, Adapted(input.source, input.batch), input.evergreen)}
    /\ UNCHANGED input

Next == Ingest
Spec == Init /\ [][Next]_vars /\ WF_vars(Next)

(* A record of a source that says when, and says inside the window, is an item *)
(* of the run whatever else the answer holds: the preferences of the adapters, *)
(* the window of the run and the merging of records never cost it.            *)
InsideSurvives ==
    \A items \in output : \A r \in input.batch :
        (Inside(r) /\ Keeps(input.source, r) /\ ParsedDate(input.source, r) = "inside")
            => Normalizer(input.source, r) \in items

(* What a run is shown as recent is not dated outside its window, except open  *)
(* job postings and the video back catalogue of an evergreen question; and it  *)
(* is never shown while there is an item inside the window beside it.         *)
OutsideOnlyAsLastResort ==
    \A items \in output :
        (\E i \in items : i.date \in {"before", "after"})
            => \/ input.source \in Career
               \/ /\ input.source = "youtube" /\ input.evergreen
                  /\ ~\E i \in items : Inside(i)

(* web_search_keyless says its results "flow through normalize/score/dedupe     *)
(* unchanged": what the keyless search found is there after normalize.        *)
KeylessSurvives ==
    \A items \in output :
        (\E r \in input.batch : Keeps(input.source, r)) => items # {}
=============================================================================
