---------------------------- MODULE SourceStream ----------------------------
(***************************************************************************)
(* One stream of a research run: the adapter of a source, whatever its calls  *)
(* answer, and what the run gets to know of it.                             *)
(***************************************************************************)
EXTENDS SocialSources, WebSources, FiniteSets

CONSTANT Adapters       \* the adapters this instance looks at

(* How many calls each adapter makes at most.                               *)
Arity == [reddit |-> 4, reddit_keyless |-> 3, reddit_paid_first |-> 4,
          x_cookies |-> 5, x_key |-> 5, x_lanes |-> 4,
          youtube |-> 4, youtube_keyless |-> 2, tiktok |-> 5, instagram |-> 5,
          threads |-> 1, pinterest |-> 1, linkedin |-> 2, truthsocial |-> 1, bluesky |-> 4,
          hackernews |-> 1, github |-> 1, digg |-> 1, arxiv |-> 1, techmeme |-> 1,
          dripstack |-> 1, polymarket |-> 2, stocktwits |-> 3, xiaohongshu |-> 2,
          trustpilot |-> 1, trustpilot_hint |-> 3, brave |-> 1, exa |-> 1, serper |-> 1,
          parallel |-> 1, keyless |-> 3, perplexity |-> 1, perplexity_both |-> 2,
          perplexity_deep |-> 3, jobs |-> 4]

Adapter(a, c) ==
    CASE a = "reddit" -> RedditDefault(c)
      [] a = "reddit_keyless" -> RedditWithoutKey(c)
      [] a = "reddit_paid_first" -> RedditPaidFirst(c)
      [] a = "x_cookies" -> XByCookies(c)
      [] a = "x_key" -> XByKey(c)
      [] a = "x_lanes" -> Join(BirdLane(c[1], c[2]), XquikLane(c[3], c[4]))
      [] a = "youtube" -> YouTube(c)
      [] a = "youtube_keyless" -> YouTubeWithoutKey(c)
      [] a = "tiktok" -> TikTok(c)
      [] a = "instagram" -> Instagram(c)
      [] a = "threads" -> Threads(c)
      [] a = "pinterest" -> Pinterest(c)
      [] a = "linkedin" -> LinkedIn(c)
      [] a = "truthsocial" -> TruthSocial(c)
      [] a = "bluesky" -> Bluesky(c)
      [] a = "hackernews" -> HackerNews(c)
      [] a = "github" -> GitHub(c)
      [] a = "digg" -> Digg(c)
      [] a = "arxiv" -> Arxiv(c)
      [] a = "techmeme" -> Techmeme(c)
      [] a = "dripstack" -> DripStack(c)
      [] a = "polymarket" -> Polymarket(c)
      [] a = "stocktwits" -> StockTwits(c)
      [] a = "xiaohongshu" -> Xiaohongshu(c)
      [] a = "trustpilot" -> Trustpilot(c)
      [] a = "trustpilot_hint" -> TrustpilotHint(c)
      [] a = "brave" -> WebSearch(Brave(c))
      [] a = "exa" -> WebSearch(Exa(c))
      [] a = "serper" -> WebSearch(Serper(c))
      [] a = "parallel" -> WebSearch(Parallel(c))
      [] a = "keyless" -> WebSearch(Keyless(c))
      [] a = "perplexity" -> PerplexityOne(c)
      [] a = "perplexity_both" -> PerplexityBoth(c)
      [] a = "perplexity_deep" -> PerplexityDeep(c)
      [] a = "jobs" -> Jobs(c)

VARIABLES
    input,      \* the adapter of the stream and what its calls will answer
    output      \* {} before the stream ran, then its one result
vars == <<input, output>>

Init ==
    /\ \E a \in Adapters : \E c \in [1..Arity[a] -> Answer] : input = [adapter |-> a, calls |-> c]
    /\ output = {}

(* _retrieve_stream.                                                       *)
Retrieve ==
    /\ output = {}
    /\ output' = {Adapter(input.adapter, input.calls)}
    /\ UNCHANGED input

Next == Retrieve
Spec == Init /\ [][Next]_vars /\ WF_vars(Next)

(* The run gets neither items nor a reason from the stream.                  *)
Silent(o) == LET s == Stream(o) IN ~s.items /\ s.raises = None /\ s.note = None

(* The calls whose failure the code drops.  The feeds and listings of the       *)
(* keyless Reddit tiers are read in threads without the capture of the stream;  *)
(* bird forgets the first of its queries, and its lanes drop what ends with     *)
(* an error; so does yt-dlp; Trustpilot tells nobody.                         *)
Overlooked(a) ==
    CASE a \in {"reddit", "reddit_keyless", "x_lanes", "youtube", "youtube_keyless"} -> {1, 2}
      [] a = "reddit_paid_first" -> {3, 4}
      [] a \in {"x_cookies", "trustpilot"} -> {1}
      [] a = "x_key" -> {2}
      [] a = "trustpilot_hint" -> {1, 2, 3}
      [] OTHER -> {}

(* A source that found nothing because a call of it failed is not reported as   *)
(* a source that has nothing to say, but for the failures of those calls:      *)
(* through every fallback, swallowed exception and thread of the adapter any   *)
(* other failure reaches the run, as an exception or as a note.  A failure is   *)
(* what http.request reports or a command ends with; what escapes              *)
(* http.request (HttpRequest!Escape) is none.                               *)
NothingSilent ==
    \A o \in output :
        Silent(o) => o.failed \subseteq {input.calls[i] : i \in Overlooked(input.adapter)}

(* What some call of an adapter found is not lost without a trace when          *)
(* another call of it fails: the run has items of the source, or a reason.     *)
ItemsKept == \A o \in output : o.found => ~Silent(o)

(* "Try the primary; fall through to the next only if it returns nothing or     *)
(* errors": when xAI is the primary backend of X and the next one, bird, has   *)
(* posts, the stream has posts.                                            *)
FailsOver ==
    input.adapter = "x_key" =>
        \A o \in output : Bird(input.calls[2], input.calls[3]).items => Stream(o).items
=============================================================================
