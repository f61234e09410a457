--------------------------- MODULE SocialSources ---------------------------
(***************************************************************************)
(* The adapters of last30days for social networks and videos: which calls    *)
(* each makes, in which order, and what becomes of a call that fails.  c[i]  *)
(* is the answer of the i-th call; where a service is asked several queries  *)
(* in a row, two calls stand for them.  Parsing, date windows and relevance  *)
(* floors are part of whether a call answers items.                        *)
(***************************************************************************)
EXTENDS SourceCalls

(***************************************************************************)
(* Reddit                                                                  *)
(***************************************************************************)
(* A refused key is raised, everything else is an empty answer.              *)
ScrapeCreators(a) == IF a = "auth" THEN Fetch(a) ELSE Swallowed(Fetch(a))
RedditGlobalSearch(a) == ScrapeCreators(a)
RedditSubredditSearch(a) == ScrapeCreators(a)
RedditComments(a) == Swallowed(Fetch(a))

RedditSearch(a, b) == All(<<RedditGlobalSearch(a), RedditSubredditSearch(b)>>)
RedditPaid(a, b, comments) == Adding(RedditSearch(a, b), RedditComments(comments))

(* The keyless tiers: feeds and listings are read by threads without the     *)
(* context of the stream, through http.get_text, which answers None.         *)
RedditRss(a) == Unseen(Swallowed(Fetch(a)))
RedditListing(a) == Unseen(Swallowed(Fetch(a)))
RedditDiscover(a, b) == Join(RedditRss(a), RedditListing(b))
RedditShreddit(a) == Swallowed(Fetch(a))
RedditKeyless(a, b, enrich) == Adding(RedditDiscover(a, b), RedditShreddit(enrich))

(* Public first; the paid tier when the public one has nothing and there is   *)
(* a key.  A refused key is a note beside the public items.                  *)
RedditDefault(c) ==
    LET public == RedditKeyless(c[1], c[2], c[3])
    IN IF public.items THEN public
       ELSE LET paid == RedditPaid(c[3], c[4], "empty")
            IN Join(public, Told(paid))
RedditWithoutKey(c) == RedditKeyless(c[1], c[2], c[3])

(* LAST30DAYS_REDDIT_BACKEND=scrapecreators: the paid tier first; when both    *)
(* have nothing and the paid one was refused, the stream raises.             *)
RedditPaidFirst(c) ==
    LET paid == RedditPaid(c[1], c[2], "empty")
        both == Join(Told(paid), RedditKeyless(c[3], c[4], "empty"))
    IN IF paid.raised = None /\ paid.items THEN paid
       ELSE IF both.items \/ paid.raised = None THEN [both EXCEPT !.error = paid.raised]
       ELSE [both EXCEPT !.raised = paid.raised, !.error = None]

(***************************************************************************)
(* X: one source, a chain of backends                                      *)
(***************************************************************************)
Xai(a) == Fetch(a)

(* bird asks simpler and simpler queries while there is nothing, and returns  *)
(* the last response.                                                      *)
BirdSearch(a) == Told(Command(a))
Bird(a, b) == LET first == BirdSearch(a)
                  last == BirdSearch(b)
              IN IF first.items THEN first
                 ELSE [last EXCEPT !.failed = @ \cup first.failed]

Xurl(a) == Told(Command(a))

XquikQuery(a) == IF a = "auth" THEN Told(Fetch(a)) ELSE Swallowed(Fetch(a))
Xquik(a, b) == LET both == Join(XquikQuery(a), XquikQuery(b))
               IN IF "auth" \in {a} THEN NoItems(XquikQuery(a))
                  ELSE IF b = "auth" THEN NoItems(both) ELSE both

(* A backend with items ends the chain, with the error of an earlier one as   *)
(* a note; the last error is raised when no backend has any.                 *)
XChain(backends) ==
    LET r == Chain(backends)
    IN IF ~r.items /\ r.raised = None /\ r.error # None
       THEN [r EXCEPT !.raised = r.error, !.error = None]
       ELSE r

XByCookies(c) == XChain(<<Bird(c[1], c[2]), Xurl(c[3]), Xquik(c[4], c[5])>>)
XByKey(c) == XChain(<<Xai(c[1]), Bird(c[2], c[3]), Xquik(c[4], c[5])>>)

(* The lanes of the handles after the pool: bird's threads lose every         *)
(* failure, xquik stops at a refused key and keeps what it has.              *)
BirdLane(a, b) == Join(Swallowed(Command(a)), Swallowed(Command(b)))
XquikLane(a, b) == IF a = "auth" THEN Swallowed(Fetch(a))
                   ELSE Join(Swallowed(Fetch(a)), Swallowed(Fetch(b)))

(***************************************************************************)
(* YouTube                                                                 *)
(***************************************************************************)
(* Only a timeout or a missing yt-dlp is an error; yt-dlp ending with an      *)
(* error and no output is no result.                                       *)
YouTubeQuery(a) == IF a = "error" THEN Told(Command(a)) ELSE Swallowed(Command(a))

(* The transcript of one video: over ssh, by yt-dlp or from the page, and      *)
(* from the paid service unless the page says there are no captions.         *)
TranscriptSource == {"ssh", "yt-dlp", "direct", "paid", None}
FetchTranscript(ssh, ytdlp, token, has, ytdlpError, noCaptions) ==
    LET first == IF ~ytdlp THEN None ELSE IF ssh THEN "ssh" ELSE "yt-dlp"
        page == first # "yt-dlp" \/ ~ytdlpError
    IN CASE first # None /\ first \in has -> first
         [] page /\ "direct" \in has -> "direct"
         [] ~(first # None /\ first \in has) /\ token /\ "paid" \in has
              /\ ~(page /\ noCaptions) -> "paid"
         [] OTHER -> None

Transcripts(a) == Unseen(Swallowed(Fetch(a)))
YtDlp(a, b) ==
    LET first == YouTubeQuery(a)
        last == YouTubeQuery(b)
        both == Join(first, last)
    IN IF both.items THEN Adding(Untold(both), Transcripts("error"))
       ELSE [last EXCEPT !.failed = both.failed]

YouTubePaid(a) == Adding(Swallowed(Fetch(a)), Transcripts("error"))
YouTubeComments(a) == Swallowed(Fetch(a))

YouTube(c) ==
    LET dlp == YtDlp(c[1], c[2])
    IN Adding(IF dlp.items THEN dlp ELSE Join(dlp, YouTubePaid(c[3])), YouTubeComments(c[4]))
YouTubeWithoutKey(c) == YtDlp(c[1], c[2])

(***************************************************************************)
(* TikTok, Instagram, Threads, Pinterest, LinkedIn, Bluesky, Truth Social     *)
(***************************************************************************)
TikTokHashtag(a) == Swallowed(Fetch(a))
TikTokProfile(a) == Swallowed(Fetch(a))
TikTokSearch(a) == Told(Fetch(a))
TikTokCaptions(a) == Unseen(Swallowed(Fetch(a)))
TikTokComments(a) == Swallowed(Fetch(a))
TikTok(c) ==
    LET found == All(<<TikTokHashtag(c[1]), TikTokProfile(c[2]), TikTokSearch(c[3]), TikTokSearch(c[4])>>)
    IN Adding(Adding(found, TikTokCaptions("error")), TikTokComments(c[5]))

InstagramReels(a) == Swallowed(Fetch(a))
(* HTTP 500 on a topic of several words: the same search as a hashtag.        *)
InstagramSearch(a, again) ==
    IF a = "error" THEN Join(Swallowed(Fetch(a)), Told(Fetch(again))) ELSE Told(Fetch(a))
InstagramCaptions(a) == Unseen(Swallowed(Fetch(a)))
InstagramComments(a) == Swallowed(Fetch(a))
Instagram(c) ==
    LET found == All(<<InstagramReels(c[1]), InstagramSearch(c[2], c[3]), InstagramSearch(c[4], c[4])>>)
    IN Adding(Adding(found, InstagramCaptions("error")), InstagramComments(c[5]))

Threads(c) == Told(Fetch(c[1]))
Pinterest(c) == Told(Fetch(c[1]))
LinkedInArticles(a) == Swallowed(Fetch(a))
LinkedIn(c) == Adding(Told(Fetch(c[1])), LinkedInArticles(c[2]))

(* Truth Social names an expired token and a rate limit by its own texts.     *)
TruthSocial(c) == Told(Fetch(c[1]))

(* Bluesky: a session, then the search; a refused session token is renewed      *)
(* once, and a second refusal is the text "refresh", which names nothing.     *)
BlueskySession(a) == IF a = "empty" THEN Told(Fetch("error")) ELSE NoItems(Told(Fetch(a)))
BlueskySearch(a) == Told(Fetch(a))
Bluesky(c) ==
    LET session == BlueskySession(c[1])
        search == BlueskySearch(c[2])
        again == Join(BlueskySession(c[3]), BlueskySearch(c[4]))
        stale(r) == IF r.error = "auth" THEN [r EXCEPT !.error = "error"] ELSE r
    IN IF session.error # None THEN session
       ELSE IF c[2] # "auth" THEN Join([session EXCEPT !.found = FALSE], search)
       ELSE IF BlueskySession(c[3]).error # None THEN Join(Untold(search), BlueskySession(c[3]))
       ELSE Join(Untold(search), stale([again EXCEPT !.found = c[4] = "items"]))
=============================================================================
