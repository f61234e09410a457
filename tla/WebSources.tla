----------------------------- MODULE WebSources -----------------------------
(***************************************************************************)
(* The adapters of last30days for the web, markets, code, papers, reviews     *)
(* and jobs.  c[i] is the answer of the i-th call of an adapter, as in         *)
(* SocialSources.                                                          *)
(***************************************************************************)
EXTENDS SourceCalls

(***************************************************************************)
(* One call, its failure an "error" of the result                           *)
(***************************************************************************)
HackerNews(c) == Told(Fetch(c[1]))
GitHubFetch(a) == Told(Command(a))
GitHubComments(a) == Swallowed(Command(a))
GitHub(c) == Adding(GitHubFetch(c[1]), GitHubComments("error"))
Digg(c) == Told(Command(c[1]))
Arxiv(c) == Told(Command(c[1]))
Techmeme(c) == Told(Command(c[1]))
DripStack(c) == Swallowed(Fetch(c[1]))

(* Both passes of Polymarket run in threads that carry the context of the      *)
(* stream; an error is told only when neither pass has events.               *)
PolymarketQuery(a) == Told(Fetch(a))
Polymarket(c) ==
    LET both == All(<<PolymarketQuery(c[1]), PolymarketQuery(c[2])>>)
    IN IF both.items THEN Untold(both) ELSE both

(* StockTwits reads a symbol by name when the topic spells none, then pages    *)
(* through the stream of that symbol; a page that fails ends the paging, and   *)
(* the messages of the pages before it are kept.                            *)
StockTwitsSymbol(a) == Swallowed(Command(a))
StockTwitsPage(a) == Told(Command(a))
StockTwits(c) ==
    LET first == StockTwitsPage(c[2])
    IN IF ~StockTwitsSymbol(c[1]).items
       THEN [Nothing EXCEPT !.error = "error", !.failed = {c[1]} \cap Kind]
       ELSE IF first.items THEN Join(first, StockTwitsPage(c[3])) ELSE first

(* Not logged in is an exception of the adapter, which no capture sees.       *)
Xiaohongshu(c) ==
    LET login == Fetch(c[1])
    IN IF login.raised # None THEN login
       ELSE IF ~login.items THEN Unseen(Fetch("error")) ELSE Fetch(c[2])

(***************************************************************************)
(* Trustpilot: a command-line tool behind three gates                        *)
(***************************************************************************)
TrustpilotRun(a) == Told(Command(a))
TrustpilotDomain(a) == TrustpilotRun(a).items
TrustpilotInfo(a) == Untold(TrustpilotRun(a))

(* A hint of a domain that leads nowhere is looked up by search, if there is   *)
(* time; every failure ends in no results, told to nobody.                   *)
Trustpilot(c) == TrustpilotInfo(c[1])
TrustpilotHint(c) ==
    LET hinted == TrustpilotInfo(c[1])
        missed == [hinted EXCEPT !.failed = @ \cup TrustpilotRun(c[2]).failed]
    IN IF hinted.items THEN hinted
       ELSE IF TrustpilotDomain(c[2]) THEN Join(hinted, TrustpilotInfo(c[3])) ELSE missed

(***************************************************************************)
(* Web search: the paid backend with a key, else the keyless chain            *)
(***************************************************************************)
Brave(c) == Fetch(c[1])
Exa(c) == Fetch(c[1])
Serper(c) == Fetch(c[1])
Parallel(c) == Fetch(c[1])

DuckDuckGo(a) == Swallowed(Fetch(a))
Startpage(a) == Swallowed(Fetch(a))
Searxng(a) == Swallowed(Fetch(a))
Keyless(c) ==
    LET r == Chain(<<DuckDuckGo(c[1]), Startpage(c[2]), Searxng(c[3])>>)
    IN IF r.items THEN r ELSE [r EXCEPT !.error = "error"]

(* Threads found on the web are read with a capture of their own.            *)
RedditThreads(a) == Unseen(Swallowed(Fetch(a)))
WebSearch(found) == Adding(found, RedditThreads("error"))

(***************************************************************************)
(* Perplexity                                                              *)
(***************************************************************************)
PerplexityApi(a) == Fetch(a)
PerplexitySonar(a) == Fetch(a)
(* Two modes at once: what fails is told inside the artifact of its mode.      *)
PerplexityBoth(c) == Join(Swallowed(PerplexityApi(c[1])), Swallowed(PerplexitySonar(c[2])))
PerplexityOne(c) == Swallowed(PerplexityApi(c[1]))

(* Deep Research: created, then polled until COMPLETED (c[3] = "items", or      *)
(* "empty" without a text), FAILED or the deadline.                          *)
PollSonar(poll, end) ==
    IF poll \in Kind THEN [Told(Fetch(poll)) EXCEPT !.error = "error"]
    ELSE IF end = "items" THEN Fetch("items")
    ELSE [Nothing EXCEPT !.error = "error", !.failed = {end} \cap Kind]
PerplexityDeep(c) ==
    IF c[1] \in Kind THEN Swallowed(Fetch(c[1])) ELSE PollSonar(c[2], c[3])

(***************************************************************************)
(* Jobs: careers page, board, structured data of the page, web search         *)
(***************************************************************************)
CareersPage(a) == NoItems([Swallowed(Fetch(a)) EXCEPT !.found = FALSE])
Board(a) == Swallowed(Fetch(a))
(* A board that is not there is an expected miss; a failing one ends the       *)
(* adapter although the web search is still to come.                        *)
ProbeBoard(a) == Fetch(a)
JobsWeb(a) == Fetch(a)

Jobs(c) ==
    LET page == CareersPage(c[1])
        hasPage == c[1] = "items"
    IN Chain(<<page, IF hasPage THEN Board(c[2]) ELSE ProbeBoard(c[2]),
               IF hasPage THEN Command(IF c[3] = "items" THEN "items" ELSE "empty") ELSE Nothing,
               JobsWeb(c[4])>>)
=============================================================================
