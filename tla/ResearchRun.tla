----------------------------- MODULE ResearchRun -----------------------------
(***************************************************************************)
(* One research run of last30days: run() of lib/pipeline.py, from the plan *)
(* to the report, with the phases it calls: GitHub's project and person    *)
(* modes, the corpus, the thread pool with one stream per (subquery,       *)
(* source), the supplemental X lanes, the retry of thin sources, and the   *)
(* accounting that decides how each source is reported.                    *)
(*                                                                         *)
(* The main thread alone touches the bundle and adds to                    *)
(* rate_limited_sources; the workers of the pool read that set when they   *)
(* start a stream.  What a source answers is any Result; lib/pipeline.py   *)
(* relevance pruning and text similarity are part of that choice.  The     *)
(* main thread works through the phases after the pool alone, and the      *)
(* streams of the thin retry touch one source each, so each such phase is  *)
(* one action.                                                             *)
(***************************************************************************)
EXTENDS RetrievalBundle, Sequences

CONSTANTS
    Run,             \* the runs that may be started, see IsRun
    Result,          \* what one call of a source may do
    OffTopic,        \* URLs Polymarket's topic filter drops at the end
    ThinFloor,       \* 3 in the code: a source with fewer items is thin
    PerStreamLimit   \* per_stream_limit of the depth

Raise(kind) == [raises |-> kind, urls |-> {}, note |-> None]
Got(urls) == [raises |-> None, urls |-> urls, note |-> None]
GotNote(state, urls) == [raises |-> None, urls |-> urls, note |-> state]
Skipped == Got({})

ResultType == [raises : {None, "429", "5xx", "unconfigured", "other"},
               urls : SUBSET Url, note : Failing \cup {None}]

(* A call that raises returns nothing. *)
ASSUME ResultAssumption ==
    Result \subseteq {r \in ResultType : r.raises # None => r.urls = {} /\ r.note = None}

(* The options and the plan of a run.  caps is MAX_SOURCE_FETCHES, with     *)
(* --max-source-fetches applied; a source outside its domain has no cap.   *)
(* The planner never returns a plan without a subquery.                    *)
IsRun(r) ==
    /\ r.plan \in Seq([label : Label, sources : Seq(Source)]) /\ r.plan # << >>
    /\ r.available \subseteq Source /\ r.requested \subseteq Source
    /\ r.caps \in [DOMAIN r.caps -> Nat] /\ DOMAIN r.caps \subseteq Source
    /\ r.github \subseteq {"project", "person"} /\ r.workers \in Nat
    /\ {r.quick, r.corpus, r.hiring} \subseteq BOOLEAN
    /\ {r.lanes,              \* a backend with handle lanes: bird or xquik
        r.handle, r.related}  \* --x-handle, --x-related
       \subseteq BOOLEAN

ASSUME RunAssumption == \A r \in Run : IsRun(r)
(* These are among the sources and labels: the code names them itself.       *)
ASSUME SourceAssumption ==
    {"x", "corpus"} \subseteq Source /\ "supplemental-related" \in Label
ASSUME FutureAssumption == None \notin Nat \X Nat

VARIABLES
    run,        \* the run under way; never changes
    phase,
    bundle,
    streams,    \* the futures, by the place in the plan they were submitted for
    limited,    \* rate_limited_sources
    retrying,   \* the future whose stream the main thread fetches again, or None
    labels,     \* the labels of plan.subqueries
    failed,     \* history: sources with a call that failed
    report      \* items, errors, degraded, status of the report

vars == <<run, phase, bundle, streams, limited, retrying, labels, failed, report>>

Streams == [at : {"queued", "fetching", "done", "consumed"}, result : ResultType]

(* <<i, j>> is the j-th source of the i-th subquery; the futures are           *)
(* submitted in this order.                                                *)
Places == UNION {{i} \X (1..Len(run.plan[i].sources)) : i \in 1..Len(run.plan)}
LabelAt(p) == run.plan[p[1]].label
SourceAt(p) == run.plan[p[1]].sources[p[2]]
Before(p, q) == p[1] < q[1] \/ (p[1] = q[1] /\ p[2] < q[2])

(***************************************************************************)
(* Before the pool                                                         *)
(***************************************************************************)
Primary == run.plan[1].label

(* _classify_source_failure: the state, and whether the source was tried. *)
Classify(kind) == CASE kind = "429" -> "rate-limited"
                    [] kind = "unconfigured" -> "skipped-unconfigured"
                    [] OTHER -> "error"

Failure(b, s, kind) == RecordFailure(b, s, Classify(kind), kind # "unconfigured")

(* _normalize_score_dedupe and the cut to per_stream_limit; a careers board *)
(* is never cut.                                                           *)
Kept(s, urls) ==
    IF s = "jobs" THEN urls
    ELSE {u \in urls : Cardinality({v \in urls : v < u}) < PerStreamLimit}

(* A GitHub mode: items are listed under the primary label, uncut, and a    *)
(* failure is recorded.                                                    *)
GithubMode(b, r) ==
    LET tried == MarkAttempted(b, "github")
    IN IF r.raises # None THEN Failure(tried, "github", r.raises)
       ELSE IF r.urls # {} THEN AddItems(tried, Primary, "github", r.urls)
       ELSE tried

(* The streams to submit: available sources in plan order, without the      *)
(* corpus, without GitHub's keyword search once a mode answered, and within *)
(* the fetch cap of the source.                                            *)
Capped(p) ==
    LET s == SourceAt(p)
    IN /\ s \in DOMAIN run.caps
       /\ Cardinality({q \in Places : Before(q, p) /\ SourceAt(q) = s}) >= run.caps[s]
Submitted(githubDone) ==
    {p \in Places : /\ SourceAt(p) \in run.available \ {"corpus"}
                    /\ SourceAt(p) = "github" => ~githubDone
                    /\ ~Capped(p)}

(* Requested sources that cannot run are reported as skipped; then GitHub's *)
(* modes, project first and person only when it gave nothing, and the       *)
(* corpus, which answers from local files.  Then all streams are submitted. *)
Unconfigured == (run.requested \ run.available)
                \cup (IF run.corpus THEN {} ELSE run.requested \cap {"corpus"})

Skip(b, S) ==
    [b EXCEPT !.errors = b.errors \cup S,
              !.status = [s \in Source |->
                 IF s \in S THEN [state |-> "skipped-unconfigured", attempted |-> FALSE,
                                  detail |-> "skipped-unconfigured"]
                 ELSE b.status[s]]]

MarkAll(b, S) ==
    [b EXCEPT !.status = [s \in Source |->
                 IF s \in S THEN MarkAttempted(b, s).status[s] ELSE b.status[s]]]

Prepare ==
    /\ phase = "prepare"
    /\ \E r1, r2 \in (IF "github" \in run.available /\ run.github # {} THEN Result ELSE {Skipped}),
          local \in (IF run.corpus THEN SUBSET Url ELSE {{}}) :
         LET skipped == Skip(EmptyBundle, Unconfigured)
             project == "project" \in run.github /\ "github" \in run.available
             projectDone == project /\ r1.urls # {}
             afterProject == IF project THEN GithubMode(skipped, r1) ELSE skipped
             person == "person" \in run.github /\ "github" \in run.available /\ ~projectDone
             personDone == person /\ r2.urls # {}
             afterPerson == IF person THEN GithubMode(afterProject, r2) ELSE afterProject
             afterCorpus == IF run.corpus
                            THEN AddItems(MarkAttempted(afterPerson, "corpus"),
                                          Primary, "corpus", Kept("corpus", local))
                            ELSE afterPerson
             places == Submitted(projectDone \/ personDone)
         IN /\ ~project => r1 = Skipped
            /\ ~person => r2 = Skipped
            /\ r1.note = None /\ r2.note = None
            /\ streams' = [p \in places |-> [at |-> "queued", result |-> Skipped]]
            /\ bundle' = MarkAll(afterCorpus, {SourceAt(p) : p \in places})
            /\ failed' = failed \cup Unconfigured
                  \cup (IF r1.raises # None \/ r2.raises # None THEN {"github"} ELSE {})
            /\ phase' = "fetch"
    /\ UNCHANGED <<run, limited, retrying, labels, report>>

(***************************************************************************)
(* The pool                                                                *)
(***************************************************************************)
(* A free worker takes the next future.  _retrieve_stream_impl looks at the *)
(* rate-limited sources first and returns at once for one of them.          *)
Start(p) ==
    /\ phase = "fetch"
    /\ streams[p].at = "queued"
    /\ \A q \in DOMAIN streams : Before(q, p) => streams[q].at # "queued"
    /\ Cardinality({q \in DOMAIN streams : streams[q].at = "fetching"}) < run.workers
    /\ streams' = [streams EXCEPT ![p].at =
                     IF SourceAt(p) \in limited THEN "done" ELSE "fetching"]
    /\ UNCHANGED <<run, phase, bundle, limited, retrying, labels, failed, report>>

Answer(p) ==
    /\ phase = "fetch"
    /\ streams[p].at = "fetching"
    /\ \E r \in Result : streams' = [streams EXCEPT ![p].at = "done", ![p].result = r]
    /\ UNCHANGED <<run, phase, bundle, limited, retrying, labels, failed, report>>

(* What the main thread does with the outcome of a stream that returned: a  *)
(* failure the adapter swallowed is recorded first, then the items.         *)
Returned(b, l, s, r) ==
    AddItems(IF r.note = None THEN b
             ELSE RecordFailure(b, s, r.note, r.note # "skipped-unconfigured"),
             l, s, Kept(s, r.urls))

Settle(p, r) ==
    LET s == SourceAt(p)
    IN /\ bundle' = IF r.raises # None THEN Failure(bundle, s, r.raises)
                    ELSE Returned(bundle, LabelAt(p), s, r)
       /\ failed' = IF r.raises # None \/ r.note # None THEN failed \cup {s} ELSE failed
       /\ streams' = [streams EXCEPT ![p].at = "consumed"]

(* as_completed hands over a finished future.  A 429 is shared with the     *)
(* workers from here; a 5xx makes the main thread sleep and fetch itself.   *)
Consume(p) ==
    /\ phase = "fetch"
    /\ retrying = None
    /\ streams[p].at = "done"
    /\ LET r == streams[p].result
       IN IF r.raises = "5xx"
          THEN /\ retrying' = p
               /\ UNCHANGED <<bundle, failed, streams, limited>>
          ELSE /\ limited' = IF r.raises = "429" THEN limited \cup {SourceAt(p)} ELSE limited
               /\ Settle(p, r)
               /\ UNCHANGED retrying
    /\ UNCHANGED <<run, phase, labels, report>>

(* The second call, once; a rate-limited source is not called.              *)
Retry ==
    /\ retrying # None
    /\ \E r \in (IF SourceAt(retrying) \in limited THEN {Skipped} ELSE Result) :
         Settle(retrying, r)
    /\ retrying' = None
    /\ UNCHANGED <<run, phase, limited, labels, report>>

PoolDrained ==
    /\ phase = "fetch"
    /\ \A p \in DOMAIN streams : streams[p].at = "consumed"
    /\ phase' = "supplement"
    /\ UNCHANGED <<run, bundle, streams, limited, retrying, labels, failed, report>>

(***************************************************************************)
(* After the pool                                                          *)
(***************************************************************************)
(* A lane that raises is recorded and gives nothing; what is new by URL of   *)
(* what lanes gave is listed.                                              *)
Lane(b, r) == IF r.raises # None THEN Failure(b, "x", r.raises) ELSE b
(* Faulty variant: what the lanes found is listed whether or not it is new.      *)
NewOrNot(b, l, urls) == IF urls = {} THEN b ELSE AddItems(b, l, "x", urls)

New(b, l, urls) ==
    IF urls \ UrlsOf(b, "x") = {} THEN b ELSE AddItems(b, l, "x", urls \ UrlsOf(b, "x"))

(* _run_supplemental_searches: the FROM and ABOUT lanes of the primary       *)
(* handles, contained separately, then the related handles under a label of  *)
(* their own, which joins the plan.  Handles come from the items found, or   *)
(* from --x-handle.                                                        *)
LanesRun == /\ ~run.quick /\ run.lanes /\ "x" \notin limited
            /\ \/ HasItems(bundle, "x") \/ HasItems(bundle, "reddit")
               \/ run.handle \/ run.related

LaneResult == {r \in Result : r.note = None}

Supplement ==
    /\ phase = "supplement"
    /\ phase' = "thin"
    /\ \/ /\ ~LanesRun
          /\ UNCHANGED <<bundle, labels, failed>>
       \/ /\ LanesRun
          /\ \E handles \in {run.handle, TRUE}, from, about, other \in LaneResult :
               LET lanes == IF handles THEN Lane(Lane(bundle, from), about) ELSE bundle
                   primary == IF handles THEN New(lanes, Primary, from.urls \cup about.urls) ELSE lanes
                   tried == IF run.related THEN Lane(primary, other) ELSE primary
                   all == IF run.related THEN New(tried, "supplemental-related", other.urls) ELSE tried
               IN /\ ~handles => from = Skipped /\ about = Skipped
                  /\ handles => run.handle \/ HasItems(bundle, "x") \/ HasItems(bundle, "reddit")
                  /\ ~run.related => other = Skipped
                  /\ bundle' = all
                  /\ labels' = IF UrlsUnder(all, "supplemental-related", "x") # {}
                               THEN labels \cup {"supplemental-related"} ELSE labels
                  /\ failed' = IF \E r \in {from, about, other} : r.raises # None
                               THEN failed \cup {"x"} ELSE failed
    /\ UNCHANGED <<run, streams, limited, retrying, report>>

(* _retry_thin_sources: planned sources with fewer than ThinFloor items that *)
(* have not failed are fetched once more with the core subject; what is new  *)
(* by URL is listed under the primary label.                               *)
PlannedSources == {SourceAt(p) : p \in Places}
                  \cup (IF "supplemental-related" \in labels THEN {"x"} ELSE {})

(* A GitHub mode that answered leaves no stream and items.                  *)
GithubModeAnswered == HasItems(bundle, "github") /\ \A p \in DOMAIN streams : SourceAt(p) # "github"

Thin == IF run.quick THEN {}
        ELSE {s \in PlannedSources :
                /\ ItemCount(bundle, s) < ThinFloor
                /\ s \notin bundle.errors
                /\ s \notin {"trustpilot", "corpus"}
                /\ ~(s = "github" /\ GithubModeAnswered)}

AfterThinRetry(b, s, r) ==
    IF r.raises # None THEN Failure(b, s, r.raises)
    ELSE LET noted == IF r.note = None THEN b
                      ELSE RecordFailure(b, s, r.note, r.note # "skipped-unconfigured")
             new == Kept(s, r.urls) \ UrlsOf(b, s)
         IN IF new = {} THEN noted ELSE AddItems(noted, Primary, s, new)

(* The streams of the retry run in a pool, and each touches the source it   *)
(* is about and no other.                                                  *)
Retried(answer) ==
    LET after(s) == AfterThinRetry(bundle, s, answer[s])
        own == DOMAIN answer
    IN [listed |-> [k \in Label \X Source |->
                      IF k[2] \in own THEN after(k[2]).listed[k] ELSE bundle.listed[k]],
        status |-> [s \in Source |->
                      IF s \in own THEN after(s).status[s] ELSE bundle.status[s]],
        errors |-> bundle.errors \cup {s \in own : s \in after(s).errors}]

(* Faulty variant: the run looks for handles again as long as sources are thin.  *)
RetryThinAgain ==
    /\ phase = "thin"
    /\ \E answer \in [Thin \ limited -> Result] :
         /\ bundle' = Retried(answer)
         /\ failed' = failed \cup {s \in Thin \ limited :
                                     answer[s].raises # None \/ answer[s].note # None}
    /\ phase' = IF Thin # {} THEN "supplement" ELSE "finish"
    /\ UNCHANGED <<run, streams, limited, retrying, labels, report>>

RetryThin ==
    /\ phase = "thin"
    /\ \E answer \in [Thin \ limited -> Result] :
         /\ bundle' = Retried(answer)
         /\ failed' = failed \cup {s \in Thin \ limited :
                                     answer[s].raises # None \/ answer[s].note # None}
    /\ phase' = "finish"
    /\ UNCHANGED <<run, streams, limited, retrying, labels, report>>

(***************************************************************************)
(* The report                                                              *)
(***************************************************************************)
(* _finalize_items_by_source: repetitions are gone, and for Polymarket the   *)
(* markets off the topic.                                                  *)
FinalItems(b, s) == IF s = "polymarket" THEN UrlsOf(b, s) \ OffTopic ELSE UrlsOf(b, s)

(* Failures of sources that gave items count as degraded; the hiring gate    *)
(* may then drop the jobs of a run that did not ask for them; then the items *)
(* and the status of each source are final.                                *)
Finish ==
    /\ phase = "finish"
    /\ \E include \in BOOLEAN :
         LET degraded == {s \in bundle.errors : HasItems(bundle, s)}
             gated == IF HasItems(bundle, "jobs") /\ ~run.hiring /\ ~include
                      THEN DropSource(bundle, "jobs") ELSE bundle
             items == [s \in Source |-> FinalItems(gated, s)]
         IN /\ HasItems(bundle, "jobs") \/ include
            /\ bundle' = gated
            /\ report' = [items |-> items, errors |-> bundle.errors \ degraded,
                          degraded |-> degraded,
                          status |-> [s \in Source |->
                             IF bundle.status[s] = None THEN None
                             ELSE FinalState(bundle.status[s], items[s] # {})]]
    /\ phase' = "done"
    /\ UNCHANGED <<run, streams, limited, retrying, labels, failed>>

Done == phase = "done" /\ UNCHANGED vars

Init ==
    /\ run \in Run
    /\ phase = "prepare"
    /\ bundle = EmptyBundle
    /\ streams = [p \in {} |-> {}]
    /\ limited = {}
    /\ retrying = None
    /\ labels = {run.plan[i].label : i \in 1..Len(run.plan)}
    /\ failed = {}
    /\ report = None

Next ==
    \/ Prepare
    \/ \E p \in DOMAIN streams : Start(p) \/ Answer(p) \/ Consume(p)
    \/ Retry
    \/ PoolDrained
    \/ Supplement
    \/ RetryThin
    \/ Finish
    \/ Done

Spec == Init /\ [][Next]_vars
(* Every call of a source ends, by an answer or by its timeout, and the       *)
(* threads of the process keep running.                                    *)
FairSpec == Spec /\ WF_vars(Next)

(***************************************************************************)
(* Properties                                                              *)
(***************************************************************************)
Report == [items : [Source -> SUBSET Url], errors : SUBSET Source,
           degraded : SUBSET Source, status : [Source -> State \cup {None}]]

TypeOK ==
    /\ run \in Run
    /\ phase \in {"prepare", "fetch", "supplement", "thin", "finish", "done"}
    /\ bundle \in Bundle
    /\ DOMAIN streams \subseteq Places /\ streams \in [DOMAIN streams -> Streams]
    /\ limited \subseteq Source /\ failed \subseteq Source
    /\ retrying \in DOMAIN streams \cup {None}
    /\ labels \subseteq Label
    /\ report \in Report \cup {None}

(* The report is honest about every source: one with a call that failed, in *)
(* whatever phase and however many other calls answered, is reported with a *)
(* failing or partial status and named among the failed or degraded sources *)
(* of the warnings, and no other source is; ok and partial are said of the  *)
(* sources that have items in the report; every source a stream was         *)
(* submitted for has a status.  (It is checked along with the types.)       *)
HonestReport ==
    /\ TypeOK
    /\ phase = "done" =>
        /\ \A s \in Source :
             LET status == report.status[s]
             IN /\ s \in failed <=> status \in Failing \cup {"partial"}
                /\ s \in failed <=> s \in report.errors \cup report.degraded
                /\ status \in {"ok", "partial"} <=> report.items[s] # {}
        /\ \A p \in DOMAIN streams : report.status[SourceAt(p)] # None

(* What reaches weighted_rrf: a URL is listed under one label and source no  *)
(* more often than the plan searches the source under that label, so every   *)
(* subquery counts its rank once and the lanes and retries do not count it   *)
(* again; and every label with items is a label of the plan, without which   *)
(* the fusion has no weight for it.  (A planning model may repeat a label.)   *)
Searches(l, s) == {p \in Places : LabelAt(p) = l /\ SourceAt(p) = s}

FusionInput ==
    \A l \in Label, s \in Source :
        /\ \A u \in Url : \/ bundle.listed[<<l, s>>][u] <= 1
                          \/ bundle.listed[<<l, s>>][u] <= Cardinality(Searches(l, s))
        /\ UrlsUnder(bundle, l, s) # {} => l \in labels

(* The run ends with a report whatever the sources do.                      *)
RunEnds == <>(phase = "done")
=============================================================================
