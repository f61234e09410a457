# Verification of honeymoon-period

TLA+ models of the parts of this repository whose correctness depends on the
order of steps taken by several processes, requests or crashes; the TLC runs that
check them; and proofs that TLAPS checks. All paths are relative to the root of
the repository.

    tlc -config goal_lease.cfg MCGoalController.tla     # one run (module in PROJECT.json)
    tlapm GoalControllerProofs.tla                      # the proofs of one component

`PROJECT.json` lists the runs with the module each one needs, the lines every
definition stands for, the hazards, and for every checked property a mutation of
the model ("as") under which the property fails. The mutated operators are kept
beside the operator they vary, under a comment "Faulty variant".

## 1. Inventory

### 1.1 Goal controller (`scripts/symphony-controller.mjs`, `scripts/mutation-lock.py`)

A command-line program that decides who may work on the one active goal. A
heartbeat calls `wake`; agents call `renew`, `claim-child`, `settle-child`,
`record-iteration`, `checkpoint`; the operator calls `init`, `adopt-input`,
`bind-research`, `resolve-question`; anyone calls `reconcile`.

* State: files in `.codex/goals`. `active.json` (the goal: state, revision, run,
  question, evidence, budgets), `history.jsonl` (events), `.transaction.json` (a
  journal for transitions), the directory `.lease` (`owner.json`,
  `renewal.json`, `checkpoint.json`), one directory `.question-*` per question
  (`question.json`, `emission.json`). It also reads git: HEAD, branch, status and
  the contents of the goal's owned inputs.
* Interaction: every process runs under one `flock` from start to exit, so
  processes are serialized; what interferes is a crash between two file
  operations, the repository moving at any time, agents that hold owner tokens of
  runs long gone, and the clock.
* Hard: five multi-file protocols (transition, lease creation, fence and release,
  checkpoint, question delivery), each with its own recovery; leases that expire,
  are renewed and have a deadline; revisions that change under a lease; evidence
  and review obligations that must follow the revision.
* Correct when: transitions are all or nothing; only the owner of the running run
  is admitted; a live owner is not fenced; leases and runs end; a checkpoint that
  took effect is recorded; evidence belongs to the current revision; no revision
  a run started on is left unreviewed; the question reaches the operator, not
  twice within a TTL.

### 1.2 API Worker (`apps/api/src/worker.ts`, `apps/api/migrations/0001_initial.sql`)

A Cloudflare Worker over a D1 database. Handlers run concurrently; each D1 call
is atomic, as is a batch; handlers interleave between awaits.

* Preference changes: tables `preferences`, `preference_events`,
  `preference_change_requests`. A client request id is accepted once; a retry
  gets the stored answer; a reuse with another payload is a conflict.
* Captures, items, notes: `createCapture` (insert or ignore by URL, replay by
  client request id, orphan removal), PATCH of items, notes with their authors.
* Rate limit: a window and a counter per actor, in one upsert, with the window
  computed before it, in front of every request.
* Lists and details: reads, in several statements.
* Hard: two requests of one id between the lookup and the batch; a batch that
  commits although the call fails; a handler that ends at any await; a window that
  is stale when its upsert runs.
* Correct when: retries and races change nothing twice and are answered alike;
  rows and events agree; no period is there without its capture; nobody is refused
  for the requests of another minute.

### 1.3 Domain rules (`packages/domain/src/index.ts`)

Pure functions: normalization of links, ownership of preferences, idempotency
keys, ranking of suggestions.

### 1.4 Web client (`apps/web/src`)

React pages over the generated client. State: forms, their pending request ids,
the snapshot each page loaded, the actor in local storage. Hard: retries after
lost responses, remounts while a request is under way, forms that write a stale
snapshot.

### 1.5 Commit-policy hook (`.codex/hooks/pre_tool_policy.py`)

Admits or refuses a tool call of an agent, among others a commit, by reading the
controller's files one after the other, without its lock and without replaying an
unfinished transition, and by rules of its own. Hard: what it has read may be gone
when it reads the next file, and a renewal may count before it is on disk. Correct
when it and `assertLease` agree on whose the goal is, but for such moments.

### 1.6 last30days (`.agents/skills/last30days/scripts`)

A research engine in Python: a command takes a topic, asks some thirty sources
about the last thirty days, and renders a report. Most of the repository's code.

* Research run (`lib/pipeline.py`, `lib/schema.py`). `run` takes a plan to a
  report through a thread pool with one stream per subquery and source. State: the
  bundle of items and outcomes, which the main thread alone writes, and the set of
  rate-limited sources, which the workers read when they start. Hard: streams end
  in any order; a source fails in one subquery and answers in another; supplemental
  lanes and thin retries come after. Correct when every source is reported as what
  became of it, no URL reaches the fusion twice, and the run ends.
* Adapters and parsers (`lib/reddit.py`, `lib/xai_x.py`, ..., `lib/normalize.py`).
  Each makes one to five calls and swallows some failures. Correct when a stream
  that fails says so (but for calls whose failure is known to be dropped), what a call
  found is not lost in silence, and items of the window survive.
* HTTP client and limiter (`lib/http.py`). Retries with budgets of their own for
  429s and name lookups; failures captured per stream; fixtures of recorded calls; a
  token bucket that threads share. Correct when a call keeps its budgets and records
  its outcome once, or nothing when an exception escapes it, and the bucket lets no
  burst through beyond its size.
* Planner (`lib/planner.py`). Correct when every plan can run and searches the
  sources that were asked for. An answer of the model is used, replaced by a fallback,
  or ends the run.
* Fusion, rerank, deduplication, clusters (`lib/fusion.py`, `lib/rerank.py`,
  `lib/dedupe.py`, `lib/cluster.py`). Correct when sources stay represented, the
  pool does not depend on the order of the streams, the subject's own posts stay
  visible, and every candidate is in one story.
* Discovery, drill, verification (`lib/pipeline.py`, `lib/freshness.py`). A
  discovery researches nominated topics in threads within a common time; a drill
  merges a second look into a cached report; a verification asks the sources again.
* Settings, cookies, setup (`lib/env.py`, `lib/cookie_extract.py`,
  `lib/setup_wizard.py`). Five layers of settings, of which a project's own is
  trusted by opt-in; `.env` and the pending device code are files that commands
  share without a lock.
* Store, library, report cache (`store.py`, `watchlist.py`, `lib/library_index.py`,
  `last30days.py`). A SQLite store of topics, runs and findings; a search index over
  the saved briefs; `last-report.json` and the saved files. Hard: overlapping
  processes, a crash between two of them, files that change while they are indexed.
* Interaction: the command (`last30days.py`) reads the settings, plans, runs,
  fuses, reranks, clusters, writes the cache, the saved files and the store. The
  parts meet in the values they pass on, and, between processes, in these files.

### 1.7 The rest

Build scripts, generators and checks (`scripts/*.mjs`, `*.sh`, `*.py` but the
two above), Shortcut sources and their verifiers, vendored skills, documents and
end-to-end tests keep no state of their own that several actors change; they are
not modelled.

## 2. Modules

| Module | What it is |
| --- | --- |
| `TransitionLog` | abstract: a transition replaces its files and adds its events in one step |
| `GoalJournal` | `commitTransition`, `replayTransition`, `withMutationLock`, file operation by file operation, with crashes |
| `GoalJournalProofs` | type correctness, exactly-once in order, refinement of `TransitionLog` |
| `GoalController` | all commands of the controller over lease, goal, questions, repository and clock |
| `CommitHook` | the controller next to the commit hook, with renewals that reach the disk late |
| `PreferenceLog` | abstract: an idempotent log of preference changes |
| `PreferenceChange` | the preference form, `createPreferenceChange` and its helpers, the three tables |
| `GoalControllerProofs` | type correctness, who is admitted, by the controller and the hook, who is fenced, evidence, checkpoints, questions |
| `PreferenceChangeProofs` | type correctness, one answer per request, history, refinement of `PreferenceLog` |
| `CaptureItems` | captures, edits, notes and the rate limit of the Worker |
| `CaptureItemsProofs` | no orphans, one capture per id, unreachable errors, authors, refusals |
| `RetrievalBundle`, `ResearchRun` | the bundle of a research run, and the run from the plan to the report |
| `ResearchRunProofs` | type correctness, the honest report, what the fusion is given |
| `SourceCalls`, `SocialSources`, `WebSources`, `SourceStream` | the adapters: calls, their order, their failures |
| `SourceItems` | the parsers and the date window: which records become items |
| `HttpRequest`, `RateLimiter` | one HTTP call; the token bucket |
| `Planner` | `plan_query` and the choice of sources |
| `Ranking`, `Rerank` | the pool and the scores |
| `Leaders`, `Clusters` | the loop that puts each thing to the first that takes it; deduplication and stories |
| `Discovery`, `Drill`, `Freshness` | topics of a brief; a second look; verdicts |
| `BrowserCookies`, `Settings`, `SetupFlow` | the configuration and the commands that write it |
| `ResearchStore`, `LibraryIndex`, `ReportCache` | what processes share on disk |
| `Engine` | the parts of last30days around a run, and `CaptureItems`, side by side; what each promises |
| `EngineProofs` | of the engine: calls, `.env` and settings, the bucket, the captures, the pool, stories and drills |
| `SharedFilesProofs` | of the engine: the report cache, the library, the store |
| `ReportProofs` | of the engine: the items, the scores, the brief, the verdicts and the plan |
| `MCGoalJournal`, `MCGoalController`, `MCCommitHook`, `MCPreferenceChange`, `MCResearchRun`, `MCEngine` | values of constants and symmetry for TLC |

### 2.1 TransitionLog and GoalJournal

`journal` is `.transaction.json`; `files` the files transitions replace; `history`
the event lines, each with the id of its transaction and its index in it. `at`,
`left` and `todo` are the running process: where it is, which writes and which
events are still to do. One `atomicJson` (temporary file, fsync, rename, fsync of
the directory) is one step, and so is the append and fsync of one line; `Crash`
drops the process at any step. `Restart` is the `replayTransition` every command
starts with. The events appended outside transitions are `Note`.

The refinement mapping makes the rename of the journal the commit point:
`CommittedFiles` overlays the journalled writes on the files, `CommittedHistory`
adds the events still missing. The abstract module knows no crash.

### 2.2 GoalController

`GoalController` takes what `GoalJournal` shows, that a `commitTransition` is one
step, and models every other durable step by itself: the rename of a lease and
the removal of what was renamed (`RenameLease`, `Unlink`), `mkdir` of the lease,
`owner.json`, the `run-started` transition, the output of the token
(`CreateLease`, `WriteOwner`, `StartRun`, `Grant`), creation and content of a
question's claim (`CreateClaim`, `WriteClaim`), the four steps of a checkpoint
(`WriteCheckpointJournal`, `WriteCheckpointActive`, `RecordCheckpoint`,
`Release`). `proc` is the one running process and its position; `proc.for`
is where `reconcileLocked` returns to.

* `goal`, `lease`, `claim`, `texts`, `history`, `residues` are the files. A
  fingerprint is the record of what it hashes (`RevisionOf`), a token or checkpoint
  id the number of the run it belongs to.
* `repo` is what git reports. `commit` is `authorityHead`, the newest commit that
  touches more than the controller's own files; `bump` stands for commits of those
  files on top, which move HEAD (that the lease is bound to) and not the revision.
  `MoveRepository` changes it at any time, also while a process runs.
* `owners`, `children` are the tokens printed to agents: a crash before the output
  loses them. `heard` is what reached the operator.
* Instants are kept as the time left until them, or elapsed since them, saturating
  where no comparison of the code tells further values apart. `Tick` moves them
  all. A process takes its time once (`nowFrom`), so the clock does not move
  while one runs.
* Commands that fail a check change nothing and are not actions, with one
  exception, `AbortCheckpoint`, because it comes after a durable step. A command
  that throws half way (git or a file missing) leaves what a crash leaves, except in
  `acquireLocked`, whose `catch` takes the lease away again (`AcquireFails`).

Abstracted: evidence records are reduced to the completed child claim of the right
role that `loadAgentEvidenceRecord` requires; retrospectives, reports, hashes and
redaction are left out. `enforceFromRevision` always equals the goal's revision
and is left out. The owned inputs a goal starts with are not named; `inputs` holds
the adopted ones.

`CommitHook` is the controller again, with the hook beside it. Here a renewal is not one
step: `JournalRenewal` is the rename of `.transaction.json`, from which on every command
sees the renewal, since it replays first; `ReplaceRenewal` is the rename of `renewal.json`,
by the command itself or by the next one after a crash; until then `onDisk` lags behind
`lease`, and no other command of the controller takes a step (`Replayed`). `hook` is what the
hook has read: of `active.json` (`ReadActive`) whether the goal is complete and the run, and
later the lease (`ReadOwner`), with any steps of the controller, the clock and the
repository in between. `CommitAdmitted` is the decision, from what was read, `renewal.json`
and git. Two things are abstracted. `renewal.json` and git are read at the moment of the
decision. And `active.json` may lag behind its transition just as `renewal.json` does, but
a hook that reads it then reads what one read before the transition, which is a
behaviour of the model too.

### 2.3 PreferenceLog and PreferenceChange

`form` is the state of the form in each participant's browser (`pendingRequest`,
`busy`, `saved`), `network` the requests on their way, which may overtake each
other, come late or never, including those of a client that is not the form and reuses its
id (`SendAgain`); `handler` the concurrent requests in the worker, one
step per await. `Commit` is the D1 batch: it is one transaction, so it happens as a
whole, or not at all when the request row violates UNIQUE. `ApplyFails` is a call
that fails before or after the transaction. A handler may die at any step. The 404
of an unknown period, validation and formatting are left out.

The refinement mapping takes the tables as they are and every reply but errors as
an answer.

### 2.4 CaptureItems

The tables are `periods` (title, metadata and who wrote them last), `captures`,
`notes` and `limits` (window and count per actor); `requests` holds every request
with the step its handler is at. A UUID a request mints is the number of the
request. One D1 call or batch is one step, `Die` ends a handler at any await, and
the batch of `createCapture` is one transaction: insert the period or ignore it,
insert the capture or ignore it, remove the period when neither it nor another
capture needs it. `Receive` reads the window (`Date.now()`), `WithinRateLimit`
writes the count with it, so the minute may change in between (`Tick`). The
function from links to URLs, `Normalized`, is a constant: two links may be one page.

### 2.5 RetrievalBundle and ResearchRun

A bundle says how often a URL is listed under each label and source, what each
source's outcome is, and which sources have errors; a URL is its place in the
relevance order. Subqueries are told apart by their place in the plan: two of them
may have the same label. `phase` takes the run through GitHub's modes, the corpus, the pool,
the supplemental lanes, the thin retry and the report. In the pool, `Start` is a
worker that looks at the rate-limited set, `Finish` the future the main thread
consumes next, in any order. What a source answers is any `Result`: items, an error, a
note, an exception. Phases that run on the main thread alone are one action each.

### 2.6 Engine and its parts

Each part has an initial state per input and its own actions; `Engine` chooses
a part and maps the part's variables onto a common set (`input`, `output`,
`s1` to `s5`), so one run explores them all and nothing of one part reaches another.

* Sequential code is a function of its inputs, evaluated in a few steps with the
  order of the code: `SourceStream` (an adapter against every combination of
  answers of its calls), `SourceItems` (a parser against every batch of records up to
  `BatchSize`, of videos up to `VideoBatchSize`), `Planner`, `Ranking`, `Rerank`,
  `Clusters`, `Drill`, `Settings`.
  Their properties relate what comes out to what went in, or to a second evaluation
  (`OrderFree` compares the pools of two orders of the streams).
* A list that is sorted by a total order is a set and that order: the place of a candidate
  is the number of those before it (`FirstOf`), so cutting a list, capping an author and
  reserving places of a source are sets too. The loop that puts each thing to the first
  leader that takes it, of `dedupe_items`, `cluster_candidates`, the second pass over
  the clusters and `merge_drill_report`, is `Leaders`: what it keeps is the one set in
  which a thing is just when nothing earlier in it takes that thing (`Kept`).
* `SourceStream` has a call fail by what `http.request` raises or a command ends with;
  exceptions that escape `http.request` are in `HttpRequest` alone. There a body that is not
  UTF-8 and an answer that is cut short (`http.client.HTTPException`) are one answer,
  `Garbled`, and a `Retry-After` that is no time to wait raises out of the sleep.
* `Planner` tells three answers of the model apart that are no plan: none, one that raises
  what `plan_query` handles, and one that raises another exception (JSON that is a list, a
  field of the wrong type), which ends the run; a plan from outside has no handler at all.
* In `SetupFlow` a poll may raise (`PollRaises`: a 200 answer that is no JSON object), and the
  removal of the handle may fail unnoticed (`Cleanup`).
* In `LibraryIndex` a corruption is seen (`SeeCorruption`), while reading or writing, one step
  before the database is unlinked (`RemoveDatabase`), so that a process may unlink what
  another one has just rebuilt; a process that has the unlinked file open cannot write
  (`moved`).
* `HttpRequest` steps through the tries of a call and what each one meets.
* `Freshness` verifies one claim per step, in the order of `verify_report`: a status is
  held against the other items of the report (`VerifyStatus`), a claim that cannot be
  checked is given up, one whose subject was fetched before takes that snapshot
  (`Reuse`), and any other one fetches it at a moment of its own (`Refetch`). `NextReport`
  goes on to the next report of a comparison and forgets the snapshots.
* `ReportCache` keeps for each process where it is and what it holds; a report is its topic
  and the run it is from. The time to live of the cache is not a clock: a reader finds a
  cache of any age or takes it for too old (`Found`), as settings and pauses may have it.
  `write_text` is two steps, so that a reader meets an empty file, and a fill over another
  one's text leaves what does not parse. A comparison loses the entities whose runs raised
  (`Surviving`).
* `RateLimiter`, `ResearchStore`, `Discovery`, `SetupFlow`, `LibraryIndex`,
  `ReportCache` and `CaptureItems` interleave threads, processes or requests; a step
  is what no other one can come between: what a lock protects, one SQL
  transaction, one rename, one read of a file.
* An answer of a service, a similarity of two texts, a score of a model are inputs.

## 3. Runs

| Run | Question | Result |
| --- | --- | --- |
| `goal_journal` | are transitions indivisible, recorded once, in order, and completed? | holds |
| `goal_lease` | who is fenced, does every lease and run end? | holds |
| `goal_hook` | who is admitted, by the controller and by the lock-free hook, while edits, commits and branches move the revision? | holds |
| `goal_review` | do evidence, questions and review obligations follow the revision? | holds |
| `goal_question` | is the checkpoint that asks a question recorded, is the question not asked twice per TTL, and asked in the end? | holds, unless a claim is torn |
| `goal_branch` | is a checkpoint recorded when the branch changes after a crash? | violated |
| `goal_torn_claim` | is the question asked whatever crashes? | violated |
| `preference` | is a request accepted once and answered alike? do rows and events agree? | holds |
| `research` | is the report honest, does the fusion get each URL once, does the run end? | holds |
| `engine` | does each part around a run, and the Worker's captures, keep its promises? | holds |
| `keyless_web` | does what the keyless web search found survive? | violated |
| `x_failover` | is the next X backend tried when one fails? | violated |

### Properties

* `ExactlyOnce`, `NoGap`, `ImplementsTransitionLog`, `EventuallyReplayed`: the
  journal.
* `OneAuthority`: whom the controller admits, the commit hook lets commit once it has read
  the run and the lease, unless a renewal has not reached `renewal.json`: after a renewal
  that crashed past its journal, when the old expiry is over, `assertLease` (which replays)
  admits an owner whom the hook refuses. And while the lease that the hook has read is
  there, whatever happened since it read `active.json`, the hook lets nobody commit whom the
  controller would refuse, but for a run that is just being checkpointed, after the
  deadline of the run, or at a revision that is no longer the leased one, which the
  hook does not look at. A hook whose lease was given up after it read it
  decides on what was there; of that nothing is claimed.
* `OnlyRunningOwner`: `assertLease` never looks at the token of the run recorded in
  `active.json`; still, an admitted token is that of the running run and the newest
  one. `FencesNoLiveOwner`: while the goal's branch is checked out, no `reconcile`
  removes the lease of an agent whose commands would be admitted (with another
  branch checked out it does, by design).
* `LeaseEnds`, `RunEnds`: no lease and no run stays for ever, whatever renewals.
* `CheckpointRecorded`: the last checkpoint in `active.json` is in the history or
  can still be replayed.
* `CompleteByReview`, `ReviewedBeforeLeaving`: completion evidence exists only at a
  revision that was run and reviewed; a revision that a run started on is left
  only after review.
* `QuestionIsWhole`, `NotAskedTwice`, `QuestionReachesOperatorUnlessTorn`.
* `HistoryReplays`: the preference rows are what replaying the events gives, event
  by event. `OneAnswerPerRequest`, `SavedIsRecorded`, `ImplementsPreferenceLog`.
* `HonestReport`: a source is reported failed, partial, empty or fine according to
  what all of its streams met, and items never come without a status that allows
  them. `FusionInput`: no URL is listed under a label and source more often than the plan
  searches the source under that label, and no label is without a weight.
  `RunEnds`: whatever is rate limited, all streams are consumed.
* The properties of `engine` are conjunctions, one per part or two, so that the run
  states one thing about each component; their conjuncts are in the part's module:
  * `StreamsHonest`: a stream without items some of whose calls failed has a reason, unless
    only calls failed whose failure the code drops; what one of its calls found is
    not lost without one. `Overlooked` names the dropped calls, of 10 of the 35 adapters:
    the feeds and listings that keyless Reddit reads in threads of its own, the first of
    the queries of bird and the handle lanes of X, yt-dlp, and the commands of Trustpilot
    (see "Disagreements" below). `ItemsFair`: items dated inside the
    window survive, items outside are shown as the last resort only; the subject's own
    posts clear their floors and noise stays below every post on the topic that is at
    least as good in everything else.
  * `CallHonest`: no call exceeds its tries, its 429s and its name lookups, and its
    outcome is recorded once; of a call that an exception escapes (a body that is not UTF-8,
    an answer cut short, an impossible `Retry-After`) nothing is recorded. `NoStampede`: in no stretch of time more calls than
    burst and refill.
  * `PlanHonest`: the planning ends the run only without a source, for an answer of the model
    that raises what `plan_query` does not handle, or for a plan from outside that cannot be
    read; otherwise a plan has a subquery, and every subquery a source the run can search;
    a quick run keeps to its limit; a run with a request searches nothing beyond it but
    what every run adds, and all of it where the slots suffice and the plan is the code's
    own (a model may leave some out, and a topic in Hebrew gives a slot to the web).
    A request for sources that are not configured may leave a choosy or quick run without any (`Misled`, section 5).
  * `RankingFair`: the pool is as large as it may be, and every source with a relevant
    candidate keeps its best ones if the reserved places fit; the order in which streams
    end does not matter; the corpus reaches no prompt. `StoryKept`: one story per
    candidate, and what is dropped is like something better; a drill lists each candidate
    once and leaves the other stories alone.
  * `StoreSound`: no finding without topic or run, no completed run without the
    sightings of all it found. `BriefSolid`: the brief holds what cleared the floor,
    each with its own research. `VerdictsHonest`: the verdicts of a report on one subject
    show one moment of it, and a number is judged by what that subject shows then.
  * `SettingsKept`: an untrusted project sets nothing, an inspection reads no cookies,
    `.env` keeps every line, a device code is gone after a poll that came to an end, unless
    the poll raised or could not remove the file. `FilesShared`: a search
    finds what the files say; a command is given the report of one run; no save
    overwrites another.
  * `CapturesHold`: no orphan period, one capture and one answer per id, internal
    errors unreachable, authors told right, and who is refused has spent the window.
    (A late count may reset the row of a newer window, so more than the limit may
    pass in a minute; that is not claimed.)
  * `EngineEnds`: every call ends, every discovery tells its brief.

### Bounds, and why they are enough

* `goal_journal`: two files, two transitions of up to two events, two crashes, one
  note: a crash inside the replay of a crashed transition, followed by another
  transition. The proofs remove the bounds.
* `goal_lease`, `goal_hook`: two owner tokens (an old owner and a new one), one crash or
  failure at any step, a TTL of two ticks and a deadline of three, so that a run needs a
  renewal to reach its deadline and a renewal outlives the expiry it replaced. Splitting
  the moves of the repository over the runs keeps each one small: `goal_lease` checks out
  another branch, under fairness; `goal_hook` moves HEAD, contents and branches under the
  eyes of the hook.
* `goal_review`: three tasks, one per final role, at most two of them active at a
  time; two goals, so a successor inherits the history of its predecessor; a question,
  because only a reviewed revision is left while one is open.
* `goal_question`: one question; the tree, the adopted inputs, the research and the clock
  move while it is claimed, emitted, retried and resolved (contents move under an open
  question in `goal_review`); two runs, so the second one may ask what a crash left half
  forgotten.
* `preference`: one participant, two ids of the form, three requests, two handlers,
  one failing call: two attempts of one request race, a third one overtakes. Id 0
  is used by clients other than the form, so it may come with different payloads.
* `research`: seven runs (X and Reddit with the lanes of handles; X with all lanes; a
  quick run at the fetch cap; the sources filtered at the end; GitHub's modes with the
  corpus; a missing corpus; a plan that repeats a label), two URLs, eight answers. With a
  floor of two and a cut to one, two URLs are enough to be thin, whole and cut.
* `engine`: every adapter with every combination of answers; every pair of records of
  every parser (three of videos, where the date of one decides about another); calls of up to three tries; four threads at a bucket of two; two
  watchlist runs and two topics; two topics to discover; four scenarios of `.env` and
  cookie stores with two commands; two briefs, two searches and two events of the user
  or the disk; two commands at the cache, next to what an earlier one left, over three
  entities, one of which is researched alone or compared with the others; three requests
  to the Worker, of which the second and third race with the first on its id, its URL,
  its period or its note.
  Two of each suffice for one to come between the steps of the other.
* `keyless_web`, `x_failover`: the one feed, or adapter, they are about.

`goal_review`, `goal_hook` and the preference runs use symmetry over values the code only
compares; none of them checks liveness.

### Fairness, and what justifies it

* `GoalJournal!FairSpec`: weak fairness of the steps of a process and of the start
  of the next command. `.codex/goals/CONTINUATION.md` has a heartbeat wake the
  controller for ever, and every command replays first.
* `GoalController!FairSpec`: a process that runs goes on (`WF` of `Running`; crashes
  are bounded); time goes on (`SF` of `Tick`: a tick is disabled while a process
  runs, and processes end); the heartbeat comes back (`SF` of `StartWake`, for every
  token, which stands for fresh tokens). Agents and the operator owe nothing:
  `LeaseEnds`, `RunEnds` and the question hold if they never answer.
* `ResearchRun!FairSpec`: weak fairness of the run as a whole: the main thread waits
  for futures, and every call has a timeout. Nothing is assumed of a single stream.
* `Engine!EngineSpec`: weak fairness of the steps of an HTTP call (its thread runs
  on, the socket has a timeout) and of the main thread of a discovery with its clock,
  and none of the threads that research: they may never return.

### Disagreements between documents and code

1. `goal_branch`. `reconcileLocked` fences for a branch mismatch before it looks for
   a committed checkpoint journal, which goes with the lease. The test "startup
   replays a checkpoint journal committed to active state" states the promise; it
   stays on one branch.
2. `goal_torn_claim`. `emission.json` is created and written in two steps; a crash in
   between leaves a file that is taken for a concurrent claim for ever.
   `CONTINUATION.md`: "retried after the bounded TTL so a crash cannot silently
   suppress the only question".
3. `keyless_web`. `normalize_source_items` requires a date of every grounding item and
   the keyless search has none to give: all it finds is dropped.
   `web_search_keyless.py` says the items "flow through normalize/score/dedupe
   unchanged".
4. `x_failover`. What `search_x` of xAI raises is not caught in the loop over the X
   backends; a comment promises to "fall through to the next only if it returns
   nothing or errors".

Others were met and are not runs; the passing runs model what the code does, and their
properties name the exception.

* `adopt-input` and `bind-research` move the goal to another revision without the review
  check of `reconcileLocked`, while `CONTINUATION.md` calls an unrecorded material revision
  "not admissible"; whether an operator may do so is not said.
* `setup` pins `FROM_BROWSER=firefox-wsl` when it found cookies there, a name
  `cookie_extraction_browsers` does not know, so later runs read no browser at all;
  `SetupFlow` models it (`PinIsSafe` says what the pin still guarantees).
* `pipeline.py:2840`: `_retrieve_stream` says it will "retain HTTP failures swallowed by
  source adapters", and `capture_failures` (`http.py:424`) that the pipeline can "retain that
  failure". The sink is a context variable, which the threads of keyless Reddit do not
  inherit; and what a command of bird, yt-dlp or Trustpilot ends with never was a failure of
  `http.request`. A source all of whose calls failed this way is reported as one that
  found nothing (`Overlooked`).
* `http.py:548`: `request` documents "Raises: HTTPError". `UnicodeDecodeError` (line 605),
  `http.client.HTTPException` (such as `IncompleteRead`) and what `time.sleep` says to a
  negative or infinite `Retry-After` (line 644) leave it too, with neither a captured failure
  nor a recorded exchange (`Escape`, `RateLimited`).
* `planner.py:328` falls back for five kinds of exceptions. JSON that is a list, or a field
  of the wrong type, raises `AttributeError` or `TypeError` in `_sanitize_plan` and ends the
  run (`PlanRaises`). So does any exception of a plan from outside, which
  `pipeline.py:1340` parses "through the same sanitizer to validate structure".
* `setup_wizard.py:1013`: `run_github_poll` "Deletes the persisted handle when the flow
  terminates". A 200 answer that is no JSON object raises out of `poll_device_auth` or
  `fetch_api_key` before `_cleanup`, and `_cleanup` swallows a failing `unlink`: the handle
  stays (`PollRaises`, `stuck`).

The passing runs of the same properties exclude exactly these: `CheckpointRecorded` is checked
with one branch (`goal_question`), `goal_review` adopts nothing, `goal_question` excepts a torn claim;
`ItemsFair` speaks of dated items, `StreamsHonest` of reasons and not of failover, nor of the
failures of `Overlooked` calls.

## 4. Proofs

Eight modules prove theorems for all values of the constants. Each theorem follows from
an invariant that is inductive (`IInv`, or one per part of the engine), with one lemma per
action or per part of it, and the assumptions on constants that the model's module states.

### GoalJournalProofs

From `NoIdAssumption`, `BoundsAssumption`, `InitialFilesAssumption` and
`NoJournalAssumption`: `TypeCorrect`, `RecordedOnce` (`ExactlyOnce`), `RecordedInOrder`
(`NoGap`) and `JournalImplementsLog` (the refinement of `TransitionLog`).

Neither property is inductive: whether an append duplicates an event depends on what
the process believes to be missing. `IInv` adds `ProcessInv` (a process that runs has a
journal, and `left`, `todo` are within it), `WrittenInv` (the files the loop has passed
hold the journalled value), `MintedInv` (every identifier in use was handed out, so a
fresh one has no events) and `PrefixInv`: the journalled events in the history are
`1..k`, the `k`-th is its last line, and while appending `todo` is `k+1..events`.
`PrefixInv` carries the argument: appends extend the prefix by one, a crash keeps it,
a replay reads it back. For the refinement, `Begin` is the abstract commit, `Note` the
abstract note, and every other step leaves `CommittedFiles` and `CommittedHistory` alone.

### GoalControllerProofs

From `PolicyAssumption`, `BoundAssumption`, `TreeAssumption`, `RoleAssumption`,
`NullAssumption` and `BackoffAssumption`: `TypeCorrect`, `NewestOwner`
(`OnlyRunningOwner`), `OneCommitter` (`OneAuthority`, of `HookSpec`), `LiveOwnerKept`
(`FencesNoLiveOwner`), `Reviewed` (`CompleteByReview`), `Whole` (`QuestionIsWhole`),
`CheckpointKept` (`CheckpointRecorded`, while the goal's branch stays checked out: without
that premise the run `goal_branch` refutes it), `AskedOncePerTtl` (`NotAskedTwice`) and
`LeftReviewed` (`ReviewedBeforeLeaving`, while the operator adopts no input and binds no
research: those two look for no review, see the end of section 3).

`assertLease` compares a token with the lease, and the lease's epoch with that of
`active.json`, never a token with `active.json`. That this is enough rests on
`LeaseInv`, that the owner of the lease is the newest token at the goal's revision, and
`GoalInv`, that a recorded run is that of the newest token too; equal epochs alone would
not do. They are inductive only with what each position of a process stands for:
`SweptInv` (where the lease, a renamed lease and the run are known to be gone), `ItemInv`
(what the process holds is what that position needs) and `AdmittedInv` (between `own` and
`start` the newest token is not yet a run; between the check of a checkpoint and its
commit the run is still there). Lemma `Admitted` draws the conclusion, from which
`NewestOwner` follows.

`OneCommitter` is about `CommitHook`, whose steps are steps of the controller or leave it
alone (`Projected`), so that all of the above holds there too. `HookInv` says what the hook
can rely on. `RenewalInv`: what is on disk is the renewal of the lease or an earlier one of
the same lease, and a renewal never shortens a lease. `ReadInv`: a run with the newest
token that the hook has read is at the goal's epoch as long as the lease is there, and still
runs or is being checkpointed (`Standing`). They are inductive because a token is minted once
(`TokenMoves`), and because of which steps touch a lease that stays (`LeaseMoves`), the
goal (`GoalMoves`) or its run (`MismatchMoves`, `Settles`). `HookAgrees` draws
the conclusion.

`FencesNoLiveOwner` is about a step: `LeaseKept` shows which steps
remove a lease at all, `FencedOwner` that none of the fences meets an admitted owner, and
the release of a checkpoint comes after the run has ended.

`CheckpointKept` adds `KeptInv`: a journal is that of the lease's owner, so a replay that
finds nothing to do has found the journal of a checkpoint that was not committed
(`PlaceInv` at `lease`); and a wake that goes on to make a lease found none, unless one was
still being made, for which it does not go on. `AskedOncePerTtl` adds `AskedInv`: what the
operator heard is at least as old as the mark of the question, and a question without a
mark was not heard for a TTL. A retry takes the mark off after a TTL only, and nothing is
marked twice on its way to the operator (`DeliverInv`). `LeftReviewed` rests on
`RevisionMoves`: of all steps of all processes, only the reconcile that finds another
revision, those two commands and a new goal move the goal's revision.

### PreferenceChangeProofs

From `ValueAssumption`, `BoundAssumption` and `NoneAssumption`: `TypeCorrect`,
`SavedRecorded`, `OneAnswer`, `HistoryReplayed` and `ChangesImplementLog` (the refinement
of `PreferenceLog`).

`OneAnswerPerRequest` relates replies to replies; what makes it true is that a reply
restates the row of its request, and rows never change (`ReplyInv`). `SavedIsRecorded`
needs that a reply to the form's current attempt answers what the form holds, though
the network reorders and duplicates: `Sent`, kept for every message under way
(`NetworkInv`, `HandlerInv`) and every reply. `HistoryReplays` needs that no request has
two events (`EventInv`).

### CaptureItemsProofs

From `CaptureAssumption`, for any participants, links, `Normalized` and number of
requests: `TypeCorrect`, `NoOrphan`, `AnsweredOnce`, `FirstCapture`, `Unreachable`,
`Attributed` and `RefusalsFair`. `InputInv` ties a handler's position to its request,
`MintInv` says the UUIDs of a request are in no table before its batch, `UniqueKey` is the
constraint of the table, `FoundInv` says the rows a handler reads back are there (so the
500s of `createCapture` and of the edits cannot happen), `ToldInv` and `AuthorInv` that an
answer and an author recorded stay true. `RefusalsFair` (`RefusedWhenSpent`: who is refused
has had the limit's worth of requests in his window) needs more than the counter: an actor's
count is at most the number of requests admitted in the window its row names, until the
limit is spent there (`CountInv`; a late upsert may take a row back to an older window,
where the count starts again); and a refused request keeps its evidence, since what was
admitted stays so (`RefusedInv`). The run `engine` checks the same conjuncts on three
requests, within `CapturesHold`.

### ResearchRunProofs

From `UrlAssumption`, `NoneAssumption`, `ResultAssumption`, `RunAssumption`,
`SourceAssumption` and `FutureAssumption`: `TypesKept`, `ReportHonest` (`HonestReport`) and
`FusionFed` (`FusionInput`), for any plan, sources, URLs and order of the streams.

`HonestReport` is about the report; what makes it true is spread over every phase before.
`AccountInv` says of each source of the bundle that it is `Sound`: it is among the errors
just when its status is that of a failure, a status that promises items comes with items
and one that excludes them without, and items never come without a status; and that every
failure so far is among the errors and every stream's source has a status (`Told`).
Whatever an `AddAfter`, a `FailureAfter`, a note or a mark does to a bundle keeps sources
sound, so lanes and retries are chains of such changes. After the pool, bundles only grow
(`Grown`), until the last filter of the report takes sources out whole. For `FusionInput`,
`CountInv` counts how often a URL was listed: once per consumed stream of its label and
source, or once by something else, a phase before the pool for a source without streams or
one after it. `LabelInv`: labels with items are those of the plan or of the lanes, which are
given weights.

### EngineProofs

The engine takes a step of one part at a time and a part never changes into another
(`SamePart`), so what is inductive for a part is so for the engine. From `CallsAssumption`,
`LimiterAssumption`, `CapturesAssumption`, `SetupAssumption`, `ClustersAssumption`,
`DrillAssumption` and `RankingAssumption`:

* `CallKeeps` (`CallHonest`), for any tries and budgets, answers that escape the loop
  included. `Budgeted` says that what the loop
  has met so far fits its tries, its 429s and its name lookups; `Told` that what it
  captured and recorded is the outcome it had, once; `OnItsWay` that a call that goes on
  still has a try left for errors that are not about names.
* `SettingsStay` (`SettingsKept`), for any number of commands, layers and device codes. Of
  the set-up: one code belongs to one start of the flow (`Apart`), so the command that
  spends it is the one that removes its file, if it gets to it. `.env` is the lines it had, then lines whose
  keys those lack, each written by itself (`EnvFine`, `Addition`); what a command does next
  is tied to its phase (`RowFine`), and the pin it found is of a store whose cookies it may
  read (`SafePin`). Of the settings: what is read is a function of the layers, and inputs
  that agree on the trusted layers give the same (`SameLayers`), so an untrusted project
  changes nothing.
* `LimiterKeeps` (`NoStampede`): in no stretch of time do more calls get through than burst
  and refill, for any number of threads and any burst. The property speaks of pairs of
  calls; the invariant, `LimiterBudget`, of each call and of what is in the bucket now, so
  that a call that takes a token and a refill that adds some keep it (`GrantArithmetic`,
  `RefillArithmetic`). TLC sees short runs; this is about all lengths of one.
* `CapturesKept` (`CapturesHold`): the engine's steps are those of `CaptureItems` under the
  mapping of variables, so the invariants proved of it hold of the engine.
* `StoriesKept` (`StoryKept`), for any number of candidates, clusters and alike pairs. The
  loop of `Leaders` keeps a set, which has to be shown to exist: there is one up to
  every number (`SomeKept`), by the least counterexample. What it joins goes to one leader,
  itself kept (`JoinedIs`), so groups are apart and cover all (`Groups`), those the second
  pass joins too (`ToldOf`): each of those goes straight to a leader it may be merged with,
  so a market stays with markets; and stories differ in their numbers (`Numbering`). Of a drill: a place of the merged list names one candidate, those kept in
  the focused cluster none of another one (`FocusIs`, `MergeKeeps`).
* `RankingIsFair` (`RankingFair`), for any items, streams and limits. Candidates with
  distinct addresses are totally ordered, so that their places are a bijection to
  0..n-1 (`Ordered`) and the first n of them are n, or all (`FirstIs`). A reserved
  candidate is told by its source and its place in it, so there are no more than
  sources times `MinPerSource` (`MostReserved`); if these fit, the cut takes none of
  them (`PoolIs`). A candidate of two streams has the same score, fitness and items
  whichever came first (`BothTurned`), and its texts are texts of its items (`FromItems`),
  none of which is of the corpus when it is public (`FusionLocal`).

### SharedFilesProofs

From `CacheAssumption` and `StoreAssumption`, for any number of processes:

* `CacheKeeps` and `FilesKept` (`FilesShared`). A command holds the reports of one run from
  the moment it has read or made them (`OneRun`, `Holds`), and what it writes is what it
  holds, so the cache is absent, torn or the work of one run; a file that was saved is that
  of the process that was given its number (`Filed`). In the library, the two tables of the
  index are one (`OneIndex`), and a process that scans, deletes and writes knows of each
  file what it read (`Knows`), unless something disturbed it.
* `StoreStaysSound` (`StoreSound`). The keys hold because the transaction checks them
  against the tables as they are, not as they were read, and a removal that would leave a
  finding without its run is undone (`Keys`). That a run is whole and its count right rests
  on what a process knows of its run between its statements (`Tied`): it has no sighting and
  no row yet, no other process has the same run (`Ties`), and the rows it read still have
  the addresses it read them under. `Numbered` says that new rows get numbers of their own
  in any order of the batch, `NewCounted` that the rows met on the way are just those that
  were counted out again. All of this holds until a topic is removed, since SQLite then
  gives numbers again that were used before; what the keys promise holds after it too.

### ReportProofs

From `FeedsAssumption`, `RerankAssumption`, `DiscoverAssumption`, `SubjectAssumption` and
`PlanAssumption`:

* `ItemsStayFair` (`ItemsFair`), for answers of any size and pools of any size. What the run
  ends with is a function of its input (`ItemsInv`, `RerankInv`). Of the items: no adapter
  prefers a record outside the window to one inside of it (`AdaptedKeeps`), no normalizer
  changes a date (`ItemDate`, `SameDate`), and the filter keeps what is inside
  (`NormalizeKeeps`) and outside records of last resorts alone (`NormalizeDrops`). Of the
  scores: every floor lifts (`Lifted`), the post that leads X gets the whole of the rescue
  (`Divided`, `RescueTop`), the score grows with the relevance (`Monotonic`, through the
  division that damps the lowest ones), and no floor applies to noise (`NoiseFinal`).
* `BriefKept` (`BriefSolid`), for any feeds, any number of topics, threads and slots. A
  result is in one place: still to come, in the queue once, or taken (`Gathered`), and the
  slots hold (`Seated`). The brief is told from what was taken by then, and a constant
  formula, `Solid`, says of it what the property says of the state. That a cut of an
  ordered list keeps as many as there is room for (`CutList`), and that a set of numbers
  that is not empty has a strongest one (`Largest`), are proved by the least
  counterexample (`LeastOf`, `SetInduction`), since induction itself cannot be cited.
* `VerdictsKept` (`VerdictsHonest`), for any reports, answers and moments. `VerdictInv` says
  that a snapshot is evidence of its moment for every claim on its subject, and that
  each verdict of the report in hand restates the snapshot it was told from; a subject has
  one snapshot, so it has one moment. `SnapshotEvident` rests on `OneIdentity`: claims of
  one subject have items of one identity, which is the assumption on event ids
  (`SubjectAssumption`, that of `extract_claims` and of what a report merges by URL), and
  on `EventTold`: what the parser calls the price of a name is a price the event shows
  under it.
* `PlansStayHonest` (`PlanHonest`), for any questions, requests and answers of the model, of
  which those that raise end the run and no others do. A
  plan is a function of the question (`PlanInv`), so the work is in its functions. A quick
  run takes the sources with the least claims; claims tell sources apart (`ClaimsDiffer`), so
  of a finite set two are left at most and one at least (`FirstTwo`, `Narrowed`). What an
  intent chooses of a set is in it and not empty (`DefaultIs`), so the fallback and the
  sanitized plan of the model give every subquery sources of what is available or requested
  (`FallbackIs`, `SanitizeIs`). What is available beyond the request (`Asked`) is what the
  run adds to every subquery (`AddedTo`).

### Only model-checked

* Liveness (`EventuallyReplayed`, `LeaseEnds`, `RunEnds`, the question, `EngineEnds`):
  TLAPS does not prove properties under fairness.
* `StreamsHonest`: it is a table of cases, every adapter against every combination of
  answers, which TLC evaluates in full.

## 5. Not modelled, and why

* A line of `history.jsonl` that is half written, and the temporary files of `atomicJson`:
  a step of the models is a whole file operation.
* Changes of the controller's files by other programs than the controller; the parsing of
  command lines by the commit hook, of which only the lease check is modelled, and its
  reading of `renewal.json` and git at different moments.
* Lists, details, authentication, validation and routing of the Worker: reads, or pure
  functions a test covers better. The metadata form and the capture page are no components
  of their own; what they send is.
* Of last30days: rendering, `doctor`, evaluation scripts, what a similarity of texts or a
  score of a model is, how a field is parsed out of a page. They hold no state between
  calls.
* The components of 1.7.

Behaviour met in the code that no document promises otherwise, so it is no run:

* `last30days.py:1025`: the verified verdicts are written into the report cache as it is
  then, which may be that of a run that finished in between.
* `freshness.py:560`: the first datum missing makes every claim of the event unsupported;
  a Polymarket event is fetched again by its outcome's name, which another market may share.
* `planner.py:612`: the fallback plan is made of the requested sources, available or not. In
  a quick run they take the slots (`planner.py:560`), and for a question of how or what
  `planner.py:916` may keep one that is not available and drop one that is. Such a run
  searches nothing, although it could.
* `rerank.py:367`: scores are also given to the candidates that were to be skipped.
* `env.py:1221`: the status of X ignores the pinned backend; `AUTH_TOKEN` and `CT0` may be
  taken from different sources.
* `setup_wizard.py:1026`: two device flows share the file of the handle; two commands that
  append keys at once leave a line twice.
* A watchlist run that ends in an exception of the database stays `running`.

## 6. What is left

In the order of what it would add:

1. The metadata form as a client of `CaptureItems`, which writes all its fields from the
   snapshot it loaded, over what another participant changed.
2. The obligation of a review when inputs are adopted or research is bound, once it is
   documented what an operator may do.
