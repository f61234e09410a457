--------------------------- MODULE ResearchStore ---------------------------
(***************************************************************************)
(* store.py: the SQLite database of topics, research runs, findings and their  *)
(* sightings, and the processes that use it: runs of the watchlist and of      *)
(* --store, and the operator who removes topics and reads briefings.           *)
(*                                                                         *)
(* A connection commits each call of its own; only store_findings writes more  *)
(* than one row, in a transaction that starts with its first write, after it   *)
(* has read which addresses it knows.                                       *)
(***************************************************************************)
EXTENDS Naturals, FiniteSets, Functions

CONSTANTS
    Job,            \* the processes that research, each of them once
    Name,           \* names of topics
    Url,
    MaxScore,       \* bound of an engagement score
    Initial         \* the topics on the watchlist at the start

StoreAssumption == Initial \subseteq Name /\ IsFiniteSet(Initial) /\ IsFiniteSet(Url)

VARIABLES
    topics,     \* Name -> id, for the rows of topics
    runs,       \* id -> [topic, status, new]
    findings,   \* id -> [url, topic, run, score, count]
    sightings,  \* id of a run -> the findings it saw
    jobs,       \* the local state of each process
    inserted,   \* history: the rows findings was given, each with the run that did
    removed     \* history: a topic was removed
store == <<topics, runs, findings, sightings>>
vars == <<topics, runs, findings, sightings, jobs, inserted, removed>>

Idle == [at |-> "idle"]
(* INTEGER PRIMARY KEY: a row is given the number after the largest in use.       *)
NextId(used) == {n \in {i + 1 : i \in {0} \cup used} : \A i \in used : i < n}
Extend(f, x, y) == [z \in DOMAIN f \cup {x} |-> IF z = x THEN y ELSE f[z]]
Without(f, S) == Restrict(f, DOMAIN f \ S)
TopicIds == {topics[n] : n \in DOMAIN topics}

Init ==
    /\ topics \in {f \in [Initial -> 1..Cardinality(Initial)] : IsInjective(f)}
    /\ runs = << >> /\ findings = << >> /\ sightings = << >>
    /\ jobs = [j \in Job |-> Idle]
    /\ inserted = {} /\ removed = FALSE

Step(j, at, state) == jobs[j].at = at /\ jobs' = [jobs EXCEPT ![j] = state]
At(j, at) == [jobs[j] EXCEPT !.at = at]

(***************************************************************************)
(* A run of a topic: watchlist._run_topic, or persist_report of --store        *)
(***************************************************************************)
(* The watchlist reads its topics first; --store adds the topic of its report.  *)
Start(j, n, kind) ==
    /\ kind = "watch" => n \in DOMAIN topics
    /\ IF n \in DOMAIN topics THEN UNCHANGED topics
       ELSE \E t \in NextId(TopicIds) : topics' = Extend(topics, n, t)
    /\ Step(j, "idle", [at |-> "started", kind |-> kind, topic |-> topics'[n]])
    /\ UNCHANGED <<runs, findings, sightings, inserted, removed>>

(* topic_id REFERENCES topics: without its topic the run is refused, and nothing *)
(* catches that.                                                           *)
RecordRun(j) ==
    /\ jobs[j].at = "started"
    /\ IF jobs[j].topic \in TopicIds
       THEN \E r \in NextId(DOMAIN runs) :
               /\ runs' = Extend(runs, r, [topic |-> jobs[j].topic, status |-> "running", new |-> 0])
               /\ sightings' = Extend(sightings, r, {})
               /\ Step(j, "started", [at |-> "searching", kind |-> jobs[j].kind,
                                      topic |-> jobs[j].topic, run |-> r])
       ELSE Step(j, "started", [at |-> "died"]) /\ UNCHANGED <<runs, sightings>>
    /\ UNCHANGED <<topics, findings, inserted, removed>>

(* update_run: no row, no update.                                            *)
UpdateRun(r, status) ==
    runs' = IF r \in DOMAIN runs THEN [runs EXCEPT ![r].status = status] ELSE runs

(* The subprocess exits with an error, times out or prints no JSON.            *)
SearchFails(j) ==
    /\ jobs[j].at = "searching" /\ jobs[j].kind = "watch"
    /\ UpdateRun(jobs[j].run, "failed")
    /\ jobs' = [jobs EXCEPT ![j] = [at |-> "done"]]
    /\ UNCHANGED <<topics, findings, sightings, inserted, removed>>

(* The findings of the report, each with an address; the select of those that   *)
(* are known, outside the transaction.                                     *)
ReadExisting(j, batch) ==
    /\ jobs[j].at = "searching"
    /\ LET known == {i \in DOMAIN findings : findings[i].url \in DOMAIN batch}
       IN jobs' = [jobs EXCEPT ![j] = [at |-> "read", kind |-> @.kind, topic |-> @.topic,
                     run |-> @.run, batch |-> batch,
                     existing |-> [u \in {findings[i].url : i \in known} |->
                         LET i == CHOOSE k \in known : findings[k].url = u
                         IN [id |-> i, score |-> findings[i].score]]]]
    /\ UNCHANGED <<store, inserted, removed>>

Larger(a, b) == IF a > b THEN a ELSE b
RowOf(table, u) == CHOOSE i \in DOMAIN table : table[i].url = u
HasRow(table, u) == \E i \in DOMAIN table : table[i].url = u

(* UPDATE findings ... WHERE id = ?, with the larger of the new score and the   *)
(* one that was read; a row that is gone is not updated.                     *)
Updated(table, job) ==
    [i \in DOMAIN table |->
        IF \E u \in DOMAIN job.existing : job.existing[u].id = i
        THEN LET u == CHOOSE v \in DOMAIN job.existing : job.existing[v].id = i
             IN [table[i] EXCEPT !.count = @ + 1, !.run = job.run,
                                 !.score = Larger(job.batch[u], job.existing[u].score)]
        ELSE table[i]]

(* Of the addresses the select did not give, those that still have no row, and    *)
(* the numbers their rows can get: the batch may be in any order.               *)
NewUrls(job) == DOMAIN job.batch \ DOMAIN job.existing
Missing(job) == {u \in NewUrls(job) : ~HasRow(findings, u)}
Numberings(job) ==
    UNION {Bijection(n..(n + Cardinality(Missing(job)) - 1), Missing(job)) : n \in NextId(DOMAIN findings)}

(* INSERT INTO findings ... ON CONFLICT(source_url) DO UPDATE, after the updates.  *)
Written(job, urls) ==
    LET table == Updated(findings, job)
    IN [i \in DOMAIN table \cup DOMAIN urls |->
          IF i \in DOMAIN urls
          THEN [url |-> urls[i], topic |-> job.topic, run |-> job.run, score |-> job.batch[urls[i]], count |-> 1]
          ELSE IF table[i].url \in NewUrls(job)
          THEN [table[i] EXCEPT !.count = @ + 1, !.run = job.run, !.score = Larger(@, job.batch[table[i].url])]
          ELSE table[i]]
(* Inserts that met a row of another run are updates.                        *)
Conflicted(table, job) == {u \in NewUrls(job) : table[RowOf(table, u)].count > 1}
(* Faulty variant: an insert that met a row of another run counts as new.       *)
NewCountOfInserts(table, job) == Cardinality(NewUrls(job))

NewCount(table, job) == Cardinality(NewUrls(job)) - Cardinality(Conflicted(table, job))
(* A sighting names the row that was read, whether or not it is still there.    *)
Seen(table, job) == {IF u \in DOMAIN job.existing THEN job.existing[u].id ELSE RowOf(table, u)
                     : u \in DOMAIN job.batch}
(* The foreign keys of what the transaction writes.                          *)
KeysHold(table, job) ==
    DOMAIN job.batch # {} =>
        /\ job.run \in DOMAIN runs
        /\ job.topic \in TopicIds
        /\ Seen(table, job) \subseteq DOMAIN table

(* The transaction of store_findings.  When a key is violated it is rolled back, *)
(* the watchlist dies of it and --store notes the failure.                   *)
StoreFindings(j) ==
    /\ jobs[j].at = "read"
    /\ \E urls \in Numberings(jobs[j]) :
        LET job == jobs[j]
            table == Written(job, urls)
        IN IF KeysHold(table, job)
           THEN /\ findings' = table
                /\ IF job.run \in DOMAIN runs
                   THEN /\ runs' = [runs EXCEPT ![job.run].new = NewCount(table, job)]
                        /\ sightings' = [sightings EXCEPT ![job.run] = @ \cup Seen(table, job)]
                   ELSE UNCHANGED <<runs, sightings>>
                /\ inserted' = inserted \cup {<<job.run, i>> : i \in DOMAIN urls}
                /\ jobs' = [jobs EXCEPT ![j] = At(j, "stored")]
           ELSE /\ jobs' = [jobs EXCEPT ![j] = [at |-> IF job.kind = "watch" THEN "died" ELSE "done"]]
                /\ IF job.kind = "store" THEN UpdateRun(job.run, "failed") ELSE UNCHANGED runs
                /\ UNCHANGED <<findings, sightings, inserted>>
    /\ UNCHANGED <<topics, removed>>

Complete(j) ==
    /\ jobs[j].at = "stored"
    /\ UpdateRun(jobs[j].run, "completed")
    /\ jobs' = [jobs EXCEPT ![j].at = "done"]
    /\ UNCHANGED <<topics, findings, sightings, inserted, removed>>

Crash(j) ==
    /\ jobs[j].at \in {"started", "searching", "read", "stored"}
    /\ jobs' = [jobs EXCEPT ![j] = [at |-> "died"]]
    /\ UNCHANGED <<store, inserted, removed>>

(***************************************************************************)
(* The operator                                                            *)
(***************************************************************************)
(* The deletes of remove_topic, one transaction: findings of the topic, with     *)
(* their sightings, then its runs, with theirs; a finding another topic has and  *)
(* a run of this one saw last still refers to the run, and all is undone.      *)
Removable(n) == \A i \in DOMAIN findings :
                    findings[i].topic # topics[n] =>
                        ~(findings[i].run \in DOMAIN runs /\ runs[findings[i].run].topic = topics[n])
RemoveTopic(n) ==
    /\ n \in DOMAIN topics /\ Removable(n)
    /\ LET gone == {i \in DOMAIN findings : findings[i].topic = topics[n]}
           over == {r \in DOMAIN runs : runs[r].topic = topics[n]}
       IN /\ findings' = Without(findings, gone)
          /\ runs' = Without(runs, over)
          /\ sightings' = [r \in DOMAIN sightings \ over |-> sightings[r] \ gone]
    /\ topics' = Without(topics, {n})
    /\ removed' = TRUE
    /\ UNCHANGED <<jobs, inserted>>

UrlsOf(r) == {findings[i].url : i \in sightings[r]}

Advance(j) ==
    \/ RecordRun(j) \/ SearchFails(j) \/ StoreFindings(j) \/ Complete(j)
    \/ \E S \in SUBSET Url : \E b \in [S -> 1..MaxScore] : ReadExisting(j, b)
Next ==
    \/ \E j \in Job, n \in Name, kind \in {"watch", "store"} : Start(j, n, kind)
    \/ \E j \in Job : Advance(j) \/ Crash(j)
    \/ \E n \in Name : RemoveTopic(n)
Spec == Init /\ [][Next]_vars

TypeOK ==
    /\ DOMAIN topics \subseteq Name /\ IsInjective(topics)
    /\ DOMAIN sightings = DOMAIN runs
    /\ \A r \in DOMAIN runs : /\ runs[r].status \in {"running", "completed", "failed"}
                              /\ runs[r].new \in 0..Cardinality(Url)
    /\ \A i, k \in DOMAIN findings : i # k => findings[i].url # findings[k].url
    /\ \A j \in Job : jobs[j].at \in {"idle", "started", "searching", "read", "stored", "done", "died"}

(* Whoever stores, crashes or removes meanwhile, no row refers to one that is     *)
(* gone: no finding to a removed run or topic, no sighting to a removed finding. *)
NoOrphans ==
    /\ \A r \in DOMAIN runs : runs[r].topic \in TopicIds
    /\ \A i \in DOMAIN findings : findings[i].topic \in TopicIds /\ findings[i].run \in DOMAIN runs
    /\ \A r \in DOMAIN sightings : sightings[r] \subseteq DOMAIN findings

(* "Upsert on conflict instead of letting IntegrityError abort the whole batch    *)
(* and lose every finding": a run that is through has the sightings of all it    *)
(* found, whatever a concurrent run stored between its select and its write.    *)
RunsWhole ==
    \A j \in Job : (jobs[j].at = "done" /\ "batch" \in DOMAIN jobs[j] /\ ~removed) =>
        /\ runs[jobs[j].run].status = "completed"
        /\ UrlsOf(jobs[j].run) = DOMAIN jobs[j].batch

(* "so research_runs.findings_new isn't inflated by conflict-resolved rows":     *)
(* what a run reports as new are the rows it inserted.                        *)
CountsAddUp ==
    ~removed => \A r \in DOMAIN runs : runs[r].new = Cardinality({p \in inserted : p[1] = r})
=============================================================================
