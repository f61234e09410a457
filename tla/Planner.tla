------------------------------ MODULE Planner ------------------------------
(***************************************************************************)
(* planner.plan_query and the part of pipeline.run around it: from what the    *)
(* user asked and what is configured to the sources each subquery searches.   *)
(***************************************************************************)
EXTENDS Naturals, Sequences, FiniteSets

CONSTANT Questions      \* the questions of this instance

(* Sources in the order available_sources lists them; the corpus comes second  *)
(* there, and the additions of a run come last.  A request and an answer list   *)
(* theirs in this order too.                                                *)
Place == [corpus |-> 1, x |-> 2, youtube |-> 3, hackernews |-> 4, polymarket |-> 5,
          grounding |-> 6, jobs |-> 7]
Sources == DOMAIN Place
Intents == {"factual", "product", "concept", "opinion", "how_to", "comparison",
            "breaking_news", "prediction"}

(* A question: what is configured, what --search asks for, the topic (its       *)
(* intent, the entities of a comparison, a word like "workflow" that calls for   *)
(* paraphrases, Hebrew, a company), the depth, the web backend, hiring mode,      *)
(* whether the plan comes from outside (--plan), and what was answered: "none"   *)
(* without a model, "plan", "error" for what raises an exception plan_query       *)
(* handles (no JSON, a weight that is no number), and "odd" for what raises       *)
(* another one (JSON that is a list, a field of the wrong type, a connection cut  *)
(* in the middle of the answer).                                              *)
PlanAssumption ==
    \A q \in Questions :
        /\ q.configured \subseteq Sources /\ q.requested \subseteq Sources
        /\ q.intent \in Intents /\ q.entities \in Nat
        /\ q.external => q.answer.kind # "none"
        /\ q.answer.kind = "plan" =>
               /\ q.answer.intent \in Intents
               /\ q.answer.subs \in Seq([sources : SUBSET STRING, queries : BOOLEAN])

VARIABLES input, output
vars == <<input, output>>

(***************************************************************************)
(* What is available to the run                                            *)
(***************************************************************************)
Requested(q) == IF q.corpus /\ q.requested # {} THEN q.requested \cup {"corpus"} ELSE q.requested

Available(q) ==
    LET configured == (q.configured \cup (IF q.corpus THEN {"corpus"} ELSE {}))
                      \cup (IF "jobs" \in Requested(q) THEN {"jobs"} ELSE {})
        asked == IF Requested(q) = {} THEN configured ELSE configured \cap Requested(q)
        kept == asked \cup ({"corpus"} \cap q.requested)
        web == CASE q.web = "none" -> kept \ {"grounding"}
                 [] q.web = "brave" -> kept \cup {"grounding"}
                 [] OTHER -> kept
        company == IF q.hiring \/ q.company THEN web \cup {"jobs"} ELSE web
    IN IF q.hiring /\ Requested(q) = {} THEN {"jobs"} ELSE company

PlannerRequested(q) == IF q.hiring /\ Requested(q) = {} THEN {"jobs"} ELSE Requested(q)

(***************************************************************************)
(* Which sources a subquery gets                                           *)
(***************************************************************************)
QuickLimit == 2
QuickPriority ==
    [factual |-> [hackernews |-> 1, x |-> 2, youtube |-> 3],
     product |-> [jobs |-> 1, youtube |-> 2, x |-> 3],
     concept |-> [hackernews |-> 1, x |-> 2, youtube |-> 3],
     opinion |-> [x |-> 1, youtube |-> 2, hackernews |-> 3],
     how_to |-> [youtube |-> 1, x |-> 2, hackernews |-> 3],
     comparison |-> [x |-> 1, hackernews |-> 2, youtube |-> 3],
     breaking_news |-> [x |-> 1, hackernews |-> 2, youtube |-> 3, polymarket |-> 4],
     prediction |-> [polymarket |-> 1, x |-> 2, hackernews |-> 3, youtube |-> 4]]

(* Faulty variant: a choice that leaves nothing is kept.                       *)
OrElseNone(S, all) == S

OrElseAll(S, all) == IF S = {} THEN all ELSE S

HowToSources(S) == OrElseAll(S \cap {"x", "youtube", "hackernews", "grounding", "corpus", "jobs"}, S)
DefaultSources(intent, S) ==
    LET capable == CASE intent = "how_to" -> HowToSources(S)
                     [] intent = "comparison" -> OrElseAll(S, S)
                     [] OTHER -> S
    IN IF intent \in {"concept", "how_to"} THEN OrElseAll(capable \ {"polymarket"}, capable)
       ELSE capable

(* In a quick run the requested sources of a subquery come first, then those     *)
(* of the priority table of the intent, then the rest; a topic in Hebrew puts   *)
(* the web in front of every list.                                          *)
PlaceIn(s, front) == IF s \in front THEN 0 ELSE Place[s]
Claim(s, intent, S, requested, front) ==
    IF s \in requested \cap S THEN PlaceIn(s, front)
    ELSE IF s \in DOMAIN QuickPriority[intent] \cap S THEN 10 + QuickPriority[intent][s]
    ELSE 20 + PlaceIn(s, front)
QuickSources(sub, intent, S, requested, front) ==
    LET claim(s) == Claim(s, intent, S, requested, front)
    IN {s \in sub : Cardinality({t \in sub : claim(t) < claim(s)}) < QuickLimit}

Trim(subs, q, intent, S, requested, front) ==
    [i \in 1..Len(subs) |->
        IF q.depth = "quick" THEN QuickSources(subs[i], intent, S, requested, front)
        ELSE DefaultSources(intent, S)]

(***************************************************************************)
(* The deterministic plan, and the model's plan made safe                     *)
(***************************************************************************)
MaxSubqueries(q, intent) ==
    IF intent = "comparison" THEN 4
    ELSE IF intent \in {"factual", "concept"} /\ ~q.paraphrased THEN 2 ELSE 5
AtMost(n, limit) == IF n < limit THEN n ELSE limit

(* One subquery, or in a longer run more: one per entity that is compared, one   *)
(* for odds or reactions, three paraphrases.                                   *)
More(q) ==
    IF q.depth = "quick" THEN 0
    ELSE CASE q.intent = "comparison" -> q.entities
           [] q.intent = "prediction" -> 1
           [] q.intent = "breaking_news" -> IF q.paraphrased THEN 4 ELSE 1
           [] OTHER -> IF q.paraphrased THEN 3 ELSE 0
Aside(q, allowed) ==
    CASE q.intent = "prediction" -> OrElseAll(allowed \cap {"polymarket", "grounding", "x"}, allowed)
      [] q.intent = "breaking_news" ->
             OrElseAll(allowed \cap {"x", "grounding", "hackernews"}, allowed)
      [] OTHER -> allowed
FallbackPlan(q, avail, requested) ==
    LET front == IF q.hebrew THEN avail \cap {"grounding"} ELSE {}
        wanted == IF requested = {} THEN {} ELSE requested \cup front
        allowed == OrElseAll(wanted, avail)
        subs == [i \in 1..AtMost(1 + More(q), MaxSubqueries(q, q.intent)) |->
                    IF i = 2 THEN Aside(q, allowed) ELSE allowed]
    IN Trim(subs, q, q.intent, allowed, wanted, front)

(* An answer names for each subquery its sources and whether it has queries.     *)
Usable(q, answer) ==
    LET kept == {k \in 1..AtMost(Len(answer.subs), MaxSubqueries(q, answer.intent)) :
                    answer.subs[k].queries}
        before(k) == Cardinality({j \in kept : j < k})
    IN [i \in 1..Cardinality(kept) |-> answer.subs[CHOOSE k \in kept : before(k) = i - 1]]
SanitizePlan(q, answer, avail, requested) ==
    LET eligible == IF requested = {} THEN avail ELSE avail \cap requested
        usable == Usable(q, answer)
        subs == [i \in 1..(IF q.depth = "quick" THEN AtMost(Len(usable), 1) ELSE Len(usable)) |->
                    OrElseAll(usable[i].sources \cap eligible, eligible)]
    IN IF usable = <<>> THEN FallbackPlan(q, avail, requested)
       ELSE Trim(subs, q, answer.intent, eligible, requested, {})

(* A comparison of entities that can be told apart is not given to the model.   *)
Deterministic(q) == ~q.external /\ q.intent = "comparison" /\ q.entities >= 2
PlanQuery(q, avail, requested) ==
    IF q.answer.kind = "plan" /\ ~Deterministic(q) THEN SanitizePlan(q, q.answer, avail, requested)
    ELSE FallbackPlan(q, avail, requested)

(* The exceptions that leave plan_query, and those of a plan from outside, which  *)
(* is sanitized without a handler.                                           *)
Unhandled(q) ==
    /\ ~Deterministic(q)
    /\ \/ q.answer.kind = "odd"
       \/ q.external /\ q.answer.kind = "error"

(* The safety nets of the run: the web in every subquery, jobs for a company,     *)
(* the corpus in the first one, and so in all that share its list of sources.  *)
Completed(plan, q, avail) ==
    LET web == IF q.web # "none" /\ "grounding" \in avail THEN {"grounding"} ELSE {}
        jobs == IF "jobs" \in avail /\ (q.hiring \/ q.company) THEN {"jobs"} ELSE {}
        corpus(i) == IF "corpus" \in avail /\ (i = 1 \/ q.depth # "quick") THEN {"corpus"} ELSE {}
    IN [i \in 1..Len(plan) |-> plan[i] \cup web \cup jobs \cup corpus(i)]

Streams(plan, avail) ==
    {stream \in (1..Len(plan)) \X (avail \ {"corpus"}) : stream[2] \in plan[stream[1]]}

(***************************************************************************)
(* One question                                                            *)
(***************************************************************************)
Init == input \in Questions /\ output = {}

Failed == {[error |-> TRUE, plan |-> <<>>]}
NoSources == Available(input) = {} /\ output' = Failed
(* The exception ends the run.                                             *)
PlanRaises == Available(input) # {} /\ Unhandled(input) /\ output' = Failed
Plan ==
    LET avail == Available(input)
    IN /\ avail # {} /\ ~Unhandled(input)
       /\ output' = {[error |-> FALSE,
                      plan |-> Completed(PlanQuery(input, avail, PlannerRequested(input)),
                                         input, avail)]}

Next == output = {} /\ (NoSources \/ PlanRaises \/ Plan) /\ UNCHANGED input
Spec == Init /\ [][Next]_vars

(* A request may name sources that are not configured.  In a quick run they take   *)
(* slots, and where the intent is choosy it may choose them alone: such a run may   *)
(* search nothing at all, although another source it asked for is available.       *)
Misled ==
    /\ ~(input.requested \subseteq Available(input))
    /\ input.depth = "quick" \/ input.intent \in {"how_to", "concept"}

(* Whoever planned, and whatever the model answered: the run ends with an error  *)
(* only without a source to search, for an answer of another shape than a plan,  *)
(* or for a plan from outside that cannot be read; otherwise there is a          *)
(* subquery, each of them has a source this run can search, and a quick run      *)
(* searches no more than its limit, the web, the jobs of a company and the       *)
(* corpus.                                                                  *)
PlanCanRun ==
    \A o \in output :
        /\ o.error => \/ Available(input) = {}
                      \/ input.answer.kind = "odd"
                      \/ input.external /\ input.answer.kind # "plan"
        /\ ~o.error => Len(o.plan) > 0
        /\ ~o.error => \A i \in 1..Len(o.plan) :
              /\ ~Misled => o.plan[i] \cap Available(input) # {}
              /\ input.depth = "quick" =>
                    Cardinality(o.plan[i] \ {"grounding", "jobs", "corpus"}) <= QuickLimit

(* "Explicit --search sources are user overrides, so they get first claim on the  *)
(* quick slots": a run that asks for sources searches nothing else, except what *)
(* the web backend, the hiring mode or a company topic adds to every run.  And   *)
(* when the quick slots suffice and the code itself plans, everything it asks    *)
(* for is searched, whatever the priorities of the intent.  A plan of the model  *)
(* may leave some of it out, and a topic in Hebrew gives a slot to the web.    *)
RequestHonoured ==
    \A o \in output : (input.requested # {} /\ ~o.error) =>
        LET searched == {st[2] : st \in Streams(o.plan, Available(input))}
            asked == Requested(input) \ {"corpus"}
        IN /\ searched \subseteq input.requested \cup {"grounding", "jobs"}
           /\ (/\ input.depth = "quick" /\ ~Misled /\ Cardinality(Requested(input)) <= QuickLimit
               /\ input.answer.kind # "plan" /\ ~input.hebrew)
                 => asked \subseteq searched
=============================================================================
