----------------------------- MODULE Discovery -----------------------------
(***************************************************************************)
(* pipeline.run_discover of last30days: feeds nominate topics, every           *)
(* nomination is researched by a thread of its own within a common time, and    *)
(* what clears the confidence floor is ranked.                             *)
(*                                                                         *)
(* Nominations are numbered in the order of their seed velocity.  Evidence is  *)
(* what the floor and the ranking look at: how many sources it has, whether its *)
(* engagement is junk (0), some (1) or a spike (2), and its velocity.           *)
(***************************************************************************)
EXTENDS Naturals, Sequences, FiniteSets

CONSTANTS
    Feeds,          \* the listing sources
    Slots,          \* ENRICH_MAX_WORKERS
    TopicLimit,     \* topics of a brief
    Evidence,       \* the evidence a nomination or its research may have
    MaxTopics       \* bound: ENRICH_LIMIT, or fewer

(* A brief has room for a topic, and research for a thread; evidence counts.       *)
DiscoverAssumption ==
    /\ TopicLimit \in Nat \ {0} /\ Slots \in Nat /\ MaxTopics \in Nat
    /\ Evidence \subseteq [sources : Nat, total : Nat, velocity : Nat]

VARIABLES input, output
vars == <<input, output>>

(***************************************************************************)
(* The nominate stage: a feed answers, answers in part, fails or raises         *)
(***************************************************************************)
FeedResults == {"unconfigured", "items", "partial", "nothing", "failed", "raised"}
SomeItems == {"items", "partial"}

(* mark_attempted, then add_items and record_failure, and the final status.     *)
FeedStatus(result) ==
    CASE result = "unconfigured" -> "skipped-unconfigured"
      [] result = "items" -> "ok"
      [] result = "partial" -> "partial"
      [] result = "nothing" -> "no-results"
      [] OTHER -> "error"

HasTopics(feeds) == \E f \in Feeds : feeds[f] \in SomeItems
Descending(seeds) == \A i, j \in 1..Len(seeds) : i < j => seeds[i].velocity >= seeds[j].velocity
Seeds == {s \in UNION {[1..n -> Evidence] : n \in 0..MaxTopics} : Descending(s)}

(* What a nomination's research gives.                                         *)
Nothing == [sources |-> 0, total |-> 0, velocity |-> 0]
Result(state, e) == [state |-> state, evidence |-> e]
NoReport == Result("none", Nothing)
Results == {Result("report", e) : e \in Evidence \cup {Nothing}} \cup {Result("error", Nothing)}

Topics == 1..Len(input.seeds)
Init ==
    \E feeds \in [Feeds -> FeedResults], seeds \in Seeds, enrich \in BOOLEAN :
        /\ \E f \in Feeds : feeds[f] # "unconfigured"      \* or build_discovery_plan raises
        /\ seeds # <<>> => HasTopics(feeds)
        /\ input = [feeds |-> feeds, seeds |-> seeds, enrich |-> enrich]
        /\ output = [at |-> "nominated", thread |-> [t \in 1..Len(seeds) |-> "none"],
                     queue |-> <<>>, got |-> [t \in 1..Len(seeds) |-> NoReport],
                     topics |-> <<>>, weak |-> {}, status |-> <<>>]

(***************************************************************************)
(* The enrich stage: enrich_nominations                                     *)
(***************************************************************************)
Enrich ==
    /\ output.at = "nominated" /\ input.enrich /\ input.seeds # <<>>
    /\ output' = [output EXCEPT !.at = "enriching", !.thread = [t \in Topics |-> "waiting"]]
    /\ UNCHANGED input

Running == {t \in Topics : output.thread[t] = "running"}
TakeSlot(t) ==
    /\ output.thread[t] = "waiting" /\ Cardinality(Running) < Slots
    /\ output' = [output EXCEPT !.thread[t] = "running"]
    /\ UNCHANGED input

(* The research of a nomination ends with evidence, perhaps none, or an error;   *)
(* one that hangs never ends and keeps its slot.                            *)
Research(t) ==
    /\ output.thread[t] = "running"
    /\ \E r \in Results :
          output' = [output EXCEPT !.thread[t] = "ended",
                                   !.queue = Append(output.queue, <<t, r>>)]
    /\ UNCHANGED input

Pending == {t \in Topics : output.got[t] = NoReport}
Collect ==
    /\ output.at = "enriching" /\ Pending # {} /\ output.queue # <<>>
    /\ output' = [output EXCEPT !.queue = Tail(output.queue),
                                !.got[Head(output.queue)[1]] = Head(output.queue)[2]]
    /\ UNCHANGED input

(***************************************************************************)
(* The confidence floor and the brief                                      *)
(***************************************************************************)
PassesFloor(e) == e.total > 0 /\ (e.sources >= 2 \/ e.total = 2)
Judged(t, got) == IF got[t].evidence = Nothing THEN input.seeds[t] ELSE got[t].evidence

(* The topics in the order of the nominations, as many as there is room for; where   *)
(* there is none, the strongest one under the floor is kept.                       *)
InOrder(topics) ==
    LET n == Cardinality(topics)
    IN {s \in [1..n -> topics] : \A i, j \in 1..n : i < j => s[i] < s[j]}
UpTo(n, order) == SubSeq(order, 1, IF Len(order) < n THEN Len(order) ELSE n)
Strongest(topics, got) ==
    {t \in topics : \A u \in topics :
        \/ Judged(t, got).velocity > Judged(u, got).velocity
        \/ Judged(t, got).velocity = Judged(u, got).velocity /\ t <= u}
Tell(passing) ==
    \E order \in InOrder(passing) :
        output' = [output EXCEPT
            !.at = "told",
            !.topics = UpTo(TopicLimit, order),
            !.weak = IF passing = {} THEN Strongest(Topics, output.got) ELSE {},
            !.status = [f \in Feeds |-> FeedStatus(input.feeds[f])]]
(* Faulty variant: the floor is judged by what the nomination says.              *)
BriefOfNominations == Tell({t \in Topics : PassesFloor(input.seeds[t])})
Brief == Tell({t \in Topics : PassesFloor(Judged(t, output.got))})

BriefShallow ==
    /\ output.at = "nominated" /\ ~(input.enrich /\ input.seeds # <<>>)
    /\ Brief /\ UNCHANGED input
(* All research is collected.                                                *)
AllCollected == output.at = "enriching" /\ Pending = {} /\ Brief /\ UNCHANGED input
(* Faulty variant: the main thread looks at the clock only after a result.       *)
TimeUpAfterResult ==
    output.at = "enriching" /\ Pending # {} /\ output.queue # <<>> /\ Brief /\ UNCHANGED input
(* Or the time is up; threads go on and are ignored.                            *)
TimeUp == output.at = "enriching" /\ Pending # {} /\ Brief /\ UNCHANGED input

Main == Enrich \/ Collect \/ BriefShallow \/ AllCollected \/ TimeUp
Next == Main \/ (\E t \in Topics : TakeSlot(t) \/ Research(t))
(* The main thread goes on and time passes; research may hang.                *)
Spec == Init /\ [][Next]_vars /\ WF_vars(Main)

(* "a topic whose sub-run raises is returned with report=None ... topics still    *)
(* unfinished when the batch budget expires are likewise dropped to             *)
(* nomination-only": however research ends, fails, hangs or is late, a topic with *)
(* solid evidence is told unless the brief is full of such topics, nothing under *)
(* the floor is told, and an empty brief names the strongest of what it has.     *)
BriefIsSolid ==
    output.at = "told" =>
        LET held(t) == Judged(t, output.got)
            told == {output.topics[i] : i \in 1..Len(output.topics)}
        IN /\ \A t \in told : PassesFloor(held(t))
           /\ \A t \in Topics \ told : PassesFloor(held(t)) => Len(output.topics) = TopicLimit
           /\ Len(output.topics) = Cardinality(told)
           /\ told = {} => \A t \in Topics : \E w \in output.weak : held(w).velocity >= held(t).velocity

(* A result is taken for the topic it was made for, once.                      *)
ResearchKept ==
    /\ \A t \in Topics : output.got[t] # NoReport => output.thread[t] = "ended"
    /\ \A t \in Topics : output.thread[t] = "ended" =>
          (output.got[t] = NoReport) = (\E i \in 1..Len(output.queue) : output.queue[i][1] = t)
    /\ Cardinality(Running) <= Slots

(* From the nominations on the brief comes, also when every piece of research     *)
(* hangs.                                                                    *)
Nominated == output.at = "nominated"
BriefTold == output.at = "told"
=============================================================================
