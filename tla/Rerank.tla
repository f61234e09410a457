------------------------------- MODULE Rerank -------------------------------
(***************************************************************************)
(* rerank.rerank_candidates: the scores the candidates of a research run get  *)
(* from the reasoning model or from the local fallback, and the floors that   *)
(* follow.  Final scores are in hundredths of a point.                       *)
(***************************************************************************)
EXTENDS Integers, FiniteSets

CONSTANTS
    Kinds,          \* the candidates of this instance, one of them per position
    Size,           \* how many candidates the pool holds
    Shortlist,      \* how many of them the model is shown
    Relevances      \* what the model may rate a candidate, in points

(* Scores are whole numbers, and nothing counts against a candidate but its own    *)
(* relevance.                                                               *)
RerankAssumption ==
    /\ Size \in Nat /\ Shortlist \in Nat /\ Relevances \subseteq Int
    /\ \A k \in Kinds : k.local \in Int /\ k.other \in Nat /\ k.engagement \in Nat

VARIABLES
    input,      \* the candidates, the topic and the answers of the model, constant
    output      \* what each candidate is left with, and how the call ended
vars == <<input, output>>

ENTITY_MISS_PENALTY == 25
FIRST_PARTY_AUTHOR_CREDIT == 5
ENTITY_MISS_FINAL_PENALTY == 2000
FIRST_PARTY_FLOOR == 2500
INTERACTION_FLOOR == 3500
RESCUE_FLOOR_MAX == 4000

Candidate == 1..Size
(* author, addresses (the post starts with the handle of somebody else), x      *)
(* (from X), text (whether it has any, and names the head token of the topic), *)
(* local (relevance, freshness and quality), other (rank, freshness, quality).  *)
Of(c) == input.pool[c]
Row == [relevance : Relevances, marked : BOOLEAN]     \* marked: the reason says "entity-miss"
(* No model, a model that raises what is caught, one whose answer has a shape   *)
(* the code does not expect, and one that rates some of the shortlist.          *)
Silent == {"no model", "raises", "odd"}
Rows(n) == UNION {[rated -> Row] : rated \in SUBSET (1..n)}

Init ==
    /\ \E llm \in Silent \cup {"rates"} :
        \E rows \in IF llm = "rates" THEN Rows(Shortlist) ELSE Rows(0) :
            input \in [pool : [Candidate -> Kinds], entity : BOOLEAN, handles : BOOLEAN,
                      llm : {llm}, rows : {rows}]
    /\ output = [end |-> "none"]

FirstParty(c) == input.handles /\ Of(c).author = "subject"
(* _is_entity_grounded; a candidate without text is neither grounded nor missed. *)
Grounded(c) == input.entity => Of(c).text = "names"
Missed(c) == input.entity /\ Of(c).text = "silent"

Clamp(n) == IF n < 0 THEN 0 ELSE IF n > 100 THEN 100 ELSE n
Larger(a, b) == IF a > b THEN a ELSE b

(* _fallback_tuple; the model's path calls it without the entity.              *)
FallbackScore(c, checked) ==
    IF FirstParty(c)
    THEN [rerank |-> Clamp(Of(c).local + FIRST_PARTY_AUTHOR_CREDIT), marked |-> FALSE]
    ELSE IF checked /\ Missed(c)
    THEN [rerank |-> Clamp(Of(c).local - ENTITY_MISS_PENALTY), marked |-> TRUE]
    ELSE [rerank |-> Clamp(Of(c).local), marked |-> FALSE]

(* _apply_llm_scores: a candidate the model left out gets its local score.      *)
LlmScore(c) ==
    IF c \notin DOMAIN input.rows THEN FallbackScore(c, FALSE)
    ELSE [rerank |-> Clamp(input.rows[c].relevance), marked |-> input.rows[c].marked]

Scored(c) ==
    IF input.llm = "rates" /\ c <= Shortlist THEN LlmScore(c) ELSE FallbackScore(c, TRUE)

FinalScore(c) ==
    LET engaged == IF 6 * Of(c).engagement > 100 THEN 100 ELSE 6 * Of(c).engagement
        base == 60 * Scored(c).rerank + 100 * Of(c).other + 5 * engaged
        kept == IF Scored(c).rerank < 20 THEN (3 * base) \div 10 ELSE base
    IN IF Scored(c).marked THEN Larger(0, kept - ENTITY_MISS_FINAL_PENALTY) ELSE kept

FirstPartyFloor(c, score) ==
    IF FirstParty(c) THEN Larger(score, FIRST_PARTY_FLOOR) ELSE score

(* _apply_engagement_rescue: the share of the posts from X this one is above.   *)
FromX == {c \in Candidate : Of(c).x}
Below(c) == Cardinality({d \in FromX : Of(d).engagement < Of(c).engagement})
RescueFloor(c) ==
    LET rest == Cardinality(FromX) - 1
    IN IF 2 * Below(c) <= rest THEN 0
       ELSE ((2 * Below(c) - rest) * RESCUE_FLOOR_MAX) \div rest
EngagementRescue(c, score) ==
    IF Cardinality(FromX) >= 2 /\ c \in FromX /\ (FirstParty(c) \/ Grounded(c))
    THEN Larger(score, RescueFloor(c)) ELSE score

InteractionSignal(c, score) ==
    IF FirstParty(c) /\ Of(c).addresses THEN Larger(score, INTERACTION_FLOOR) ELSE score

Floored(c) == InteractionSignal(c, EngagementRescue(c, FirstPartyFloor(c, FinalScore(c))))

(* A list instead of an object, or a rating that is no number, is not among the *)
(* errors the call catches.                                                 *)
RerankRaises ==
    /\ output.end = "none" /\ input.llm = "odd"
    /\ output' = [end |-> "raised"]
    /\ UNCHANGED input

RerankCandidates ==
    /\ output.end = "none" /\ input.llm # "odd"
    /\ output' = [end |-> "returned", scores |-> [c \in Candidate |-> Floored(c)],
                  tagged |-> {c \in Candidate : FirstParty(c) /\ Of(c).addresses}]
    /\ UNCHANGED input

Next == RerankRaises \/ RerankCandidates
Spec == Init /\ [][Next]_vars

Returned == output.end = "returned"

(* "A post authored by a resolved handle must clear the zero band regardless of  *)
(* which scoring path ran": with the model, without it, and where the model      *)
(* fails or leaves the post out, the posts of the subject keep their floor, the  *)
(* ones addressed to somebody the higher one, and the post that leads X on the   *)
(* topic the highest, whatever the later floors and penalties do.               *)
SubjectVisible ==
    Returned => \A c \in Candidate :
        /\ FirstParty(c) => output.scores[c] >= FIRST_PARTY_FLOOR
        /\ c \in output.tagged => output.scores[c] >= INTERACTION_FLOOR
        /\ c \in FromX /\ (FirstParty(c) \/ Grounded(c)) /\ Cardinality(FromX) > 1
           /\ (\A d \in FromX \ {c} : Of(d).engagement < Of(c).engagement)
           => output.scores[c] >= RESCUE_FLOOR_MAX

(* "viral name-collision noise (Lanzhou clips, namesakes) stays buried": a post  *)
(* of somebody else that has text and never names the topic is not lifted by     *)
(* its engagement, and where the local score decided it stays below every post   *)
(* that names the topic and is at least as good in everything else.             *)
Noise(c) == Missed(c) /\ ~FirstParty(c)
AsGood(d, c) == /\ Of(d).local >= Of(c).local /\ Of(d).other >= Of(c).other
                /\ Of(d).engagement >= Of(c).engagement
NoiseBuried ==
    Returned => \A c \in Candidate : Noise(c) =>
        /\ output.scores[c] <= FinalScore(c)
        /\ input.llm # "rates" =>
            \A d \in Candidate : ~Missed(d) /\ AsGood(d, c) =>
                output.scores[d] > output.scores[c] \/ output.scores[c] = 0
=============================================================================
