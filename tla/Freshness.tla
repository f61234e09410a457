----------------------------- MODULE Freshness -----------------------------
(***************************************************************************)
(* freshness.verify_report on one report, or on each report of a comparison:     *)
(* the claims that can be checked again, the fetches that check them, and the    *)
(* verdicts.  The sources go on moving: every fetch sees a moment of its own.    *)
(***************************************************************************)
EXTENDS Integers, FiniteSets

CONSTANTS
    Reports,        \* sequences of reports that are verified together
    Moments,        \* what the sources answer at a moment
    Lower           \* the lower case of the names that are not lower case already

VARIABLES
    input,      \* the reports and whether the network may be used, constant
    output      \* the report in hand, its fetches, and all verdicts
vars == <<input, output>>

(* A report is its candidates, the items no candidate stands on, and the sources   *)
(* that worked.  A candidate is its primary item and the stars its own metadata    *)
(* gives for repositories.  An item: source, id, ref (event, repository, symbol    *)
(* and window), slug, pairs (named numbers in their order), end (a date or 0), says *)
(* (nothing or a subject and a status) and time (0: not dated).                 *)
Opposite == [open |-> "closed", closed |-> "open"]
Fold(name) == IF name \in DOMAIN Lower THEN Lower[name] ELSE name
ByItsName == -1

Init ==
    /\ input \in [reports : Reports, network : BOOLEAN]
    /\ output = [on |-> 1, fetches |-> <<>>, verdicts |-> <<>>]

(* Outcomes, in their order.  One whose name occurs twice is told by its place.    *)
Listed(pairs) ==
    {[rank |-> i, name |-> pairs[i][1], price |-> pairs[i][2]] : i \in DOMAIN pairs}
Named(outcomes, name) == {o \in outcomes : Fold(o.name) = Fold(name)}
Occurrence(outcomes, o) == Cardinality({p \in Named(outcomes, o.name) : p.rank < o.rank})
KeyOf(outcomes, o) ==
    <<o.name, IF Cardinality(Named(outcomes, o.name)) > 1 THEN Occurrence(outcomes, o)
              ELSE ByItsName>>
EndDate == <<"end_date", ByItsName>>

(* Item claims come first (pass 1), then the stars of the candidates (pass 2).     *)
Claim(r, c, pass, at, kind, key, value) ==
    [report |-> r, of |-> c, pass |-> pass, at |-> at,
     kind |-> kind, key |-> key, value |-> value]
Numbers(r, c, item) ==
    LET outcomes == Listed(item.pairs)
    IN {Claim(r, c, 1, o.rank, "number", KeyOf(outcomes, o), o.price) : o \in outcomes}
       \cup {Claim(r, c, 1, Cardinality(outcomes) + 1, "number", EndDate, end) :
               end \in {item.end} \ {0}}
StatusClaims(r, c, item) ==
    {Claim(r, c, 1, Cardinality(Listed(item.pairs)) + 2, "status", <<said[1], ByItsName>>, 0) :
        said \in {item.says} \ {<<>>}}
(* _candidate_star_claims: unless the item itself tells the stars of that one.    *)
StarClaims(r, c, item, stars) ==
    LET told == {Fold(item.ref) : pair \in {p \in Listed(item.pairs) : item.source = "github"}}
    IN {Claim(r, c, 2, o.rank, "stars", <<o.name, ByItsName>>, o.price) :
            o \in {s \in Listed(stars) : Fold(s.name) \notin told}}
ClaimsOf(r, c, candidate) ==
    Numbers(r, c, candidate.item) \cup StatusClaims(r, c, candidate.item)
    \cup StarClaims(r, c, candidate.item, candidate.stars)
Candidate(r, c) == input.reports[r].candidates[c]
ExtractClaims(r) ==
    UNION {ClaimsOf(r, c, Candidate(r, c)) : c \in DOMAIN input.reports[r].candidates}
Before(a, b) ==
    \/ a.pass < b.pass
    \/ a.pass = b.pass /\ a.of < b.of
    \/ a.pass = b.pass /\ a.of = b.of /\ a.at < b.at

(* _point_refetch_key: claims about one subject share a fetch.                   *)
ItemOf(claim) == Candidate(claim.report, claim.of).item
SourceOf(claim) == IF claim.kind = "stars" THEN "github" ELSE ItemOf(claim).source
Subject(claim) ==
    <<SourceOf(claim),
      IF claim.kind = "stars" THEN <<"ref", Fold(claim.key[1])>>
      ELSE IF ItemOf(claim).ref # "" THEN <<"ref", Fold(ItemOf(claim).ref)>>
      ELSE <<"url", Fold(ItemOf(claim).slug)>>>>

(* polymarket.parse_polymarket_response: the markets that count, by volume; closed *)
(* ones only where none is open.                                             *)
Counting(event) ==
    LET open == {i \in DOMAIN event.markets : event.markets[i].open}
    IN IF open = {} THEN DOMAIN event.markets
       ELSE IF event.open THEN {i \in open : event.markets[i].liquid} ELSE {}
Top(event) ==
    {event.markets[i] : i \in {j \in Counting(event) : \A k \in Counting(event) : j <= k}}
Yes(market) ==
    {o \in Named(Listed(market.pairs), "yes") : Occurrence(Listed(market.pairs), o) = 0}
Likely(event) ==
    UNION {{[rank |-> i, name |-> event.markets[i].question, price |-> o.price] :
                o \in {y \in Yes(event.markets[i]) : y.price > 0}} : i \in Counting(event)}
Ahead(p, o) == p.price > o.price \/ (p.price = o.price /\ p.rank < o.rank)
ByPrice(outcomes) ==
    {[rank |-> Cardinality({p \in outcomes : Ahead(p, o)}), name |-> o.name,
      price |-> o.price] : o \in outcomes}
(* The top market speaks for the event, or the "yes" of each where it is one of    *)
(* several such.                                                             *)
OutcomesOf(event) ==
    LET top == UNION {Listed(m.pairs) : m \in Top(event)}
        binary == {Fold(o.name) : o \in top} = {"yes", "no"}
    IN IF binary /\ Cardinality(Counting(event)) > 1 /\ Likely(event) # {}
       THEN ByPrice(Likely(event)) ELSE top

(* Faulty variant: the slug is enough, whatever event it belongs to by now.       *)
FoundEventBySlug(item, moment) == {e \in moment.events : e.slug = item.slug}

(* polymarket.refetch_datum: by the id of the event, or by the slug where the      *)
(* item kept an id the answer must have.                                       *)
FoundEvent(item, moment) ==
    {e \in moment.events :
        IF item.ref # "" THEN e.id = item.ref /\ (e.slug = "" \/ item.slug \in {"", e.slug})
        ELSE item.slug # "" /\ e.slug = item.slug /\ item.id # "" /\ e.id = item.id}
(* The datum asked for, and all that came with it; both are empty if it failed.    *)
Answer(value, values) ==
    [value |-> value, values |-> IF value = {} THEN {} ELSE values]
EventAnswer(event, key) ==
    LET outcomes == OutcomesOf(event)
        same == Named(outcomes, key[1])
        place == IF key[2] = ByItsName THEN 0 ELSE key[2]
        ends == {m.end : m \in Top(event)} \ {0}
    IN Answer(IF key = EndDate THEN ends
              ELSE {o.price : o \in {s \in same : Occurrence(outcomes, s) = place}},
              {<<KeyOf(outcomes, o), o.price>> : o \in outcomes}
                  \cup {<<EndDate, end>> : end \in ends})
PolymarketAnswers(item, key, moment) ==
    {EventAnswer(e, key) : e \in {f \in FoundEvent(item, moment) : Counting(f) # {}}}

(* stocktwits.refetch_datum and github.refetch_datum: one number, if any.         *)
CounterOf(subject, moment) ==
    {moment.counters[s] : s \in {subject} \cap DOMAIN moment.counters}
StocktwitsAnswer(claim, moment) ==
    Answer(CounterOf(Subject(claim), moment),
           {<<claim.key, n>> : n \in CounterOf(Subject(claim), moment)})
GithubAnswer(claim, moment) == Answer(CounterOf(Subject(claim), moment), {})

Fetched(claim, moment) ==
    CASE SourceOf(claim) = "github" -> GithubAnswer(claim, moment)
      [] SourceOf(claim) = "stocktwits" -> StocktwitsAnswer(claim, moment)
      [] SourceOf(claim) = "polymarket" ->
           LET answers == PolymarketAnswers(ItemOf(claim), claim.key, moment)
           IN IF answers = {} THEN Answer({}, {}) ELSE CHOOSE a \in answers : TRUE

-----------------------------------------------------------------------------
(* A verdict, the number it shows, and the moment it saw: none where no fetch was   *)
(* tried or the number of a status.                                            *)
Verdict(verdict, shown, seen) == [verdict |-> verdict, shown |-> shown, seen |-> seen]
Unsupported(seen) == Verdict("unsupported", {}, seen)
PointVerdict(claim, numbers, seen) ==
    IF numbers = {} THEN Unsupported(seen)
    ELSE Verdict(IF claim.value \in numbers THEN "current" ELSE "stale", numbers, seen)

(* _newer_status_contradiction.                                               *)
Items(r) ==
    input.reports[r].elsewhere
    \cup {Candidate(r, c).item : c \in DOMAIN input.reports[r].candidates}
Contradicted(claim) ==
    LET own == ItemOf(claim)
    IN \E item \in Items(claim.report) :
           /\ <<item.source, item.id>> # <<own.source, own.id>>
           /\ item.time # 0 /\ (own.time = 0 \/ item.time > own.time)
           /\ item.says = <<own.says[1], Opposite[own.says[2]]>>

Checkable(claim) ==
    /\ input.network
    /\ claim.kind = "stars" \/ SourceOf(claim) \in input.reports[claim.report].usable
    /\ SourceOf(claim) \in {"polymarket", "github", "stocktwits"}

(* A snapshot that was fetched is used again, one that failed stays failed.        *)
SnapshotVerdict(claim, fetch) ==
    PointVerdict(claim,
                 IF fetch.key = claim.key \/ claim.kind = "stars" THEN fetch.answer.value
                 ELSE {v[2] : v \in {w \in fetch.answer.values : w[1] = claim.key}},
                 {fetch.moment})

(* The claim whose turn it is.                                                 *)
Due(claim) ==
    /\ claim \notin DOMAIN output.verdicts
    /\ \A c \in ExtractClaims(output.on) : Before(c, claim) => c \in DOMAIN output.verdicts
With(function, key, value) ==
    [x \in DOMAIN function \cup {key} |-> IF x = key THEN value ELSE function[x]]
Tell(claim, verdict) ==
    output' = [output EXCEPT !.verdicts = With(output.verdicts, claim, verdict)]

VerifyStatus(claim) ==
    /\ claim.kind = "status"
    /\ Tell(claim, IF Contradicted(claim) THEN Verdict("contradicted", {}, {})
                   ELSE Unsupported({}))
GiveUp(claim) ==
    /\ claim.kind # "status" /\ ~Checkable(claim)
    /\ Tell(claim, Unsupported({}))
Reuse(claim) ==
    /\ claim.kind # "status" /\ Checkable(claim)
    /\ Subject(claim) \in DOMAIN output.fetches
    /\ Tell(claim, SnapshotVerdict(claim, output.fetches[Subject(claim)]))
Refetch(claim, moment) ==
    LET fetch == [key |-> claim.key, moment |-> moment, answer |-> Fetched(claim, moment)]
    IN /\ claim.kind # "status" /\ Checkable(claim)
       /\ Subject(claim) \notin DOMAIN output.fetches
       /\ output' = [output EXCEPT
              !.fetches = With(output.fetches, Subject(claim), fetch),
              !.verdicts = With(output.verdicts, claim, SnapshotVerdict(claim, fetch))]
VerifyClaim ==
    /\ output.on \in DOMAIN input.reports
    /\ \E claim \in ExtractClaims(output.on) :
           /\ Due(claim)
           /\ \/ VerifyStatus(claim)
              \/ GiveUp(claim)
              \/ Reuse(claim)
              \/ \E moment \in Moments : Refetch(claim, moment)
    /\ UNCHANGED input

(* _verify_report_set: nothing that was fetched for one report serves another.      *)
NextReport ==
    /\ output.on \in DOMAIN input.reports
    /\ ExtractClaims(output.on) \subseteq DOMAIN output.verdicts
    /\ output' = [output EXCEPT !.on = output.on + 1, !.fetches = <<>>]
    /\ UNCHANGED input

Next == VerifyClaim \/ NextReport
Spec == Init /\ [][Next]_vars

(* Two items of one report that stand for the same event carry the same identity:   *)
(* an event id is a number, and the items of a report are told apart by their URL.   *)
Identity(item) == IF item.ref # "" THEN item.ref ELSE item.id
SubjectAssumption ==
    \A reports \in Reports : \A r \in DOMAIN reports :
        \A c, d \in DOMAIN reports[r].candidates :
            LET one == reports[r].candidates[c].item
                other == reports[r].candidates[d].item
            IN /\ one.source = "polymarket" /\ other.source = "polymarket"
               /\ (one.ref = "") = (other.ref = "")
               /\ IF one.ref = "" THEN Fold(one.slug) = Fold(other.slug)
                  ELSE Fold(one.ref) = Fold(other.ref)
               => Identity(one) = Identity(other)

(* "Identify the source snapshot shared by claims in one verification pass": the    *)
(* claims of a report about one event, repository or stream are judged by one fetch, *)
(* even where it failed, so that no two verdicts of a report show two moments of    *)
(* the same thing.                                                            *)
OneMoment ==
    \A c, d \in DOMAIN output.verdicts :
        /\ c.report = d.report /\ Subject(c) = Subject(d)
        /\ output.verdicts[c].seen # {} /\ output.verdicts[d].seen # {}
        => output.verdicts[c].seen = output.verdicts[d].seen

(* "verifying a claim against another market's prices would fabricate              *)
(* current/stale verdicts": the event a number is compared with has the identity    *)
(* the item kept and, at the moment seen, has an outcome of that name at that        *)
(* number; a source that did not work in the run, or fails now, or a run without     *)
(* network makes no number current or stale.                                     *)
NumbersOf(event, name) ==
    UNION {{m.end : n \in {name} \cap {"end_date"}}
           \cup {o.price : o \in Named(Listed(m.pairs), name)}
           \cup {o.price : o \in {y \in Listed(m.pairs) : Fold(m.question) = Fold(name)}} :
               m \in {event.markets[i] : i \in DOMAIN event.markets}}
Shows(claim, x, moment) ==
    IF SourceOf(claim) = "polymarket"
    THEN \E e \in moment.events :
             e.id = Identity(ItemOf(claim)) /\ x \in NumbersOf(e, claim.key[1])
    ELSE x \in CounterOf(Subject(claim), moment)
OwnEvidence ==
    \A c \in DOMAIN output.verdicts :
        LET v == output.verdicts[c]
        IN v.verdict \in {"current", "stale"} =>
               /\ input.network
               /\ c.kind = "number" => SourceOf(c) \in input.reports[c.report].usable
               /\ \E x \in v.shown, moment \in v.seen :
                      /\ Shows(c, x, moment)
                      /\ (x = c.value) = (v.verdict = "current")
=============================================================================
