------------------------------ MODULE Ranking ------------------------------
(***************************************************************************)
(* fusion.weighted_rrf and the reranking of a research run: from the streams  *)
(* of a bundle to the pool of candidates, and what of the pool is shown to the *)
(* model that reranks it.                                                  *)
(*                                                                         *)
(* An item has an address (its candidate key), the source it came from, an    *)
(* author and a relevance of 0 or 1; of two items the less relevant one has    *)
(* the longer snippet, so that title and snippet of a candidate may differ.    *)
(***************************************************************************)
EXTENDS Integers, Sequences, FiniteSets

CONSTANTS
    Address, Author,    \* of the items; NoAuthor is none
    Pairings,           \* pairs of sources: one for each of the two streams
    StreamLength,       \* bound of a stream
    MaxPerAuthor,       \* _MAX_ITEMS_PER_AUTHOR
    MinPerSource,       \* min_per_source
    PoolLimit,          \* pool_limit
    Shortlist           \* rerank_limit

RankingAssumption ==
    /\ Address \subseteq Nat /\ StreamLength \in Nat
    /\ MaxPerAuthor \in Nat /\ MinPerSource \in Nat /\ PoolLimit \in Nat /\ Shortlist \in Nat

NoAuthor == "none"
Corpus == "corpus"

Item(source) == [url : Address, source : {source}, author : Author \cup {NoAuthor}, fit : 0..1]
StreamsOf(source) == UNION {{s \in [1..n -> Item(source)] :
                                \A i, j \in 1..n : i # j => s[i].url # s[j].url}
                            : n \in 0..StreamLength}

VARIABLES input, output
vars == <<input, output>>

(***************************************************************************)
(* weighted_rrf                                                            *)
(***************************************************************************)
(* weight / (RRF_K + rank): less for each rank.                              *)
Score(rank) == 10 - rank
Longer(i, j) == i.fit < j.fit

NewCandidate(item, rank) ==
    [url |-> item.url, source |-> item.source, title |-> item, snippet |-> item,
     fit |-> item.fit, score |-> Score(rank), items |-> <<item>>]

(* What is relevant takes over the title, what is longer the snippet.         *)
Merge(c, item, rank) ==
    LET takesOver == item.fit > c.fit
        snippet == IF takesOver THEN item ELSE c.snippet
    IN [url |-> c.url, score |-> c.score + Score(rank),
        source |-> IF takesOver THEN item.source ELSE c.source,
        title |-> IF takesOver THEN item ELSE c.title,
        snippet |-> IF Longer(item, snippet) THEN item ELSE snippet,
        fit |-> IF takesOver THEN item.fit ELSE c.fit,
        items |-> IF item = c.items[1] THEN c.items ELSE Append(c.items, item)]

(* One stream after the other: a URL that both have is one candidate.           *)
RanksOf(stream, u) == {r \in DOMAIN stream : stream[r].url = u}
Urls(stream) == {stream[r].url : r \in DOMAIN stream}
Rank(stream, u) == CHOOSE r \in RanksOf(stream, u) : TRUE
First(stream, u) == NewCandidate(stream[Rank(stream, u)], Rank(stream, u))
Collect(streams) ==
    LET s == streams[1]
        t == streams[2]
    IN {First(s, u) : u \in Urls(s) \ Urls(t)}
       \cup {First(t, u) : u \in Urls(t) \ Urls(s)}
       \cup {Merge(First(s, u), t[Rank(t, u)], Rank(t, u)) : u \in Urls(s) \cap Urls(t)}

(* The sorted list of candidates is a set and the order of its members.          *)
Before(c, d) == \/ c.score > d.score
                \/ c.score = d.score /\ c.fit > d.fit
                \/ c.score = d.score /\ c.fit = d.fit /\ c.url < d.url
FirstOf(cands, n) == {c \in cands : Cardinality({d \in cands : Before(d, c)}) < n}

AuthorOf(c) == LET named == {i \in DOMAIN c.items : c.items[i].author # NoAuthor}
               IN IF named = {} THEN NoAuthor
                  ELSE c.items[CHOOSE i \in named : \A j \in named : i <= j].author

(* The first MaxPerAuthor candidates of each author.                         *)
CapAuthors(cands) ==
    {c \in cands : \/ AuthorOf(c) = NoAuthor
                   \/ c \in FirstOf({d \in cands : AuthorOf(d) = AuthorOf(c)}, MaxPerAuthor)}

From(cands, source) == {c \in cands : c.source = source}
Fits(cands, source) == \E c \in From(cands, source) : c.fit = 1

(* The first candidates of every source that has a relevant one, filled up to    *)
(* the limit with the others.                                              *)
Reserved(fused) ==
    {c \in fused : Fits(fused, c.source) /\ c \in FirstOf(From(fused, c.source), MinPerSource)}
DiversifyPool(fused) ==
    LET reserved == Reserved(fused)
        taken == Cardinality(reserved)
        room == IF taken < PoolLimit THEN PoolLimit - taken ELSE 0
    IN FirstOf(reserved \cup FirstOf(fused \ reserved, room), PoolLimit)

Fused(streams) == CapAuthors(Collect(streams))
WeightedRRF(streams) == DiversifyPool(Fused(streams))

(***************************************************************************)
(* The run: fuse, split off what the corpus has part in, rerank              *)
(***************************************************************************)
(* Faulty variant: only the source of the title counts.                        *)
IsPrivateByTitle(c) == c.source = Corpus

IsPrivate(c) == c.source = Corpus \/ \E i \in DOMAIN c.items : c.items[i].source = Corpus
Texts(cands) == {c.title : c \in cands} \cup {c.snippet : c \in cands}

Init ==
    /\ \E p \in Pairings : \E s \in StreamsOf(p[1]), t \in StreamsOf(p[2]) :
          input = [streams |-> <<s, t>>]
    /\ output = [at |-> "new"]

Fuse ==
    /\ output.at = "new"
    /\ output' = [at |-> "pool", pool |-> WeightedRRF(input.streams)]
    /\ UNCHANGED input

(* Only the public candidates are sent to the reasoning provider, the first of   *)
(* them to be scored and all of them to be found funny or not; without a model    *)
(* nothing is sent.                                                          *)
Rerank ==
    /\ output.at = "pool"
    /\ \/ output' = [at |-> "ranked", pool |-> output.pool, prompt |-> {}, fun |-> {}]
       \/ LET public == {c \in output.pool : ~IsPrivate(c)}
          IN output' = [at |-> "ranked", pool |-> output.pool,
                        prompt |-> Texts(FirstOf(public, Shortlist)), fun |-> Texts(public)]
    /\ UNCHANGED input

Next == Fuse \/ Rerank
Spec == Init /\ [][Next]_vars

(* "Ensure at least min_per_source items per qualifying source survive            *)
(* truncation": as long as the reserved places fit into the pool, every source   *)
(* with a relevant candidate keeps its best ones, however many better ones the  *)
(* other sources have; and the pool is as large as it may be.                  *)
SourcesRepresented ==
    output.at # "new" =>
        LET fused == Fused(input.streams)
            sources == {c.source : c \in fused}
            least(m, n) == IF m < n THEN m ELSE n
        IN /\ Cardinality(output.pool) = least(Cardinality(fused), PoolLimit)
           /\ Cardinality(sources) * MinPerSource <= PoolLimit =>
                 \A s \in sources : Fits(fused, s) =>
                     Cardinality(From(output.pool, s))
                        >= least(MinPerSource, Cardinality(From(fused, s)))

(* "Corpus titles/snippets must never enter a hosted reasoning prompt", also      *)
(* when a document of the corpus and a public item have one address and become  *)
(* one candidate.                                                          *)
CorpusStaysLocal ==
    output.at = "ranked" => \A t \in output.prompt \cup output.fun : t.source # Corpus

(* Streams complete in any order: the candidates, their scores and the sources    *)
(* behind them do not depend on it.                                         *)
OrderFree ==
    output.at = "new" =>
        LET evidence(streams) == {[url |-> c.url, score |-> c.score, fit |-> c.fit,
                                   items |-> {c.items[i] : i \in DOMAIN c.items}] :
                                  c \in Collect(streams)}
        IN evidence(input.streams) = evidence(<<input.streams[2], input.streams[1]>>)
=============================================================================
