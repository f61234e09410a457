------------------------------ MODULE Clusters ------------------------------
(***************************************************************************)
(* dedupe.dedupe_items and cluster.cluster_candidates: items that say the      *)
(* same are dropped, candidates that tell one story are put together.  Items   *)
(* and candidates are numbered best first; which pairs of them are alike is    *)
(* part of the input.                                                      *)
(***************************************************************************)
EXTENDS Naturals, FiniteSets, Leaders

CONSTANTS
    Size,           \* the number of candidates
    SourcePatterns, \* for each candidate the set of its sources
    Mergeable,      \* the largest cluster a merge considers
    MaxRepresentatives

ClustersAssumption == Size \in Nat /\ MaxRepresentatives \in Nat \ {0}

Candidate == 1..Size
Pair == {p \in SUBSET Candidate : Cardinality(p) = 2}

VARIABLES input, output
vars == <<input, output>>

(***************************************************************************)
(* dedupe_items: jobs are the same by address, the rest by text              *)
(***************************************************************************)
IsJob(q, i) == q.sources[i] = {"jobs"}
Alike(q) == {p \in Candidate \X Candidate : {p[1], p[2]} \in q.alike}
Duplicates(q) == {p \in Alike(q) : IsJob(q, p[1]) = IsJob(q, p[2])}
DedupeItems(q) == Kept(Candidate, Duplicates(q))

(***************************************************************************)
(* Greedy clusters around leaders                                          *)
(***************************************************************************)
Leading(q) == Kept(Candidate, Alike(q))
Leader(q) == Joined(Candidate, Alike(q))
Group(leader, l) == {i \in Candidate : leader[i] = l}

(***************************************************************************)
(* The second pass: small clusters that share their entities.  A cluster goes   *)
(* by its leader.                                                          *)
(***************************************************************************)
SourcesOf(q, S) == UNION {q.sources[i] : i \in S}
Small(S) == Cardinality(S) <= Mergeable
ShareEntities(q, S, T) == \E i \in S, j \in T : {i, j} \in q.entities
MayMerge(q, S, T) ==
    LET a == SourcesOf(q, S)
        b == SourcesOf(q, T)
    IN /\ Small(S) /\ Small(T)
       /\ ~(a = b /\ Cardinality(a) = 1)
       /\ ("polymarket" \in a) = ("polymarket" \in b)
       /\ ShareEntities(q, S, T)
Merging(q) ==
    LET leader == Leader(q)
    IN {p \in Leading(q) \X Leading(q) :
           p[1] < p[2] /\ MayMerge(q, Group(leader, p[1]), Group(leader, p[2]))}

(* Faulty variant: a cluster that went into another one still takes others in.   *)
MergedInChains(q) ==
    LET merging == Merging(q)
        fits(l) == {k \in Leading(q) : k = l \/ <<k, l>> \in merging}
    IN [l \in Leading(q) |-> CHOOSE k \in fits(l) : \A m \in fits(l) : k <= m]

(* The cluster each one goes into: the first one that is not merged itself.     *)
MergedInto(q) == Joined(Leading(q), Merging(q))

(***************************************************************************)
(* The stories of a report                                                 *)
(***************************************************************************)
(* The best of the cluster and then the least like those already taken: any      *)
(* that are in it, the best ones among them.                                 *)
Representatives(S) == {i \in S : Cardinality({j \in S : j < i}) < MaxRepresentatives}
Cluster(id, S) == [id |-> id, members |-> S, representatives |-> Representatives(S)]

Number(q, l) == Cardinality({k \in Leading(q) : k <= l})
MergeEntityClusters(q) ==
    LET leader == Leader(q)
        into == MergedInto(q)
    IN {Cluster(Number(q, l), {i \in Candidate : into[leader[i]] = l}) :
           l \in {k \in Leading(q) : into[k] = k}}

ClusterCandidates(q) ==
    IF q.clusterable THEN MergeEntityClusters(q) ELSE {Cluster(i, {i}) : i \in Candidate}

(***************************************************************************)
(* One report                                                              *)
(***************************************************************************)
Init ==
    /\ \E a \in SUBSET Pair, e \in SUBSET Pair, s \in SourcePatterns, c \in BOOLEAN :
          input = [alike |-> a, entities |-> e, sources |-> s, clusterable |-> c]
    /\ output = {}

Report ==
    /\ output = {}
    /\ output' = {[kept |-> DedupeItems(input), clusters |-> ClusterCandidates(input)]}
    /\ UNCHANGED input

Next == Report
Spec == Init /\ [][Next]_vars

(* Every candidate of the report is told in exactly one story, no two stories     *)
(* have one identifier, each is represented by its own candidates, the best one   *)
(* among them, and a prediction market shares a story with other sources only    *)
(* when their texts are alike, never by a merge.                             *)
OneStoryEach ==
    \A o \in output :
        /\ UNION {c.members : c \in o.clusters} = Candidate
        /\ \A c, d \in o.clusters : c # d => c.id # d.id /\ c.members \cap d.members = {}
        /\ \A c \in o.clusters :
              /\ c.representatives \subseteq c.members
              /\ \E i \in c.representatives : \A j \in c.members : i <= j
              /\ input.alike = {} =>
                    \A i, j \in c.members : ("polymarket" \in input.sources[i])
                                               = ("polymarket" \in input.sources[j])

(* What a source says several times is kept once, in its best form: whatever is   *)
(* dropped is like something better that is kept, nothing kept is like anything  *)
(* else kept, and distinct jobs that read alike are not taken for one.          *)
KeptOnce ==
    \A o \in output :
        /\ \A i \in Candidate \ o.kept : \E j \in o.kept : j < i /\ {j, i} \in input.alike
        /\ \A i, j \in o.kept : (i # j /\ IsJob(input, i) = IsJob(input, j))
                                  => {i, j} \notin input.alike
=============================================================================
