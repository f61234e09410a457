------------------------------- MODULE Drill -------------------------------
(***************************************************************************)
(* last30days.py --drill: one cluster of the cached report is researched        *)
(* again, and what is found is merged into that report.  Candidates are         *)
(* numbered best first; which of them read alike or have one address is part   *)
(* of the input, and so is what the second look found.                        *)
(***************************************************************************)
EXTENDS Naturals, FiniteSets, Leaders

CONSTANTS
    Size,       \* the number of candidates of both reports
    Stories     \* the number of clusters of the cached report, at most

DrillAssumption == Size \in Nat

Candidate == 1..Size
Pair == {p \in SUBSET Candidate : Cardinality(p) = 2}
Gone == 0       \* not in the cached report

VARIABLES input, output
vars == <<input, output>>

(* The cached report puts each of its candidates into one cluster; every cluster *)
(* has one.  The cache may be missing, stale or of a comparison.               *)
Cached == {c \in [Candidate -> 0..Stories] :
              \A i \in Candidate : \A k \in 1..c[i] : \E j \in Candidate : c[j] = k}
ClustersOf(c) == {c[i] : i \in Candidate} \ {Gone}

Init ==
    /\ \E c \in Cached, d \in SUBSET Candidate, a \in SUBSET Pair, t \in 0..Stories, f \in BOOLEAN :
          /\ \A i \in Candidate : c[i] = Gone => i \in d
          /\ ~f => a = {}
          /\ input = [cluster |-> c, found |-> d, alike |-> a, target |-> t, fresh |-> f]
    /\ output = {}

(* No cached report, or a target no cluster is like enough.                    *)
Refuse ==
    /\ ~input.fresh \/ input.target \notin ClustersOf(input.cluster)
    /\ output' = {[merged |-> FALSE]}

Old(q, k) == {i \in Candidate : q.cluster[i] = k}
Unrelated(q) == {i \in Candidate : q.cluster[i] \notin {Gone, q.target}}

(* A list of candidates is a set of places: what the drill found comes first, then *)
(* what the cluster had, and in the end the rest of the report.               *)
At(p) == IF p <= Size THEN p ELSE IF p <= 2 * Size THEN p - Size ELSE p - 2 * Size
Contending(q) == (q.found \ Unrelated(q)) \cup {Size + i : i \in Old(q, q.target)}
Rest(q) == {2 * Size + i : i \in Unrelated(q)}

(* One candidate, one address or one text.                                     *)
Duplicates(q) ==
    {p \in (1..(2 * Size)) \X (1..(2 * Size)) :
        At(p[1]) = At(p[2]) \/ {At(p[1]), At(p[2])} \in q.alike}

(* A find that belongs to another cluster is not offered: it stays there, refreshed. *)
Focused(q) == Kept(Contending(q), Duplicates(q))

MergeDrillReport(q) ==
    [merged |-> TRUE,
     clusters |-> [k \in ClustersOf(q.cluster) |->
                      IF k = q.target THEN {At(p) : p \in Focused(q)} ELSE Old(q, k)],
     refreshed |-> q.found \cap Unrelated(q),
     ranked |-> [p \in Focused(q) \cup Rest(q) |-> At(p)]]

Merge ==
    /\ input.fresh /\ input.target \in ClustersOf(input.cluster)
    /\ output' = {MergeDrillReport(input)}

Next == output = {} /\ (Refuse \/ Merge) /\ UNCHANGED input
Spec == Init /\ [][Next]_vars

(* "Merge a narrow follow-up into its cached report while preserving other       *)
(* clusters": whatever the drill finds, also in other clusters and twice, every  *)
(* ranked candidate is listed once and in exactly one cluster, the other clusters  *)
(* are as they were, and what the cluster had or the drill found is missing only   *)
(* when something like it is there.                                         *)
DrillKeeps ==
    \A o \in output : o.merged =>
        LET ranked == {o.ranked[p] : p \in DOMAIN o.ranked}
        IN /\ ranked = UNION {o.clusters[k] : k \in DOMAIN o.clusters}
           /\ \A p, r \in DOMAIN o.ranked : o.ranked[p] = o.ranked[r] => p = r
           /\ \A k, l \in DOMAIN o.clusters : k # l => o.clusters[k] \cap o.clusters[l] = {}
           /\ \A k \in DOMAIN o.clusters \ {input.target} : o.clusters[k] = Old(input, k)
           /\ \A i \in (Old(input, input.target) \cup input.found) \ ranked :
                 \E j \in o.clusters[input.target] : {i, j} \in input.alike
           /\ o.clusters[input.target] # {}
=============================================================================
