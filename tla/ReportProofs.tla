---------------------------- MODULE ReportProofs ----------------------------
(***************************************************************************)
(* Proofs about what the engine tells in its reports: the items of a source,  *)
(* the scores of a pool, the brief of a discovery, the verdicts of a           *)
(* verification, and the plan a run searches by.                            *)
(***************************************************************************)
EXTENDS Engine, FiniteSetTheorems, WellFoundedInduction, TLAPS

(* The engine never goes from one part to another.                              *)
LEMMA StaysPut == ASSUME [EngineNext]_engine PROVE part' = part
  BY DEF EngineNext, HttpStep, OnOne, engine

-----------------------------------------------------------------------------
(* The items of an answer.  A normalizer keeps the date of its record.                *)
LEMMA ItemDate ==
    ASSUME NEW r, NEW default
    PROVE  /\ Items!Item(r, default).date = r.date
           /\ Items!Addressed(Items!Item(r, default)).date = r.date
  BY DEF Items!Item, Items!Addressed

LEMMA SameDate ==
    ASSUME NEW s \in Items!SourceNames, NEW r
    PROVE  Items!Normalizer(s, r).date = r.date
  <1> USE ItemDate DEF Items!Normalizer, Items!Microblogs, Items!X, Items!Reddit, Items!Web, Items!Career
  <1>1. CASE s \in Items!Reddit
    BY <1>1 DEF Items!NormalizeReddit
  <1>2. CASE s \in Items!X
    BY <1>2 DEF Items!NormalizeX
  <1>3. CASE s = "youtube"
    BY <1>3 DEF Items!NormalizeYouTube
  <1>4. CASE s \in {"tiktok", "instagram"}
    BY <1>4 DEF Items!NormalizeShortformVideo
  <1>5. CASE s = "pinterest"
    BY <1>5 DEF Items!NormalizePinterest
  <1>6. CASE s = "hackernews"
    BY <1>6 DEF Items!NormalizeHackerNews
  <1>7. CASE s \in Items!Microblogs
    BY <1>7 DEF Items!NormalizeMicroblog
  <1>8. CASE s = "stocktwits"
    BY <1>8 DEF Items!NormalizeStockTwits
  <1>9. CASE s = "dripstack"
    BY <1>9 DEF Items!NormalizeDripStack
  <1>10. CASE s = "digg"
    BY <1>10 DEF Items!NormalizeDigg
  <1>11. CASE s = "arxiv"
    BY <1>11 DEF Items!NormalizeArxiv
  <1>12. CASE s = "techmeme"
    BY <1>12 DEF Items!NormalizeTechmeme
  <1>13. CASE s = "trustpilot"
    BY <1>13 DEF Items!NormalizeTrustpilot
  <1>14. CASE s = "polymarket"
    BY <1>14 DEF Items!NormalizePolymarket
  <1>15. CASE s = "github"
    BY <1>15 DEF Items!NormalizeGitHub
  <1>16. CASE s \in Items!Web
    BY <1>16 DEF Items!NormalizeGrounding
  <1>17. CASE s \in Items!Career
    BY <1>17 DEF Items!NormalizeJobs
  <1>18. CASE s = "linkedin"
    BY <1>18 DEF Items!NormalizeLinkedIn
  <1> QED
    BY <1>1, <1>2, <1>3, <1>4, <1>5, <1>6, <1>7, <1>8, <1>9, <1>10, <1>11, <1>12, <1>13,
       <1>14, <1>15, <1>16, <1>17, <1>18 DEF Items!SourceNames

(* What an adapter prefers, a record inside the window is among it.                   *)
LEMMA Preferred ==
    ASSUME NEW batch, NEW r \in batch, Items!Inside(r)
    PROVE  /\ r \in Items!PreferInside(batch)
           /\ r \in Items!PreferInRange(batch)
           /\ r \in Items!PreferRecent(batch)
  BY DEF Items!PreferInside, Items!PreferInRange, Items!PreferRecent, Items!InRange, Items!Inside

LEMMA AdaptedKeeps ==
    ASSUME NEW s, NEW batch, NEW r \in Items!Parsed(s, batch), Items!Inside(r)
    PROVE  r \in Items!Adapted(s, batch)
  BY Preferred DEF Items!Adapted

LEMMA NormalizeKeeps ==
    ASSUME NEW s \in Items!SourceNames, NEW batch, NEW r \in batch, Items!Inside(r), NEW evergreen
    PROVE  Items!Normalizer(s, r) \in Items!Normalize(s, batch, evergreen)
  <1>1. PICK normalized : normalized = {Items!Normalizer(s, q) : q \in batch}
    OBVIOUS
  <1>2. PICK filtered : filtered = Items!FilterByDateRange(normalized, s \in Items!Web)
    OBVIOUS
  <1>3. Items!Normalizer(s, r).date = "inside"
    BY SameDate DEF Items!Inside
  <1>4. Items!Normalizer(s, r) \in normalized
    BY <1>1
  <1>5. Items!Normalizer(s, r) \in filtered
    BY <1>2, <1>3, <1>4 DEF Items!FilterByDateRange, Items!Undated, Items!Inside
  <1> QED
    BY <1>1, <1>2, <1>4, <1>5, Zenon DEF Items!Normalize

LEMMA NormalizeDrops ==
    ASSUME NEW s, NEW batch, NEW evergreen,
           NEW items, items = Items!Normalize(s, batch, evergreen),
           NEW i \in items, i.date \in {"before", "after"}
    PROVE  \/ s \in Items!Career
           \/ s = "youtube" /\ evergreen /\ ~\E j \in items : Items!Inside(j)
  <1>1. PICK normalized : normalized = {Items!Normalizer(s, q) : q \in batch}
    OBVIOUS
  <1>2. PICK filtered : filtered = Items!FilterByDateRange(normalized, s \in Items!Web)
    OBVIOUS
  <1>3. items = IF s \in Items!Career THEN normalized
                ELSE IF filtered = {} /\ evergreen /\ s = "youtube" THEN normalized ELSE filtered
    BY <1>1, <1>2, Zenon DEF Items!Normalize
  <1>4. i \notin filtered
    BY <1>2 DEF Items!FilterByDateRange, Items!Undated, Items!Inside
  <1>5. \A j \in normalized : Items!Inside(j) => j \in filtered
    BY <1>2 DEF Items!FilterByDateRange, Items!Undated, Items!Inside
  <1> QED
    BY <1>3, <1>4, <1>5

ItemsInv ==
    /\ input.source \in Items!SourceNames /\ input.batch \subseteq Items!Raw
    /\ \A items \in output :
           items = Items!Normalize(input.source, Items!Adapted(input.source, input.batch), input.evergreen)

LEMMA ItemsStart == ASSUME Items!Init PROVE ItemsInv
  <1>1. PICK s \in Feeds, e \in BOOLEAN : \E batch \in Items!Batches(s) :
            input = [source |-> s, batch |-> batch, evergreen |-> e]
    BY DEF Items!Init
  <1>2. PICK batch \in Items!Batches(s) : input = [source |-> s, batch |-> batch, evergreen |-> e]
    BY <1>1
  <1>3. batch \subseteq Items!Raw
    <2>1. PICK n : n = IF s = "youtube" THEN VideoBatchSize ELSE BatchSize
      OBVIOUS
    <2>2. batch \in {{b[i] : i \in 1..n} : b \in [1..n -> Items!Raw]}
      BY <2>1, Zenon DEF Items!Batches
    <2>3. PICK b \in [1..n -> Items!Raw] : batch = {b[i] : i \in 1..n}
      BY <2>2, Zenon
    <2> QED
      BY <2>3
  <1>4. s \in Items!SourceNames
    BY FeedsAssumption DEF Items!FeedsAssumption
  <1>5. output = {}
    BY DEF Items!Init
  <1>6. input.source = s /\ input.batch = batch
    BY <1>2
  <1> QED
    BY <1>3, <1>4, <1>5, <1>6 DEF ItemsInv

LEMMA ItemsStep ==
    ASSUME ItemsInv, Items!Next \/ UNCHANGED <<input, output>>
    PROVE  ItemsInv'
  <1>1. CASE UNCHANGED <<input, output>>
    BY <1>1 DEF ItemsInv
  <1>2. CASE Items!Next
    <2>1. /\ input' = input
          /\ output' = {Items!Normalize(input.source, Items!Adapted(input.source, input.batch),
                                        input.evergreen)}
      BY <1>2 DEF Items!Next, Items!Ingest
    <2>2. \A items \in output' :
              items = Items!Normalize(input.source, Items!Adapted(input.source, input.batch),
                                      input.evergreen)
      BY <2>1
    <2> QED
      BY <2>1, <2>2 DEF ItemsInv
  <1> QED
    BY <1>1, <1>2

LEMMA ItemsSurvive == ASSUME ItemsInv PROVE Items!InsideSurvives
  <1> SUFFICES ASSUME NEW items \in output, NEW r \in input.batch, Items!Inside(r),
                      Items!Keeps(input.source, r), Items!ParsedDate(input.source, r) = "inside"
               PROVE  Items!Normalizer(input.source, r) \in items
    BY DEF Items!InsideSurvives
  <1>1. r \in Items!Raw /\ r.date = "inside"
    BY DEF ItemsInv, Items!Inside
  <1>2. [r EXCEPT !.date = "inside"] = r
    BY <1>1 DEF Items!Raw
  <1>3. r \in Items!Parsed(input.source, input.batch)
    BY <1>2 DEF Items!Parsed
  <1>4. r \in Items!Adapted(input.source, input.batch)
    BY <1>3, AdaptedKeeps
  <1> QED
    BY <1>4, NormalizeKeeps, Zenon DEF ItemsInv

LEMMA ItemsOutside == ASSUME ItemsInv PROVE Items!OutsideOnlyAsLastResort
  <1> SUFFICES ASSUME NEW items \in output, NEW i \in items, i.date \in {"before", "after"}
               PROVE  \/ input.source \in Items!Career
                      \/ /\ input.source = "youtube" /\ input.evergreen
                         /\ ~\E j \in items : Items!Inside(j)
    BY Zenon DEF Items!OutsideOnlyAsLastResort
  <1>1. items = Items!Normalize(input.source, Items!Adapted(input.source, input.batch), input.evergreen)
    BY DEF ItemsInv
  <1> QED
    BY <1>1, NormalizeDrops, Zenon

-----------------------------------------------------------------------------
(* The scores of a pool.                                                             *)
KindRow(k) == k.local \in Int /\ k.other \in Nat /\ k.engagement \in Nat
PoolInv ==
    /\ \A c \in Reranking!Candidate : KindRow(Reranking!Of(c))
    /\ \A c \in DOMAIN input.rows : input.rows[c].relevance \in Int
RerankInv ==
    /\ PoolInv
    /\ output.end = "returned" =>
           /\ \A c \in Reranking!Candidate : output.scores[c] = Reranking!Floored(c)
           /\ output.tagged = {c \in Reranking!Candidate :
                                   Reranking!FirstParty(c) /\ Reranking!Of(c).addresses}

LEMMA ScoredInt ==
    ASSUME PoolInv, NEW c \in Reranking!Candidate
    PROVE  Reranking!Scored(c).rerank \in 0..100
  <1>1. Reranking!Of(c).local \in Int
    BY DEF PoolInv, KindRow
  <1>2. \A n \in Int : Reranking!Clamp(n) \in 0..100
    BY DEF Reranking!Clamp
  <1>3. \A checked : Reranking!FallbackScore(c, checked).rerank \in 0..100
    BY <1>1, <1>2 DEF Reranking!FallbackScore, Reranking!FIRST_PARTY_AUTHOR_CREDIT,
       Reranking!ENTITY_MISS_PENALTY
  <1>4. Reranking!LlmScore(c).rerank \in 0..100
    BY <1>2, <1>3 DEF PoolInv, Reranking!LlmScore
  <1> QED
    BY <1>3, <1>4 DEF Reranking!Scored

(* The final score, of the score, the merits and the mark.                            *)
Base(rerank, other, engagement) ==
    60 * rerank + 100 * other + 5 * (IF 6 * engagement > 100 THEN 100 ELSE 6 * engagement)
Kept(rerank, base) == IF rerank < 20 THEN (3 * base) \div 10 ELSE base
Final(kept, marked) == IF marked THEN Reranking!Larger(0, kept - 2000) ELSE kept

LEMMA BaseNat ==
    ASSUME NEW r \in 0..100, NEW o \in Nat, NEW e \in Nat
    PROVE  Base(r, o, e) \in Nat
  BY DEF Base
LEMMA KeptNat ==
    ASSUME NEW r \in 0..100, NEW b \in Nat
    PROVE  Kept(r, b) \in Nat
  BY DEF Kept
LEMMA Monotonic ==
    ASSUME NEW r \in 0..100, NEW q \in 0..100, r <= q, NEW o \in Nat, NEW p \in Nat, o <= p,
           NEW e \in Nat, NEW f \in Nat, e <= f
    PROVE  Kept(r, Base(r, o, e)) <= Kept(q, Base(q, p, f))
  <1>1. PICK a \in Nat : a = Base(r, o, e)
    BY BaseNat
  <1>2. PICK b \in Nat : b = Base(q, p, f)
    BY BaseNat
  <1>3. a <= b
    BY <1>1, <1>2 DEF Base
  <1>4. Kept(r, a) <= Kept(q, b)
    BY <1>3 DEF Kept
  <1> QED
    BY <1>1, <1>2, <1>4

LEMMA FinalIs ==
    ASSUME PoolInv, NEW c \in Reranking!Candidate
    PROVE  /\ Reranking!FinalScore(c) =
                  Final(Kept(Reranking!Scored(c).rerank,
                             Base(Reranking!Scored(c).rerank, Reranking!Of(c).other, Reranking!Of(c).engagement)),
                        Reranking!Scored(c).marked)
           /\ Reranking!FinalScore(c) \in Nat
  <1>1. Reranking!FinalScore(c) =
            Final(Kept(Reranking!Scored(c).rerank,
                       Base(Reranking!Scored(c).rerank, Reranking!Of(c).other, Reranking!Of(c).engagement)),
                  Reranking!Scored(c).marked)
    BY Zenon DEF Reranking!FinalScore, Final, Kept, Base, Reranking!ENTITY_MISS_FINAL_PENALTY
  <1>2. PICK k \in Nat :
            k = Kept(Reranking!Scored(c).rerank,
                     Base(Reranking!Scored(c).rerank, Reranking!Of(c).other, Reranking!Of(c).engagement))
    BY ScoredInt, BaseNat, KeptNat DEF PoolInv, KindRow
  <1>3. \A m : Final(k, m) \in Nat
    BY DEF Final, Reranking!Larger
  <1> QED
    BY <1>1, <1>2, <1>3

LEMMA Lifted ==
    ASSUME NEW a \in Int, NEW b \in Int
    PROVE  Reranking!Larger(a, b) \in Int /\ Reranking!Larger(a, b) >= a /\ Reranking!Larger(a, b) >= b
  BY DEF Reranking!Larger

LEMMA Shares ==
    /\ IsFiniteSet(Reranking!FromX)
    /\ Reranking!Cardinality(Reranking!FromX) = Cardinality(Reranking!FromX)
    /\ Cardinality(Reranking!FromX) \in Nat
    /\ \A c : Reranking!Below(c) =
                  Cardinality({d \in Reranking!FromX : Reranking!Of(d).engagement < Reranking!Of(c).engagement})
    /\ \A c : Reranking!Below(c) \in Nat
  <1>1. IsFiniteSet(Reranking!Candidate)
    BY FS_Interval, RerankAssumption DEF Reranking!RerankAssumption, Reranking!Candidate
  <1>2. Reranking!FromX \subseteq Reranking!Candidate
    BY DEF Reranking!FromX
  <1>3. IsFiniteSet(Reranking!FromX) /\ Cardinality(Reranking!FromX) \in Nat
    BY <1>1, <1>2, FS_Subset, FS_CardinalityType
  <1>4. \A S : Reranking!Cardinality(S) = Cardinality(S)
    BY DEF Reranking!Cardinality, Cardinality
  <1>5. \A c : Reranking!Below(c) =
            Cardinality({d \in Reranking!FromX : Reranking!Of(d).engagement < Reranking!Of(c).engagement})
    BY <1>4 DEF Reranking!Below
  <1>6. ASSUME NEW c PROVE Reranking!Below(c) \in Nat
    <2>1. PICK S : S = {d \in Reranking!FromX : Reranking!Of(d).engagement < Reranking!Of(c).engagement}
      OBVIOUS
    <2>2. S \subseteq Reranking!FromX
      BY <2>1
    <2>3. Cardinality(S) \in Nat
      BY <1>3, <2>2, FS_Subset, FS_CardinalityType
    <2> QED
      BY <1>5, <2>1, <2>3
  <1> QED
    BY <1>3, <1>4, <1>5, <1>6

LEMMA Divided == ASSUME NEW n \in Nat, n > 0 PROVE (n * 4000) \div n = 4000
  OBVIOUS

LEMMA DividedInt == ASSUME NEW m \in Int, NEW n \in Nat, n > 0 PROVE m \div n \in Int
  OBVIOUS

LEMMA RescueInt ==
    ASSUME NEW c, Cardinality(Reranking!FromX) > 1
    PROVE  Reranking!RescueFloor(c) \in Int
  <1>1. PICK rest \in Nat : rest = Reranking!Cardinality(Reranking!FromX) - 1 /\ rest > 0
    BY Shares
  <1>2. PICK b \in Nat : b = Reranking!Below(c)
    BY Shares
  <1>3. PICK m \in Int : m = (2 * b - rest) * 4000
    OBVIOUS
  <1>4. m \div rest \in Int
    BY <1>1, DividedInt
  <1>5. Reranking!RescueFloor(c) = IF 2 * b <= rest THEN 0 ELSE m \div rest
    BY <1>1, <1>2, <1>3 DEF Reranking!RescueFloor, Reranking!RESCUE_FLOOR_MAX
  <1> QED
    BY <1>4, <1>5

(* The post that leads X is lifted to the top.                                      *)
LEMMA RescueTop ==
    ASSUME NEW c \in Reranking!FromX, Cardinality(Reranking!FromX) > 1, PoolInv,
           \A d \in Reranking!FromX \ {c} : Reranking!Of(d).engagement < Reranking!Of(c).engagement
    PROVE  Reranking!RescueFloor(c) = 4000
  <1>1. PICK rest \in Nat : rest = Reranking!Cardinality(Reranking!FromX) - 1 /\ rest > 0
    BY Shares
  <1>2. Reranking!Of(c).engagement \in Nat
    BY DEF Reranking!FromX, PoolInv, KindRow
  <1>3. PICK S : S = {d \in Reranking!FromX : Reranking!Of(d).engagement < Reranking!Of(c).engagement}
    OBVIOUS
  <1>4. S = Reranking!FromX \ {c}
    BY <1>2, <1>3
  <1>5. Cardinality(S) = rest
    BY <1>1, <1>4, Shares, FS_RemoveElement
  <1>6. Reranking!Below(c) = rest
    BY <1>3, <1>5, Shares
  <1>7. ~(2 * rest <= rest) /\ 2 * rest - rest = rest
    BY <1>1
  <1>8. Reranking!RescueFloor(c) = (rest * 4000) \div rest
    BY <1>1, <1>6, <1>7 DEF Reranking!RescueFloor, Reranking!RESCUE_FLOOR_MAX
  <1> QED
    BY <1>1, <1>8, Divided

LEMMA Visible == ASSUME RerankInv PROVE Reranking!SubjectVisible
  <1> SUFFICES ASSUME output.end = "returned", NEW c \in Reranking!Candidate
               PROVE  /\ Reranking!FirstParty(c) => output.scores[c] >= 2500
                      /\ c \in output.tagged => output.scores[c] >= 3500
                      /\ c \in Reranking!FromX /\ (Reranking!FirstParty(c) \/ Reranking!Grounded(c))
                         /\ Cardinality(Reranking!FromX) > 1
                         /\ (\A d \in Reranking!FromX \ {c} :
                                Reranking!Of(d).engagement < Reranking!Of(c).engagement)
                         => output.scores[c] >= 4000
    <2>1. Reranking!Cardinality(Reranking!FromX) = Cardinality(Reranking!FromX)
      BY Shares
    <2> QED
      BY <2>1 DEF Reranking!SubjectVisible, Reranking!Returned, Reranking!FIRST_PARTY_FLOOR,
         Reranking!INTERACTION_FLOOR, Reranking!RESCUE_FLOOR_MAX
  <1>1. PICK f \in Int : f = Reranking!FirstPartyFloor(c, Reranking!FinalScore(c))
                         /\ (Reranking!FirstParty(c) => f >= 2500)
    <2>1. PICK g : g = Reranking!FinalScore(c)
      OBVIOUS
    <2>2. g \in Int
      BY <2>1, FinalIs DEF RerankInv
    <2>3. Reranking!Larger(g, 2500) \in Int /\ Reranking!Larger(g, 2500) >= 2500
      BY <2>2, Lifted
    <2>4. PICK f : f = Reranking!FirstPartyFloor(c, g)
      OBVIOUS
    <2>5. ASSUME Reranking!FirstParty(c) PROVE f = Reranking!Larger(g, 2500)
      BY <2>4, <2>5 DEF Reranking!FirstPartyFloor, Reranking!FIRST_PARTY_FLOOR
    <2>6. ASSUME ~Reranking!FirstParty(c) PROVE f = g
      BY <2>4, <2>6 DEF Reranking!FirstPartyFloor
    <2>7. f \in Int /\ (Reranking!FirstParty(c) => f >= 2500)
      BY <2>2, <2>3, <2>5, <2>6
    <2>8. f = Reranking!FirstPartyFloor(c, Reranking!FinalScore(c))
      BY <2>1, <2>4
    <2> QED
      BY <2>7, <2>8
  <1>2. PICK e \in Int : /\ e = Reranking!EngagementRescue(c, f) /\ e >= f
                         /\ /\ Cardinality(Reranking!FromX) > 1 /\ c \in Reranking!FromX
                            /\ Reranking!FirstParty(c) \/ Reranking!Grounded(c)
                            => e >= Reranking!RescueFloor(c)
    <2>1. CASE /\ Cardinality(Reranking!FromX) > 1 /\ c \in Reranking!FromX
               /\ Reranking!FirstParty(c) \/ Reranking!Grounded(c)
      <3>1. Reranking!EngagementRescue(c, f) = Reranking!Larger(f, Reranking!RescueFloor(c))
        BY <2>1, Shares DEF Reranking!EngagementRescue
      <3> QED
        BY <2>1, <3>1, RescueInt, Lifted
    <2>2. CASE ~(/\ Cardinality(Reranking!FromX) > 1 /\ c \in Reranking!FromX
                 /\ Reranking!FirstParty(c) \/ Reranking!Grounded(c))
      <3>1. Reranking!EngagementRescue(c, f) = f
        BY <2>2, Shares DEF Reranking!EngagementRescue
      <3> QED
        BY <2>2, <3>1
    <2> QED
      BY <2>1, <2>2
  <1>3. PICK i \in Int : /\ i = Reranking!InteractionSignal(c, e) /\ i >= e
                         /\ (Reranking!FirstParty(c) /\ Reranking!Of(c).addresses => i >= 3500)
    <2>1. PICK h \in Int : h = Reranking!Larger(e, 3500) /\ h >= e /\ h >= 3500
      BY Lifted
    <2>2. Reranking!InteractionSignal(c, e) =
              IF Reranking!FirstParty(c) /\ Reranking!Of(c).addresses THEN h ELSE e
      BY <2>1 DEF Reranking!InteractionSignal, Reranking!INTERACTION_FLOOR
    <2> QED
      BY <2>1, <2>2
  <1>4. output.scores[c] = i
    BY <1>1, <1>2, <1>3 DEF RerankInv, Reranking!Floored
  <1>5. c \in output.tagged => i >= 3500
    BY <1>3 DEF RerankInv
  <1>6. ASSUME c \in Reranking!FromX, Reranking!FirstParty(c) \/ Reranking!Grounded(c),
               Cardinality(Reranking!FromX) > 1,
               \A d \in Reranking!FromX \ {c} : Reranking!Of(d).engagement < Reranking!Of(c).engagement
        PROVE  i >= 4000
    BY <1>2, <1>3, <1>6, RescueTop DEF RerankInv
  <1> QED
    BY <1>1, <1>2, <1>3, <1>4, <1>5, <1>6

LEMMA NoiseFinal ==
    ASSUME RerankInv, NEW c \in Reranking!Candidate, Reranking!Noise(c)
    PROVE  Reranking!Floored(c) = Reranking!FinalScore(c)
  <1>1. ~Reranking!FirstParty(c) /\ ~Reranking!Grounded(c)
    BY DEF Reranking!Noise, Reranking!Missed, Reranking!Grounded
  <1> QED
    BY <1>1 DEF Reranking!Floored, Reranking!InteractionSignal, Reranking!EngagementRescue,
       Reranking!FirstPartyFloor

LEMMA FlooredAbove ==
    ASSUME RerankInv, NEW c \in Reranking!Candidate
    PROVE  Reranking!Floored(c) \in Int /\ Reranking!Floored(c) >= Reranking!FinalScore(c)
  <1>1. PICK g \in Int : g = Reranking!FinalScore(c)
    BY FinalIs DEF RerankInv
  <1>2. PICK f \in Int : f = Reranking!FirstPartyFloor(c, g) /\ f >= g
    BY Lifted DEF Reranking!FirstPartyFloor, Reranking!FIRST_PARTY_FLOOR
  <1>3. PICK e \in Int : e = Reranking!EngagementRescue(c, f) /\ e >= f
    <2>1. CASE Reranking!Cardinality(Reranking!FromX) >= 2
      <3>1. Reranking!RescueFloor(c) \in Int
        BY <2>1, Shares, RescueInt
      <3>2. PICK h \in Int : h = Reranking!Larger(f, Reranking!RescueFloor(c)) /\ h >= f
        BY <3>1, Lifted
      <3>3. Reranking!EngagementRescue(c, f) \in {h, f}
        BY <3>2 DEF Reranking!EngagementRescue
      <3> QED
        BY <3>2, <3>3
    <2>2. CASE ~(Reranking!Cardinality(Reranking!FromX) >= 2)
      BY <2>2 DEF Reranking!EngagementRescue
    <2> QED
      BY <2>1, <2>2
  <1>4. PICK i \in Int : i = Reranking!InteractionSignal(c, e) /\ i >= e
    BY Lifted DEF Reranking!InteractionSignal, Reranking!INTERACTION_FLOOR
  <1> QED
    BY <1>1, <1>2, <1>3, <1>4 DEF Reranking!Floored

LEMMA Buried == ASSUME RerankInv PROVE Reranking!NoiseBuried
  <1> SUFFICES ASSUME output.end = "returned", NEW c \in Reranking!Candidate, Reranking!Noise(c)
               PROVE  /\ output.scores[c] <= Reranking!FinalScore(c)
                      /\ input.llm # "rates" =>
                            \A d \in Reranking!Candidate : ~Reranking!Missed(d) /\ Reranking!AsGood(d, c) =>
                                output.scores[d] > output.scores[c] \/ output.scores[c] = 0
    BY Zenon DEF Reranking!NoiseBuried, Reranking!Returned
  <1>1. output.scores[c] = Reranking!FinalScore(c) /\ Reranking!FinalScore(c) \in Nat
    BY NoiseFinal, FinalIs DEF RerankInv
  <1>2. ASSUME input.llm # "rates", NEW d \in Reranking!Candidate, ~Reranking!Missed(d),
               Reranking!AsGood(d, c)
        PROVE  output.scores[d] > output.scores[c] \/ output.scores[c] = 0
    <2>1. PICK o \in Nat, p \in Nat, e \in Nat, f \in Nat, m \in Int, n \in Int :
              /\ o = Reranking!Of(c).other /\ p = Reranking!Of(d).other /\ o <= p
              /\ e = Reranking!Of(c).engagement /\ f = Reranking!Of(d).engagement /\ e <= f
              /\ m = Reranking!Of(c).local /\ n = Reranking!Of(d).local /\ m <= n
      BY <1>2 DEF RerankInv, PoolInv, KindRow, Reranking!AsGood
    <2>2. PICK r \in 0..100, q \in 0..100 :
              r = Reranking!Scored(c).rerank /\ q = Reranking!Scored(d).rerank
      BY ScoredInt DEF RerankInv
    <2>3. r = Reranking!Clamp(m - 25) /\ Reranking!Scored(c).marked = TRUE
      BY <1>2, <2>1, <2>2 DEF Reranking!Scored, Reranking!FallbackScore, Reranking!Noise,
         Reranking!ENTITY_MISS_PENALTY
    <2>4. q \in {Reranking!Clamp(n), Reranking!Clamp(n + 5)} /\ Reranking!Scored(d).marked = FALSE
      BY <1>2, <2>1, <2>2 DEF Reranking!Scored, Reranking!FallbackScore,
         Reranking!FIRST_PARTY_AUTHOR_CREDIT
    <2>5. r <= q
      BY <2>1, <2>3, <2>4 DEF Reranking!Clamp
    <2>6. PICK a \in Nat, b \in Nat : a = Kept(r, Base(r, o, e)) /\ b = Kept(q, Base(q, p, f)) /\ a <= b
      <3>1. Base(r, o, e) \in Nat /\ Base(q, p, f) \in Nat
        BY BaseNat
      <3>2. Kept(r, Base(r, o, e)) \in Nat /\ Kept(q, Base(q, p, f)) \in Nat
        BY <3>1, KeptNat
      <3>3. Kept(r, Base(r, o, e)) <= Kept(q, Base(q, p, f))
        BY <2>1, <2>5, Monotonic
      <3> QED
        BY <3>2, <3>3
    <2>7. Reranking!FinalScore(c) = Final(a, TRUE) /\ Reranking!FinalScore(d) = Final(b, FALSE)
      BY <2>1, <2>2, <2>3, <2>4, <2>6, FinalIs DEF RerankInv
    <2>8. Final(b, FALSE) > Final(a, TRUE) \/ Final(a, TRUE) = 0
      BY <2>6 DEF Final, Reranking!Larger
    <2>9. output.scores[d] \in Int /\ output.scores[d] >= Reranking!FinalScore(d)
      BY FlooredAbove DEF RerankInv
    <2>10. Reranking!FinalScore(d) \in Nat
      BY FinalIs DEF RerankInv
    <2>11. PICK x \in Nat, y \in Nat : x = Reranking!FinalScore(d) /\ y = Reranking!FinalScore(c)
      BY <1>1, <2>10
    <2>12. x > y \/ y = 0
      BY <2>7, <2>8, <2>11
    <2> QED
      BY <1>1, <2>9, <2>11, <2>12
  <1> QED
    BY <1>1, <1>2

LEMMA PoolStays ==
    ASSUME input' = input
    PROVE  /\ \A c : Reranking!Of(c)' = Reranking!Of(c)
           /\ \A c : Reranking!Floored(c)' = Reranking!Floored(c)
           /\ \A c : Reranking!FirstParty(c)' <=> Reranking!FirstParty(c)
  <1>1. \A c : Reranking!Of(c)' = Reranking!Of(c)
    BY DEF Reranking!Of
  <1>2. \A c : Reranking!FirstParty(c)' <=> Reranking!FirstParty(c)
    BY <1>1 DEF Reranking!FirstParty
  <1>3. \A c : (Reranking!Missed(c)' <=> Reranking!Missed(c)) /\ (Reranking!Grounded(c)' <=> Reranking!Grounded(c))
    BY <1>1 DEF Reranking!Missed, Reranking!Grounded
  <1>4. \A c, k : Reranking!FallbackScore(c, k)' = Reranking!FallbackScore(c, k)
    BY <1>1, <1>2, <1>3 DEF Reranking!FallbackScore
  <1>5. \A c : Reranking!Scored(c)' = Reranking!Scored(c)
    BY <1>4 DEF Reranking!Scored, Reranking!LlmScore
  <1>6. \A c : Reranking!FinalScore(c)' = Reranking!FinalScore(c)
    BY <1>1, <1>5 DEF Reranking!FinalScore
  <1>7. Reranking!FromX' = Reranking!FromX
    BY <1>1 DEF Reranking!FromX
  <1>8. \A c : Reranking!Below(c)' = Reranking!Below(c)
    BY <1>1, <1>7 DEF Reranking!Below
  <1>9. \A c : Reranking!RescueFloor(c)' = Reranking!RescueFloor(c)
    BY <1>7, <1>8 DEF Reranking!RescueFloor
  <1>10. \A c, s : Reranking!EngagementRescue(c, s)' = Reranking!EngagementRescue(c, s)
    BY <1>2, <1>3, <1>7, <1>9 DEF Reranking!EngagementRescue
  <1>11. \A c, s : Reranking!FirstPartyFloor(c, s)' = Reranking!FirstPartyFloor(c, s)
    BY <1>2 DEF Reranking!FirstPartyFloor
  <1>12. \A c, s : Reranking!InteractionSignal(c, s)' = Reranking!InteractionSignal(c, s)
    BY <1>1, <1>2 DEF Reranking!InteractionSignal
  <1>13. \A c : Reranking!Floored(c)' = Reranking!Floored(c)
    BY <1>6, <1>10, <1>11, <1>12 DEF Reranking!Floored
  <1> QED
    BY <1>1, <1>2, <1>13

LEMMA RerankStarts == ASSUME Reranking!Init PROVE RerankInv
  <1>1. PICK llm \in Reranking!Silent \cup {"rates"} :
            \E rows \in IF llm = "rates" THEN Reranking!Rows(Shortlist) ELSE Reranking!Rows(0) :
                input \in [pool : [Reranking!Candidate -> Kinds], entity : BOOLEAN, handles : BOOLEAN,
                           llm : {llm}, rows : {rows}]
    BY Zenon DEF Reranking!Init
  <1>a. PICK n : \E rows \in Reranking!Rows(n) :
            input \in [pool : [Reranking!Candidate -> Kinds], entity : BOOLEAN, handles : BOOLEAN,
                       llm : {llm}, rows : {rows}]
    BY <1>1
  <1>2. PICK rows \in Reranking!Rows(n) :
            input \in [pool : [Reranking!Candidate -> Kinds], entity : BOOLEAN, handles : BOOLEAN,
                       llm : {llm}, rows : {rows}]
    BY <1>a
  <1>3. input.pool \in [Reranking!Candidate -> Kinds] /\ input.rows = rows
    BY <1>2
  <1>4. PICK rated : rows \in [rated -> Reranking!Row]
    BY DEF Reranking!Rows
  <1>5. \A c \in DOMAIN rows : rows[c].relevance \in Relevances
    BY <1>4 DEF Reranking!Row
  <1>6. \A c \in Reranking!Candidate : KindRow(Reranking!Of(c))
    BY <1>3, RerankAssumption DEF Reranking!RerankAssumption, KindRow, Reranking!Of
  <1>7. PoolInv
    BY <1>3, <1>5, <1>6, RerankAssumption DEF Reranking!RerankAssumption, PoolInv
  <1>8. output.end = "none"
    BY DEF Reranking!Init
  <1> QED
    BY <1>7, <1>8 DEF RerankInv

LEMMA RerankSteps ==
    ASSUME RerankInv, Reranking!Next \/ UNCHANGED <<input, output>>
    PROVE  RerankInv'
  <1>1. input' = input
    BY DEF Reranking!Next, Reranking!RerankRaises, Reranking!RerankCandidates
  <1>2. PoolInv'
    BY <1>1, PoolStays DEF RerankInv, PoolInv, Reranking!Candidate
  <1>3. (output.end = "returned" =>
             /\ \A c \in Reranking!Candidate : output.scores[c] = Reranking!Floored(c)
             /\ output.tagged = {c \in Reranking!Candidate :
                                     Reranking!FirstParty(c) /\ Reranking!Of(c).addresses})'
    <2>1. CASE UNCHANGED <<input, output>>
      BY <1>1, <2>1, PoolStays DEF RerankInv, Reranking!Candidate
    <2>2. CASE Reranking!RerankRaises
      BY <2>2 DEF Reranking!RerankRaises
    <2>3. CASE Reranking!RerankCandidates
      <3>1. PICK scores : scores = [c \in Reranking!Candidate |-> Reranking!Floored(c)]
        OBVIOUS
      <3>2. PICK tagged : tagged = {c \in Reranking!Candidate :
                                        Reranking!FirstParty(c) /\ Reranking!Of(c).addresses}
        OBVIOUS
      <3>3. output' = [end |-> "returned", scores |-> scores, tagged |-> tagged]
        BY <2>3, <3>1, <3>2, Zenon DEF Reranking!RerankCandidates
      <3>4. output'.scores = scores /\ output'.tagged = tagged
        BY <3>3
      <3>5. \A c \in Reranking!Candidate : scores[c] = Reranking!Floored(c)'
        BY <1>1, <3>1, PoolStays
      <3>6. tagged = {c \in Reranking!Candidate :
                          Reranking!FirstParty(c)' /\ Reranking!Of(c)'.addresses}
        BY <1>1, <3>2, PoolStays
      <3> QED
        BY <3>4, <3>5, <3>6 DEF Reranking!Candidate
    <2> QED
      BY <2>1, <2>2, <2>3 DEF Reranking!Next
  <1> QED
    BY <1>2, <1>3 DEF RerankInv

(* Whatever a source answers, and however much of it: a record inside the window is an     *)
(* item of the run, and one outside of it only as the last resort.  Whatever the model      *)
(* answers, in a pool of any size: posts of the subject keep their floors, noise stays below. *)
THEOREM ItemsStayFair == EngineSpec => []ItemsFair
  <1> DEFINE Inv == (part = "items" => ItemsInv) /\ (part = "rerank" => RerankInv)
  <1>1. EngineInit => Inv
    BY ItemsStart, RerankStarts DEF EngineInit
  <1>2. Inv /\ [EngineNext]_engine => Inv'
    <2> SUFFICES ASSUME Inv, [EngineNext]_engine
                 PROVE  (part' = "items" => ItemsInv') /\ (part' = "rerank" => RerankInv')
      OBVIOUS
    <2>1. part' = part
      BY StaysPut
    <2>2. CASE part = "items"
      <3>1. Items!Next \/ UNCHANGED <<input, output>>
        BY <2>2 DEF EngineNext, HttpStep, OnOne, engine
      <3> QED
        BY <2>1, <2>2, <3>1, ItemsStep
    <2>3. CASE part = "rerank"
      <3>1. Reranking!Next \/ UNCHANGED <<input, output>>
        BY <2>3 DEF EngineNext, HttpStep, OnOne, engine
      <3> QED
        BY <2>1, <2>3, <3>1, RerankSteps
    <2> QED
      BY <2>1, <2>2, <2>3
  <1>3. Inv => ItemsFair
    BY ItemsSurvive, ItemsOutside, Visible, Buried DEF ItemsFair
  <1> QED
    BY <1>1, <1>2, <1>3, PTL DEF EngineSpec

-----------------------------------------------------------------------------
(* Every set of natural numbers that is not empty has a least one: proofs by          *)
(* induction go by the least counterexample.                                      *)
LEMMA LeastOf == ASSUME NEW S, S \subseteq Nat, S # {} PROVE \E x \in S : \A y \in S : x <= y
  <1>1. PICK R : R = {ss \in Nat \X Nat : ss[1] < ss[2]}
    OBVIOUS
  <1>2. IsWellFoundedOn(R, Nat)
    BY <1>1, NatLessThanWellFounded, Zenon DEF OpToRel
  <1>3. PICK x \in S : \A y \in S : ~(<<y, x>> \in R)
    BY <1>2, WFMin
  <1>4. \A y \in S : ~(y < x)
    <2> TAKE y \in S
    <2>1. CASE y < x
      <3>1. <<y, x>> \in R
        BY <1>1, <2>1
      <3> QED
        BY <1>3, <3>1
    <2> QED
      BY <2>1
  <1>5. \A y \in S : x <= y
    BY <1>4
  <1> QED
    BY <1>5

LEMMA SetInduction ==
    ASSUME NEW T, 0 \in T, \A k \in Nat : k \in T => k + 1 \in T
    PROVE  \A k \in Nat : k \in T
  <1>1. PICK S : S = {k \in Nat : k \notin T}
    OBVIOUS
  <1>2. CASE S = {}
    BY <1>1, <1>2
  <1>3. CASE S # {}
    <2>1. S \subseteq Nat
      BY <1>1
    <2>2. PICK m \in S : \A k \in S : m <= k
      BY <1>3, <2>1, LeastOf
    <2>3. m \in Nat /\ m \notin T /\ m # 0
      BY <1>1
    <2>4. m - 1 \in Nat /\ ~(m <= m - 1) /\ (m - 1) + 1 = m
      BY <2>3
    <2>5. m - 1 \notin S
      BY <2>2, <2>4
    <2>6. m - 1 \in T
      BY <1>1, <2>4, <2>5
    <2>7. (m - 1) + 1 \in T
      BY <2>4, <2>6
    <2> QED
      BY <2>3, <2>4, <2>7
  <1> QED
    BY <1>2, <1>3

-----------------------------------------------------------------------------
(* A discovery.  Of finitely many numbers one is the largest, the first of its like.   *)
Beats(f, t, u) == f[t] > f[u] \/ (f[t] = f[u] /\ t <= u)
HasLargest(f, k) == \E t \in 1..k : \A u \in 1..k : Beats(f, t, u)
LEMMA OneMore ==
    ASSUME NEW k \in Nat, NEW f, \A u \in 1..(k + 1) : f[u] \in Nat, k = 0 \/ HasLargest(f, k)
    PROVE  HasLargest(f, k + 1)
  <1>1. PICK m \in Nat : m = k + 1
    OBVIOUS
  <1>2. m \in 1..m /\ f[m] \in Nat /\ Beats(f, m, m) /\ \A u \in 1..m : u \in 1..k \/ u = m
    BY <1>1 DEF Beats
  <1>3. CASE k = 0
    <2>1. \A u \in 1..m : u = m
      BY <1>1, <1>3
    <2> QED
      BY <1>1, <1>2, <2>1 DEF HasLargest
  <1>4. CASE HasLargest(f, k)
    <2>1. PICK t \in 1..k : \A u \in 1..k : Beats(f, t, u)
      BY <1>4 DEF HasLargest
    <2>2. t \in 1..m /\ f[t] \in Nat /\ t <= m /\ \A u \in 1..k : u \in 1..m /\ f[u] \in Nat
      BY <1>1
    <2>3. CASE f[t] >= f[m]
      <3>1. Beats(f, t, m)
        BY <1>2, <2>2, <2>3 DEF Beats
      <3> QED
        BY <1>1, <1>2, <2>1, <2>2, <3>1 DEF HasLargest
    <2>4. CASE f[t] < f[m]
      <3>1. \A u \in 1..k : Beats(f, m, u)
        <4> TAKE u \in 1..k
        <4>1. Beats(f, t, u) /\ f[u] \in Nat
          BY <2>1, <2>2
        <4>2. f[u] <= f[t]
          BY <2>2, <4>1 DEF Beats
        <4>3. f[m] > f[u]
          BY <1>2, <2>2, <2>4, <4>1, <4>2
        <4> QED
          BY <4>3 DEF Beats
      <3> QED
        BY <1>1, <1>2, <3>1 DEF HasLargest
    <2> QED
      BY <1>2, <2>2, <2>3, <2>4
  <1> QED
    BY <1>3, <1>4

LEMMA Largest ==
    ASSUME NEW n \in Nat, n # 0, NEW f \in [1..n -> Nat]
    PROVE  \E t \in 1..n : \A u \in 1..n : Beats(f, t, u)
  <1>1. PICK T : T = {k \in Nat : k = 0 \/ k > n \/ HasLargest(f, k)}
    OBVIOUS
  <1>2. 0 \in T
    BY <1>1
  <1>3. ASSUME NEW k \in Nat, k \in T PROVE k + 1 \in T
    <2>1. CASE k + 1 > n
      BY <1>1, <2>1
    <2>2. CASE ~(k + 1 > n)
      <3>1. \A u \in 1..(k + 1) : f[u] \in Nat
        BY <2>2
      <3>2. k = 0 \/ HasLargest(f, k)
        BY <1>1, <1>3, <2>2
      <3>3. HasLargest(f, k + 1)
        BY <3>1, <3>2, OneMore
      <3> QED
        BY <1>1, <3>3
    <2> QED
      BY <2>1, <2>2
  <1>4. n \in T
    BY <1>2, <1>3, SetInduction
  <1> QED
    BY <1>1, <1>4 DEF HasLargest

Cuts(S, limit, cut, told) ==
    /\ told \subseteq S
    /\ \A t \in S \ told : Len(cut) = limit
    /\ Len(cut) = Cardinality(told)
    /\ told = {} => S = {}
Members(list) == {list[i] : i \in 1..Len(list)}
(* An ordered list of all members of a finite set, cut after a number of them.         *)
LEMMA CutList ==
    ASSUME NEW S, S \subseteq Nat, IsFiniteSet(S), NEW limit \in Nat \ {0},
           NEW order \in Discovering!InOrder(S),
           NEW cut, cut = Discovering!UpTo(limit, order),
           NEW told, told = Members(cut)
    PROVE  Cuts(S, limit, cut, told)
  <1>1. PICK n \in Nat : n = Cardinality(S)
    BY FS_CardinalityType
  <1>2. Discovering!Cardinality(S) = n
    BY <1>1 DEF Discovering!Cardinality, Cardinality
  <1>3. order \in [1..n -> S] /\ \A i, j \in 1..n : i < j => order[i] < order[j]
    BY <1>2, Zenon DEF Discovering!InOrder
  <1>4. order \in Seq(S) /\ Len(order) = n
    BY <1>3
  <1>5. PICK m \in Nat : m = IF n < limit THEN n ELSE limit
    OBVIOUS
  <1>6. Len(cut) = m /\ \A i \in 1..m : cut[i] = order[i] /\ i \in 1..n
    BY <1>4, <1>5 DEF Discovering!UpTo
  <1>7. told = {order[i] : i \in 1..m}
    BY <1>6 DEF Members
  <1>8. told \subseteq S
    BY <1>3, <1>6, <1>7
  <1>9. \A i, j \in 1..n : order[i] = order[j] => i = j
    <2> SUFFICES ASSUME NEW i \in 1..n, NEW j \in 1..n, order[i] = order[j], i # j PROVE FALSE
      OBVIOUS
    <2>1. order[i] \in Nat /\ order[j] \in Nat
      BY <1>3
    <2>2. i < j \/ j < i
      OBVIOUS
    <2> QED
      BY <1>3, <2>1, <2>2
  <1>10. ASSUME n < limit PROVE told = S
    <2>1. m = n
      BY <1>5, <1>10
    <2>2. order \in Injection(1..n, S)
      BY <1>3, <1>9 DEF Injection, IsInjective
    <2>3. Cardinality(1..n) = n
      BY FS_Interval
    <2>4. order \in Surjection(1..n, S)
      BY <1>1, <2>2, <2>3, FS_Injection
    <2>5. \A t \in S : \E i \in 1..n : order[i] = t
      BY <2>4 DEF Surjection
    <2> QED
      BY <1>7, <1>8, <2>1, <2>5
  <1>11. Cardinality(told) = m
    <2>1. PICK f : f = [i \in 1..m |-> order[i]]
      OBVIOUS
    <2>2. f \in [1..m -> told] /\ \A i \in 1..m : f[i] = order[i]
      BY <1>7, <2>1
    <2>3. \A i, j \in 1..m : f[i] = f[j] => i = j
      <3> TAKE i, j \in 1..m
      <3>1. i \in 1..n /\ j \in 1..n
        BY <1>6
      <3>2. f[i] = order[i] /\ f[j] = order[j]
        BY <2>2
      <3> QED
        BY <1>9, <3>1, <3>2
    <2>4. \A t \in told : \E i \in 1..m : f[i] = t
      BY <1>7, <2>2
    <2>5. f \in Bijection(1..m, told)
      BY <2>2, <2>3, <2>4 DEF Bijection, Injection, Surjection, IsInjective
    <2>6. ExistsBijection(1..m, told)
      BY <2>5 DEF ExistsBijection
    <2>7. IsFiniteSet(1..m) /\ Cardinality(1..m) = m
      BY FS_Interval
    <2> QED
      BY <2>6, <2>7, FS_Bijection
  <1>12. told = {} => S = {}
    <2> SUFFICES ASSUME told = {} PROVE S = {}
      OBVIOUS
    <2>1. m = 0
      <3>1. CASE 1 \in 1..m
        BY <1>7, <3>1
      <3>2. CASE 1 \notin 1..m
        BY <3>2
      <3> QED
        BY <3>1, <3>2
    <2>2. n = 0
      BY <1>5, <2>1
    <2>3. Cardinality(S) = 0 <=> S = {}
      BY FS_EmptySet, Zenon
    <2> QED
      BY <1>1, <2>2, <2>3
  <1>13. ASSUME NEW t \in S \ told PROVE Len(cut) = limit
    BY <1>5, <1>6, <1>10, <1>13
  <1> QED
    BY <1>6, <1>8, <1>11, <1>12, <1>13 DEF Cuts

-----------------------------------------------------------------------------
(* What the threads of a discovery have done, what is queued and what is collected.     *)
EvidenceRow == [sources : Nat, total : Nat, velocity : Nat]
ResultRow == [state : {"none", "report", "error"}, evidence : EvidenceRow]
QueueSeq(T) == Seq(T \X ResultRow)
Gathered(T, thread, queue, got) ==
    /\ thread \in [T -> {"none", "waiting", "running", "ended"}]
    /\ got \in [T -> ResultRow] /\ queue \in QueueSeq(T)
    /\ \A i \in 1..Len(queue) :
           /\ thread[queue[i][1]] = "ended" /\ got[queue[i][1]] = Discovering!NoReport
           /\ queue[i][2] # Discovering!NoReport
    /\ \A i, j \in 1..Len(queue) : queue[i][1] = queue[j][1] => i = j
    /\ \A t \in T : got[t] # Discovering!NoReport => thread[t] = "ended"
    /\ \A t \in T : thread[t] = "ended" =>
           got[t] # Discovering!NoReport \/ \E i \in 1..Len(queue) : queue[i][1] = t
RunningOf(T, thread) == {t \in T : thread[t] = "running"}
Seated(T, thread) == IsFiniteSet(RunningOf(T, thread)) /\ Cardinality(RunningOf(T, thread)) <= Slots
Row(o) == o = [at |-> o.at, thread |-> o.thread, queue |-> o.queue, got |-> o.got,
               topics |-> o.topics, weak |-> o.weak, status |-> o.status]

LEMMA NoReportRow == Discovering!NoReport \in ResultRow /\ Discovering!NoReport.state = "none"
  BY DEF Discovering!NoReport, Discovering!Result, Discovering!Nothing, ResultRow, EvidenceRow

LEMMA ResultsRow ==
    ASSUME NEW r \in Discovering!Results
    PROVE  r \in ResultRow /\ r # Discovering!NoReport
  <1>1. Discovering!Nothing \in EvidenceRow
    BY DEF Discovering!Nothing, EvidenceRow
  <1>2. Evidence \subseteq EvidenceRow
    BY DiscoverAssumption DEF Discovering!DiscoverAssumption, EvidenceRow
  <1>3. r.state \in {"report", "error"} /\ r \in ResultRow
    BY <1>1, <1>2 DEF Discovering!Results, Discovering!Result, ResultRow
  <1> QED
    BY <1>3, NoReportRow

LEMMA Seating ==
    ASSUME NEW T, NEW thread, Seated(T, thread), NEW next,
           \/ RunningOf(T, next) \subseteq RunningOf(T, thread)
           \/ /\ Cardinality(RunningOf(T, thread)) < Slots
              /\ \E t \in T : RunningOf(T, next) = RunningOf(T, thread) \cup {t}
    PROVE  Seated(T, next)
  <1>1. IsFiniteSet(RunningOf(T, thread)) /\ Cardinality(RunningOf(T, thread)) \in Nat /\ Slots \in Nat
    BY FS_CardinalityType, DiscoverAssumption DEF Seated, Discovering!DiscoverAssumption
  <1>2. CASE RunningOf(T, next) \subseteq RunningOf(T, thread)
    <2>1. /\ IsFiniteSet(RunningOf(T, next))
          /\ Cardinality(RunningOf(T, next)) <= Cardinality(RunningOf(T, thread))
      BY <1>1, <1>2, FS_Subset
    <2>2. Cardinality(RunningOf(T, next)) \in Nat
      BY <2>1, FS_CardinalityType
    <2> QED
      BY <1>1, <2>1, <2>2 DEF Seated
  <1>3. ASSUME NEW t \in T, RunningOf(T, next) = RunningOf(T, thread) \cup {t},
               Cardinality(RunningOf(T, thread)) < Slots
        PROVE  Seated(T, next)
    <2>1. /\ IsFiniteSet(RunningOf(T, next))
          /\ Cardinality(RunningOf(T, next)) =
                IF t \in RunningOf(T, thread) THEN Cardinality(RunningOf(T, thread))
                ELSE Cardinality(RunningOf(T, thread)) + 1
      BY <1>1, <1>3, FS_AddElement
    <2> QED
      BY <1>1, <1>3, <2>1 DEF Seated
  <1> QED
    BY <1>2, <1>3

LEMMA ThreadStarts ==
    ASSUME NEW T, NEW thread, NEW queue, NEW got, Gathered(T, thread, queue, got), NEW t \in T,
           thread[t] = "waiting", NEW next, next = [thread EXCEPT ![t] = "running"]
    PROVE  Gathered(T, next, queue, got) /\ RunningOf(T, next) = RunningOf(T, thread) \cup {t}
  <1>1. thread \in [T -> {"none", "waiting", "running", "ended"}]
    BY DEF Gathered
  <1>2. next \in [T -> {"none", "waiting", "running", "ended"}]
    BY <1>1
  <1>3. \A u \in T : next[u] = IF u = t THEN "running" ELSE thread[u]
    BY <1>1
  <1>4. \A i \in 1..Len(queue) : queue[i][1] \in T
    BY DEF Gathered, QueueSeq
  <1>5. Gathered(T, next, queue, got)
    BY <1>2, <1>3, <1>4 DEF Gathered
  <1> QED
    BY <1>3, <1>5 DEF RunningOf

Queued(queue, t, r) == Append(queue, <<t, r>>)
LEMMA ThreadEnds ==
    ASSUME NEW T, NEW thread, NEW queue, NEW got, Gathered(T, thread, queue, got), NEW t \in T,
           thread[t] = "running", NEW next, next = [thread EXCEPT ![t] = "ended"],
           NEW r \in ResultRow, r # Discovering!NoReport, NEW more, more = Queued(queue, t, r)
    PROVE  Gathered(T, next, more, got) /\ RunningOf(T, next) \subseteq RunningOf(T, thread)
  <1>1. thread \in [T -> {"none", "waiting", "running", "ended"}] /\ queue \in QueueSeq(T)
    BY DEF Gathered
  <1>2. next \in [T -> {"none", "waiting", "running", "ended"}]
    BY <1>1
  <1>3. \A u \in T : next[u] = IF u = t THEN "ended" ELSE thread[u]
    BY <1>1
  <1>4. <<t, r>> \in T \X ResultRow
    OBVIOUS
  <1>5. /\ more \in QueueSeq(T) /\ Len(more) = Len(queue) + 1 /\ more[Len(queue) + 1] = <<t, r>>
        /\ \A i \in 1..Len(queue) : more[i] = queue[i]
    BY <1>1, <1>4 DEF QueueSeq, Queued
  <1>6. Len(queue) \in Nat /\ \A i \in 1..Len(more) : i \in 1..Len(queue) \/ i = Len(queue) + 1
    BY <1>1, <1>5 DEF QueueSeq
  <1>7. \A i \in 1..Len(queue) : queue[i][1] \in T /\ queue[i][1] # t
    BY <1>1 DEF Gathered, QueueSeq
  <1>8. got[t] = Discovering!NoReport
    BY DEF Gathered
  <1>9. \A i \in 1..Len(more) :
            /\ next[more[i][1]] = "ended" /\ got[more[i][1]] = Discovering!NoReport
            /\ more[i][2] # Discovering!NoReport
    <2> TAKE i \in 1..Len(more)
    <2>1. CASE i \in 1..Len(queue)
      BY <1>3, <1>5, <1>7, <2>1 DEF Gathered
    <2>2. CASE i = Len(queue) + 1
      BY <1>3, <1>5, <1>8, <2>2
    <2> QED
      BY <1>6, <2>1, <2>2
  <1>10. \A i, j \in 1..Len(more) : more[i][1] = more[j][1] => i = j
    <2> SUFFICES ASSUME NEW i \in 1..Len(more), NEW j \in 1..Len(more), more[i][1] = more[j][1]
                 PROVE  i = j
      OBVIOUS
    <2>1. CASE i \in 1..Len(queue) /\ j \in 1..Len(queue)
      BY <1>5, <2>1 DEF Gathered
    <2>2. CASE i \in 1..Len(queue) /\ j = Len(queue) + 1
      BY <1>5, <1>7, <2>2
    <2>3. CASE i = Len(queue) + 1 /\ j \in 1..Len(queue)
      BY <1>5, <1>7, <2>3
    <2> QED
      BY <1>6, <2>1, <2>2, <2>3
  <1>11. \A u \in T : got[u] # Discovering!NoReport => next[u] = "ended"
    BY <1>3 DEF Gathered
  <1>12. \A u \in T : next[u] = "ended" =>
             got[u] # Discovering!NoReport \/ \E i \in 1..Len(more) : more[i][1] = u
    <2> SUFFICES ASSUME NEW u \in T, next[u] = "ended", got[u] = Discovering!NoReport
                 PROVE  \E i \in 1..Len(more) : more[i][1] = u
      OBVIOUS
    <2>1. CASE u = t
      <3>1. Len(queue) + 1 \in 1..Len(more) /\ more[Len(queue) + 1][1] = u
        BY <1>5, <1>6, <2>1
      <3> QED
        BY <3>1
    <2>2. CASE u # t
      <3>1. PICK i \in 1..Len(queue) : queue[i][1] = u
        BY <1>3, <2>2 DEF Gathered
      <3>2. i \in 1..Len(more) /\ more[i][1] = u
        BY <1>5, <1>6, <3>1
      <3> QED
        BY <3>2
    <2> QED
      BY <2>1, <2>2
  <1>13. Gathered(T, next, more, got)
    BY <1>2, <1>5, <1>9, <1>10, <1>11, <1>12 DEF Gathered
  <1> QED
    BY <1>3, <1>13 DEF RunningOf

LEMMA ResultTaken ==
    ASSUME NEW T, NEW thread, NEW queue, NEW got, Gathered(T, thread, queue, got), queue # <<>>,
           NEW rest, rest = Tail(queue),
           NEW more, more = [got EXCEPT ![Head(queue)[1]] = Head(queue)[2]]
    PROVE  Gathered(T, thread, rest, more)
  <1>1. queue \in QueueSeq(T) /\ got \in [T -> ResultRow]
    BY DEF Gathered
  <1>2. PICK t \in T, r \in ResultRow : Head(queue) = <<t, r>> /\ queue[1] = <<t, r>>
    BY <1>1 DEF QueueSeq
  <1>3. /\ rest \in QueueSeq(T) /\ Len(queue) \in Nat \ {0} /\ Len(rest) = Len(queue) - 1
        /\ \A i \in 1..Len(rest) : rest[i] = queue[i + 1] /\ i + 1 \in 1..Len(queue)
    BY <1>1 DEF QueueSeq
  <1>4. more \in [T -> ResultRow] /\ \A u \in T : more[u] = IF u = t THEN r ELSE got[u]
    BY <1>1, <1>2
  <1>5. 1 \in 1..Len(queue) /\ thread[t] = "ended" /\ r # Discovering!NoReport
    BY <1>2, <1>3 DEF Gathered
  <1>6. \A i \in 1..Len(queue) : i # 1 => queue[i][1] # t /\ queue[i][1] \in T
    BY <1>1, <1>2, <1>5 DEF Gathered, QueueSeq
  <1>7. \A i \in 1..Len(rest) :
            /\ thread[rest[i][1]] = "ended" /\ more[rest[i][1]] = Discovering!NoReport
            /\ rest[i][2] # Discovering!NoReport
    BY <1>3, <1>4, <1>6 DEF Gathered
  <1>8. \A i, j \in 1..Len(rest) : rest[i][1] = rest[j][1] => i = j
    <2> SUFFICES ASSUME NEW i \in 1..Len(rest), NEW j \in 1..Len(rest), rest[i][1] = rest[j][1]
                 PROVE  i = j
      OBVIOUS
    <2>1. i + 1 = j + 1
      BY <1>3 DEF Gathered
    <2> QED
      BY <2>1
  <1>9. \A u \in T : more[u] # Discovering!NoReport => thread[u] = "ended"
    BY <1>4, <1>5 DEF Gathered
  <1>10. \A u \in T : thread[u] = "ended" =>
             more[u] # Discovering!NoReport \/ \E i \in 1..Len(rest) : rest[i][1] = u
    <2> SUFFICES ASSUME NEW u \in T, thread[u] = "ended", more[u] = Discovering!NoReport
                 PROVE  \E i \in 1..Len(rest) : rest[i][1] = u
      OBVIOUS
    <2>1. u # t /\ got[u] = Discovering!NoReport
      BY <1>4, <1>5
    <2>2. PICK i \in 1..Len(queue) : queue[i][1] = u
      BY <2>1 DEF Gathered
    <2>3. i # 1
      BY <1>2, <2>1, <2>2
    <2>4. i - 1 \in 1..Len(rest) /\ (i - 1) + 1 = i
      BY <1>3, <2>3
    <2>5. rest[i - 1][1] = u
      BY <1>3, <2>2, <2>4
    <2> QED
      BY <2>4, <2>5
  <1> QED
    BY <1>3, <1>4, <1>7, <1>8, <1>9, <1>10 DEF Gathered

Briefed(n, held, S, cut, told) ==
    /\ \A t \in told : t \in 1..n /\ Discovering!PassesFloor(held[t])
    /\ \A t \in (1..n) \ told : Discovering!PassesFloor(held[t]) => Len(cut) = TopicLimit
    /\ Len(cut) = Cardinality(told)
    /\ told = {} => S = {}
(* The brief of what passes, and where nothing does, the strongest of what there is.      *)
LEMMA BriefOf ==
    ASSUME NEW n \in Nat, NEW held \in [1..n -> EvidenceRow],
           NEW S, S = {t \in 1..n : Discovering!PassesFloor(held[t])},
           NEW order \in Discovering!InOrder(S),
           NEW cut, cut = Discovering!UpTo(TopicLimit, order),
           NEW told, told = Members(cut)
    PROVE  Briefed(n, held, S, cut, told)
  <1>1. TopicLimit \in Nat \ {0}
    BY DiscoverAssumption DEF Discovering!DiscoverAssumption
  <1>2. IsFiniteSet(1..n)
    BY FS_Interval
  <1>3. S \subseteq 1..n /\ S \subseteq Nat
    OBVIOUS
  <1>4. IsFiniteSet(S)
    BY <1>2, <1>3, FS_Subset
  <1>5. Cuts(S, TopicLimit, cut, told)
    BY <1>1, <1>3, <1>4, CutList, Zenon
  <1>6. \A t \in S : Discovering!PassesFloor(held[t]) /\ t \in 1..n
    OBVIOUS
  <1> QED
    BY <1>3, <1>5, <1>6 DEF Cuts, Briefed

LEMMA StrongestOf ==
    ASSUME NEW n \in Nat, NEW held \in [1..n -> EvidenceRow]
    PROVE  \A t \in 1..n : \E w \in 1..n :
               /\ held[w].velocity >= held[t].velocity
               /\ \A u \in 1..n :
                      \/ held[w].velocity > held[u].velocity
                      \/ held[w].velocity = held[u].velocity /\ w <= u
  <1> SUFFICES ASSUME n # 0
               PROVE  \E w \in 1..n : \A u \in 1..n :
                          /\ held[w].velocity >= held[u].velocity
                          /\ \/ held[w].velocity > held[u].velocity
                             \/ held[w].velocity = held[u].velocity /\ w <= u
    BY SMTT(20)
  <1>1. PICK f : f = [t \in 1..n |-> held[t].velocity]
    OBVIOUS
  <1>2. f \in [1..n -> Nat] /\ \A t \in 1..n : f[t] = held[t].velocity
    BY <1>1 DEF EvidenceRow
  <1>3. PICK w \in 1..n : \A u \in 1..n : Beats(f, w, u)
    BY <1>2, Largest
  <1>4. \A u \in 1..n :
            /\ held[w].velocity >= held[u].velocity
            /\ \/ held[w].velocity > held[u].velocity
               \/ held[w].velocity = held[u].velocity /\ w <= u
    <2> TAKE u \in 1..n
    <2>1. Beats(f, w, u) /\ f[u] \in Nat /\ f[w] \in Nat
      BY <1>2, <1>3
    <2> QED
      BY <1>2, <2>1 DEF Beats
  <1> QED
    BY <1>4

-----------------------------------------------------------------------------
Threads == 1..Len(input.seeds)
(* BriefIsSolid, of what it looks at.                                                *)
Held(seeds, got, t) == IF got[t].evidence = Discovering!Nothing THEN seeds[t] ELSE got[t].evidence
Solid(n, held, list, weak) ==
    /\ \A t \in Members(list) : Discovering!PassesFloor(held[t])
    /\ \A t \in (1..n) \ Members(list) : Discovering!PassesFloor(held[t]) => Len(list) = TopicLimit
    /\ Len(list) = Cardinality(Members(list))
    /\ Members(list) \subseteq 1..n /\ weak \subseteq 1..n
    /\ Members(list) = {} => \A t \in 1..n : \E w \in weak : held[w].velocity >= held[t].velocity
AllHeld(seeds, got) == [t \in 1..Len(seeds) |-> Held(seeds, got, t)]
DiscoverInv ==
    /\ Len(input.seeds) \in Nat /\ input.seeds \in [Threads -> EvidenceRow]
    /\ Row(output)
    /\ Gathered(Threads, output.thread, output.queue, output.got)
    /\ Seated(Threads, output.thread)
    /\ output.at = "nominated" =>
           /\ output.queue = <<>>
           /\ \A t \in Threads : output.thread[t] = "none" /\ output.got[t] = Discovering!NoReport
    /\ output.at = "told" =>
           Solid(Len(input.seeds), AllHeld(input.seeds, output.got), output.topics, output.weak)

LEMMA TopicsAre == Discovering!Topics = Threads
  BY DEF Discovering!Topics, Threads

LEMMA HeldRow ==
    ASSUME DiscoverInv, NEW t \in Threads
    PROVE  Discovering!Judged(t, output.got) \in EvidenceRow
  <1>1. output.got[t] \in ResultRow /\ input.seeds[t] \in EvidenceRow
    BY DEF DiscoverInv, Gathered
  <1> QED
    BY <1>1 DEF Discovering!Judged, ResultRow

LEMMA DiscoverStays ==
    ASSUME input' = input
    PROVE  /\ Threads' = Threads /\ Discovering!Topics' = Discovering!Topics
           /\ \A t, got : Discovering!Judged(t, got)' = Discovering!Judged(t, got)
  BY DEF Threads, Discovering!Topics, Discovering!Judged

(* A step that only collects research.                                             *)
LEMMA Collects ==
    ASSUME DiscoverInv, input' = input, output'.at # "told", output'.at # "nominated", Row(output)',
           Gathered(Threads, output'.thread, output'.queue, output'.got),
           Seated(Threads, output'.thread)
    PROVE  DiscoverInv'
  <1>1. (Len(input.seeds) \in Nat)' /\ (input.seeds \in [Threads -> EvidenceRow])'
    BY DiscoverStays DEF DiscoverInv
  <1>2. Gathered(Threads, output.thread, output.queue, output.got)'
    BY DiscoverStays DEF Gathered
  <1>3. Seated(Threads, output.thread)'
    BY DiscoverStays DEF Seated, RunningOf
  <1> QED
    BY <1>1, <1>2, <1>3 DEF DiscoverInv

(* A step that leaves the brief alone, before it or after.                             *)
LEMMA Moves ==
    ASSUME DiscoverInv, input' = input, output'.at = output.at, output.at # "nominated",
           output'.topics = output.topics, output'.weak = output.weak,
           Row(output)', Gathered(Threads, output'.thread, output'.queue, output'.got),
           Seated(Threads, output'.thread), output'.got = output.got
    PROVE  DiscoverInv'
  <1>1. (Len(input.seeds) \in Nat)' /\ (input.seeds \in [Threads -> EvidenceRow])'
    BY DiscoverStays DEF DiscoverInv
  <1>2. Gathered(Threads, output.thread, output.queue, output.got)'
    BY DiscoverStays DEF Gathered
  <1>3. Seated(Threads, output.thread)'
    BY DiscoverStays DEF Seated, RunningOf
  <1>4. (output.at = "told" =>
             Solid(Len(input.seeds), AllHeld(input.seeds, output.got), output.topics, output.weak))'
    BY DEF DiscoverInv
  <1> QED
    BY <1>1, <1>2, <1>3, <1>4 DEF DiscoverInv

LEMMA BriefKeeps ==
    ASSUME DiscoverInv, input' = input, Discovering!Brief
    PROVE  DiscoverInv'
  <1>1. PICK held : held = [t \in Threads |-> Discovering!Judged(t, output.got)]
    OBVIOUS
  <1>2. PICK n \in Nat : n = Len(input.seeds) /\ Threads = 1..n
    BY DEF DiscoverInv, Threads
  <1>3. held \in [1..n -> EvidenceRow] /\ \A t \in 1..n : held[t] = Discovering!Judged(t, output.got)
    BY <1>1, <1>2, HeldRow
  <1>4. PICK S : S = {t \in Discovering!Topics : Discovering!PassesFloor(Discovering!Judged(t, output.got))}
    OBVIOUS
  <1>5. S = {t \in 1..n : Discovering!PassesFloor(held[t])}
    BY <1>2, <1>3, <1>4, TopicsAre
  <1>6. PICK order \in Discovering!InOrder(S) :
            output' = [output EXCEPT
                !.at = "told",
                !.topics = Discovering!UpTo(TopicLimit, order),
                !.weak = IF S = {} THEN Discovering!Strongest(Discovering!Topics, output.got) ELSE {},
                !.status = [f \in Listings |-> Discovering!FeedStatus(input.feeds[f])]]
    BY <1>4, Zenon DEF Discovering!Brief, Discovering!Tell
  <1>7. PICK cut : cut = Discovering!UpTo(TopicLimit, order)
    OBVIOUS
  <1>8. PICK weak : weak = IF S = {} THEN Discovering!Strongest(Discovering!Topics, output.got) ELSE {}
    OBVIOUS
  <1>9. PICK status : status = [f \in Listings |-> Discovering!FeedStatus(input.feeds[f])]
    OBVIOUS
  <1>10. output' = [at |-> "told", thread |-> output.thread, queue |-> output.queue,
                    got |-> output.got, topics |-> cut, weak |-> weak, status |-> status]
    BY <1>6, <1>7, <1>8, <1>9 DEF DiscoverInv, Row
  <1>11. /\ output'.at = "told" /\ output'.thread = output.thread /\ output'.queue = output.queue
         /\ output'.got = output.got /\ output'.topics = cut /\ output'.weak = weak /\ Row(output)'
    BY <1>10 DEF Row
  <1>12. PICK told : told = Members(cut)
    OBVIOUS
  <1>13. Briefed(n, held, S, cut, told)
    BY <1>3, <1>5, <1>7, <1>12, BriefOf, Zenon
  <1>14. told = {} => \A t \in 1..n : \E w \in weak : held[w].velocity >= held[t].velocity
    <2> SUFFICES ASSUME told = {}, NEW t \in 1..n
                 PROVE  \E w \in weak : held[w].velocity >= held[t].velocity
      OBVIOUS
    <2>1. weak = Discovering!Strongest(1..n, output.got)
      BY <1>2, <1>8, <1>13, TopicsAre DEF Briefed
    <2>2. PICK w \in 1..n :
              /\ held[w].velocity >= held[t].velocity
              /\ \A u \in 1..n :
                     \/ held[w].velocity > held[u].velocity
                     \/ held[w].velocity = held[u].velocity /\ w <= u
      BY <1>3, StrongestOf, Zenon
    <2>3. w \in weak
      BY <1>3, <2>1, <2>2 DEF Discovering!Strongest
    <2> QED
      BY <2>2, <2>3
  <1>15. weak \subseteq 1..n
    BY <1>2, <1>8, TopicsAre DEF Discovering!Strongest
  <1>16. held = AllHeld(input.seeds, output.got) /\ n = Len(input.seeds)
    BY <1>1, <1>2 DEF AllHeld, Held, Threads, Discovering!Judged
  <1>17. Members(cut) \subseteq 1..n
    BY <1>12, <1>13 DEF Briefed
  <1>18. Solid(n, held, cut, weak)
    BY <1>12, <1>13, <1>14, <1>15, <1>17 DEF Briefed, Solid
  <1>19. (output.at = "told" =>
             Solid(Len(input.seeds), AllHeld(input.seeds, output.got), output.topics, output.weak))'
    BY <1>11, <1>16, <1>18
  <1>20. Gathered(Threads, output.thread, output.queue, output.got)' /\ Seated(Threads, output.thread)'
    BY <1>11, DiscoverStays DEF DiscoverInv, Gathered, Seated, RunningOf
  <1>21. (Len(input.seeds) \in Nat)' /\ (input.seeds \in [Threads -> EvidenceRow])'
    BY DiscoverStays DEF DiscoverInv
  <1> QED
    BY <1>11, <1>19, <1>20, <1>21 DEF DiscoverInv

LEMMA EnrichKeeps ==
    ASSUME DiscoverInv, Discovering!Enrich
    PROVE  DiscoverInv'
  <1>1. output.at = "nominated" /\ input' = input
    BY DEF Discovering!Enrich
  <1>2. PICK thread : thread = [t \in Threads |-> "waiting"]
    OBVIOUS
  <1>3. output' = [at |-> "enriching", thread |-> thread, queue |-> output.queue,
                   got |-> output.got, topics |-> output.topics, weak |-> output.weak,
                   status |-> output.status]
    BY <1>2, TopicsAre DEF DiscoverInv, Row, Discovering!Enrich
  <1>4. /\ output'.at = "enriching" /\ output'.thread = thread /\ output'.queue = output.queue
        /\ output'.got = output.got /\ Row(output)'
    BY <1>3 DEF Row
  <1>5. /\ output.queue = <<>>
        /\ \A t \in Threads : output.thread[t] = "none" /\ output.got[t] = Discovering!NoReport
        /\ output.got \in [Threads -> ResultRow] /\ output.queue \in QueueSeq(Threads)
    BY <1>1 DEF DiscoverInv, Gathered
  <1>6. thread \in [Threads -> {"none", "waiting", "running", "ended"}]
    BY <1>2
  <1>7. \A t \in Threads : thread[t] = "waiting"
    BY <1>2
  <1>8. Gathered(Threads, thread, output.queue, output.got)
    BY <1>5, <1>6, <1>7 DEF Gathered
  <1>9. RunningOf(Threads, thread) \subseteq RunningOf(Threads, output.thread)
    BY <1>7 DEF RunningOf
  <1>10. Seated(Threads, thread)
    BY <1>9, Seating DEF DiscoverInv
  <1> QED
    BY <1>1, <1>4, <1>8, <1>10, Collects

LEMMA TakeSlotKeeps ==
    ASSUME DiscoverInv, NEW t \in Threads, Discovering!TakeSlot(t)
    PROVE  DiscoverInv'
  <1>1. /\ output.thread[t] = "waiting" /\ input' = input
        /\ Discovering!Cardinality(Discovering!Running) < Slots
    BY DEF Discovering!TakeSlot
  <1>2. PICK thread : thread = [output.thread EXCEPT ![t] = "running"]
    OBVIOUS
  <1>3. output' = [at |-> output.at, thread |-> thread, queue |-> output.queue,
                   got |-> output.got, topics |-> output.topics, weak |-> output.weak,
                   status |-> output.status]
    BY <1>2 DEF DiscoverInv, Row, Discovering!TakeSlot
  <1>4. /\ output'.at = output.at /\ output'.thread = thread /\ output'.queue = output.queue
        /\ output'.got = output.got /\ output'.topics = output.topics
        /\ output'.weak = output.weak /\ Row(output)'
    BY <1>3 DEF Row
  <1>5. /\ Gathered(Threads, thread, output.queue, output.got)
        /\ RunningOf(Threads, thread) = RunningOf(Threads, output.thread) \cup {t}
    <2>1. Gathered(Threads, output.thread, output.queue, output.got)
      BY DEF DiscoverInv
    <2> QED
      BY <1>1, <1>2, <2>1, ThreadStarts
  <1>6. Discovering!Running = RunningOf(Threads, output.thread)
    BY TopicsAre DEF Discovering!Running, RunningOf
  <1>7. Cardinality(RunningOf(Threads, output.thread)) < Slots
    BY <1>1, <1>6 DEF Discovering!Cardinality, Cardinality
  <1>8. Seated(Threads, thread)
    BY <1>5, <1>7, Seating DEF DiscoverInv
  <1>9. output.at # "nominated"
    BY <1>1 DEF DiscoverInv
  <1> QED
    BY <1>1, <1>4, <1>5, <1>8, <1>9, Moves

LEMMA ResearchKeeps ==
    ASSUME DiscoverInv, NEW t \in Threads, Discovering!Research(t)
    PROVE  DiscoverInv'
  <1>1. output.thread[t] = "running" /\ input' = input
    BY DEF Discovering!Research
  <1>2. PICK r \in Discovering!Results :
            output' = [output EXCEPT !.thread[t] = "ended",
                                     !.queue = Append(output.queue, <<t, r>>)]
    BY Zenon DEF Discovering!Research
  <1>3. PICK thread : thread = [output.thread EXCEPT ![t] = "ended"]
    OBVIOUS
  <1>4. PICK queue : queue = Queued(output.queue, t, r)
    OBVIOUS
  <1>5. output' = [at |-> output.at, thread |-> thread, queue |-> queue,
                   got |-> output.got, topics |-> output.topics, weak |-> output.weak,
                   status |-> output.status]
    BY <1>2, <1>3, <1>4 DEF DiscoverInv, Row, Queued
  <1>6. /\ output'.at = output.at /\ output'.thread = thread /\ output'.queue = queue
        /\ output'.got = output.got /\ output'.topics = output.topics
        /\ output'.weak = output.weak /\ Row(output)'
    BY <1>5 DEF Row
  <1>7. r \in ResultRow /\ r # Discovering!NoReport
    BY ResultsRow
  <1>8. /\ Gathered(Threads, thread, queue, output.got)
        /\ RunningOf(Threads, thread) \subseteq RunningOf(Threads, output.thread)
    <2>1. Gathered(Threads, output.thread, output.queue, output.got)
      BY DEF DiscoverInv
    <2> QED
      BY <1>1, <1>3, <1>4, <1>7, <2>1, ThreadEnds
  <1>9. Seated(Threads, thread)
    BY <1>8, Seating DEF DiscoverInv
  <1>10. output.at # "nominated"
    BY <1>1 DEF DiscoverInv
  <1> QED
    BY <1>1, <1>6, <1>8, <1>9, <1>10, Moves

LEMMA CollectKeeps ==
    ASSUME DiscoverInv, Discovering!Collect
    PROVE  DiscoverInv'
  <1>1. output.at = "enriching" /\ output.queue # <<>> /\ input' = input
    BY DEF Discovering!Collect
  <1>2. PICK queue : queue = Tail(output.queue)
    OBVIOUS
  <1>3. PICK got : got = [output.got EXCEPT ![Head(output.queue)[1]] = Head(output.queue)[2]]
    OBVIOUS
  <1>4. output' = [at |-> output.at, thread |-> output.thread, queue |-> queue,
                   got |-> got, topics |-> output.topics, weak |-> output.weak,
                   status |-> output.status]
    BY <1>2, <1>3 DEF DiscoverInv, Row, Discovering!Collect
  <1>5. /\ output'.at = "enriching" /\ output'.thread = output.thread /\ output'.queue = queue
        /\ output'.got = got /\ Row(output)'
    BY <1>1, <1>4 DEF Row
  <1>6. Gathered(Threads, output.thread, queue, got)
    BY <1>1, <1>2, <1>3, ResultTaken, Zenon DEF DiscoverInv
  <1>7. Seated(Threads, output.thread)
    BY DEF DiscoverInv
  <1> QED
    BY <1>1, <1>5, <1>6, <1>7, Collects

LEMMA DiscoverSteps ==
    ASSUME DiscoverInv, Discovering!Next \/ UNCHANGED <<input, output>>
    PROVE  DiscoverInv'
  <1>1. CASE UNCHANGED <<input, output>>
    <2>1. input' = input /\ output' = output
      BY <1>1
    <2>2. (Len(input.seeds) \in Nat)' /\ (input.seeds \in [Threads -> EvidenceRow])'
      BY <2>1, DiscoverStays DEF DiscoverInv
    <2>3. Gathered(Threads, output.thread, output.queue, output.got)'
      BY <2>1, DiscoverStays DEF DiscoverInv, Gathered
    <2>4. Seated(Threads, output.thread)'
      BY <2>1, DiscoverStays DEF DiscoverInv, Seated, RunningOf
    <2>5. (output.at = "told" =>
               Solid(Len(input.seeds), AllHeld(input.seeds, output.got), output.topics, output.weak))'
      BY <2>1 DEF DiscoverInv
    <2>6. Row(output)'
      BY <2>1 DEF DiscoverInv, Row
    <2>7. (output.at = "nominated" =>
              /\ output.queue = <<>>
              /\ \A t \in Threads : output.thread[t] = "none" /\ output.got[t] = Discovering!NoReport)'
      BY <2>1, DiscoverStays DEF DiscoverInv
    <2> QED
      BY <2>2, <2>3, <2>4, <2>5, <2>6, <2>7 DEF DiscoverInv
  <1>2. CASE Discovering!Main
    <2>1. \/ Discovering!Enrich
          \/ Discovering!Collect
          \/ Discovering!Brief /\ input' = input
      BY <1>2 DEF Discovering!Main, Discovering!BriefShallow, Discovering!AllCollected, Discovering!TimeUp
    <2> QED
      BY <2>1, EnrichKeeps, CollectKeeps, BriefKeeps
  <1>3. CASE \E t \in Discovering!Topics : Discovering!TakeSlot(t) \/ Discovering!Research(t)
    BY <1>3, TopicsAre, TakeSlotKeeps, ResearchKeeps
  <1> QED
    BY <1>1, <1>2, <1>3 DEF Discovering!Next

LEMMA DiscoverStarts == ASSUME Discovering!Init PROVE DiscoverInv
  <1>1. PICK feeds \in [Listings -> Discovering!FeedResults], seeds \in Discovering!Seeds,
             enrich \in BOOLEAN :
            /\ input = [feeds |-> feeds, seeds |-> seeds, enrich |-> enrich]
            /\ output = [at |-> "nominated", thread |-> [t \in 1..Len(seeds) |-> "none"],
                         queue |-> <<>>, got |-> [t \in 1..Len(seeds) |-> Discovering!NoReport],
                         topics |-> <<>>, weak |-> {}, status |-> <<>>]
    BY Zenon DEF Discovering!Init
  <1>2. PICK n \in 0..MaxTopics : seeds \in [1..n -> Evidence]
    BY Zenon DEF Discovering!Seeds
  <1>3. n \in Nat /\ Evidence \subseteq EvidenceRow
    BY DiscoverAssumption DEF Discovering!DiscoverAssumption, EvidenceRow
  <1>4. seeds \in Seq(EvidenceRow) /\ Len(seeds) = n /\ seeds \in [1..n -> EvidenceRow]
    BY <1>2, <1>3
  <1>5. input.seeds = seeds /\ Threads = 1..n
    BY <1>1, <1>4 DEF Threads
  <1>6. /\ output.at = "nominated" /\ output.queue = <<>> /\ Row(output)
        /\ output.thread = [t \in 1..n |-> "none"]
        /\ output.got = [t \in 1..n |-> Discovering!NoReport]
    BY <1>1, <1>4 DEF Row
  <1>7. \A t \in 1..n : output.thread[t] = "none" /\ output.got[t] = Discovering!NoReport
    BY <1>6
  <1>8. /\ output.thread \in [1..n -> {"none", "waiting", "running", "ended"}]
        /\ output.got \in [1..n -> ResultRow]
    BY <1>6, NoReportRow
  <1>9. <<>> \in QueueSeq(1..n) /\ Len(<<>>) = 0
    BY DEF QueueSeq
  <1>10. Gathered(1..n, output.thread, output.queue, output.got)
    BY <1>6, <1>7, <1>8, <1>9 DEF Gathered
  <1>11. RunningOf(1..n, output.thread) = {}
    BY <1>7 DEF RunningOf
  <1>12. IsFiniteSet({}) /\ Cardinality({}) = 0
    BY FS_EmptySet
  <1>13. Seated(1..n, output.thread)
    <2>1. IsFiniteSet(RunningOf(1..n, output.thread)) /\ Cardinality(RunningOf(1..n, output.thread)) = 0
      BY <1>11, <1>12, Zenon
    <2>2. Slots \in Nat
      BY DiscoverAssumption DEF Discovering!DiscoverAssumption
    <2> QED
      BY <2>1, <2>2 DEF Seated
  <1> QED
    BY <1>3, <1>4, <1>5, <1>6, <1>7, <1>10, <1>13 DEF DiscoverInv

LEMMA ResearchIsKept == ASSUME DiscoverInv PROVE Discovering!ResearchKept
  <1>1. Discovering!Running = RunningOf(Threads, output.thread)
    BY TopicsAre DEF Discovering!Running, RunningOf
  <1>2. Discovering!Cardinality(Discovering!Running) <= Slots
    BY <1>1 DEF DiscoverInv, Seated, Discovering!Cardinality, Cardinality
  <1>3. \A t \in Threads : output.got[t] # Discovering!NoReport => output.thread[t] = "ended"
    BY DEF DiscoverInv, Gathered
  <1>4. \A t \in Threads : output.thread[t] = "ended" =>
            ((output.got[t] = Discovering!NoReport)
             <=> (\E i \in 1..Len(output.queue) : output.queue[i][1] = t))
    BY DEF DiscoverInv, Gathered
  <1> QED
    BY <1>2, <1>3, <1>4, TopicsAre DEF Discovering!ResearchKept

LEMMA BriefHolds == ASSUME DiscoverInv PROVE Discovering!BriefIsSolid
  <1> SUFFICES ASSUME output.at = "told" PROVE Discovering!BriefIsSolid
    BY DEF Discovering!BriefIsSolid
  <1>1. PICK n \in Nat : n = Len(input.seeds) /\ Discovering!Topics = 1..n
    BY DEF DiscoverInv, Discovering!Topics
  <1>2. PICK held : held = AllHeld(input.seeds, output.got)
    OBVIOUS
  <1>3. \A t \in 1..n : held[t] = Discovering!Judged(t, output.got)
    BY <1>1, <1>2 DEF AllHeld, Held, Discovering!Judged
  <1>4. PICK told : told = Members(output.topics)
    OBVIOUS
  <1>5. /\ \A t \in told : Discovering!PassesFloor(held[t])
        /\ \A t \in (1..n) \ told : Discovering!PassesFloor(held[t]) => Len(output.topics) = TopicLimit
        /\ Len(output.topics) = Cardinality(told)
        /\ told \subseteq 1..n /\ output.weak \subseteq 1..n
        /\ told = {} => \A t \in 1..n : \E w \in output.weak : held[w].velocity >= held[t].velocity
    BY <1>1, <1>2, <1>4, Zenon DEF DiscoverInv, Solid
  <1>6. /\ \A t \in told : Discovering!PassesFloor(Discovering!Judged(t, output.got))
        /\ \A t \in Discovering!Topics \ told :
               Discovering!PassesFloor(Discovering!Judged(t, output.got)) => Len(output.topics) = TopicLimit
    BY <1>1, <1>3, <1>5
  <1>7. Len(output.topics) = Discovering!Cardinality(told)
    BY <1>5 DEF Discovering!Cardinality, Cardinality
  <1>8. told = {} => \A t \in Discovering!Topics : \E w \in output.weak :
            Discovering!Judged(w, output.got).velocity >= Discovering!Judged(t, output.got).velocity
    <2> SUFFICES ASSUME told = {}, NEW t \in 1..n
                 PROVE  \E w \in output.weak :
                     Discovering!Judged(w, output.got).velocity >= Discovering!Judged(t, output.got).velocity
      BY <1>1
    <2>1. PICK w \in output.weak : held[w].velocity >= held[t].velocity
      BY <1>5
    <2>2. w \in 1..n
      BY <1>5
    <2> QED
      BY <1>3, <2>1, <2>2
  <1>9. told = {output.topics[i] : i \in 1..Len(output.topics)}
    BY <1>4 DEF Members
  <1> QED
    BY <1>6, <1>7, <1>8, <1>9, Zenon DEF Discovering!BriefIsSolid

(* However research ends, fails, hangs or is late: the brief tells topics with solid       *)
(* evidence alone, omits one only when it is full of such, and where there are none names    *)
(* the strongest; what one thread found is taken for its own topic, once.                *)
THEOREM BriefKept == EngineSpec => []BriefSolid
  <1> DEFINE Inv == part = "discover" => DiscoverInv
  <1>1. EngineInit => Inv
    BY DiscoverStarts DEF EngineInit
  <1>2. Inv /\ [EngineNext]_engine => Inv'
    <2> SUFFICES ASSUME Inv, [EngineNext]_engine, part' = "discover"
                 PROVE  DiscoverInv'
      OBVIOUS
    <2>1. part = "discover"
      BY StaysPut
    <2>2. Discovering!Next \/ UNCHANGED <<input, output>>
      BY <2>1 DEF EngineNext, HttpStep, OnOne, engine
    <2> QED
      BY <2>1, <2>2, DiscoverSteps
  <1>3. Inv => BriefSolid
    BY BriefHolds, ResearchIsKept DEF BriefSolid
  <1> QED
    BY <1>1, <1>2, <1>3, PTL DEF EngineSpec

-----------------------------------------------------------------------------
(* The verification of reports.  What an event says under a name, and a snapshot   *)
(* that backs a claim: whatever it has is what the source showed at its moment.     *)
LEMMA OutcomesTold ==
    ASSUME NEW e, NEW o \in Verifying!OutcomesOf(e), NEW name,
           Verifying!Fold(o.name) = Verifying!Fold(name)
    PROVE  o.price \in Verifying!NumbersOf(e, name)
  <1> DEFINE top == UNION {Verifying!Listed(m.pairs) : m \in Verifying!Top(e)}
  <1>1. Verifying!Counting(e) \subseteq DOMAIN e.markets
    BY DEF Verifying!Counting
  <1>2. CASE o \in top
    <2>1. PICK i \in DOMAIN e.markets : o \in Verifying!Listed(e.markets[i].pairs)
      BY <1>1, <1>2 DEF Verifying!Top
    <2>2. o \in Verifying!Named(Verifying!Listed(e.markets[i].pairs), name)
      BY <2>1 DEF Verifying!Named
    <2> QED
      BY <2>1, <2>2 DEF Verifying!NumbersOf
  <1>3. CASE o \in Verifying!ByPrice(Verifying!Likely(e))
    <2>1. PICK l \in Verifying!Likely(e) : o.name = l.name /\ o.price = l.price
      <3>1. PICK l \in Verifying!Likely(e) :
                \E n : o = [rank |-> n, name |-> l.name, price |-> l.price]
        BY <1>3, Zenon DEF Verifying!ByPrice
      <3>2. PICK n : o = [rank |-> n, name |-> l.name, price |-> l.price]
        BY <3>1
      <3> QED
        BY <3>2
    <2>2. PICK i \in Verifying!Counting(e) :
              l \in {[rank |-> i, name |-> e.markets[i].question, price |-> y.price] :
                         y \in {z \in Verifying!Yes(e.markets[i]) : z.price > 0}}
      BY DEF Verifying!Likely
    <2>3. PICK y \in Verifying!Yes(e.markets[i]) :
              l.name = e.markets[i].question /\ l.price = y.price
      BY <2>2
    <2>4. y \in Verifying!Listed(e.markets[i].pairs)
      BY DEF Verifying!Yes, Verifying!Named
    <2>5. Verifying!Fold(e.markets[i].question) = Verifying!Fold(name)
      BY <2>1, <2>3
    <2>6. i \in DOMAIN e.markets
      BY <1>1
    <2> QED
      BY <2>1, <2>3, <2>4, <2>5, <2>6 DEF Verifying!NumbersOf
  <1> QED
    BY <1>2, <1>3 DEF Verifying!OutcomesOf

EventBacks(e, a, key) ==
    /\ \A x \in a.value : x \in Verifying!NumbersOf(e, key[1])
    /\ \A v \in a.values : v[2] \in Verifying!NumbersOf(e, v[1][1])
LEMMA EventTold ==
    ASSUME NEW e, NEW key
    PROVE  EventBacks(e, Verifying!EventAnswer(e, key), key)
  <1> DEFINE outcomes == Verifying!OutcomesOf(e)
  <1> DEFINE ends == {m.end : m \in Verifying!Top(e)} \ {0}
  <1> DEFINE place == IF key[2] = Verifying!ByItsName THEN 0 ELSE key[2]
  <1> DEFINE value == IF key = Verifying!EndDate THEN ends
                      ELSE {o.price : o \in {s \in Verifying!Named(outcomes, key[1]) :
                                                 Verifying!Occurrence(outcomes, s) = place}}
  <1> DEFINE values == {<<Verifying!KeyOf(outcomes, o), o.price>> : o \in outcomes}
                       \cup {<<Verifying!EndDate, end>> : end \in ends}
  <1>1. \A end \in ends : end \in Verifying!NumbersOf(e, Verifying!EndDate[1])
    <2> TAKE end \in ends
    <2>1. PICK i \in DOMAIN e.markets : end = e.markets[i].end
      BY DEF Verifying!Top, Verifying!Counting
    <2>2. Verifying!EndDate[1] = "end_date"
      BY DEF Verifying!EndDate
    <2> QED
      BY <2>1, <2>2 DEF Verifying!NumbersOf
  <1>2. \A o \in outcomes : Verifying!KeyOf(outcomes, o)[1] = o.name
    BY DEF Verifying!KeyOf
  <1>3. \A x \in value : x \in Verifying!NumbersOf(e, key[1])
    <2> TAKE x \in value
    <2>1. CASE key = Verifying!EndDate
      BY <1>1, <2>1
    <2>2. CASE key # Verifying!EndDate
      <3>1. PICK o \in Verifying!Named(outcomes, key[1]) : x = o.price
        BY <2>2
      <3>2. o \in outcomes /\ Verifying!Fold(o.name) = Verifying!Fold(key[1])
        BY DEF Verifying!Named
      <3> QED
        BY <3>1, <3>2, OutcomesTold
    <2> QED
      BY <2>1, <2>2
  <1>4. \A v \in values : v[2] \in Verifying!NumbersOf(e, v[1][1])
    <2> TAKE v \in values
    <2>1. CASE \E o \in outcomes : v = <<Verifying!KeyOf(outcomes, o), o.price>>
      BY <1>2, <2>1, OutcomesTold
    <2>2. CASE \E end \in ends : v = <<Verifying!EndDate, end>>
      BY <1>1, <2>2
    <2> QED
      BY <2>1, <2>2
  <1>5. Verifying!EventAnswer(e, key) = [value |-> value, values |-> IF value = {} THEN {} ELSE values]
    BY DEF Verifying!EventAnswer, Verifying!Answer
  <1> HIDE DEF value, values
  <1> QED
    BY <1>3, <1>4, <1>5 DEF EventBacks

(* What a source shows of the subject of a claim under a key.                      *)
ShowsAs(c, key, x, moment) ==
    IF Verifying!SourceOf(c) = "polymarket"
    THEN \E e \in moment.events :
             /\ e.id = Verifying!Identity(Verifying!ItemOf(c))
             /\ x \in Verifying!NumbersOf(e, key[1])
    ELSE x \in Verifying!CounterOf(Verifying!Subject(c), moment)
Backs(fetch, c) ==
    /\ \A x \in fetch.answer.value : ShowsAs(c, fetch.key, x, fetch.moment)
    /\ \A v \in fetch.answer.values : ShowsAs(c, v[1], v[2], fetch.moment)
Snapshot(c, moment) ==
    [key |-> c.key, moment |-> moment, answer |-> Verifying!Fetched(c, moment)]
Checkables == {"polymarket", "github", "stocktwits"}

(* A claim comes from a candidate of its report.                                 *)
LEMMA ClaimOf ==
    ASSUME NEW r, NEW c \in Verifying!ExtractClaims(r)
    PROVE  c.report = r /\ c.of \in DOMAIN input.reports[r].candidates
  <1>1. PICK n \in DOMAIN input.reports[r].candidates :
            c \in Verifying!ClaimsOf(r, n, Verifying!Candidate(r, n))
    BY DEF Verifying!ExtractClaims
  <1>2. PICK candidate : candidate = Verifying!Candidate(r, n)
    OBVIOUS
  <1>3. \/ c \in Verifying!Numbers(r, n, candidate.item)
        \/ c \in Verifying!StatusClaims(r, n, candidate.item)
        \/ c \in Verifying!StarClaims(r, n, candidate.item, candidate.stars)
    BY <1>1, <1>2 DEF Verifying!ClaimsOf
  <1>4. c \in Verifying!Numbers(r, n, candidate.item) => c.report = r /\ c.of = n
    BY DEF Verifying!Numbers, Verifying!Claim
  <1>5. c \in Verifying!StatusClaims(r, n, candidate.item) => c.report = r /\ c.of = n
    BY DEF Verifying!StatusClaims, Verifying!Claim
  <1>6. c \in Verifying!StarClaims(r, n, candidate.item, candidate.stars) => c.report = r /\ c.of = n
    BY DEF Verifying!StarClaims, Verifying!Claim
  <1> QED
    BY <1>3, <1>4, <1>5, <1>6

(* Claims of one report about one event stand on items of one identity.             *)
LEMMA OneIdentity ==
    ASSUME NEW r \in DOMAIN input.reports, input.reports \in Reports,
           NEW c \in Verifying!ExtractClaims(r), NEW d \in Verifying!ExtractClaims(r),
           Verifying!Subject(c) = Verifying!Subject(d), Verifying!SourceOf(c) = "polymarket"
    PROVE  /\ Verifying!SourceOf(d) = "polymarket"
           /\ Verifying!Identity(Verifying!ItemOf(c)) = Verifying!Identity(Verifying!ItemOf(d))
  <1>1. PICK one : one = Verifying!ItemOf(c)
    OBVIOUS
  <1>2. PICK other : other = Verifying!ItemOf(d)
    OBVIOUS
  <1>3. Verifying!SourceOf(d) = "polymarket"
    BY DEF Verifying!Subject
  <1>4. c.kind # "stars" /\ d.kind # "stars" /\ one.source = "polymarket" /\ other.source = "polymarket"
    BY <1>1, <1>2, <1>3 DEF Verifying!SourceOf
  <1>5. /\ (one.ref = "") = (other.ref = "")
        /\ IF one.ref = "" THEN Verifying!Fold(one.slug) = Verifying!Fold(other.slug)
           ELSE Verifying!Fold(one.ref) = Verifying!Fold(other.ref)
    BY <1>1, <1>2, <1>4 DEF Verifying!Subject
  <1>6. /\ c.of \in DOMAIN input.reports[r].candidates /\ d.of \in DOMAIN input.reports[r].candidates
        /\ one = input.reports[r].candidates[c.of].item
        /\ other = input.reports[r].candidates[d.of].item
    BY <1>1, <1>2, ClaimOf DEF Verifying!ItemOf, Verifying!Candidate
  <1> QED
    BY <1>1, <1>2, <1>3, <1>4, <1>5, <1>6, SubjectAssumption DEF Verifying!SubjectAssumption

LEMMA SnapshotBacks ==
    ASSUME NEW r \in DOMAIN input.reports, input.reports \in Reports, NEW moment,
           NEW c \in Verifying!ExtractClaims(r), NEW d \in Verifying!ExtractClaims(r),
           Verifying!Subject(c) = Verifying!Subject(d), Verifying!SourceOf(c) \in Checkables
    PROVE  Backs(Snapshot(c, moment), d)
  <1>1. PICK a : a = Verifying!Fetched(c, moment)
    OBVIOUS
  <1>2. PICK f : f = Snapshot(c, moment)
    OBVIOUS
  <1>3. f.key = c.key /\ f.moment = moment /\ f.answer = a
    BY <1>1, <1>2 DEF Snapshot
  <1>4. Verifying!SourceOf(d) = Verifying!SourceOf(c)
    BY DEF Verifying!Subject
  <1>5. CASE Verifying!SourceOf(c) = "polymarket"
    <2>1. PICK answers : answers = Verifying!PolymarketAnswers(Verifying!ItemOf(c), c.key, moment)
      OBVIOUS
    <2>2. a = IF answers = {} THEN Verifying!Answer({}, {}) ELSE CHOOSE b \in answers : TRUE
      BY <1>1, <1>5, <2>1 DEF Verifying!Fetched
    <2>3. CASE answers = {}
      <3>1. a.value = {} /\ a.values = {}
        BY <2>2, <2>3 DEF Verifying!Answer
      <3> QED
        BY <1>2, <1>3, <3>1 DEF Backs
    <2>4. CASE answers # {}
      <3>1. a \in answers
        BY <2>2, <2>4
      <3>2. PICK e \in Verifying!FoundEvent(Verifying!ItemOf(c), moment) :
                a = Verifying!EventAnswer(e, c.key)
        BY <2>1, <3>1 DEF Verifying!PolymarketAnswers
      <3>3. EventBacks(e, a, c.key)
        BY <3>2, EventTold
      <3>4. e \in moment.events /\ e.id = Verifying!Identity(Verifying!ItemOf(c))
        BY DEF Verifying!FoundEvent, Verifying!Identity
      <3>5. e.id = Verifying!Identity(Verifying!ItemOf(d)) /\ Verifying!SourceOf(d) = "polymarket"
        BY <1>5, <3>4, OneIdentity
      <3> QED
        BY <1>2, <1>3, <3>3, <3>4, <3>5 DEF Backs, ShowsAs, EventBacks
    <2> QED
      BY <2>3, <2>4
  <1>6. CASE Verifying!SourceOf(c) # "polymarket"
    <2>1. PICK counted : counted = Verifying!CounterOf(Verifying!Subject(c), moment)
      OBVIOUS
    <2>2. \A x \in a.value : x \in counted
      BY <1>1, <1>6, <2>1 DEF Checkables, Verifying!Fetched, Verifying!GithubAnswer,
         Verifying!StocktwitsAnswer, Verifying!Answer
    <2>3. \A v \in a.values : v[2] \in counted
      BY <1>1, <1>6, <2>1 DEF Checkables, Verifying!Fetched, Verifying!GithubAnswer,
         Verifying!StocktwitsAnswer, Verifying!Answer
    <2> QED
      BY <1>2, <1>3, <1>4, <1>6, <2>1, <2>2, <2>3 DEF Backs, ShowsAs
  <1> QED
    BY <1>5, <1>6

-----------------------------------------------------------------------------
(* What one verdict says is backed by the moment it saw.                          *)
Evident(c, v) ==
    v.verdict \in {"current", "stale"} =>
        /\ input.network
        /\ c.kind = "number" => Verifying!SourceOf(c) \in input.reports[c.report].usable
        /\ \E x \in v.shown, moment \in v.seen :
               /\ Verifying!Shows(c, x, moment)
               /\ (x = c.value) = (v.verdict = "current")
(* The verdicts on the report in hand saw the snapshots that are kept.               *)
SameMoment(c, v, on, fetches) ==
    c.report = on /\ v.seen # {} =>
        /\ Verifying!Subject(c) \in DOMAIN fetches
        /\ v.seen = {fetches[Verifying!Subject(c)].moment}
VerdictInv ==
    /\ input.reports \in Reports /\ output.on \in Nat
    /\ \A c \in DOMAIN output.verdicts :
           /\ c.report \in Nat /\ c.report <= output.on
           /\ SameMoment(c, output.verdicts[c], output.on, output.fetches)
           /\ Evident(c, output.verdicts[c])
    /\ Verifying!OneMoment
    /\ output.on \in DOMAIN input.reports =>
           \A c \in Verifying!ExtractClaims(output.on) :
               Verifying!Subject(c) \in DOMAIN output.fetches /\ Verifying!SourceOf(c) \in Checkables =>
                   Backs(output.fetches[Verifying!Subject(c)], c)

LEMMA SnapshotEvident ==
    ASSUME NEW r, NEW c \in Verifying!ExtractClaims(r), NEW f, Backs(f, c),
           c.kind # "status", Verifying!Checkable(c)
    PROVE  Evident(c, Verifying!SnapshotVerdict(c, f))
  <1>1. PICK v : v = Verifying!SnapshotVerdict(c, f)
    OBVIOUS
  <1> SUFFICES ASSUME v.verdict \in {"current", "stale"}
               PROVE  /\ input.network
                      /\ c.kind = "number" => Verifying!SourceOf(c) \in input.reports[c.report].usable
                      /\ \E x \in v.shown, moment \in v.seen :
                             /\ Verifying!Shows(c, x, moment)
                             /\ (x = c.value) = (v.verdict = "current")
    BY <1>1 DEF Evident
  <1>2. PICK numbers : numbers = IF f.key = c.key \/ c.kind = "stars" THEN f.answer.value
                                 ELSE {w[2] : w \in {x \in f.answer.values : x[1] = c.key}}
    OBVIOUS
  <1>3. v = IF numbers = {} THEN [verdict |-> "unsupported", shown |-> {}, seen |-> {f.moment}]
            ELSE [verdict |-> IF c.value \in numbers THEN "current" ELSE "stale",
                  shown |-> numbers, seen |-> {f.moment}]
    BY <1>1, <1>2 DEF Verifying!SnapshotVerdict, Verifying!PointVerdict, Verifying!Unsupported, Verifying!Verdict
  <1>4. numbers # {} /\ v.shown = numbers /\ v.seen = {f.moment}
    BY <1>3
  <1>5. (v.verdict = "current") = (c.value \in numbers)
    BY <1>3, <1>4
  <1>6. \A x \in numbers : Verifying!Shows(c, x, f.moment)
    <2> TAKE x \in numbers
    <2>1. CASE c.kind = "stars"
      <3>1. x \in f.answer.value /\ Verifying!SourceOf(c) = "github"
        BY <1>2, <2>1 DEF Verifying!SourceOf
      <3> QED
        BY <3>1 DEF Backs, ShowsAs, Verifying!Shows
    <2>2. CASE c.kind # "stars" /\ f.key = c.key
      BY <1>2, <2>2 DEF Backs, ShowsAs, Verifying!Shows
    <2>3. CASE c.kind # "stars" /\ f.key # c.key
      <3>1. PICK w \in f.answer.values : w[1] = c.key /\ x = w[2]
        BY <1>2, <2>3
      <3> QED
        BY <3>1 DEF Backs, ShowsAs, Verifying!Shows
    <2> QED
      BY <2>1, <2>2, <2>3
  <1>7. \E x \in numbers : (x = c.value) = (v.verdict = "current")
    BY <1>4, <1>5
  <1> QED
    BY <1>4, <1>6, <1>7 DEF Verifying!Checkable

(* What depends on the input only stays what it is.                                *)
LEMMA InputStays ==
    ASSUME input' = input
    PROVE  /\ \A c : Verifying!Subject(c)' = Verifying!Subject(c)
           /\ \A c : Verifying!SourceOf(c)' = Verifying!SourceOf(c)
           /\ \A r : Verifying!ExtractClaims(r)' = Verifying!ExtractClaims(r)
           /\ \A c, v : Evident(c, v)' <=> Evident(c, v)
           /\ \A c, v, on, fetches : SameMoment(c, v, on, fetches)' <=> SameMoment(c, v, on, fetches)
           /\ \A c, f : Backs(f, c)' <=> Backs(f, c)
  <1>1. \A c : Verifying!ItemOf(c)' = Verifying!ItemOf(c)
    BY DEF Verifying!ItemOf, Verifying!Candidate
  <1>2. \A c : Verifying!SourceOf(c)' = Verifying!SourceOf(c)
    BY <1>1 DEF Verifying!SourceOf
  <1>3. \A c : Verifying!Subject(c)' = Verifying!Subject(c)
    BY <1>1, <1>2 DEF Verifying!Subject
  <1>4. \A r : Verifying!ExtractClaims(r)' = Verifying!ExtractClaims(r)
    BY DEF Verifying!ExtractClaims, Verifying!Candidate
  <1>5. \A c, key, x, m : ShowsAs(c, key, x, m)' <=> ShowsAs(c, key, x, m)
    BY <1>1, <1>2, <1>3 DEF ShowsAs, Verifying!CounterOf
  <1>6. \A c, x, m : Verifying!Shows(c, x, m)' <=> Verifying!Shows(c, x, m)
    BY <1>1, <1>2, <1>3 DEF Verifying!Shows, Verifying!CounterOf
  <1>7. \A c, v : Evident(c, v)' <=> Evident(c, v)
    BY <1>2, <1>6 DEF Evident
  <1>8. \A c, v, on, fetches : SameMoment(c, v, on, fetches)' <=> SameMoment(c, v, on, fetches)
    BY <1>3 DEF SameMoment
  <1>9. \A c, f : Backs(f, c)' <=> Backs(f, c)
    BY <1>5 DEF Backs
  <1> QED
    BY <1>2, <1>3, <1>4, <1>7, <1>8, <1>9

(* One more verdict on the report in hand.                                        *)
LEMMA ToldOne ==
    ASSUME VerdictInv, output.on \in DOMAIN input.reports, UNCHANGED input,
           NEW c \in Verifying!ExtractClaims(output.on), c \notin DOMAIN output.verdicts,
           NEW v, NEW fetches,
           \A s \in DOMAIN output.fetches : s \in DOMAIN fetches /\ fetches[s] = output.fetches[s],
           output' = [on |-> output.on, fetches |-> fetches,
                      verdicts |-> Verifying!With(output.verdicts, c, v)],
           Evident(c, v), SameMoment(c, v, output.on, fetches),
           \A d \in Verifying!ExtractClaims(output.on) :
               Verifying!Subject(d) \in DOMAIN fetches /\ Verifying!SourceOf(d) \in Checkables =>
                   Backs(fetches[Verifying!Subject(d)], d)
    PROVE  VerdictInv'
  <1>1. PICK verdicts : verdicts = Verifying!With(output.verdicts, c, v)
    OBVIOUS
  <1>2. /\ DOMAIN verdicts = DOMAIN output.verdicts \cup {c}
        /\ verdicts[c] = v
        /\ \A d \in DOMAIN output.verdicts : verdicts[d] = output.verdicts[d]
    BY <1>1 DEF Verifying!With
  <1>3. output'.on = output.on /\ output'.fetches = fetches /\ output'.verdicts = verdicts /\ input' = input
    BY <1>1
  <1>4. c.report = output.on /\ output.on \in Nat
    BY ClaimOf DEF VerdictInv
  <1>5. \A d \in DOMAIN verdicts :
            /\ d.report \in Nat /\ d.report <= output.on
            /\ SameMoment(d, verdicts[d], output.on, fetches)
            /\ Evident(d, verdicts[d])
    <2> TAKE d \in DOMAIN verdicts
    <2>1. CASE d = c
      BY <1>2, <1>4, <2>1
    <2>2. CASE d \in DOMAIN output.verdicts
      <3>1. SameMoment(d, output.verdicts[d], output.on, output.fetches) /\ Evident(d, output.verdicts[d])
        BY <2>2 DEF VerdictInv
      <3>2. SameMoment(d, output.verdicts[d], output.on, fetches)
        BY <3>1 DEF SameMoment
      <3> QED
        BY <1>2, <2>2, <3>1, <3>2 DEF VerdictInv
    <2> QED
      BY <1>2, <2>1, <2>2
  <1>6. \A d, e \in DOMAIN verdicts :
            /\ d.report = e.report /\ Verifying!Subject(d) = Verifying!Subject(e)
            /\ verdicts[d].seen # {} /\ verdicts[e].seen # {}
            => verdicts[d].seen = verdicts[e].seen
    <2> TAKE d, e \in DOMAIN verdicts
    <2>1. CASE d.report = output.on
      BY <1>5, <2>1 DEF SameMoment
    <2>2. CASE d.report # output.on /\ d.report = e.report
      <3>1. d \in DOMAIN output.verdicts /\ e \in DOMAIN output.verdicts
        BY <1>2, <1>4, <2>2
      <3> QED
        BY <1>2, <3>1 DEF VerdictInv, Verifying!OneMoment
    <2> QED
      BY <2>1, <2>2
  <1>7. input'.reports \in Reports /\ output'.on \in Nat
    BY <1>3, <1>4 DEF VerdictInv
  <1>8. \A d \in DOMAIN output'.verdicts :
            /\ d.report \in Nat /\ d.report <= output'.on
            /\ SameMoment(d, output.verdicts[d], output.on, output.fetches)'
            /\ Evident(d, output.verdicts[d])'
    BY <1>3, <1>5, InputStays
  <1>9. Verifying!OneMoment'
    BY <1>3, <1>6, InputStays DEF Verifying!OneMoment
  <1>10. (output.on \in DOMAIN input.reports =>
             \A d \in Verifying!ExtractClaims(output.on) :
                 Verifying!Subject(d) \in DOMAIN output.fetches /\ Verifying!SourceOf(d) \in Checkables =>
                     Backs(output.fetches[Verifying!Subject(d)], d))'
    BY <1>3, InputStays
  <1> QED
    BY <1>7, <1>8, <1>9, <1>10 DEF VerdictInv

(* A verdict that needed no fetch.                                               *)
LEMMA ToldPlainly ==
    ASSUME VerdictInv, output.on \in DOMAIN input.reports, UNCHANGED input,
           output = [on |-> output.on, fetches |-> output.fetches, verdicts |-> output.verdicts],
           NEW c \in Verifying!ExtractClaims(output.on), c \notin DOMAIN output.verdicts,
           NEW v, Verifying!Tell(c, v), v.verdict \notin {"current", "stale"}, v.seen = {}
    PROVE  VerdictInv'
  <1>1. output' = [on |-> output.on, fetches |-> output.fetches,
                   verdicts |-> Verifying!With(output.verdicts, c, v)]
    BY DEF Verifying!Tell
  <1>2. Evident(c, v) /\ SameMoment(c, v, output.on, output.fetches)
    BY DEF Evident, SameMoment
  <1> QED
    BY <1>1, <1>2, ToldOne DEF VerdictInv

Shaped == output = [on |-> output.on, fetches |-> output.fetches, verdicts |-> output.verdicts]
LEMMA ReuseKept ==
    ASSUME VerdictInv, Shaped, output.on \in DOMAIN input.reports, UNCHANGED input,
           NEW c \in Verifying!ExtractClaims(output.on), c \notin DOMAIN output.verdicts,
           Verifying!Reuse(c)
    PROVE  VerdictInv'
  <1>1. PICK f : f = output.fetches[Verifying!Subject(c)]
    OBVIOUS
  <1>2. PICK v : v = Verifying!SnapshotVerdict(c, f)
    OBVIOUS
  <1>3. /\ c.kind # "status" /\ Verifying!Checkable(c)
        /\ Verifying!Subject(c) \in DOMAIN output.fetches /\ Verifying!Tell(c, v)
    BY <1>1, <1>2 DEF Verifying!Reuse
  <1>4. Verifying!SourceOf(c) \in Checkables
    BY <1>3 DEF Verifying!Checkable, Checkables
  <1>5. Backs(f, c)
    BY <1>1, <1>3, <1>4 DEF VerdictInv
  <1>6. Evident(c, v)
    BY <1>2, <1>3, <1>5, SnapshotEvident
  <1>7. v.seen = {f.moment}
    BY <1>2 DEF Verifying!SnapshotVerdict, Verifying!PointVerdict, Verifying!Unsupported, Verifying!Verdict
  <1>8. SameMoment(c, v, output.on, output.fetches)
    BY <1>1, <1>3, <1>7 DEF SameMoment
  <1>9. output' = [on |-> output.on, fetches |-> output.fetches,
                   verdicts |-> Verifying!With(output.verdicts, c, v)]
    BY <1>3 DEF Verifying!Tell, Shaped
  <1> QED
    BY <1>6, <1>8, <1>9, ToldOne DEF VerdictInv

LEMMA RefetchKept ==
    ASSUME VerdictInv, Shaped, output.on \in DOMAIN input.reports, UNCHANGED input,
           NEW c \in Verifying!ExtractClaims(output.on), c \notin DOMAIN output.verdicts,
           NEW moment, Verifying!Refetch(c, moment)
    PROVE  VerdictInv'
  <1>1. PICK f : f = Snapshot(c, moment)
    OBVIOUS
  <1>2. PICK v : v = Verifying!SnapshotVerdict(c, f)
    OBVIOUS
  <1>3. PICK fetches : fetches = Verifying!With(output.fetches, Verifying!Subject(c), f)
    OBVIOUS
  <1>4. /\ c.kind # "status" /\ Verifying!Checkable(c)
        /\ Verifying!Subject(c) \notin DOMAIN output.fetches
        /\ output' = [output EXCEPT !.fetches = fetches,
                                    !.verdicts = Verifying!With(output.verdicts, c, v)]
    BY <1>1, <1>2, <1>3 DEF Verifying!Refetch, Snapshot
  <1>5. output' = [on |-> output.on, fetches |-> fetches,
                   verdicts |-> Verifying!With(output.verdicts, c, v)]
    BY <1>4 DEF Shaped
  <1>6. /\ DOMAIN fetches = DOMAIN output.fetches \cup {Verifying!Subject(c)}
        /\ fetches[Verifying!Subject(c)] = f
        /\ \A s \in DOMAIN output.fetches : fetches[s] = output.fetches[s]
    BY <1>3, <1>4 DEF Verifying!With
  <1>7. Verifying!SourceOf(c) \in Checkables
    BY <1>4 DEF Verifying!Checkable, Checkables
  <1>8. \A d \in Verifying!ExtractClaims(output.on) :
            Verifying!Subject(d) \in DOMAIN fetches /\ Verifying!SourceOf(d) \in Checkables =>
                Backs(fetches[Verifying!Subject(d)], d)
    <2> TAKE d \in Verifying!ExtractClaims(output.on)
    <2> HAVE Verifying!Subject(d) \in DOMAIN fetches /\ Verifying!SourceOf(d) \in Checkables
    <2>1. CASE Verifying!Subject(d) = Verifying!Subject(c)
      <3>1. Backs(f, d)
        BY <1>1, <1>7, <2>1, SnapshotBacks DEF VerdictInv
      <3> QED
        BY <1>6, <2>1, <3>1
    <2>2. CASE Verifying!Subject(d) # Verifying!Subject(c)
      BY <1>6, <2>2 DEF VerdictInv
    <2> QED
      BY <2>1, <2>2
  <1>9. Backs(f, c)
    BY <1>6, <1>7, <1>8
  <1>10. Evident(c, v)
    BY <1>2, <1>4, <1>9, SnapshotEvident
  <1>11. v.seen = {f.moment}
    BY <1>2 DEF Verifying!SnapshotVerdict, Verifying!PointVerdict, Verifying!Unsupported, Verifying!Verdict
  <1>12. SameMoment(c, v, output.on, fetches)
    BY <1>6, <1>11 DEF SameMoment
  <1> QED
    BY <1>5, <1>6, <1>8, <1>10, <1>12, ToldOne DEF VerdictInv

(* The next report starts without snapshots.                                      *)
LEMMA NextReportKept ==
    ASSUME VerdictInv, Shaped, Verifying!NextReport
    PROVE  VerdictInv' /\ Shaped'
  <1>1. /\ output' = [on |-> output.on + 1, fetches |-> <<>>, verdicts |-> output.verdicts]
        /\ input' = input
    BY DEF Shaped, Verifying!NextReport
  <1>2. output.on \in Nat /\ input.reports \in Reports
    BY DEF VerdictInv
  <1>3. output'.on = output.on + 1 /\ output'.fetches = <<>> /\ output'.verdicts = output.verdicts
    BY <1>1
  <1>4. \A d \in DOMAIN output.verdicts :
            d.report \in Nat /\ d.report <= output.on /\ Evident(d, output.verdicts[d])
    BY DEF VerdictInv
  <1>5. \A d \in DOMAIN output'.verdicts :
            /\ d.report \in Nat /\ d.report <= output'.on
            /\ SameMoment(d, output.verdicts[d], output.on, output.fetches)'
            /\ Evident(d, output.verdicts[d])'
    <2> TAKE d \in DOMAIN output'.verdicts
    <2>1. d.report \in Nat /\ d.report <= output.on /\ Evident(d, output.verdicts[d])
      BY <1>3, <1>4
    <2>2. d.report # output'.on /\ d.report <= output'.on
      BY <1>2, <1>3, <2>1
    <2>3. SameMoment(d, output'.verdicts[d], output'.on, output'.fetches)
      BY <2>2 DEF SameMoment
    <2>4. SameMoment(d, output.verdicts[d], output.on, output.fetches)'
      BY <1>1, <2>3, InputStays
    <2>5. Evident(d, output.verdicts[d])'
      BY <1>1, <1>3, <2>1, InputStays
    <2> QED
      BY <2>1, <2>2, <2>4, <2>5
  <1>6. Verifying!OneMoment'
    BY <1>1, <1>3, InputStays DEF VerdictInv, Verifying!OneMoment
  <1>7. (output.on \in DOMAIN input.reports =>
             \A d \in Verifying!ExtractClaims(output.on) :
                 Verifying!Subject(d) \in DOMAIN output.fetches /\ Verifying!SourceOf(d) \in Checkables =>
                     Backs(output.fetches[Verifying!Subject(d)], d))'
    BY <1>3
  <1>8. input'.reports \in Reports /\ output'.on \in Nat
    BY <1>1, <1>2
  <1> QED
    BY <1>1, <1>5, <1>6, <1>7, <1>8 DEF VerdictInv, Shaped

LEMMA VerifySteps ==
    ASSUME VerdictInv, Shaped, Verifying!Next \/ UNCHANGED <<input, output>>
    PROVE  VerdictInv' /\ Shaped'
  <1>1. CASE UNCHANGED <<input, output>>
    <2>1. input' = input /\ output' = output
      BY <1>1
    <2>2. \A d \in DOMAIN output'.verdicts :
              /\ d.report \in Nat /\ d.report <= output'.on
              /\ SameMoment(d, output.verdicts[d], output.on, output.fetches)'
              /\ Evident(d, output.verdicts[d])'
      BY <2>1, InputStays DEF VerdictInv
    <2>3. Verifying!OneMoment'
      BY <2>1, InputStays DEF VerdictInv, Verifying!OneMoment
    <2>4. (output.on \in DOMAIN input.reports =>
               \A d \in Verifying!ExtractClaims(output.on) :
                   Verifying!Subject(d) \in DOMAIN output.fetches /\ Verifying!SourceOf(d) \in Checkables =>
                       Backs(output.fetches[Verifying!Subject(d)], d))'
      BY <2>1, InputStays DEF VerdictInv
    <2>5. input'.reports \in Reports /\ output'.on \in Nat
      BY <2>1 DEF VerdictInv
    <2> QED
      BY <2>1, <2>2, <2>3, <2>4, <2>5 DEF VerdictInv, Shaped
  <1>2. CASE Verifying!VerifyClaim
    <2>1. output.on \in DOMAIN input.reports /\ UNCHANGED input
      BY <1>2 DEF Verifying!VerifyClaim
    <2>2. PICK c \in Verifying!ExtractClaims(output.on) :
              /\ Verifying!Due(c)
              /\ \/ Verifying!VerifyStatus(c)
                 \/ Verifying!GiveUp(c)
                 \/ Verifying!Reuse(c)
                 \/ \E moment \in Moments : Verifying!Refetch(c, moment)
      BY <1>2, Zenon DEF Verifying!VerifyClaim
    <2>3. c \notin DOMAIN output.verdicts
      BY <2>2 DEF Verifying!Due
    <2>4. Shaped'
      BY <2>2 DEF Shaped, Verifying!VerifyStatus, Verifying!GiveUp, Verifying!Reuse, Verifying!Refetch,
         Verifying!Tell
    <2>5. CASE Verifying!VerifyStatus(c)
      <3>1. PICK v : v = IF Verifying!Contradicted(c) THEN Verifying!Verdict("contradicted", {}, {})
                         ELSE Verifying!Unsupported({})
        OBVIOUS
      <3>2. Verifying!Tell(c, v)
        BY <2>5, <3>1 DEF Verifying!VerifyStatus
      <3>3. v.verdict \notin {"current", "stale"} /\ v.seen = {}
        BY <3>1 DEF Verifying!Verdict, Verifying!Unsupported
      <3> QED
        BY <2>1, <2>3, <2>4, <3>2, <3>3, ToldPlainly DEF Shaped
    <2>6. CASE Verifying!GiveUp(c)
      <3>1. PICK v : v = Verifying!Unsupported({})
        OBVIOUS
      <3>2. Verifying!Tell(c, v)
        BY <2>6, <3>1 DEF Verifying!GiveUp
      <3>3. v.verdict \notin {"current", "stale"} /\ v.seen = {}
        BY <3>1 DEF Verifying!Verdict, Verifying!Unsupported
      <3> QED
        BY <2>1, <2>3, <2>4, <3>2, <3>3, ToldPlainly DEF Shaped
    <2>7. CASE Verifying!Reuse(c)
      BY <2>1, <2>3, <2>4, <2>7, ReuseKept
    <2>8. CASE \E moment \in Moments : Verifying!Refetch(c, moment)
      BY <2>1, <2>3, <2>4, <2>8, RefetchKept
    <2> QED
      BY <2>2, <2>4, <2>5, <2>6, <2>7, <2>8
  <1> QED
    BY <1>1, <1>2, NextReportKept DEF Verifying!Next

LEMMA VerifyStarts == ASSUME Verifying!Init PROVE VerdictInv /\ Shaped
  <1>1. output.on = 1 /\ output.fetches = <<>> /\ output.verdicts = <<>> /\ Shaped
    BY DEF Verifying!Init, Shaped
  <1>2. input.reports \in Reports
    BY DEF Verifying!Init
  <1> QED
    BY <1>1, <1>2 DEF VerdictInv, Verifying!OneMoment

(* Whatever the sources do while they are asked, the verdicts on one subject show one    *)
(* moment of it, and a number is judged by what the event, repository or stream it came  *)
(* from shows at that moment.                                                      *)
THEOREM VerdictsKept == EngineSpec => []VerdictsHonest
  <1> DEFINE Inv == part = "verify" => VerdictInv /\ Shaped
  <1>1. EngineInit => Inv
    BY VerifyStarts DEF EngineInit
  <1>2. Inv /\ [EngineNext]_engine => Inv'
    <2> SUFFICES ASSUME Inv, [EngineNext]_engine, part' = "verify"
                 PROVE  VerdictInv' /\ Shaped'
      OBVIOUS
    <2>1. part = "verify"
      BY StaysPut
    <2>2. Verifying!Next \/ UNCHANGED <<input, output>>
      BY <2>1 DEF EngineNext, HttpStep, OnOne, engine
    <2> QED
      BY <2>1, <2>2, VerifySteps
  <1>3. Inv => VerdictsHonest
    BY DEF VerdictsHonest, VerdictInv, Evident, Verifying!OwnEvidence
  <1> QED
    BY <1>1, <1>2, <1>3, PTL DEF EngineSpec

-----------------------------------------------------------------------------
(* A plan.  The first two of finitely many, by a claim that tells them apart.          *)
Narrowed(sub, T) ==
    /\ T \subseteq sub /\ IsFiniteSet(T) /\ Cardinality(T) <= 2
    /\ sub # {} => T # {}
    /\ Cardinality(sub) <= 2 => T = sub
LEMMA FirstTwo ==
    ASSUME NEW sub, IsFiniteSet(sub), NEW c \in [sub -> 0..30],
           \A s, t \in sub : c[s] = c[t] => s = t,
           NEW T, T = {s \in sub : Cardinality({t \in sub : c[t] < c[s]}) < 2}
    PROVE  Narrowed(sub, T)
  <1>1. T \subseteq sub /\ IsFiniteSet(T)
    BY FS_Subset
  <1>2. \A s \in sub : c[s] \in Nat /\ 30 - c[s] \in Nat
    OBVIOUS
  <1>3. sub # {} => T # {}
    <2>1. SUFFICES ASSUME sub # {} PROVE T # {}
      OBVIOUS
    <2>2. PICK C : C = {c[s] : s \in sub}
      OBVIOUS
    <2>3. C \subseteq Nat /\ C # {}
      BY <1>2, <2>1, <2>2
    <2>4. PICK m \in C : \A y \in C : m <= y
      BY <2>3, LeastOf
    <2>5. PICK s \in sub : m = c[s]
      BY <2>2
    <2>6. \A t \in sub : ~(c[t] < c[s])
      <3> TAKE t \in sub
      <3>1. c[t] \in C /\ c[t] \in Nat /\ c[s] \in Nat
        BY <1>2, <2>2
      <3> QED
        BY <2>4, <2>5, <3>1
    <2>7. {t \in sub : c[t] < c[s]} = {}
      BY <2>6
    <2>8. Cardinality({t \in sub : c[t] < c[s]}) < 2
      BY <2>7, FS_EmptySet
    <2>9. s \in T
      BY <2>8
    <2> QED
      BY <2>9
  <1>4. Cardinality(T) <= 2
    <2>1. CASE T = {}
      <3>1. Cardinality(T) = 0
        BY <2>1, FS_EmptySet
      <3> QED
        BY <3>1
    <2>2. CASE T # {}
      <3>1. PICK C : C = {30 - c[s] : s \in T}
        OBVIOUS
      <3>2. C \subseteq Nat /\ C # {}
        <4>1. \A s \in T : 30 - c[s] \in Nat
          BY <1>1, <1>2
        <4>2. C \subseteq Nat
          BY <3>1, <4>1
        <4>3. PICK s : s \in T
          BY <2>2
        <4>4. 30 - c[s] \in C
          BY <3>1, <4>3
        <4> QED
          BY <4>2, <4>4
      <3>3. PICK m \in C : \A y \in C : m <= y
        BY <3>2, LeastOf
      <3>4. PICK s \in T : m = 30 - c[s]
        BY <3>1
      <3>5. \A t \in T \ {s} : t \in sub /\ c[t] < c[s]
        <4> TAKE t \in T \ {s}
        <4>1. t \in sub /\ s \in sub /\ c[t] \in Nat /\ c[s] \in Nat /\ c[t] # c[s]
          BY <1>1, <1>2
        <4>2. m <= 30 - c[t]
          BY <3>1, <3>3
        <4> QED
          BY <3>4, <4>1, <4>2
      <3>6. PICK B : B = {t \in sub : c[t] < c[s]}
        OBVIOUS
      <3>7. IsFiniteSet(B) /\ Cardinality(B) \in Nat /\ Cardinality(B) < 2
        BY <3>4, <3>6, FS_Subset, FS_CardinalityType
      <3>8. T \ {s} \subseteq B
        BY <3>5, <3>6
      <3>9. Cardinality(T \ {s}) <= Cardinality(B)
        BY <3>7, <3>8, FS_Subset
      <3>10. Cardinality(T \ {s}) = Cardinality(T) - 1
        BY <1>1, FS_RemoveElement
      <3> QED
        BY <1>1, <3>7, <3>9, <3>10, FS_CardinalityType
    <2> QED
      BY <2>1, <2>2
  <1>5. Cardinality(sub) <= 2 => T = sub
    <2>1. SUFFICES ASSUME Cardinality(sub) <= 2, NEW s \in sub PROVE s \in T
      BY <1>1
    <2>2. PICK B : B = {t \in sub : c[t] < c[s]}
      OBVIOUS
    <2>3. B \subseteq sub \ {s}
      BY <1>2, <2>2
    <2>4. IsFiniteSet(sub \ {s}) /\ Cardinality(sub \ {s}) = Cardinality(sub) - 1
      BY FS_RemoveElement
    <2>5. IsFiniteSet(B) /\ Cardinality(B) <= Cardinality(sub \ {s})
      BY <2>3, <2>4, FS_Subset
    <2>6. Cardinality(B) < 2
      BY <2>1, <2>4, <2>5, FS_CardinalityType
    <2> QED
      BY <2>2, <2>6
  <1> QED
    BY <1>1, <1>3, <1>4, <1>5 DEF Narrowed

LEMMA PlacesAre ==
    /\ \A s \in Planning!Sources : Planning!Place[s] \in 1..7
    /\ \A s, t \in Planning!Sources : Planning!Place[s] = Planning!Place[t] => s = t
  BY DEF Planning!Sources, Planning!Place

LEMMA SourcesFinite == IsFiniteSet(Planning!Sources)
  <1>1. Planning!Sources =
            ((((((({} \cup {"corpus"}) \cup {"x"}) \cup {"youtube"}) \cup {"hackernews"})
               \cup {"polymarket"}) \cup {"grounding"}) \cup {"jobs"})
    BY DEF Planning!Sources, Planning!Place
  <1> QED
    BY <1>1, FS_EmptySet, FS_AddElement

Ranked(rank) ==
    /\ \A s \in DOMAIN rank : rank[s] \in 1..4
    /\ \A s, t \in DOMAIN rank : rank[s] = rank[t] => s = t
LEMMA RanksAre ==
    ASSUME NEW intent \in Planning!Intents
    PROVE  Ranked(Planning!QuickPriority[intent])
  <1> USE DEF Planning!QuickPriority, Ranked
  <1>1. CASE intent = "factual"
    BY <1>1
  <1>2. CASE intent = "product"
    BY <1>2
  <1>3. CASE intent = "concept"
    BY <1>3
  <1>4. CASE intent = "opinion"
    BY <1>4
  <1>5. CASE intent = "how_to"
    BY <1>5
  <1>6. CASE intent = "comparison"
    BY <1>6
  <1>7. CASE intent = "breaking_news"
    BY <1>7
  <1>8. CASE intent = "prediction"
    BY <1>8
  <1> QED
    BY <1>1, <1>2, <1>3, <1>4, <1>5, <1>6, <1>7, <1>8 DEF Planning!Intents

(* Two sources never make the same claim on the slots of a quick run.                 *)
LEMMA ClaimsDiffer ==
    ASSUME NEW intent \in Planning!Intents, NEW S, NEW requested, NEW front,
           front \subseteq {"grounding"}, NEW s \in Planning!Sources
    PROVE  /\ Planning!Claim(s, intent, S, requested, front) \in 0..30
           /\ \A t \in Planning!Sources :
                  Planning!Claim(s, intent, S, requested, front)
                      = Planning!Claim(t, intent, S, requested, front) => s = t
  <1>1. PICK rank : rank = Planning!QuickPriority[intent]
    OBVIOUS
  <1>2. Ranked(rank)
    BY <1>1, RanksAre
  <1>3. \A t \in Planning!Sources :
            /\ Planning!PlaceIn(t, front) \in 0..7
            /\ Planning!PlaceIn(s, front) = Planning!PlaceIn(t, front) => s = t
    <2> TAKE t \in Planning!Sources
    <2>1. /\ Planning!Place[s] \in 1..7 /\ Planning!Place[t] \in 1..7
          /\ Planning!Place[s] = Planning!Place[t] => s = t
      BY PlacesAre
    <2>2. s \in front /\ t \in front => s = t
      OBVIOUS
    <2> QED
      BY <2>1, <2>2 DEF Planning!PlaceIn
  <1>4. \A t : Planning!Claim(t, intent, S, requested, front) =
                   IF t \in requested \cap S THEN Planning!PlaceIn(t, front)
                   ELSE IF t \in DOMAIN rank \cap S THEN 10 + rank[t]
                   ELSE 20 + Planning!PlaceIn(t, front)
    BY <1>1 DEF Planning!Claim
  <1>5. \A t \in DOMAIN rank : rank[t] \in 1..4 /\ (\A u \in DOMAIN rank : rank[t] = rank[u] => t = u)
    BY <1>2 DEF Ranked
  <1> QED
    BY <1>3, <1>4, <1>5

LEMMA QuickIs ==
    ASSUME NEW intent \in Planning!Intents, NEW S, NEW requested, NEW front,
           front \subseteq {"grounding"}, NEW sub \in SUBSET Planning!Sources
    PROVE  Narrowed(sub, Planning!QuickSources(sub, intent, S, requested, front))
  <1>1. PICK c : c = [s \in sub |-> Planning!Claim(s, intent, S, requested, front)]
    OBVIOUS
  <1>2. c \in [sub -> 0..30]
    BY <1>1, ClaimsDiffer
  <1>3. \A s, t \in sub : c[s] = c[t] => s = t
    <2> TAKE s, t \in sub
    <2>1. /\ s \in Planning!Sources /\ t \in Planning!Sources
          /\ c[s] = Planning!Claim(s, intent, S, requested, front)
          /\ c[t] = Planning!Claim(t, intent, S, requested, front)
      BY <1>1
    <2> QED
      BY <2>1, ClaimsDiffer
  <1>4. IsFiniteSet(sub)
    BY SourcesFinite, FS_Subset
  <1>5. \A A : Planning!Cardinality(A) = Cardinality(A)
    BY DEF Planning!Cardinality, Cardinality
  <1>6. \A s \in sub : {t \in sub : Planning!Claim(t, intent, S, requested, front)
                                        < Planning!Claim(s, intent, S, requested, front)}
                       = {t \in sub : c[t] < c[s]}
    BY <1>1
  <1>7. PICK T : T = Planning!QuickSources(sub, intent, S, requested, front)
    OBVIOUS
  <1>8. T = {s \in sub : Cardinality({t \in sub : c[t] < c[s]}) < 2}
    BY <1>5, <1>6, <1>7 DEF Planning!QuickSources, Planning!QuickLimit
  <1> QED
    BY <1>2, <1>3, <1>4, <1>7, <1>8, FirstTwo

(* At the other depths the intent may choose among its sources.                       *)
LEMMA DefaultIs ==
    ASSUME NEW intent, NEW S, NEW T, T = Planning!DefaultSources(intent, S)
    PROVE  /\ T \subseteq S
           /\ S # {} => T # {}
           /\ intent \notin {"concept", "how_to"} => T = S
  <1>1. PICK capable : capable = IF intent = "how_to" THEN Planning!HowToSources(S) ELSE S
    OBVIOUS
  <1>2. capable \subseteq S /\ (S # {} => capable # {})
    BY <1>1 DEF Planning!HowToSources, Planning!OrElseAll
  <1>3. Planning!OrElseAll(S, S) = S
    BY DEF Planning!OrElseAll
  <1>4. T = IF intent \in {"concept", "how_to"}
            THEN Planning!OrElseAll(capable \ {"polymarket"}, capable) ELSE capable
    BY <1>1, <1>3 DEF Planning!DefaultSources
  <1> QED
    BY <1>1, <1>2, <1>4 DEF Planning!OrElseAll

(* What the trimming of subqueries keeps of each: in a quick run the two first, else    *)
(* what the intent chooses.                                                    *)
TrimmedTo(q, intent, S, sub, T) ==
    IF q.depth = "quick" THEN Narrowed(sub, T) ELSE T = Planning!DefaultSources(intent, S)
Trimmed(q, intent, S, n, subs, plan) ==
    /\ plan \in [1..n -> SUBSET S]
    /\ \A i \in 1..n : TrimmedTo(q, intent, S, subs[i], plan[i])
LEMMA TrimIs ==
    ASSUME NEW q, NEW intent \in Planning!Intents, NEW S \in SUBSET Planning!Sources,
           NEW n \in Nat, NEW subs \in [1..n -> SUBSET S], NEW requested, NEW front,
           front \subseteq {"grounding"}, NEW plan,
           plan = Planning!Trim(subs, q, intent, S, requested, front)
    PROVE  Trimmed(q, intent, S, n, subs, plan)
  <1>1. Len(subs) = n
    OBVIOUS
  <1>2. \A i \in 1..n : subs[i] \in SUBSET Planning!Sources
    OBVIOUS
  <1>3. plan = [i \in 1..n |->
                  IF q.depth = "quick"
                  THEN Planning!QuickSources(subs[i], intent, S, requested, front)
                  ELSE Planning!DefaultSources(intent, S)]
    BY <1>1 DEF Planning!Trim
  <1>4. \A i \in 1..n : TrimmedTo(q, intent, S, subs[i], plan[i])
    <2> TAKE i \in 1..n
    <2>1. CASE q.depth = "quick"
      <3>1. plan[i] = Planning!QuickSources(subs[i], intent, S, requested, front)
        BY <1>3, <2>1
      <3>2. Narrowed(subs[i], plan[i])
        BY <1>2, <3>1, QuickIs
      <3> QED
        BY <2>1, <3>2 DEF TrimmedTo
    <2>2. CASE q.depth # "quick"
      <3>1. plan[i] = Planning!DefaultSources(intent, S)
        BY <1>3, <2>2
      <3> QED
        BY <2>2, <3>1 DEF TrimmedTo
    <2> QED
      BY <2>1, <2>2
  <1>5. \A i \in 1..n : plan[i] \subseteq S
    <2> TAKE i \in 1..n
    <2>1. CASE q.depth = "quick"
      BY <1>4, <2>1 DEF TrimmedTo, Narrowed
    <2>2. CASE q.depth # "quick"
      BY <1>4, <2>2, DefaultIs DEF TrimmedTo
    <2> QED
      BY <2>1, <2>2
  <1> QED
    BY <1>3, <1>4, <1>5 DEF Trimmed

-----------------------------------------------------------------------------
(* What is available beyond the request is what the run adds to every subquery.       *)
AddedFor(q, s) ==
    \/ s = "grounding" /\ q.web # "none"
    \/ s = "jobs" /\ (q.hiring \/ q.company)
Asking(q, avail, requested) ==
    /\ avail \subseteq Planning!Sources /\ requested \subseteq Planning!Sources
    /\ q.requested \subseteq avail => requested \subseteq avail
    /\ requested = {} \/ \A s \in avail \ requested : AddedFor(q, s)
    /\ q.requested # {} =>
           /\ requested # {} /\ requested \subseteq q.requested \cup {"corpus"}
           /\ q.requested \subseteq requested /\ requested = Planning!Requested(q)
LEMMA Asked ==
    ASSUME NEW q \in Questions
    PROVE  Asking(q, Planning!Available(q), Planning!PlannerRequested(q))
  <1>1. q.configured \subseteq Planning!Sources /\ q.requested \subseteq Planning!Sources
    BY PlanAssumption DEF Planning!PlanAssumption
  <1>2. "corpus" \in Planning!Sources /\ "jobs" \in Planning!Sources /\ "grounding" \in Planning!Sources
    BY DEF Planning!Sources, Planning!Place
  <1>3. PICK R : R = Planning!Requested(q)
    OBVIOUS
  <1>4. /\ R = IF q.corpus /\ q.requested # {} THEN q.requested \cup {"corpus"} ELSE q.requested
        /\ R \subseteq Planning!Sources /\ q.requested \subseteq R
        /\ R \subseteq q.requested \cup {"corpus"}
        /\ R = {} <=> q.requested = {}
    BY <1>1, <1>2, <1>3 DEF Planning!Requested
  <1>5. PICK configured : configured = (q.configured \cup (IF q.corpus THEN {"corpus"} ELSE {}))
                                       \cup (IF "jobs" \in R THEN {"jobs"} ELSE {})
    OBVIOUS
  <1>6. PICK kept : kept = (IF R = {} THEN configured ELSE configured \cap R)
                           \cup ({"corpus"} \cap q.requested)
    OBVIOUS
  <1>7. PICK web : web = CASE q.web = "none" -> kept \ {"grounding"}
                           [] q.web = "brave" -> kept \cup {"grounding"}
                           [] OTHER -> kept
    OBVIOUS
  <1>8. PICK company : company = IF q.hiring \/ q.company THEN web \cup {"jobs"} ELSE web
    OBVIOUS
  <1>9. Planning!Available(q) = IF q.hiring /\ R = {} THEN {"jobs"} ELSE company
    BY <1>3, <1>5, <1>6, <1>7, <1>8, Zenon DEF Planning!Available
  <1>10. Planning!PlannerRequested(q) = IF q.hiring /\ R = {} THEN {"jobs"} ELSE R
    BY <1>3 DEF Planning!PlannerRequested
  <1>11. CASE q.hiring /\ R = {}
    BY <1>2, <1>4, <1>9, <1>10, <1>11 DEF Asking
  <1>12. CASE ~(q.hiring /\ R = {})
    <2>1. Planning!Available(q) = company /\ Planning!PlannerRequested(q) = R
      BY <1>9, <1>10, <1>12
    <2>2. /\ kept \subseteq Planning!Sources
          /\ q.corpus /\ R # {} => "corpus" \in kept
          /\ R # {} => kept \subseteq R
      BY <1>1, <1>2, <1>4, <1>5, <1>6
    <2>3. /\ company \subseteq kept \cup {"grounding", "jobs"}
          /\ kept \ {"grounding"} \subseteq company
          /\ "grounding" \in company => q.web # "none"
          /\ "jobs" \in company => "jobs" \in kept \/ q.hiring \/ q.company
      BY <1>7, <1>8
    <2>4. q.requested \subseteq company => R \subseteq company
      <3>1. CASE q.corpus /\ q.requested # {}
        <4>1. "corpus" \in company
          BY <1>4, <2>2, <2>3, <3>1
        <4> QED
          BY <1>4, <4>1
      <3>2. CASE ~(q.corpus /\ q.requested # {})
        BY <1>4, <3>2
      <3> QED
        BY <3>1, <3>2
    <2>5. ASSUME NEW s \in company \ R, R # {} PROVE AddedFor(q, s)
      <3>1. s \notin kept
        BY <2>2, <2>5
      <3>2. CASE s = "grounding"
        BY <2>3, <3>2 DEF AddedFor
      <3>3. CASE s = "jobs"
        BY <2>3, <3>1, <3>3, Zenon DEF AddedFor
      <3> QED
        BY <2>3, <3>1, <3>2, <3>3
    <2>6. company \subseteq Planning!Sources
      BY <1>2, <2>2, <2>3
    <2> QED
      BY <1>3, <1>4, <2>1, <2>4, <2>5, <2>6 DEF Asking
  <1> QED
    BY <1>11, <1>12

(* A plan keeps to what is available or asked for; it has a source of the run unless    *)
(* the run adds one, or the request misled it; a quick one is short.                *)
Misleads(q, avail) ==
    ~(q.requested \subseteq avail) /\ (q.depth = "quick" \/ q.intent \in {"how_to", "concept"})
Within(q, avail, requested, T) ==
    /\ T \subseteq Planning!Sources
    /\ requested # {} => T \subseteq requested \cup {"grounding"}
    /\ q.depth = "quick" => IsFiniteSet(T) /\ Cardinality(T) <= 2
    /\ (requested = {} \/ avail \subseteq requested) /\ ~Misleads(q, avail) => T \cap avail # {}
Fair(q, avail, requested, plan) ==
    \E n \in Nat \ {0} : /\ plan \in [1..n -> SUBSET Planning!Sources]
                         /\ \A i \in 1..n : Within(q, avail, requested, plan[i])

LEMMA SanitizedWithin ==
    ASSUME NEW q, NEW avail \in SUBSET Planning!Sources, avail # {}, NEW requested,
           NEW intent, NEW S, S = IF requested = {} THEN avail ELSE avail \cap requested,
           NEW sub \in SUBSET S, S # {} => sub # {}, NEW T \in SUBSET S,
           TrimmedTo(q, intent, S, sub, T)
    PROVE  Within(q, avail, requested, T)
  <1>1. T \subseteq S /\ (S # {} => T # {})
    BY DefaultIs DEF TrimmedTo, Narrowed
  <1>2. q.depth = "quick" => IsFiniteSet(T) /\ Cardinality(T) <= 2
    BY DEF TrimmedTo, Narrowed
  <1>3. requested = {} \/ avail \subseteq requested => S = avail
    OBVIOUS
  <1> QED
    BY <1>1, <1>2, <1>3 DEF Within

LEMMA FallbackWithin ==
    ASSUME NEW q, NEW avail \in SUBSET Planning!Sources, avail # {},
           NEW requested \in SUBSET Planning!Sources, Asking(q, avail, requested),
           NEW front \in SUBSET (avail \cap {"grounding"}),
           NEW S, S = IF requested = {} THEN avail ELSE requested \cup front,
           NEW sub \in SUBSET S, sub # {}, NEW T \in SUBSET S,
           TrimmedTo(q, q.intent, S, sub, T)
    PROVE  Within(q, avail, requested, T)
  <1>1. T # {}
    BY DefaultIs DEF TrimmedTo, Narrowed
  <1>2. q.depth = "quick" => IsFiniteSet(T) /\ Cardinality(T) <= 2
    BY DEF TrimmedTo, Narrowed
  <1>3. S \subseteq Planning!Sources
    OBVIOUS
  <1>4. ASSUME requested = {} \/ avail \subseteq requested, ~Misleads(q, avail)
        PROVE  T \cap avail # {}
    <2>1. CASE S = avail
      BY <1>1, <2>1
    <2>2. CASE S # avail
      <3>1. requested # {} /\ S = requested /\ ~(requested \subseteq avail)
        BY <1>4, <2>2
      <3>2. q.depth # "quick" /\ q.intent \notin {"how_to", "concept"}
        BY <1>4, <3>1 DEF Misleads, Asking
      <3>3. T = S
        BY <3>2, DefaultIs DEF TrimmedTo
      <3> QED
        BY <1>4, <3>1, <3>3
    <2> QED
      BY <2>1, <2>2
  <1> QED
    BY <1>2, <1>3, <1>4 DEF Within

(* The subqueries of the deterministic plan: one at least, each with what it may use.     *)
LEMMA HowMany ==
    ASSUME NEW q, q.entities \in Nat, NEW intent
    PROVE  /\ Planning!AtMost(1 + Planning!More(q), Planning!MaxSubqueries(q, intent)) \in Nat \ {0}
           /\ \A k \in Nat : Planning!AtMost(k, Planning!MaxSubqueries(q, intent)) \in Nat
           /\ Planning!AtMost(1, 1) = 1
           /\ \A k \in Nat \ {0} : Planning!AtMost(k, 1) = 1
  <1>1. Planning!More(q) \in Nat
    BY DEF Planning!More
  <1>2. Planning!MaxSubqueries(q, intent) \in Nat \ {0}
    BY DEF Planning!MaxSubqueries
  <1> QED
    BY <1>1, <1>2 DEF Planning!AtMost

LEMMA FallbackIs ==
    ASSUME NEW q, q.entities \in Nat, q.intent \in Planning!Intents,
           NEW avail \in SUBSET Planning!Sources, avail # {},
           NEW requested \in SUBSET Planning!Sources, Asking(q, avail, requested),
           NEW plan, plan = Planning!FallbackPlan(q, avail, requested)
    PROVE  /\ Fair(q, avail, requested, plan)
           /\ (~q.hebrew /\ requested # {} /\ q.depth = "quick" /\ Cardinality(requested) <= 2)
                 => plan[1] = requested
  <1>1. PICK front : front = IF q.hebrew THEN avail \cap {"grounding"} ELSE {}
    OBVIOUS
  <1>2. PICK wanted : wanted = IF requested = {} THEN {} ELSE requested \cup front
    OBVIOUS
  <1>3. PICK S : S = IF requested = {} THEN avail ELSE requested \cup front
    OBVIOUS
  <1>4. PICK n : n = Planning!AtMost(1 + Planning!More(q), Planning!MaxSubqueries(q, q.intent))
    OBVIOUS
  <1>5. PICK subs : subs = [i \in 1..n |-> IF i = 2 THEN Planning!Aside(q, S) ELSE S]
    OBVIOUS
  <1>6. Planning!OrElseAll(wanted, avail) = S
    BY <1>2, <1>3 DEF Planning!OrElseAll
  <1>7. plan = Planning!Trim(subs, q, q.intent, S, wanted, front)
    BY <1>1, <1>2, <1>4, <1>5, <1>6, Zenon DEF Planning!FallbackPlan
  <1>8. n \in Nat \ {0}
    BY <1>4, HowMany
  <1>9. front \in SUBSET (avail \cap {"grounding"}) /\ S \in SUBSET Planning!Sources /\ S # {}
    BY <1>1, <1>3
  <1>10. Planning!Aside(q, S) \in SUBSET S /\ Planning!Aside(q, S) # {}
    BY <1>9 DEF Planning!Aside, Planning!OrElseAll
  <1>11. subs \in [1..n -> SUBSET S] /\ \A i \in 1..n : subs[i] # {}
    BY <1>5, <1>9, <1>10
  <1>12. front \subseteq {"grounding"}
    BY <1>9
  <1>13. Trimmed(q, q.intent, S, n, subs, plan)
    <2>1. n \in Nat
      BY <1>8
    <2>2. S \in SUBSET Planning!Sources
      BY <1>9
    <2>3. subs \in [1..n -> SUBSET S]
      BY <1>11
    <2> QED
      BY <1>7, <1>12, <2>1, <2>2, <2>3, TrimIs
  <1>14. /\ plan \in [1..n -> SUBSET S]
         /\ \A i \in 1..n : TrimmedTo(q, q.intent, S, subs[i], plan[i])
    BY <1>13 DEF Trimmed
  <1>15. \A i \in 1..n : Within(q, avail, requested, plan[i])
    <2> TAKE i \in 1..n
    <2>1. subs[i] \in SUBSET S /\ subs[i] # {} /\ plan[i] \in SUBSET S
      BY <1>11, <1>14
    <2> QED
      BY <1>3, <1>9, <1>14, <2>1, FallbackWithin
  <1>16. Fair(q, avail, requested, plan)
    BY <1>8, <1>9, <1>14, <1>15 DEF Fair
  <1>17. ASSUME ~q.hebrew, requested # {}, q.depth = "quick", Cardinality(requested) <= 2
         PROVE  plan[1] = requested
    <2>1. S = requested /\ 1 \in 1..n /\ subs[1] = S
      BY <1>1, <1>3, <1>5, <1>8, <1>17
    <2> QED
      BY <1>14, <1>17, <2>1 DEF TrimmedTo, Narrowed
  <1> QED
    BY <1>16, <1>17

(* The plan of the model, made safe.                                           *)
LEMMA SanitizeIs ==
    ASSUME NEW q \in Questions, q.answer.kind = "plan",
           NEW avail \in SUBSET Planning!Sources, avail # {},
           NEW requested \in SUBSET Planning!Sources, Asking(q, avail, requested),
           NEW plan, plan = Planning!SanitizePlan(q, q.answer, avail, requested)
    PROVE  Fair(q, avail, requested, plan)
  <1>1. PICK S : S = IF requested = {} THEN avail ELSE avail \cap requested
    OBVIOUS
  <1>2. PICK usable : usable = Planning!Usable(q, q.answer)
    OBVIOUS
  <1>3. q.entities \in Nat /\ q.intent \in Planning!Intents /\ q.answer.intent \in Planning!Intents
    BY PlanAssumption DEF Planning!PlanAssumption
  <1>4. PICK k \in Nat : DOMAIN usable = 1..k /\ usable \in [1..k -> {usable[i] : i \in 1..k}]
    <2>1. q.answer.subs \in Seq([sources : SUBSET STRING, queries : BOOLEAN])
      BY PlanAssumption DEF Planning!PlanAssumption
    <2>2. Len(q.answer.subs) \in Nat
      BY <2>1
    <2>3. PICK m : m = Planning!AtMost(Len(q.answer.subs), Planning!MaxSubqueries(q, q.answer.intent))
      OBVIOUS
    <2>4. m \in Nat
      BY <1>3, <2>2, <2>3, HowMany
    <2>5. PICK kept : kept = {j \in 1..m : q.answer.subs[j].queries}
      OBVIOUS
    <2>6. IsFiniteSet(kept)
      <3>1. IsFiniteSet(1..m)
        BY <2>4, FS_Interval
      <3> QED
        BY <2>5, <3>1, FS_Subset
    <2>7. PICK k : k = Cardinality(kept)
      OBVIOUS
    <2>8. \A A : Planning!Cardinality(A) = Cardinality(A)
      BY DEF Planning!Cardinality, Cardinality
    <2>9. Planning!Cardinality(kept) = k
      BY <2>7, <2>8
    <2>10. \E nth : usable = [i \in 1..k |-> nth[i]]
      <3>1. usable = [i \in 1..Planning!Cardinality(kept) |-> q.answer.subs[CHOOSE j \in kept :
                                Planning!Cardinality({l \in kept : l < j}) = i - 1]]
        BY <1>2, <2>3, <2>5 DEF Planning!Usable
      <3>2. usable = [i \in 1..k |-> usable[i]]
        BY <2>9, <3>1
      <3> QED
        BY <3>2
    <2> QED
      BY <2>6, <2>7, <2>10, FS_CardinalityType
  <1>5. Len(usable) = k
    BY <1>4
  <1>6. CASE usable = <<>>
    <2>1. plan = Planning!FallbackPlan(q, avail, requested)
      BY <1>2, <1>6, Zenon DEF Planning!SanitizePlan
    <2> QED
      BY <1>3, <2>1, FallbackIs
  <1>7. CASE usable # <<>>
    <2>1. k # 0
      BY <1>4, <1>7
    <2>2. PICK n : n = IF q.depth = "quick" THEN Planning!AtMost(k, 1) ELSE k
      OBVIOUS
    <2>3. n \in Nat \ {0}
      BY <1>3, <1>4, <2>1, <2>2, HowMany
    <2>4. PICK subs : subs = [i \in 1..n |-> Planning!OrElseAll(usable[i].sources \cap S, S)]
      OBVIOUS
    <2>5. plan = Planning!Trim(subs, q, q.answer.intent, S, requested, {})
      BY <1>1, <1>2, <1>5, <1>7, <2>2, <2>4, Zenon DEF Planning!SanitizePlan
    <2>6. S \in SUBSET Planning!Sources
      BY <1>1
    <2>7. subs \in [1..n -> SUBSET S] /\ \A i \in 1..n : S # {} => subs[i] # {}
      BY <2>4 DEF Planning!OrElseAll
    <2>8. Trimmed(q, q.answer.intent, S, n, subs, plan)
      <3>1. n \in Nat
        BY <2>3
      <3>2. subs \in [1..n -> SUBSET S]
        BY <2>7
      <3>3. {} \subseteq {"grounding"}
        OBVIOUS
      <3> QED
        BY <1>3, <2>5, <2>6, <3>1, <3>2, <3>3, TrimIs
    <2>9. /\ plan \in [1..n -> SUBSET S]
          /\ \A i \in 1..n : TrimmedTo(q, q.answer.intent, S, subs[i], plan[i])
      BY <2>8 DEF Trimmed
    <2>10. \A i \in 1..n : Within(q, avail, requested, plan[i])
      <3> TAKE i \in 1..n
      <3>1. subs[i] \in SUBSET S /\ (S # {} => subs[i] # {}) /\ plan[i] \in SUBSET S
        BY <2>7, <2>9
      <3> QED
        BY <1>1, <2>9, <3>1, SanitizedWithin
    <2> QED
      BY <2>3, <2>6, <2>9, <2>10 DEF Fair
  <1> QED
    BY <1>6, <1>7

LEMMA PlanIsFair ==
    ASSUME NEW q \in Questions, NEW avail, avail = Planning!Available(q), avail # {},
           NEW requested, requested = Planning!PlannerRequested(q),
           NEW plan, plan = Planning!PlanQuery(q, avail, requested)
    PROVE  /\ Asking(q, avail, requested) /\ Fair(q, avail, requested, plan)
           /\ (/\ ~q.hebrew /\ requested # {} /\ q.depth = "quick" /\ Cardinality(requested) <= 2
               /\ q.answer.kind # "plan") => plan[1] = requested
  <1>1. Asking(q, avail, requested)
    BY Asked
  <1>2. avail \in SUBSET Planning!Sources /\ requested \in SUBSET Planning!Sources
    BY <1>1 DEF Asking
  <1>3. /\ q.entities \in Nat /\ q.intent \in Planning!Intents
    BY PlanAssumption DEF Planning!PlanAssumption
  <1>4. CASE plan = Planning!FallbackPlan(q, avail, requested)
    BY <1>1, <1>2, <1>3, <1>4, FallbackIs
  <1>5. CASE q.answer.kind = "plan" /\ plan = Planning!SanitizePlan(q, q.answer, avail, requested)
    BY <1>1, <1>2, <1>5, SanitizeIs
  <1>6. \/ plan = Planning!FallbackPlan(q, avail, requested)
        \/ q.answer.kind = "plan" /\ plan = Planning!SanitizePlan(q, q.answer, avail, requested)
    BY DEF Planning!PlanQuery
  <1> QED
    BY <1>4, <1>5, <1>6

(* What the run adds to a plan keeps it so.                                          *)
Runs(q, avail, plan) ==
    /\ Len(plan) > 0
    /\ \A i \in 1..Len(plan) :
          /\ ~Misleads(q, avail) => plan[i] \cap avail # {}
          /\ q.depth = "quick" => Cardinality(plan[i] \ {"grounding", "jobs", "corpus"}) <= 2
Honours(q, avail, plan) ==
    q.requested # {} =>
        LET searched == {st[2] : st \in Planning!Streams(plan, avail)}
        IN /\ searched \subseteq q.requested \cup {"grounding", "jobs"}
           /\ (/\ q.depth = "quick" /\ ~Misleads(q, avail)
               /\ Cardinality(Planning!Requested(q)) <= 2
               /\ q.answer.kind # "plan" /\ ~q.hebrew)
                 => Planning!Requested(q) \ {"corpus"} \subseteq searched

Adds(q, avail, T, U) ==
    /\ ~Misleads(q, avail) => U \cap avail # {}
    /\ q.depth = "quick" => Cardinality(U \ {"grounding", "jobs", "corpus"}) <= 2
    /\ q.requested # {} => U \subseteq q.requested \cup {"grounding", "jobs", "corpus"}
    /\ T \subseteq U
LEMMA AddedTo ==
    ASSUME NEW q, NEW avail, NEW requested, Asking(q, avail, requested), NEW T,
           Within(q, avail, requested, T), NEW web, NEW jobs, NEW corpus \in SUBSET {"corpus"},
           web = IF q.web # "none" /\ "grounding" \in avail THEN {"grounding"} ELSE {},
           jobs = IF "jobs" \in avail /\ (q.hiring \/ q.company) THEN {"jobs"} ELSE {},
           NEW U, U = T \cup web \cup jobs \cup corpus
    PROVE  Adds(q, avail, T, U)
  <1>1. web \subseteq {"grounding"} /\ jobs \subseteq {"jobs"}
    OBVIOUS
  <1>2. ASSUME ~Misleads(q, avail) PROVE U \cap avail # {}
    <2>1. CASE requested = {} \/ avail \subseteq requested
      BY <1>2, <2>1 DEF Within
    <2>2. CASE ~(requested = {} \/ avail \subseteq requested)
      <3>1. PICK s \in avail : s \notin requested
        BY <2>2
      <3>2. \/ s = "grounding" /\ q.web # "none"
            \/ s = "jobs" /\ (q.hiring \/ q.company)
        BY <2>2, <3>1 DEF Asking, AddedFor
      <3>3. CASE s = "grounding" /\ q.web # "none"
        BY <3>1, <3>3
      <3>4. CASE s = "jobs" /\ (q.hiring \/ q.company)
        <4>1. jobs = {"jobs"}
          BY <3>1, <3>4
        <4> QED
          BY <3>1, <3>4, <4>1
      <3> QED
        BY <3>2, <3>3, <3>4
    <2> QED
      BY <2>1, <2>2
  <1>3. ASSUME q.depth = "quick"
        PROVE  Cardinality(U \ {"grounding", "jobs", "corpus"}) <= 2
    <2>1. IsFiniteSet(T) /\ Cardinality(T) <= 2
      BY <1>3 DEF Within
    <2>2. PICK V : V = U \ {"grounding", "jobs", "corpus"}
      OBVIOUS
    <2>3. V \subseteq T
      BY <1>1, <2>2
    <2>4. IsFiniteSet(V) /\ Cardinality(V) <= Cardinality(T)
      BY <2>1, <2>3, FS_Subset
    <2> QED
      BY <2>1, <2>2, <2>4, FS_CardinalityType
  <1>4. q.requested # {} => U \subseteq q.requested \cup {"grounding", "jobs", "corpus"}
    BY <1>1 DEF Within, Asking
  <1> QED
    BY <1>2, <1>3, <1>4 DEF Adds

LEMMA PlanRuns ==
    ASSUME NEW q \in Questions, NEW avail, avail = Planning!Available(q), avail # {},
           NEW plan, plan = Planning!Completed(
               Planning!PlanQuery(q, avail, Planning!PlannerRequested(q)), q, avail)
    PROVE  Runs(q, avail, plan) /\ Honours(q, avail, plan)
  <1>1. PICK requested : requested = Planning!PlannerRequested(q)
    OBVIOUS
  <1>2. PICK drawn : drawn = Planning!PlanQuery(q, avail, requested)
    OBVIOUS
  <1>3. /\ Asking(q, avail, requested) /\ Fair(q, avail, requested, drawn)
        /\ (/\ ~q.hebrew /\ requested # {} /\ q.depth = "quick" /\ Cardinality(requested) <= 2
            /\ q.answer.kind # "plan") => drawn[1] = requested
    BY <1>1, <1>2, PlanIsFair
  <1>4. PICK n \in Nat \ {0} : /\ drawn \in [1..n -> SUBSET Planning!Sources]
                              /\ \A i \in 1..n : Within(q, avail, requested, drawn[i])
    BY <1>3 DEF Fair
  <1>5. Len(drawn) = n
    BY <1>4
  <1>6. PICK web : web = IF q.web # "none" /\ "grounding" \in avail THEN {"grounding"} ELSE {}
    OBVIOUS
  <1>7. PICK jobs : jobs = IF "jobs" \in avail /\ (q.hiring \/ q.company) THEN {"jobs"} ELSE {}
    OBVIOUS
  <1>8. plan = [i \in 1..n |-> drawn[i] \cup web \cup jobs \cup
                   (IF "corpus" \in avail /\ (i = 1 \/ q.depth # "quick") THEN {"corpus"} ELSE {})]
    BY <1>1, <1>2, <1>5, <1>6, <1>7, Zenon DEF Planning!Completed
  <1>9. Len(plan) = n
    BY <1>8
  <1>10. ASSUME NEW i \in 1..n
         PROVE  Adds(q, avail, drawn[i], plan[i])
    <2>1. PICK corpus : corpus = IF "corpus" \in avail /\ (i = 1 \/ q.depth # "quick")
                                 THEN {"corpus"} ELSE {}
      OBVIOUS
    <2>2. plan[i] = drawn[i] \cup web \cup jobs \cup corpus
      BY <1>8, <2>1, Zenon
    <2>3. corpus \in SUBSET {"corpus"}
      BY <2>1
    <2>4. Within(q, avail, requested, drawn[i])
      BY <1>4
    <2>5. Asking(q, avail, requested)
      BY <1>3
    <2>6. PICK T : T = drawn[i]
      OBVIOUS
    <2>7. PICK U : U = plan[i]
      OBVIOUS
    <2>8. U = T \cup web \cup jobs \cup corpus /\ Within(q, avail, requested, T)
      BY <2>2, <2>4, <2>6, <2>7
    <2>9. Adds(q, avail, T, U)
      BY <1>6, <1>7, <2>3, <2>5, <2>8, AddedTo
    <2> QED
      BY <2>6, <2>7, <2>9
  <1>11. Runs(q, avail, plan)
    <2>1. Len(plan) > 0
      BY <1>9
    <2>2. ASSUME NEW i \in 1..Len(plan)
          PROVE  /\ ~Misleads(q, avail) => plan[i] \cap avail # {}
                 /\ q.depth = "quick" =>
                       Cardinality(plan[i] \ {"grounding", "jobs", "corpus"}) <= 2
      <3>1. Adds(q, avail, drawn[i], plan[i])
        BY <1>9, <1>10, <2>2
      <3> QED
        BY <3>1, Zenon DEF Adds
    <2> QED
      BY <2>1, <2>2, Zenon DEF Runs
  <1>12. ASSUME q.requested # {} PROVE Honours(q, avail, plan)
    <2>1. PICK searched : searched = {st[2] : st \in Planning!Streams(plan, avail)}
      OBVIOUS
    <2>2. Planning!Streams(plan, avail) =
              {st \in (1..n) \X (avail \ {"corpus"}) : st[2] \in plan[st[1]]}
      BY <1>9 DEF Planning!Streams
    <2>3. searched \subseteq q.requested \cup {"grounding", "jobs"}
      <3>1. SUFFICES ASSUME NEW s \in searched PROVE s \in q.requested \cup {"grounding", "jobs"}
        OBVIOUS
      <3>2. PICK st \in Planning!Streams(plan, avail) : s = st[2]
        BY <2>1
      <3>3. st[1] \in 1..n /\ s \in plan[st[1]] /\ s # "corpus"
        BY <2>2, <3>2
      <3> QED
        BY <1>10, <1>12, <3>3 DEF Adds
    <2>4. ASSUME q.depth = "quick", ~Misleads(q, avail), Cardinality(Planning!Requested(q)) <= 2,
                 q.answer.kind # "plan", ~q.hebrew
          PROVE  Planning!Requested(q) \ {"corpus"} \subseteq searched
      <3>1. requested = Planning!Requested(q) /\ requested # {} /\ requested \subseteq avail
        BY <1>3, <1>12, <2>4 DEF Asking, Misleads
      <3>2. drawn[1] = requested
        BY <1>3, <2>4, <3>1
      <3>3. requested \subseteq plan[1] /\ 1 \in 1..n
        <4>1. 1 \in 1..n
          BY <1>4
        <4>2. Adds(q, avail, drawn[1], plan[1])
          BY <1>10, <4>1
        <4> QED
          BY <3>2, <4>1, <4>2 DEF Adds
      <3>4. SUFFICES ASSUME NEW s \in requested \ {"corpus"} PROVE s \in searched
        BY <3>1
      <3>5. <<1, s>> \in Planning!Streams(plan, avail)
        BY <2>2, <3>1, <3>3
      <3> QED
        BY <2>1, <3>5
    <2> QED
      BY <1>12, <2>1, <2>3, <2>4 DEF Honours
  <1> QED
    BY <1>11, <1>12 DEF Honours

MayFail(q, avail) ==
    avail = {} \/ q.answer.kind = "odd" \/ (q.external /\ q.answer.kind # "plan")
PlanInv ==
    /\ input \in Questions
    /\ \A o \in output : o.error => MayFail(input, Planning!Available(input))
    /\ \A o \in output : o.error \/ (Runs(input, Planning!Available(input), o.plan)
                                    /\ Honours(input, Planning!Available(input), o.plan))
LEMMA PlanStarts == ASSUME Planning!Init PROVE PlanInv
  BY DEF Planning!Init, PlanInv
LEMMA PlanSteps == ASSUME PlanInv, Planning!Next PROVE PlanInv'
  <1>1. input' = input /\ output = {}
    BY DEF Planning!Next
  <1>2. CASE Planning!NoSources
    <2>1. \A o \in output' : o.error
      BY <1>2 DEF Planning!NoSources, Planning!Failed
    <2>2. MayFail(input, Planning!Available(input))
      BY <1>2 DEF Planning!NoSources, MayFail
    <2> QED
      BY <1>1, <2>1, <2>2 DEF PlanInv
  <1>4. CASE Planning!PlanRaises
    <2>1. \A o \in output' : o.error
      BY <1>4 DEF Planning!PlanRaises, Planning!Failed
    <2>2. MayFail(input, Planning!Available(input))
      BY <1>4 DEF Planning!PlanRaises, Planning!Unhandled, MayFail
    <2> QED
      BY <1>1, <2>1, <2>2 DEF PlanInv
  <1>3. CASE Planning!Plan
    <2>1. PICK plan : plan = Planning!Completed(Planning!PlanQuery(input,
              Planning!Available(input), Planning!PlannerRequested(input)), input,
              Planning!Available(input))
      OBVIOUS
    <2>2. Planning!Available(input) # {} /\ output' = {[error |-> FALSE, plan |-> plan]}
      BY <1>3, <2>1, Zenon DEF Planning!Plan
    <2>3. input \in Questions
      BY DEF PlanInv
    <2>4. Runs(input, Planning!Available(input), plan) /\ Honours(input, Planning!Available(input), plan)
      BY <2>1, <2>2, <2>3, PlanRuns
    <2>5. \A o \in output' : o.plan = plan /\ ~o.error
      BY <2>2
    <2> QED
      BY <1>1, <2>3, <2>4, <2>5 DEF PlanInv
  <1> QED
    BY <1>2, <1>3, <1>4 DEF Planning!Next

LEMMA PlanFollows == ASSUME PlanInv PROVE Planning!PlanCanRun /\ Planning!RequestHonoured
  <1>1. \A A : Planning!Cardinality(A) = Cardinality(A)
    BY DEF Planning!Cardinality, Cardinality
  <1>2. Planning!Misled <=> Misleads(input, Planning!Available(input))
    BY DEF Planning!Misled, Misleads
  <1>3. Planning!PlanCanRun
    BY <1>1, <1>2 DEF PlanInv, MayFail, Runs, Planning!PlanCanRun, Planning!QuickLimit
  <1>4. Planning!RequestHonoured
    BY <1>1, <1>2 DEF PlanInv, Honours, Planning!RequestHonoured, Planning!QuickLimit
  <1> QED
    BY <1>3, <1>4

THEOREM PlansStayHonest == EngineSpec => []PlanHonest
  <1> DEFINE Inv == part = "planner" => PlanInv
  <1>1. EngineInit => Inv
    BY PlanStarts DEF EngineInit
  <1>2. Inv /\ [EngineNext]_engine => Inv'
    <2> SUFFICES ASSUME part = "planner" => PlanInv, [EngineNext]_engine, part' = "planner"
                 PROVE  PlanInv'
      OBVIOUS
    <2>1. part = "planner" /\ PlanInv
      BY StaysPut
    <2>2. CASE UNCHANGED engine
      BY <2>1, <2>2 DEF engine, PlanInv
    <2>3. CASE Planning!Next
      BY <2>1, <2>3, PlanSteps
    <2>4. EngineNext => Planning!Next
      BY <2>1 DEF EngineNext, HttpStep, OnOne
    <2> QED
      BY <2>2, <2>3, <2>4
  <1>3. Inv => PlanHonest
    BY PlanFollows DEF PlanHonest
  <1> QED
    BY <1>1, <1>2, <1>3, PTL DEF EngineSpec
=============================================================================
