-------------------------- MODULE ResearchRunProofs --------------------------
(***************************************************************************)
(* Proofs about ResearchRun for any sources, labels, URLs, plans, answers, *)
(* caps and thresholds: the types, that the report is honest about every   *)
(* source, and that the fusion gets what it counts on.                     *)
(***************************************************************************)
EXTENDS ResearchRun, FiniteSetTheorems, TLAPS

(* What the bundle says of one source: it is among the errors when its      *)
(* status is that of a failure; ok and partial are said of sources that     *)
(* have items, the other failures of sources that have none; and a source   *)
(* that has items has a status.                                            *)
Sound(b, s) ==
    /\ s \in b.errors <=> FailedBefore(b, s)
    /\ b.status[s] # None /\ b.status[s].state \in {"ok", "partial"} => HasItems(b, s)
    /\ b.status[s] # None /\ b.status[s].state \in Failing => ~HasItems(b, s)
    /\ HasItems(b, s) => b.status[s] # None

Accounted(b) == b \in Bundle /\ \A s \in Source : Sound(b, s)

(* Every failure so far is among the errors, and every stream's source is    *)
(* known.                                                                  *)
Told == /\ failed = bundle.errors
        /\ \A p \in DOMAIN streams : bundle.status[SourceAt(p)] # None
AccountInv == phase # "done" => Accounted(bundle) /\ Told

StartInv == phase = "prepare" => bundle = EmptyBundle /\ DOMAIN streams = {}
RetryInv == retrying # None => phase = "fetch" /\ streams[retrying].at = "done"

(* A URL was listed once by each stream that is consumed, or once by         *)
(* something else: a phase before the pool, for a source without streams,    *)
(* or one after it.                                                        *)
Consumed(l, s) == {p \in DOMAIN streams :
                     streams[p].at = "consumed" /\ LabelAt(p) = l /\ SourceAt(p) = s}
Streamed(s) == \E p \in DOMAIN streams : SourceAt(p) = s
CountInv ==
    \A l \in Label, s \in Source, u \in Url :
        \/ bundle.listed[<<l, s>>][u] <= Cardinality(Consumed(l, s))
        \/ bundle.listed[<<l, s>>][u] <= 1 /\ (phase = "fetch" => ~Streamed(s))

LabelInv ==
    /\ \A i \in 1..Len(run.plan) : run.plan[i].label \in labels
    /\ \A l \in Label, s \in Source : UrlsUnder(bundle, l, s) # {} => l \in labels

IInv == /\ TypeOK /\ AccountInv /\ StartInv /\ RetryInv /\ CountInv /\ LabelInv
        /\ HonestReport

-----------------------------------------------------------------------------
(* The operations on a bundle, one field at a time                           *)

LEMMA BundleFields ==
    ASSUME NEW b, b \in Bundle
    PROVE  /\ b.listed \in [Label \X Source -> [Url -> Nat]]
           /\ b.status \in [Source -> Outcome \cup {None}]
           /\ b.errors \subseteq Source
           /\ b = [listed |-> b.listed, status |-> b.status, errors |-> b.errors]
BY DEF Bundle

LEMMA NewStatus ==
    ASSUME NEW b, b \in Bundle, NEW st, st \in [Source -> Outcome \cup {None}]
    PROVE  LET c == [b EXCEPT !.status = st]
           IN c \in Bundle /\ c.listed = b.listed /\ c.errors = b.errors /\ c.status = st
BY DEF Bundle

(* Whether a source is accounted for depends on what is its own.             *)
LEMMA SoundIsLocal ==
    ASSUME NEW b, NEW c, NEW s \in Source, c.status[s] = b.status[s],
           s \in b.errors <=> s \in c.errors,
           \A l \in Label : c.listed[<<l, s>>] = b.listed[<<l, s>>]
    PROVE  Sound(b, s) <=> Sound(c, s)
<1>1. HasItems(b, s) <=> HasItems(c, s)
  BY DEF HasItems
<1>2. FailedBefore(b, s) <=> FailedBefore(c, s)
  BY DEF FailedBefore
<1>3. QED
  BY <1>1, <1>2 DEF Sound

LEMMA EmptyAccounted == Accounted(EmptyBundle)
<1>1. EmptyBundle \in Bundle
  BY DEF EmptyBundle, Bundle
<1>2. ASSUME NEW s \in Source
      PROVE  Sound(EmptyBundle, s)
  <2>1. EmptyBundle.status[s] = None /\ EmptyBundle.errors = {}
    BY DEF EmptyBundle
  <2>2. ~HasItems(EmptyBundle, s)
    <3>1. \A l \in Label, u \in Url : EmptyBundle.listed[<<l, s>>][u] = 0
      BY DEF EmptyBundle
    <3>2. \A l \in Label, u \in Url : ~(EmptyBundle.listed[<<l, s>>][u] > 0)
      BY <3>1, SMT
    <3>3. QED
      BY <3>2, Zenon DEF HasItems
  <2>3. QED
    BY <2>1, <2>2 DEF Sound, FailedBefore
<1>3. QED
  BY <1>1, <1>2 DEF Accounted

(* A source is marked as tried, and nothing else changes.                    *)
LEMMA Marking ==
    ASSUME NEW b, Accounted(b), NEW s \in Source
    PROVE  LET c == MarkAttempted(b, s)
           IN /\ Accounted(c) /\ c.listed = b.listed /\ c.errors = b.errors
              /\ c.status[s] # None
              /\ \A t \in Source : b.status[t] # None => c.status[t] = b.status[t]
<1> DEFINE o == [state |-> "no-results", attempted |-> TRUE, detail |-> None]
           c == MarkAttempted(b, s)
<1>1. b \in Bundle /\ \A t \in Source : Sound(b, t)
  BY DEF Accounted
<1>2. CASE b.status[s] # None
  BY <1>2, <1>1 DEF MarkAttempted, Accounted
<1>3. CASE b.status[s] = None
  <2>1. PICK st : st = [b.status EXCEPT ![s] = o]
    OBVIOUS
  <2>2. /\ b.listed \in [Label \X Source -> [Url -> Nat]]
        /\ b.status \in [Source -> Outcome \cup {None}]
        /\ b.errors \subseteq Source
    BY <1>1, BundleFields
  <2>3. o \in Outcome /\ o.state = "no-results"
    BY DEF Outcome, State
  <2>4. st \in [Source -> Outcome \cup {None}]
    BY <2>1, <2>2, <2>3
  <2>5. c = [b EXCEPT !.status = st]
    BY <1>3, <2>1 DEF MarkAttempted
  <2>10. c \in Bundle /\ c.listed = b.listed /\ c.errors = b.errors /\ c.status = st
    BY <2>4, <2>5, <1>1, NewStatus
  <2>6. c.status[s] = o /\ \A t \in Source : t # s => c.status[t] = b.status[t]
    BY <2>10, <2>1, <2>2
  <2>7. o # None
    BY <2>3, NoneAssumption
  <2>8. ASSUME NEW t \in Source
        PROVE  Sound(c, t)
    <3>1. CASE t # s
      BY <3>1, <2>10, <2>6, <1>1, SoundIsLocal
    <3>2. CASE t = s
      <4>1. ~HasItems(b, s) /\ s \notin b.errors
        BY <1>1, <1>3 DEF Sound, FailedBefore
      <4>2. ~HasItems(c, s) /\ s \notin c.errors
        BY <4>1, <2>10 DEF HasItems
      <4>3. QED
        BY <3>2, <4>2, <2>6, <2>3 DEF Sound, FailedBefore, Failing
    <3>3. QED
      BY <3>1, <3>2
  <2>9. QED
    BY <2>10, <2>6, <2>7, <2>8, <1>3 DEF Accounted
<1>4. QED
  BY <1>2, <1>3

(* A failure is recorded: the source is among the errors, and nothing else   *)
(* changes.                                                                *)
LEMMA Recording ==
    ASSUME NEW b, Accounted(b), NEW s \in Source, NEW f \in Failing, NEW a \in BOOLEAN
    PROVE  LET c == RecordFailure(b, s, f, a)
           IN /\ Accounted(c) /\ c.listed = b.listed /\ c.errors = b.errors \cup {s}
              /\ c.status[s] # None
              /\ \A t \in Source : t # s => c.status[t] = b.status[t]
<1> DEFINE o == [state |-> IF HasItems(b, s) THEN "partial" ELSE f, attempted |-> a, detail |-> f]
           c == RecordFailure(b, s, f, a)
<1>1. b \in Bundle /\ \A t \in Source : Sound(b, t)
  BY DEF Accounted
<1>2. /\ b.listed \in [Label \X Source -> [Url -> Nat]]
      /\ b.status \in [Source -> Outcome \cup {None}]
      /\ b.errors \subseteq Source
  BY <1>1, BundleFields
<1>3. o \in Outcome /\ o.state = IF HasItems(b, s) THEN "partial" ELSE f
  BY DEF Outcome, State
<1>4. o # None
  BY <1>3, NoneAssumption
<1>5. PICK st : st = [b.status EXCEPT ![s] = o]
  OBVIOUS
<1>6. st \in [Source -> Outcome \cup {None}]
  BY <1>5, <1>2, <1>3
<1>7. PICK er : er = b.errors \cup {s}
  OBVIOUS
<1>13. er \subseteq Source
  BY <1>2, <1>7
<1>8. c = [b EXCEPT !.errors = er, !.status = st]
  BY <1>5, <1>7 DEF RecordFailure
<1> HIDE DEF c
<1>9. c \in Bundle /\ c.listed = b.listed /\ c.errors = er /\ c.status = st
  <2>1. LET d == [b EXCEPT !.errors = er, !.status = st]
        IN d \in Bundle /\ d.listed = b.listed /\ d.errors = er /\ d.status = st
    BY <1>1, <1>6, <1>13 DEF Bundle
  <2>2. QED
    BY <2>1, <1>8
<1>10. c.status[s] = o /\ \A t \in Source : t # s => c.status[t] = b.status[t]
  BY <1>9, <1>5, <1>2
<1>11. ASSUME NEW t \in Source
       PROVE  Sound(c, t)
  <2>1. CASE t # s
    BY <2>1, <1>7, <1>9, <1>10, <1>1, SoundIsLocal
  <2>2. CASE t = s
    <3>1. HasItems(c, s) <=> HasItems(b, s)
      BY <1>9 DEF HasItems
    <3>2. s \in c.errors
      BY <1>7, <1>9
    <3>3. QED
      BY <2>2, <3>1, <3>2, <1>10, <1>3, <1>4 DEF Sound, FailedBefore, Failing
  <2>3. QED
    BY <2>1, <2>2
<1>12. QED
  BY <1>4, <1>7, <1>9, <1>10, <1>11 DEF Accounted, c

LEMMA Listing ==
    ASSUME NEW b, b \in Bundle, NEW l \in Label, NEW s \in Source, NEW urls \in SUBSET Url
    PROVE  LET li == WithUrls(b, l, s, urls)
           IN /\ li \in [Label \X Source -> [Url -> Nat]]
              /\ \A m \in Label, t \in Source, u \in Url :
                   li[<<m, t>>][u] = b.listed[<<m, t>>][u]
                                     + (IF m = l /\ t = s /\ u \in urls THEN 1 ELSE 0)
              /\ \A m \in Label, t \in Source : t # s => li[<<m, t>>] = b.listed[<<m, t>>]
<1> DEFINE li == WithUrls(b, l, s, urls)
<1>1. b.listed \in [Label \X Source -> [Url -> Nat]]
  BY BundleFields
<1>2. \A k \in Label \X Source, u \in Url : b.listed[k][u] \in Nat
  BY <1>1
<1>3. li \in [Label \X Source -> [Url -> Nat]]
  BY <1>2 DEF WithUrls
<1>4. ASSUME NEW m \in Label, NEW t \in Source, NEW u \in Url
      PROVE  li[<<m, t>>][u] = b.listed[<<m, t>>][u]
                               + (IF m = l /\ t = s /\ u \in urls THEN 1 ELSE 0)
  BY DEF WithUrls
<1>5. ASSUME NEW m \in Label, NEW t \in Source, t # s
      PROVE  li[<<m, t>>] = b.listed[<<m, t>>]
  <2>1. \A u \in Url : li[<<m, t>>][u] = b.listed[<<m, t>>][u]
    BY <1>4, <1>5, <1>2
  <2>2. li[<<m, t>>] \in [Url -> Nat] /\ b.listed[<<m, t>>] \in [Url -> Nat]
    BY <1>1, <1>3
  <2>3. QED
    BY <2>1, <2>2
<1>6. QED
  BY <1>3, <1>4, <1>5

(* Items are listed: no error comes or goes, and the source is known.         *)
LEMMA Adding ==
    ASSUME NEW b, Accounted(b), NEW l \in Label, NEW s \in Source, NEW urls \in SUBSET Url
    PROVE  LET c == AddItems(b, l, s, urls)
           IN /\ Accounted(c) /\ c.listed = WithUrls(b, l, s, urls) /\ c.errors = b.errors
              /\ c.status[s] # None
              /\ \A t \in Source : t # s => c.status[t] = b.status[t]
<1> DEFINE some == urls # {} \/ HasItems(b, s)
           was == b.status[s]
           o == IF FailedBefore(b, s)
                THEN [state |-> IF some THEN "partial" ELSE was.state,
                      attempted |-> TRUE, detail |-> was.detail]
                ELSE Plain(urls)
           c == AddItems(b, l, s, urls)
<1>1. b \in Bundle /\ \A t \in Source : Sound(b, t)
  BY DEF Accounted
<1>2. /\ b.listed \in [Label \X Source -> [Url -> Nat]]
      /\ b.status \in [Source -> Outcome \cup {None}]
      /\ b.errors \subseteq Source
  BY <1>1, BundleFields
<1>3. was # None => was \in Outcome
  BY <1>2
<1>4. /\ FailedBefore(b, s) =>
           /\ was # None /\ was.state \in State \ {"ok", "no-results"}
           /\ o = [state |-> IF some THEN "partial" ELSE was.state,
                   attempted |-> TRUE, detail |-> was.detail]
           /\ o \in Outcome /\ o.state = IF some THEN "partial" ELSE was.state
      /\ ~FailedBefore(b, s) => o = Plain(urls)
  <2>1. CASE FailedBefore(b, s)
    <3>1. was # None /\ was.state \notin {"ok", "no-results"}
      BY <2>1 DEF FailedBefore
    <3>2. was.state \in State /\ was.detail \in Failing \cup {None}
      BY <3>1, <1>3 DEF Outcome
    <3>3. o = [state |-> IF some THEN "partial" ELSE was.state,
               attempted |-> TRUE, detail |-> was.detail]
      BY <2>1
    <3> HIDE DEF some, was, o
    <3>4. (IF some THEN "partial" ELSE was.state) \in State
      BY <3>2 DEF State
    <3>5. QED
      BY <2>1, <3>1, <3>2, <3>3, <3>4 DEF Outcome
  <2>2. QED
    BY <2>1
<1>5. ~FailedBefore(b, s) =>
        o \in Outcome /\ o.state = IF urls # {} THEN "ok" ELSE "no-results"
  BY <1>4 DEF Plain, Outcome, State
<1>6. o \in Outcome /\ o # None
  BY <1>4, <1>5, NoneAssumption
<1> HIDE DEF o
<1>7. PICK st : st = [b.status EXCEPT ![s] = o]
  OBVIOUS
<1>8. st \in [Source -> Outcome \cup {None}]
  BY <1>7, <1>2, <1>6
<1>9. PICK li : li = WithUrls(b, l, s, urls)
  OBVIOUS
<1>10. /\ li \in [Label \X Source -> [Url -> Nat]]
       /\ \A m \in Label, t \in Source, u \in Url :
            li[<<m, t>>][u] = b.listed[<<m, t>>][u]
                              + (IF m = l /\ t = s /\ u \in urls THEN 1 ELSE 0)
       /\ \A m \in Label, t \in Source : t # s => li[<<m, t>>] = b.listed[<<m, t>>]
  BY <1>1, <1>9, Listing
<1>11. c = [b EXCEPT !.listed = li, !.status = st]
  BY <1>7, <1>9 DEF AddItems, o
<1> HIDE DEF c
<1>12. c \in Bundle /\ c.listed = li /\ c.errors = b.errors /\ c.status = st
  <2>1. LET d == [b EXCEPT !.listed = li, !.status = st]
        IN d \in Bundle /\ d.listed = li /\ d.errors = b.errors /\ d.status = st
    BY <1>1, <1>8, <1>10 DEF Bundle
  <2>2. QED
    BY <2>1, <1>11
<1>13. c.status[s] = o /\ \A t \in Source : t # s => c.status[t] = b.status[t]
  BY <1>12, <1>7, <1>2
<1>14. HasItems(c, s) <=> some
  <2>1. \A m \in Label, u \in Url : b.listed[<<m, s>>][u] \in Nat
    BY <1>2
  <2>2. \A m \in Label, u \in Url :
          c.listed[<<m, s>>][u] > 0 <=> b.listed[<<m, s>>][u] > 0 \/ (m = l /\ u \in urls)
    BY <2>1, <1>10, <1>12
  <2>3. (\E u \in Url : u \in urls) <=> urls # {}
    OBVIOUS
  <2>4. QED
    BY <2>2, <2>3, Zenon DEF HasItems
<1>15. ASSUME NEW t \in Source
       PROVE  Sound(c, t)
  <2>1. CASE t # s
    <3>1. \A m \in Label : c.listed[<<m, t>>] = b.listed[<<m, t>>]
      BY <2>1, <1>10, <1>12
    <3>2. QED
      BY <2>1, <3>1, <1>12, <1>13, <1>1, SoundIsLocal
  <2>2. CASE t = s
    <3>1. s \in c.errors <=> FailedBefore(b, s)
      BY <1>1, <1>12 DEF Sound
    <3>2. FailedBefore(c, s) <=> FailedBefore(b, s)
      BY <1>4, <1>5, <1>6, <1>13 DEF FailedBefore
    <3>3. o.state \in {"ok", "partial"} => some
      <4>1. CASE FailedBefore(b, s)
        <5>1. was.state \in {"ok", "partial"} => HasItems(b, s)
          BY <4>1, <1>4, <1>1 DEF Sound
        <5>2. QED
          BY <4>1, <5>1, <1>4
      <4>2. CASE ~FailedBefore(b, s)
        BY <4>2, <1>5
      <4>3. QED
        BY <4>1, <4>2
    <3>4. o.state \in Failing => ~some
      BY <1>4, <1>5 DEF Failing
    <3>5. QED
      BY <2>2, <3>1, <3>2, <3>3, <3>4, <1>6, <1>13, <1>14 DEF Sound
  <2>3. QED
    BY <2>1, <2>2
<1>16. QED
  BY <1>6, <1>9, <1>12, <1>13, <1>15 DEF Accounted, c

-----------------------------------------------------------------------------
(* What the phases do to a bundle                                            *)

(* c is b after the source s gave no other URLs than these under the label l, *)
(* and maybe failed.                                                       *)
After(b, c, l, s, urls, fails) ==
    /\ Accounted(c)
    /\ c.errors = b.errors \cup (IF fails THEN {s} ELSE {})
    /\ \A t \in Source : b.status[t] # None => c.status[t] # None
    /\ \A t \in Source \ {s} : c.status[t] = b.status[t]
    /\ \A m \in Label, t \in Source \ {s} : c.listed[<<m, t>>] = b.listed[<<m, t>>]
    /\ \A m \in Label, u \in Url : c.listed[<<m, s>>][u] # b.listed[<<m, s>>][u] =>
         m = l /\ u \in urls /\ c.listed[<<m, s>>][u] = b.listed[<<m, s>>][u] + 1

LEMMA KeptType ==
    ASSUME NEW s, NEW urls \in SUBSET Url
    PROVE  Kept(s, urls) \in SUBSET Url
BY DEF Kept

LEMMA FailureAfter ==
    ASSUME NEW b, Accounted(b), NEW l, NEW s \in Source, NEW kind
    PROVE  After(b, Failure(b, s, kind), l, s, {}, TRUE)
<1>1. Classify(kind) \in Failing /\ (kind # "unconfigured") \in BOOLEAN
  BY DEF Classify, Failing
<1>2. PICK f \in Failing, a \in BOOLEAN : f = Classify(kind) /\ a = (kind # "unconfigured")
  BY <1>1
<1>3. PICK c : c = RecordFailure(b, s, f, a)
  OBVIOUS
<1>4. c = Failure(b, s, kind)
  BY <1>2, <1>3 DEF Failure
<1>5. /\ Accounted(c) /\ c.listed = b.listed /\ c.errors = b.errors \cup {s}
      /\ c.status[s] # None
      /\ \A t \in Source : t # s => c.status[t] = b.status[t]
  BY <1>3, Recording
<1>6. QED
  BY <1>4, <1>5 DEF After

LEMMA NotedAfter ==
    ASSUME NEW b, Accounted(b), NEW l, NEW s \in Source, NEW note \in Failing \cup {None}
    PROVE  After(b, IF note = None THEN b
                    ELSE RecordFailure(b, s, note, note # "skipped-unconfigured"),
                 l, s, {}, note # None)
<1>1. CASE note = None
  BY <1>1 DEF After
<1>2. CASE note # None
  <2>1. note \in Failing /\ (note # "skipped-unconfigured") \in BOOLEAN
    BY <1>2
  <2>2. PICK a \in BOOLEAN : a = (note # "skipped-unconfigured")
    BY <2>1
  <2>3. PICK c : c = RecordFailure(b, s, note, a)
    OBVIOUS
  <2>4. /\ Accounted(c) /\ c.listed = b.listed /\ c.errors = b.errors \cup {s}
        /\ c.status[s] # None
        /\ \A t \in Source : t # s => c.status[t] = b.status[t]
    BY <2>1, <2>3, Recording
  <2>5. After(b, c, l, s, {}, TRUE)
    BY <2>4 DEF After
  <2>6. QED
    BY <1>2, <2>2, <2>3, <2>5
<1>3. QED
  BY <1>1, <1>2

LEMMA AddAfter ==
    ASSUME NEW b, Accounted(b), NEW l \in Label, NEW s \in Source, NEW urls \in SUBSET Url
    PROVE  /\ After(b, AddItems(b, l, s, urls), l, s, urls, FALSE)
           /\ AddItems(b, l, s, urls).status[s] # None
<1>1. PICK c : c = AddItems(b, l, s, urls)
  OBVIOUS
<1>2. /\ Accounted(c) /\ c.listed = WithUrls(b, l, s, urls) /\ c.errors = b.errors
      /\ c.status[s] # None
      /\ \A t \in Source : t # s => c.status[t] = b.status[t]
  BY <1>1, Adding
<1>3. b \in Bundle
  BY DEF Accounted
<1>4. /\ \A m \in Label, t \in Source, u \in Url :
           c.listed[<<m, t>>][u] = b.listed[<<m, t>>][u]
                                   + (IF m = l /\ t = s /\ u \in urls THEN 1 ELSE 0)
      /\ \A m \in Label, t \in Source : t # s => c.listed[<<m, t>>] = b.listed[<<m, t>>]
  BY <1>2, <1>3, Listing
<1>5. \A m \in Label, t \in Source, u \in Url : b.listed[<<m, t>>][u] \in Nat
  BY <1>3, BundleFields
<1>6. \A m \in Label, u \in Url : c.listed[<<m, s>>][u] # b.listed[<<m, s>>][u] =>
         m = l /\ u \in urls /\ c.listed[<<m, s>>][u] = b.listed[<<m, s>>][u] + 1
  BY <1>4, <1>5
<1>7. After(b, c, l, s, urls, FALSE)
  BY <1>2, <1>4, <1>6 DEF After
<1>8. QED
  BY <1>1, <1>2, <1>7

LEMMA MarkAfter ==
    ASSUME NEW b, Accounted(b), NEW l, NEW s \in Source
    PROVE  After(b, MarkAttempted(b, s), l, s, {}, FALSE)
<1>1. PICK c : c = MarkAttempted(b, s)
  OBVIOUS
<1>2. /\ Accounted(c) /\ c.listed = b.listed /\ c.errors = b.errors
      /\ c.status[s] # None
      /\ \A t \in Source : b.status[t] # None => c.status[t] = b.status[t]
  BY <1>1, Marking
<1>3. \A t \in Source \ {s} : c.status[t] = b.status[t]
  <2>1. CASE b.status[s] # None
    BY <2>1, <1>1 DEF MarkAttempted
  <2>2. CASE b.status[s] = None
    <3>1. b.status \in [Source -> Outcome \cup {None}]
      BY BundleFields DEF Accounted
    <3>2. PICK o : o = [state |-> "no-results", attempted |-> TRUE, detail |-> None]
      OBVIOUS
    <3>3. c.status = [b.status EXCEPT ![s] = o]
      BY <2>2, <1>1, <3>2 DEF MarkAttempted, Accounted, Bundle
    <3>4. QED
      BY <3>1, <3>3
  <2>3. QED
    BY <2>1, <2>2
<1>4. After(b, c, l, s, {}, FALSE)
  BY <1>2, <1>3 DEF After
<1>5. QED
  BY <1>1, <1>4

(* A failure of the source, then its items.                                  *)
LEMMA AfterBoth ==
    ASSUME NEW b, NEW c, NEW d, NEW l, NEW s \in Source, NEW urls, NEW fails \in BOOLEAN,
           After(b, c, l, s, {}, fails), After(c, d, l, s, urls, FALSE)
    PROVE  After(b, d, l, s, urls, fails)
BY DEF After

LEMMA ReturnedAfter ==
    ASSUME NEW b, Accounted(b), NEW l \in Label, NEW s \in Source, NEW r \in ResultType
    PROVE  /\ After(b, Returned(b, l, s, r), l, s, Kept(s, r.urls), r.note # None)
           /\ Returned(b, l, s, r).status[s] # None
<1>1. r.note \in Failing \cup {None} /\ r.urls \in SUBSET Url
  BY DEF ResultType
<1>2. PICK c : c = IF r.note = None THEN b
                   ELSE RecordFailure(b, s, r.note, r.note # "skipped-unconfigured")
  OBVIOUS
<1>3. After(b, c, l, s, {}, r.note # None)
  BY <1>1, <1>2, NotedAfter
<1>4. Accounted(c)
  BY <1>3 DEF After
<1>5. Kept(s, r.urls) \in SUBSET Url
  BY <1>1, KeptType
<1>6. Returned(b, l, s, r) = AddItems(c, l, s, Kept(s, r.urls))
  BY <1>2 DEF Returned
<1>7. /\ After(c, AddItems(c, l, s, Kept(s, r.urls)), l, s, Kept(s, r.urls), FALSE)
      /\ AddItems(c, l, s, Kept(s, r.urls)).status[s] # None
  BY <1>4, <1>5, AddAfter
<1>8. QED
  BY <1>3, <1>6, <1>7, AfterBoth

LEMMA NotEmpty ==
    ASSUME NEW S, NEW seq \in Seq(S), seq # << >>
    PROVE  Len(seq) \in Nat /\ 1 \in 1..Len(seq)
OBVIOUS

LEMMA RunFacts ==
    ASSUME run \in Run
    PROVE  /\ Len(run.plan) \in Nat /\ 1 \in 1..Len(run.plan)
           /\ Primary \in Label
           /\ \A i \in 1..Len(run.plan) : run.plan[i].label \in Label
           /\ \A p \in Places : /\ p \in Nat \X Nat /\ p # None
                                /\ p[1] \in 1..Len(run.plan)
                                /\ LabelAt(p) \in Label /\ SourceAt(p) \in Source
           /\ IsFiniteSet(Places)
           /\ run.available \subseteq Source /\ run.requested \subseteq Source
<1>1. IsRun(run)
  BY RunAssumption
<1>2. run.plan \in Seq([label : Label, sources : Seq(Source)]) /\ run.plan # << >>
  BY <1>1 DEF IsRun
<1>3. Len(run.plan) \in Nat /\ 1 \in 1..Len(run.plan)
  <2>1. PICK Sub : Sub = [label : Label, sources : Seq(Source)]
    OBVIOUS
  <2>2. run.plan \in Seq(Sub) /\ run.plan # << >>
    BY <1>2, <2>1
  <2>3. QED
    BY <2>2, NotEmpty
<1>4. \A i \in 1..Len(run.plan) :
        run.plan[i].label \in Label /\ run.plan[i].sources \in Seq(Source)
  <2>1. PICK Sub : Sub = [label : Label, sources : Seq(Source)]
    OBVIOUS
  <2>2. run.plan \in Seq(Sub)
    BY <1>2, <2>1
  <2>3. \A i \in 1..Len(run.plan) : run.plan[i] \in Sub
    BY <2>2
  <2>4. QED
    BY <2>1, <2>3
<1>5. \A i \in 1..Len(run.plan) :
        /\ Len(run.plan[i].sources) \in Nat
        /\ \A j \in 1..Len(run.plan[i].sources) : run.plan[i].sources[j] \in Source
  BY <1>4
<1>6. ASSUME NEW p \in Places
      PROVE  /\ p \in Nat \X Nat /\ p # None /\ p[1] \in 1..Len(run.plan)
             /\ LabelAt(p) \in Label /\ SourceAt(p) \in Source
  <2>1. PICK i \in 1..Len(run.plan) : p \in {i} \X (1..Len(run.plan[i].sources))
    BY DEF Places
  <2>2. PICK j \in 1..Len(run.plan[i].sources) : p = <<i, j>>
    BY <2>1
  <2>3. p \in Nat \X Nat /\ p[1] = i /\ p[2] = j
    BY <2>2, <1>3, <1>5
  <2>4. QED
    BY <2>3, <1>4, <1>5, FutureAssumption DEF LabelAt, SourceAt
<1>7. IsFiniteSet(Places)
  <2> DEFINE Row(i) == {i} \X (1..Len(run.plan[i].sources))
             Rows == {Row(i) : i \in 1..Len(run.plan)}
             rows == [i \in 1..Len(run.plan) |-> Row(i)]
  <2>1. \A i \in 1..Len(run.plan) : IsFiniteSet(Row(i))
    <3> SUFFICES ASSUME NEW i \in 1..Len(run.plan)
                 PROVE  IsFiniteSet({i} \X (1..Len(run.plan[i].sources)))
      OBVIOUS
    <3>1. PICK S, T : S = {i} /\ T = 1..Len(run.plan[i].sources)
      OBVIOUS
    <3>2. IsFiniteSet(S)
      BY <3>1, FS_Singleton
    <3>3. IsFiniteSet(T)
      <4>1. PICK n \in Nat : n = Len(run.plan[i].sources)
        BY <1>5
      <4>2. IsFiniteSet(1..n)
        BY FS_Interval
      <4>3. QED
        BY <3>1, <4>1, <4>2
    <3>4. IsFiniteSet(S \X T)
      BY <3>2, <3>3, FS_Product
    <3>5. QED
      BY <3>1, <3>4
  <2>2. IsFiniteSet(1..Len(run.plan))
    BY <1>3, FS_Interval
  <2>3. rows \in Surjection(1..Len(run.plan), Rows)
    <3> HIDE DEF Row
    <3>1. rows \in [1..Len(run.plan) -> Rows]
      OBVIOUS
    <3>2. \A T \in Rows : \E i \in 1..Len(run.plan) : rows[i] = T
      OBVIOUS
    <3>3. QED
      BY <3>1, <3>2 DEF Surjection
  <2>4. IsFiniteSet(Rows)
    BY <2>2, <2>3, FS_Surjection
  <2>5. \A T \in Rows : IsFiniteSet(T)
    BY <2>1
  <2>6. IsFiniteSet(UNION Rows)
    BY <2>4, <2>5, FS_UNION
  <2>7. Places = UNION Rows
    BY DEF Places
  <2>8. QED
    BY <2>6, <2>7
<1>8. Primary \in Label
  BY <1>3, <1>4 DEF Primary
<1>9. run.available \subseteq Source /\ run.requested \subseteq Source
  BY <1>1 DEF IsRun
<1>10. QED
  BY <1>3, <1>4, <1>6, <1>7, <1>8, <1>9

(* What is new by URL.                                                      *)
LEMMA NewAfter ==
    ASSUME NEW b, Accounted(b), NEW l \in Label, NEW urls \in SUBSET Url, "x" \in Source
    PROVE  After(b, New(b, l, urls), l, "x", urls \ UrlsOf(b, "x"), FALSE)
<1>1. PICK new \in SUBSET Url : new = urls \ UrlsOf(b, "x")
  OBVIOUS
<1>2. CASE new = {}
  BY <1>1, <1>2 DEF New, After
<1>3. CASE new # {}
  <2>1. New(b, l, urls) = AddItems(b, l, "x", new)
    BY <1>1, <1>3 DEF New
  <2>2. After(b, AddItems(b, l, "x", new), l, "x", new, FALSE)
    BY AddAfter
  <2>3. QED
    BY <1>1, <2>1, <2>2
<1>4. QED
  BY <1>2, <1>3

LEMMA LaneAfter ==
    ASSUME NEW b, Accounted(b), NEW l, NEW r, "x" \in Source
    PROVE  After(b, Lane(b, r), l, "x", {}, r.raises # None)
<1>1. CASE r.raises = None
  BY <1>1 DEF Lane, After
<1>2. CASE r.raises # None
  <2>1. After(b, Failure(b, "x", r.raises), l, "x", {}, TRUE)
    BY FailureAfter
  <2>2. QED
    BY <1>2, <2>1 DEF Lane
<1>3. QED
  BY <1>1, <1>2

LEMMA GithubModeAfter ==
    ASSUME NEW b, Accounted(b), NEW r \in ResultType, Primary \in Label, "github" \in Source
    PROVE  /\ After(b, GithubMode(b, r), Primary, "github",
                    IF r.raises = None THEN r.urls ELSE {}, r.raises # None)
           /\ r.raises = None /\ r.urls = {} => GithubMode(b, r).listed = b.listed
<1>1. PICK c : c = MarkAttempted(b, "github")
  OBVIOUS
<1>2. After(b, c, Primary, "github", {}, FALSE) /\ c.listed = b.listed
  BY <1>1, MarkAfter, Marking
<1>3. Accounted(c)
  BY <1>2 DEF After
<1>4. r.urls \in SUBSET Url
  BY DEF ResultType
<1>5. CASE r.raises # None
  <2>1. After(c, Failure(c, "github", r.raises), Primary, "github", {}, TRUE)
    BY <1>3, FailureAfter
  <2>2. GithubMode(b, r) = Failure(c, "github", r.raises)
    BY <1>1, <1>5 DEF GithubMode
  <2>3. QED
    BY <1>2, <1>5, <2>1, <2>2 DEF After
<1>6. CASE r.raises = None /\ r.urls # {}
  <2>1. After(c, AddItems(c, Primary, "github", r.urls), Primary, "github", r.urls, FALSE)
    BY <1>3, <1>4, AddAfter
  <2>2. GithubMode(b, r) = AddItems(c, Primary, "github", r.urls)
    BY <1>1, <1>6 DEF GithubMode
  <2>3. After(b, AddItems(c, Primary, "github", r.urls), Primary, "github", r.urls, FALSE)
    BY <1>2, <2>1, AfterBoth
  <2>4. QED
    BY <1>6, <2>2, <2>3
<1>7. CASE r.raises = None /\ r.urls = {}
  <2>1. GithubMode(b, r) = c
    BY <1>1, <1>7 DEF GithubMode
  <2>2. QED
    BY <1>2, <1>7, <2>1
<1>8. QED
  BY <1>5, <1>6, <1>7

LEMMA ThinRetryAfter ==
    ASSUME NEW b, Accounted(b), NEW s \in Source, NEW r \in ResultType, Primary \in Label
    PROVE  After(b, AfterThinRetry(b, s, r), Primary, s, Kept(s, r.urls) \ UrlsOf(b, s),
                 r.raises # None \/ r.note # None)
<1>1. r.note \in Failing \cup {None} /\ r.urls \in SUBSET Url
  BY DEF ResultType
<1>2. PICK new \in SUBSET Url : new = Kept(s, r.urls) \ UrlsOf(b, s)
  BY <1>1, KeptType
<1>3. CASE r.raises # None
  <2>1. AfterThinRetry(b, s, r) = Failure(b, s, r.raises)
    BY <1>3 DEF AfterThinRetry
  <2>2. After(b, Failure(b, s, r.raises), Primary, s, {}, TRUE)
    BY FailureAfter
  <2>3. QED
    BY <1>3, <2>1, <2>2 DEF After
<1>4. CASE r.raises = None
  <2>1. PICK c : c = IF r.note = None THEN b
                     ELSE RecordFailure(b, s, r.note, r.note # "skipped-unconfigured")
    OBVIOUS
  <2>2. After(b, c, Primary, s, {}, r.note # None)
    BY <1>1, <2>1, NotedAfter
  <2>3. AfterThinRetry(b, s, r) = IF new = {} THEN c ELSE AddItems(c, Primary, s, new)
    BY <1>2, <1>4, <2>1 DEF AfterThinRetry
  <2>4. Accounted(c)
    BY <2>2 DEF After
  <2>5. After(c, AddItems(c, Primary, s, new), Primary, s, new, FALSE)
    BY <2>4, AddAfter
  <2>6. After(b, AddItems(c, Primary, s, new), Primary, s, new, r.note # None)
    BY <2>2, <2>5, AfterBoth
  <2>7. After(b, AfterThinRetry(b, s, r), Primary, s, new, r.note # None)
    BY <2>2, <2>3, <2>6
  <2>8. (r.raises # None \/ r.note # None) = (r.note # None)
    BY <1>4
  <2>9. QED
    BY <1>2, <2>7, <2>8
<1>5. QED
  BY <1>3, <1>4

-----------------------------------------------------------------------------
(* The steps                                                                *)

LEMMA SameRun ==
    ASSUME run' = run
    PROVE  /\ Places' = Places /\ Primary' = Primary
           /\ \A p : LabelAt(p)' = LabelAt(p) /\ SourceAt(p)' = SourceAt(p)
BY DEF Places, Primary, LabelAt, SourceAt

LEMMA ConsumedFinite ==
    ASSUME IInv, NEW l, NEW s
    PROVE  IsFiniteSet(Consumed(l, s)) /\ Cardinality(Consumed(l, s)) \in Nat
<1>1. IsFiniteSet(Places) /\ DOMAIN streams \subseteq Places
  BY RunFacts DEF IInv, TypeOK
<1>2. Consumed(l, s) \in SUBSET Places
  BY <1>1 DEF Consumed
<1>3. IsFiniteSet(Consumed(l, s))
  BY <1>1, <1>2, FS_Subset
<1>4. QED
  BY <1>3, FS_CardinalityType

LEMMA InitialState == Init => IInv
<1> SUFFICES ASSUME Init
             PROVE  IInv
  OBVIOUS
<1>1. run \in Run /\ phase = "prepare" /\ bundle = EmptyBundle /\ limited = {} /\ failed = {}
      /\ retrying = None /\ report = None /\ DOMAIN streams = {} /\ streams \in [{} -> Streams]
      /\ labels = {run.plan[i].label : i \in 1..Len(run.plan)}
  BY DEF Init
<1>2. Accounted(bundle)
  BY <1>1, EmptyAccounted
<1>3. labels \subseteq Label
  BY <1>1, RunFacts
<1>4. TypeOK
  BY <1>1, <1>2, <1>3 DEF TypeOK, Accounted
<1>5. AccountInv
  BY <1>1, <1>2 DEF AccountInv, Told, EmptyBundle
<1>6. \A l \in Label, s \in Source, u \in Url : bundle.listed[<<l, s>>][u] = 0
  BY <1>1 DEF EmptyBundle
<1>7. CountInv
  <2>1. \A l \in Label, s \in Source, u \in Url : bundle.listed[<<l, s>>][u] <= 1
    <3> SUFFICES ASSUME NEW l \in Label, NEW s \in Source, NEW u \in Url
                 PROVE  bundle.listed[<<l, s>>][u] <= 1
      OBVIOUS
    <3>1. bundle.listed[<<l, s>>][u] = 0
      BY <1>6
    <3>2. QED
      BY <3>1
  <2>2. phase # "fetch"
    BY <1>1
  <2>3. QED
    BY <2>1, <2>2 DEF CountInv
<1>8. LabelInv
  <2>1. \A l \in Label, s \in Source : UrlsUnder(bundle, l, s) = {}
    BY <1>6 DEF UrlsUnder
  <2>2. QED
    BY <1>1, <2>1 DEF LabelInv
<1>9. HonestReport
  BY <1>1, <1>4 DEF HonestReport
<1>10. QED
  BY <1>1, <1>4, <1>5, <1>7, <1>8, <1>9 DEF IInv, StartInv, RetryInv

(* A stream goes on without being consumed.                                  *)
LEMMA StreamStep ==
    ASSUME IInv, phase = "fetch", NEW p \in DOMAIN streams, p # retrying,
           streams[p].at # "consumed",
           NEW st \in Streams, st.at # "consumed", streams' = [streams EXCEPT ![p] = st],
           UNCHANGED <<run, phase, bundle, limited, retrying, labels, failed, report>>
    PROVE  IInv'
<1>1. TypeOK /\ DOMAIN streams' = DOMAIN streams /\ streams' \in [DOMAIN streams -> Streams]
  BY DEF IInv, TypeOK
<1>2. /\ Places' = Places
      /\ \A q : LabelAt(q)' = LabelAt(q) /\ SourceAt(q)' = SourceAt(q)
  BY SameRun
<1>3. TypeOK'
  BY <1>1, <1>2 DEF TypeOK
<1>4. \A q \in DOMAIN streams : q # p => streams'[q] = streams[q]
  OBVIOUS
<1>5. \A l, s : Consumed(l, s)' = Consumed(l, s)
  BY <1>1, <1>2, <1>4 DEF Consumed
<1>6. \A s : Streamed(s)' <=> Streamed(s)
  BY <1>1, <1>2 DEF Streamed
<1>7. AccountInv' /\ StartInv'
  BY <1>1, <1>2 DEF IInv, AccountInv, Told, StartInv
<1>8. CountInv'
  BY <1>5, <1>6 DEF IInv, CountInv
<1>9. LabelInv'
  BY DEF IInv, LabelInv
<1>10. RetryInv'
  BY <1>1, <1>4 DEF IInv, RetryInv, TypeOK
<1>11. HonestReport'
  BY <1>3 DEF HonestReport
<1>12. QED
  BY <1>3, <1>7, <1>8, <1>9, <1>10, <1>11 DEF IInv

LEMMA StartKeeps ==
    ASSUME IInv, NEW p \in DOMAIN streams, Start(p)
    PROVE  IInv'
<1>1. TypeOK /\ RetryInv
  BY DEF IInv
<1>2. /\ phase = "fetch" /\ streams[p].at = "queued"
      /\ UNCHANGED <<run, phase, bundle, limited, retrying, labels, failed, report>>
  BY DEF Start
<1>3. PICK st : st = [streams[p] EXCEPT !.at = IF SourceAt(p) \in limited THEN "done" ELSE "fetching"]
  OBVIOUS
<1>4. streams' = [streams EXCEPT ![p] = st]
  BY <1>3 DEF Start
<1>5. streams[p] \in Streams
  BY <1>1 DEF TypeOK
<1>6. st \in Streams /\ st.at # "consumed"
  BY <1>3, <1>5 DEF Streams
<1>7. p # retrying
  BY <1>1, <1>2, RunFacts DEF TypeOK, RetryInv
<1>8. QED
  BY <1>2, <1>4, <1>6, <1>7, StreamStep

LEMMA AnswerKeeps ==
    ASSUME IInv, NEW p \in DOMAIN streams, Answer(p)
    PROVE  IInv'
<1>1. TypeOK /\ RetryInv
  BY DEF IInv
<1>2. /\ phase = "fetch" /\ streams[p].at = "fetching"
      /\ UNCHANGED <<run, phase, bundle, limited, retrying, labels, failed, report>>
  BY DEF Answer
<1>3. PICK r \in Result : streams' = [streams EXCEPT ![p].at = "done", ![p].result = r]
  BY DEF Answer
<1>4. r \in ResultType
  BY ResultAssumption
<1>5. PICK st : st = [streams[p] EXCEPT !.at = "done", !.result = r]
  OBVIOUS
<1>6. streams[p] \in Streams
  BY <1>1 DEF TypeOK
<1>7. st \in Streams /\ st.at # "consumed"
  BY <1>4, <1>5, <1>6 DEF Streams
<1>8. streams' = [streams EXCEPT ![p] = st]
  BY <1>1, <1>3, <1>5, <1>6 DEF TypeOK
<1>9. p # retrying
  BY <1>1, <1>2, RunFacts DEF TypeOK, RetryInv
<1>10. QED
  BY <1>2, <1>7, <1>8, <1>9, StreamStep

(* The main thread has the outcome of a stream that is done.                 *)
LEMMA SettleKeeps ==
    ASSUME IInv, phase = "fetch", NEW p \in DOMAIN streams, streams[p].at = "done",
           NEW r \in ResultType, Settle(p, r), limited' \subseteq Source,
           retrying' = None, UNCHANGED <<run, phase, labels, report>>
    PROVE  IInv'
<1>1. /\ TypeOK /\ Accounted(bundle) /\ Told /\ StartInv /\ RetryInv /\ CountInv /\ LabelInv
      /\ phase' = "fetch" /\ run' = run /\ labels' = labels /\ report' = report
  BY DEF IInv, AccountInv
<1>2. PICK s \in Source, l \in Label : s = SourceAt(p) /\ l = LabelAt(p)
  BY <1>1, RunFacts DEF TypeOK
<1>3. PICK c : c = bundle'
  OBVIOUS
<1>4. PICK fails \in BOOLEAN : fails = (r.raises # None \/ r.note # None)
  OBVIOUS
<1>5. failed' = failed \cup (IF fails THEN {s} ELSE {})
  BY <1>2, <1>4 DEF Settle
<1>6. \E urls : After(bundle, c, l, s, urls, fails)
  <2>1. CASE r.raises # None
    <3>1. c = Failure(bundle, s, r.raises)
      BY <1>2, <1>3, <2>1 DEF Settle
    <3>2. After(bundle, c, l, s, {}, TRUE)
      BY <1>1, <3>1, FailureAfter
    <3>3. QED
      BY <1>4, <2>1, <3>2
  <2>2. CASE r.raises = None
    <3>1. c = Returned(bundle, l, s, r)
      BY <1>2, <1>3, <2>2 DEF Settle
    <3>2. After(bundle, c, l, s, Kept(s, r.urls), r.note # None)
      BY <1>1, <3>1, ReturnedAfter
    <3>3. fails = (r.note # None)
      BY <1>4, <2>2
    <3>4. QED
      BY <3>2, <3>3
  <2>3. QED
    BY <2>1, <2>2
<1>7. PICK urls : After(bundle, c, l, s, urls, fails)
  BY <1>6
<1>8. /\ DOMAIN streams' = DOMAIN streams
      /\ \A q \in DOMAIN streams : q # p => streams'[q] = streams[q]
      /\ streams'[p].at = "consumed"
      /\ streams' \in [DOMAIN streams -> Streams]
  <2>1. streams' = [streams EXCEPT ![p].at = "consumed"]
    BY DEF Settle
  <2>2. streams \in [DOMAIN streams -> Streams] /\ streams[p] \in Streams
    BY <1>1 DEF TypeOK
  <2>3. PICK st : st = [streams[p] EXCEPT !.at = "consumed"]
    OBVIOUS
  <2>4. streams' = [streams EXCEPT ![p] = st]
    BY <2>1, <2>2, <2>3
  <2>5. st \in Streams /\ st.at = "consumed"
    BY <2>2, <2>3 DEF Streams
  <2>6. QED
    BY <2>2, <2>4, <2>5
<1>9. /\ Places' = Places
      /\ \A q : LabelAt(q)' = LabelAt(q) /\ SourceAt(q)' = SourceAt(q)
  BY <1>1, SameRun
<1>10. Accounted(c) /\ failed' = c.errors
  BY <1>1, <1>5, <1>7 DEF After, Told
<1>11. \A q \in DOMAIN streams : c.status[SourceAt(q)] # None
  <2>1. \A q \in DOMAIN streams : SourceAt(q) \in Source
    BY <1>1, RunFacts DEF TypeOK
  <2>2. QED
    BY <1>1, <1>7, <2>1 DEF After, Told
<1>12. TypeOK'
  <2>1. c \in Bundle /\ c.errors \subseteq Source
    BY <1>10, BundleFields DEF Accounted
  <2>2. QED
    BY <1>1, <1>3, <1>8, <1>9, <1>10, <2>1 DEF TypeOK
<1>13. AccountInv' /\ StartInv' /\ RetryInv'
  BY <1>1, <1>3, <1>8, <1>9, <1>10, <1>11 DEF AccountInv, Told, StartInv, RetryInv
<1>14. CountInv'
  <2>1. ASSUME NEW m \in Label, NEW t \in Source, NEW u \in Url
        PROVE  \/ c.listed[<<m, t>>][u] <= Cardinality(Consumed(m, t)')
               \/ c.listed[<<m, t>>][u] <= 1 /\ ~Streamed(t)'
    <3>1. /\ \/ bundle.listed[<<m, t>>][u] <= Cardinality(Consumed(m, t))
             \/ bundle.listed[<<m, t>>][u] <= 1 /\ ~Streamed(t)
          /\ bundle.listed[<<m, t>>][u] \in Nat
      <4>1. bundle.listed \in [Label \X Source -> [Url -> Nat]]
        BY <1>1, BundleFields DEF Accounted
      <4>2. QED
        BY <1>1, <4>1 DEF CountInv
    <3>2. Streamed(t)' <=> Streamed(t)
      BY <1>8, <1>9 DEF Streamed
    <3>3. IsFiniteSet(Consumed(m, t)) /\ Cardinality(Consumed(m, t)) \in Nat
      BY ConsumedFinite
    <3>4. CASE m = l /\ t = s
      <4>1. Consumed(m, t)' = Consumed(m, t) \cup {p} /\ p \notin Consumed(m, t)
        BY <1>2, <1>8, <1>9, <3>4 DEF Consumed
      <4>2. Cardinality(Consumed(m, t)') = Cardinality(Consumed(m, t)) + 1
        BY <3>3, <4>1, FS_AddElement
      <4>3. Streamed(t)
        BY <1>2, <3>4 DEF Streamed
      <4>4. c.listed[<<m, t>>][u] \in {bundle.listed[<<m, t>>][u], bundle.listed[<<m, t>>][u] + 1}
        BY <1>7, <3>4 DEF After
      <4>5. QED
        BY <3>1, <3>3, <4>2, <4>3, <4>4
    <3>5. CASE ~(m = l /\ t = s)
      <4>1. Consumed(m, t)' = Consumed(m, t)
        BY <1>2, <1>8, <1>9, <3>5 DEF Consumed
      <4>2. c.listed[<<m, t>>][u] = bundle.listed[<<m, t>>][u]
        BY <1>7, <3>5 DEF After
      <4>3. QED
        BY <3>1, <3>2, <4>1, <4>2
    <3>6. QED
      BY <3>4, <3>5
  <2>2. QED
    BY <1>1, <1>3, <2>1 DEF CountInv
<1>15. LabelInv'
  <2>1. l \in labels
    <3>1. p \in Places
      BY <1>1 DEF TypeOK
    <3>2. p[1] \in 1..Len(run.plan)
      BY <1>1, <3>1, RunFacts DEF TypeOK
    <3>3. QED
      BY <1>1, <1>2, <3>2 DEF LabelInv, LabelAt
  <2>2. ASSUME NEW m \in Label, NEW t \in Source, m # l
        PROVE  UrlsUnder(c, m, t) = UrlsUnder(bundle, m, t)
    BY <1>7, <2>2 DEF After, UrlsUnder
  <2>3. QED
    BY <1>1, <1>3, <2>1, <2>2 DEF LabelInv
<1>16. HonestReport'
  BY <1>1, <1>12 DEF HonestReport
<1>17. QED
  BY <1>12, <1>13, <1>14, <1>15, <1>16 DEF IInv

LEMMA ConsumeKeeps ==
    ASSUME IInv, NEW p \in DOMAIN streams, Consume(p)
    PROVE  IInv'
<1>1. TypeOK /\ phase = "fetch" /\ retrying = None /\ streams[p].at = "done"
  BY DEF IInv, Consume
<1>2. PICK r : r = streams[p].result
  OBVIOUS
<1>3. r \in ResultType
  BY <1>1, <1>2 DEF TypeOK, Streams
<1>4. CASE r.raises = "5xx"
  <2>1. /\ retrying' = p
        /\ UNCHANGED <<run, phase, bundle, streams, limited, labels, failed, report>>
    BY <1>2, <1>4 DEF Consume
  <2>2. /\ Places' = Places
        /\ \A q : LabelAt(q)' = LabelAt(q) /\ SourceAt(q)' = SourceAt(q)
    BY <2>1, SameRun
  <2>3. TypeOK'
    BY <1>1, <2>1, <2>2 DEF TypeOK
  <2>4. AccountInv' /\ StartInv' /\ LabelInv'
    BY <2>1, <2>2 DEF IInv, AccountInv, Told, StartInv, LabelInv
  <2>5. RetryInv'
    BY <1>1, <2>1 DEF RetryInv
  <2>6. CountInv'
    <3>1. \A l, s : Consumed(l, s)' = Consumed(l, s) /\ (Streamed(s)' <=> Streamed(s))
      BY <2>1, <2>2 DEF Consumed, Streamed
    <3>2. QED
      BY <2>1, <3>1 DEF IInv, CountInv
  <2>7. HonestReport'
    BY <1>1, <2>1, <2>3 DEF HonestReport
  <2>8. QED
    BY <2>3, <2>4, <2>5, <2>6, <2>7 DEF IInv
<1>5. CASE r.raises # "5xx"
  <2>1. /\ Settle(p, r) /\ UNCHANGED <<run, phase, labels, report, retrying>>
        /\ limited' = IF r.raises = "429" THEN limited \cup {SourceAt(p)} ELSE limited
    BY <1>2, <1>5 DEF Consume
  <2>2. SourceAt(p) \in Source
    BY <1>1, RunFacts DEF TypeOK
  <2>3. limited' \subseteq Source
    BY <1>1, <2>1, <2>2 DEF TypeOK
  <2>4. QED
    BY <1>1, <1>3, <2>1, <2>3, SettleKeeps
<1>6. QED
  BY <1>4, <1>5

LEMMA RetryKeeps ==
    ASSUME IInv, Retry
    PROVE  IInv'
<1>1. /\ retrying \in DOMAIN streams /\ phase = "fetch" /\ streams[retrying].at = "done"
      /\ limited \subseteq Source
  BY DEF IInv, TypeOK, RetryInv, Retry
<1>2. PICK p \in DOMAIN streams : p = retrying
  BY <1>1
<1>3. PICK r \in Result \cup {Skipped} : Settle(p, r)
  BY <1>2 DEF Retry
<1>4. r \in ResultType
  BY ResultAssumption DEF ResultType, Skipped, Got
<1>5. retrying' = None /\ UNCHANGED <<run, phase, limited, labels, report>>
  BY DEF Retry
<1>6. QED
  BY <1>1, <1>2, <1>3, <1>4, <1>5, SettleKeeps

LEMMA PoolDrainedKeeps ==
    ASSUME IInv, PoolDrained
    PROVE  IInv'
<1>1. /\ TypeOK /\ phase = "fetch" /\ phase' = "supplement"
      /\ \A p \in DOMAIN streams : streams[p].at = "consumed"
      /\ UNCHANGED <<run, bundle, streams, limited, retrying, labels, failed, report>>
  BY DEF IInv, PoolDrained
<1>2. /\ Places' = Places
      /\ \A q : LabelAt(q)' = LabelAt(q) /\ SourceAt(q)' = SourceAt(q)
  BY <1>1, SameRun
<1>3. TypeOK'
  BY <1>1, <1>2 DEF TypeOK
<1>4. AccountInv' /\ StartInv' /\ LabelInv'
  BY <1>1, <1>2 DEF IInv, AccountInv, Told, StartInv, LabelInv
<1>5. RetryInv'
  BY <1>1 DEF IInv, RetryInv, TypeOK
<1>6. CountInv'
  <2>1. \A l, s : Consumed(l, s)' = Consumed(l, s) /\ (Streamed(s)' <=> Streamed(s))
    BY <1>1, <1>2 DEF Consumed, Streamed
  <2>2. QED
    BY <1>1, <2>1 DEF IInv, CountInv
<1>7. HonestReport'
  BY <1>1, <1>3 DEF HonestReport
<1>8. QED
  BY <1>3, <1>4, <1>5, <1>6, <1>7 DEF IInv

LEMMA SkipAccounted ==
    ASSUME NEW S \in SUBSET Source
    PROVE  /\ Accounted(Skip(EmptyBundle, S)) /\ Skip(EmptyBundle, S).errors = S
           /\ Skip(EmptyBundle, S).listed = EmptyBundle.listed
<1> DEFINE o == [state |-> "skipped-unconfigured", attempted |-> FALSE,
                 detail |-> "skipped-unconfigured"]
           c == Skip(EmptyBundle, S)
<1>1. o \in Outcome /\ o.state = "skipped-unconfigured"
  BY DEF Outcome, State, Failing
<1>2. o # None
  BY <1>1, NoneAssumption
<1>3. PICK st : st = [s \in Source |-> IF s \in S THEN o ELSE None]
  OBVIOUS
<1>4. st \in [Source -> Outcome \cup {None}]
  BY <1>1, <1>3
<1>5. EmptyBundle \in Bundle /\ EmptyBundle.errors = {}
  BY EmptyAccounted DEF Accounted, EmptyBundle
<1>6. \A s \in Source : EmptyBundle.status[s] = None
  BY DEF EmptyBundle
<1>7. c = [EmptyBundle EXCEPT !.errors = S, !.status = st]
  BY <1>3, <1>5, <1>6 DEF Skip
<1> HIDE DEF c
<1>8. c \in Bundle /\ c.listed = EmptyBundle.listed /\ c.errors = S /\ c.status = st
  <2>1. LET d == [EmptyBundle EXCEPT !.errors = S, !.status = st]
        IN d \in Bundle /\ d.listed = EmptyBundle.listed /\ d.errors = S /\ d.status = st
    BY <1>4, <1>5 DEF Bundle
  <2>2. QED
    BY <1>7, <2>1
<1>9. ASSUME NEW s \in Source
      PROVE  Sound(c, s)
  <2>1. ~HasItems(EmptyBundle, s)
    BY <1>5, <1>6, EmptyAccounted DEF Accounted, Sound
  <2>2. ~HasItems(c, s)
    BY <2>1, <1>8 DEF HasItems
  <2>3. c.status[s] = IF s \in S THEN o ELSE None
    BY <1>3, <1>8
  <2>4. FailedBefore(c, s) <=> s \in S
    BY <2>3, <1>1, <1>2 DEF FailedBefore
  <2>5. QED
    BY <2>2, <2>3, <2>4, <1>1, <1>8 DEF Sound
<1>10. QED
  BY <1>8, <1>9 DEF Accounted, c

LEMMA MarkAllAccounted ==
    ASSUME NEW b, Accounted(b), NEW S \in SUBSET Source
    PROVE  LET c == MarkAll(b, S)
           IN /\ Accounted(c) /\ c.listed = b.listed /\ c.errors = b.errors
              /\ \A s \in S : c.status[s] # None
<1> DEFINE c == MarkAll(b, S)
<1>1. b \in Bundle /\ \A s \in Source : Sound(b, s)
  BY DEF Accounted
<1>2. \A s \in Source :
        /\ Accounted(MarkAttempted(b, s)) /\ MarkAttempted(b, s).listed = b.listed
        /\ MarkAttempted(b, s).errors = b.errors /\ MarkAttempted(b, s).status[s] # None
  BY Marking
<1>3. PICK st : st = [s \in Source |->
                        IF s \in S THEN MarkAttempted(b, s).status[s] ELSE b.status[s]]
  OBVIOUS
<1>4. \A s \in Source : MarkAttempted(b, s).status \in [Source -> Outcome \cup {None}]
  BY <1>2, BundleFields DEF Accounted
<1>5. st \in [Source -> Outcome \cup {None}]
  BY <1>1, <1>3, <1>4, BundleFields
<1>6. c = [b EXCEPT !.status = st]
  BY <1>3 DEF MarkAll
<1> HIDE DEF c
<1>7. c \in Bundle /\ c.listed = b.listed /\ c.errors = b.errors /\ c.status = st
  BY <1>1, <1>5, <1>6, NewStatus
<1>8. ASSUME NEW s \in Source
      PROVE  Sound(c, s)
  <2>1. CASE s \in S
    <3>1. Sound(MarkAttempted(b, s), s)
      BY <1>2 DEF Accounted
    <3>2. c.status[s] = MarkAttempted(b, s).status[s]
      BY <2>1, <1>3, <1>7
    <3>3. QED
      BY <3>1, <3>2, <1>2, <1>7, SoundIsLocal
  <2>2. CASE s \notin S
    <3>1. c.status[s] = b.status[s]
      BY <2>2, <1>3, <1>7
    <3>2. QED
      BY <3>1, <1>1, <1>7, SoundIsLocal
  <2>3. QED
    BY <2>1, <2>2
<1>9. QED
  BY <1>2, <1>3, <1>7, <1>8 DEF Accounted, c

(* Before the pool, only these sources have items, once and under the        *)
(* primary label.                                                          *)
OnlyFrom(b, S) ==
    \A l \in Label, t \in Source, u \in Url :
        \/ b.listed[<<l, t>>][u] = 0
        \/ b.listed[<<l, t>>][u] = 1 /\ l = Primary /\ t \in S

LEMMA OnlyFromGrows ==
    ASSUME NEW b, NEW c, NEW S, NEW s \in Source \ S, NEW urls, NEW f,
           After(b, c, Primary, s, urls, f), OnlyFrom(b, S)
    PROVE  /\ OnlyFrom(c, S \cup {s})
           /\ urls = {} => OnlyFrom(c, S)
<1>1. ASSUME NEW l \in Label, NEW t \in Source, NEW u \in Url
      PROVE  \/ c.listed[<<l, t>>][u] = 0
             \/ c.listed[<<l, t>>][u] = 1 /\ l = Primary /\ t \in S
             \/ c.listed[<<l, t>>][u] = 1 /\ l = Primary /\ t = s /\ urls # {}
  <2>1. \/ b.listed[<<l, t>>][u] = 0
        \/ b.listed[<<l, t>>][u] = 1 /\ l = Primary /\ t \in S
    BY DEF OnlyFrom
  <2>2. CASE t # s
    BY <2>1, <2>2 DEF After
  <2>3. CASE t = s
    <3>1. b.listed[<<l, t>>][u] = 0
      BY <2>1, <2>3
    <3>2. \/ c.listed[<<l, t>>][u] = b.listed[<<l, t>>][u]
          \/ l = Primary /\ u \in urls /\ c.listed[<<l, t>>][u] = b.listed[<<l, t>>][u] + 1
      BY <2>3 DEF After
    <3>3. QED
      BY <2>3, <3>1, <3>2
  <2>4. QED
    BY <2>2, <2>3
<1>2. QED
  BY <1>1 DEF OnlyFrom

(* GitHub's modes and the corpus, before the streams are submitted.           *)
LEMMA ModeKeeps ==
    ASSUME NEW b, Accounted(b), OnlyFrom(b, {}), NEW r \in ResultType, NEW runs \in BOOLEAN,
           runs => "github" \in Source, Primary \in Label, r.raises # None => r.urls = {}
    PROVE  LET c == IF runs THEN GithubMode(b, r) ELSE b
           IN /\ Accounted(c)
              /\ c.errors = b.errors \cup (IF runs /\ r.raises # None THEN {"github"} ELSE {})
              /\ OnlyFrom(c, IF runs /\ r.urls # {} THEN {"github"} ELSE {})
<1>1. CASE ~runs
  BY <1>1
<1>2. CASE runs
  <2>1. PICK c : c = GithubMode(b, r)
    OBVIOUS
  <2>2. PICK urls : urls = IF r.raises = None THEN r.urls ELSE {}
    OBVIOUS
  <2>3. After(b, c, Primary, "github", urls, r.raises # None)
    BY <1>2, <2>1, <2>2, GithubModeAfter
  <2>4. OnlyFrom(c, {} \cup {"github"}) /\ (urls = {} => OnlyFrom(c, {}))
    BY <1>2, <2>3, OnlyFromGrows
  <2>5. r.urls = {} => urls = {}
    BY <2>2
  <2>6. OnlyFrom(c, IF r.urls # {} THEN {"github"} ELSE {})
    BY <2>4, <2>5
  <2>7. Accounted(c) /\ c.errors = b.errors \cup (IF r.raises # None THEN {"github"} ELSE {})
    BY <2>3 DEF After
  <2>8. QED
    BY <1>2, <2>1, <2>6, <2>7
<1>3. QED
  BY <1>1, <1>2

LEMMA PrepareKeeps ==
    ASSUME IInv, Prepare
    PROVE  IInv'
<1>1. /\ TypeOK /\ StartInv /\ LabelInv /\ Told /\ bundle = EmptyBundle
      /\ phase = "prepare" /\ phase' = "fetch"
      /\ UNCHANGED <<run, limited, retrying, labels, report>>
  BY DEF IInv, AccountInv, StartInv, Prepare
<1>2. /\ Places' = Places
      /\ \A q : LabelAt(q)' = LabelAt(q) /\ SourceAt(q)' = SourceAt(q)
  BY <1>1, SameRun
<1>3. /\ Primary \in Label /\ run.available \subseteq Source /\ run.requested \subseteq Source
      /\ \A p \in Places : LabelAt(p) \in Label /\ SourceAt(p) \in Source
  BY <1>1, RunFacts DEF TypeOK
<1>4. PICK r1, r2 \in (IF "github" \in run.available /\ run.github # {} THEN Result ELSE {Skipped}),
           local \in (IF run.corpus THEN SUBSET Url ELSE {{}}):
         LET skipped == Skip(EmptyBundle, Unconfigured)
             project == "project" \in run.github /\ "github" \in run.available
             projectDone == project /\ r1.urls # {}
             afterProject == IF project THEN GithubMode(skipped, r1) ELSE skipped
             person == "person" \in run.github /\ "github" \in run.available /\ ~projectDone
             personDone == person /\ r2.urls # {}
             afterPerson == IF person THEN GithubMode(afterProject, r2) ELSE afterProject
             afterCorpus == IF run.corpus
                            THEN AddItems(MarkAttempted(afterPerson, "corpus"),
                                          Primary, "corpus", Kept("corpus", local))
                            ELSE afterPerson
             places == Submitted(projectDone \/ personDone)
         IN /\ ~project => r1 = Skipped
            /\ ~person => r2 = Skipped
            /\ r1.note = None /\ r2.note = None
            /\ streams' = [p \in places |-> [at |-> "queued", result |-> Skipped]]
            /\ bundle' = MarkAll(afterCorpus, {SourceAt(p) : p \in places})
            /\ failed' = failed \cup Unconfigured
                  \cup (IF r1.raises # None \/ r2.raises # None THEN {"github"} ELSE {})
            /\ phase' = "fetch"
  BY Zenon DEF Prepare
<1>5. /\ r1 \in ResultType /\ r2 \in ResultType /\ Skipped \in ResultType
      /\ r1.raises # None => r1.urls = {}
      /\ r2.raises # None => r2.urls = {}
      /\ Skipped.raises = None /\ Skipped.urls = {}
  <2>1. Skipped \in ResultType /\ Skipped.raises = None /\ Skipped.urls = {}
    BY DEF ResultType, Skipped, Got
  <2>2. \A r \in Result : r \in ResultType /\ (r.raises # None => r.urls = {})
    BY ResultAssumption
  <2>3. r1 \in Result \cup {Skipped} /\ r2 \in Result \cup {Skipped}
    OBVIOUS
  <2>4. QED
    BY <2>1, <2>2, <2>3
<1> DEFINE skipped == Skip(EmptyBundle, Unconfigured)
           project == "project" \in run.github /\ "github" \in run.available
           projectDone == project /\ r1.urls # {}
           afterProject == IF project THEN GithubMode(skipped, r1) ELSE skipped
           person == "person" \in run.github /\ "github" \in run.available /\ ~projectDone
           personDone == person /\ r2.urls # {}
           afterPerson == IF person THEN GithubMode(afterProject, r2) ELSE afterProject
           afterCorpus == IF run.corpus
                          THEN AddItems(MarkAttempted(afterPerson, "corpus"),
                                        Primary, "corpus", Kept("corpus", local))
                          ELSE afterPerson
           submitted == Submitted(projectDone \/ personDone)
<1>6. /\ ~project => r1 = Skipped
      /\ ~person => r2 = Skipped
      /\ streams' = [p \in submitted |-> [at |-> "queued", result |-> Skipped]]
      /\ bundle' = MarkAll(afterCorpus, {SourceAt(p) : p \in submitted})
      /\ failed' = failed \cup Unconfigured
            \cup (IF r1.raises # None \/ r2.raises # None THEN {"github"} ELSE {})
  BY <1>4
<1>7. PICK b0, b1, b2, b3, places :
         /\ b0 = skipped /\ b1 = afterProject /\ b2 = afterPerson /\ b3 = afterCorpus
         /\ places = submitted
  OBVIOUS
<1>8. b1 = IF project THEN GithubMode(b0, r1) ELSE b0
  BY <1>7
<1>9. b2 = IF person THEN GithubMode(b1, r2) ELSE b1
  BY <1>7
<1>10. b3 = IF run.corpus
            THEN AddItems(MarkAttempted(b2, "corpus"),
                          Primary, "corpus", Kept("corpus", local))
            ELSE b2
  BY <1>7
<1>11. places = Submitted(projectDone \/ personDone)
  BY <1>7
<1> HIDE DEF afterProject, afterPerson, afterCorpus, submitted
<1>12. PICK marked : marked = {SourceAt(p) : p \in places}
  OBVIOUS
<1>13. /\ streams' = [p \in places |-> [at |-> "queued", result |-> Skipped]]
       /\ bundle' = MarkAll(b3, marked)
  BY <1>6, <1>7, <1>12
<1>32. PICK pd, qd, qs \in BOOLEAN :
         pd = projectDone /\ qs = person /\ qd = personDone
  OBVIOUS
<1>14. /\ Accounted(b0) /\ b0.errors = Unconfigured /\ OnlyFrom(b0, {})
  <2>1. Unconfigured \in SUBSET Source
    BY <1>3, SourceAssumption DEF Unconfigured
  <2>2. Accounted(b0) /\ b0.errors = Unconfigured /\ b0.listed = EmptyBundle.listed
    BY <1>7, <2>1, SkipAccounted
  <2>3. \A l \in Label, t \in Source, u \in Url : EmptyBundle.listed[<<l, t>>][u] = 0
    BY DEF EmptyBundle
  <2>4. QED
    BY <2>2, <2>3 DEF OnlyFrom
<1>15. /\ Accounted(b1)
       /\ b1.errors = b0.errors \cup (IF project /\ r1.raises # None THEN {"github"} ELSE {})
       /\ OnlyFrom(b1, IF pd THEN {"github"} ELSE {})
  <2>1. PICK ps \in BOOLEAN : ps = project
    OBVIOUS
  <2>2. ps => "github" \in Source
    BY <1>3, <2>1
  <2>3. b1 = IF ps THEN GithubMode(b0, r1) ELSE b0
    BY <1>8, <2>1
  <2>4. pd = (ps /\ r1.urls # {})
    BY <1>32, <2>1
  <2> HIDE DEF project, person, projectDone, personDone, skipped
  <2>5. /\ Accounted(b1)
        /\ b1.errors = b0.errors \cup (IF ps /\ r1.raises # None THEN {"github"} ELSE {})
        /\ OnlyFrom(b1, IF ps /\ r1.urls # {} THEN {"github"} ELSE {})
    BY <1>3, <1>5, <1>14, <2>2, <2>3, ModeKeeps
  <2>6. QED
    BY <2>1, <2>4, <2>5
<1>16. /\ Accounted(b2)
       /\ b2.errors = b1.errors \cup (IF qs /\ r2.raises # None THEN {"github"} ELSE {})
       /\ OnlyFrom(b2, IF pd \/ qd THEN {"github"} ELSE {})
  <2>1. CASE ~qs
    BY <1>32, <1>9, <1>15, <2>1
  <2>2. CASE qs
    <3>1. ~pd /\ "github" \in Source
      BY <1>3, <1>32, <2>2
    <3>2. OnlyFrom(b1, {})
      BY <1>15, <3>1
    <3> HIDE DEF project, person, projectDone, personDone, skipped
    <3>6. b2 = IF qs THEN GithubMode(b1, r2) ELSE b1
      BY <1>9, <1>32
    <3>3. /\ Accounted(b2)
          /\ b2.errors = b1.errors \cup (IF qs /\ r2.raises # None THEN {"github"} ELSE {})
          /\ OnlyFrom(b2, IF qs /\ r2.urls # {} THEN {"github"} ELSE {})
      BY <1>3, <1>5, <1>15, <2>2, <3>1, <3>2, <3>6, ModeKeeps
    <3>4. (IF pd \/ qd THEN {"github"} ELSE {}) = (IF qs /\ r2.urls # {} THEN {"github"} ELSE {})
      BY <1>32, <3>1 DEF personDone
    <3>5. QED
      BY <3>3, <3>4
  <2>3. QED
    BY <2>1, <2>2
<1>17. PICK done : done = IF pd \/ qd THEN {"github"} ELSE {}
  OBVIOUS
<1>18. /\ Accounted(b3) /\ b3.errors = b2.errors /\ OnlyFrom(b3, done \cup {"corpus"})
  <2>1. OnlyFrom(b2, done) /\ "corpus" \notin done
    BY <1>16, <1>17
  <2>2. CASE ~run.corpus
    BY <1>10, <1>16, <2>1, <2>2 DEF OnlyFrom
  <2>3. CASE run.corpus
    <3>1. PICK m : m = MarkAttempted(b2, "corpus")
      OBVIOUS
    <3>2. "corpus" \in Source /\ Kept("corpus", local) \in SUBSET Url
      <4>1. local \in SUBSET Url
        BY <2>3
      <4>2. QED
        BY <4>1, SourceAssumption, KeptType
    <3>3. After(b2, m, Primary, "corpus", {}, FALSE)
      BY <1>16, <3>1, <3>2, MarkAfter
    <3>4. Accounted(m)
      BY <3>3 DEF After
    <3>5. b3 = AddItems(m, Primary, "corpus", Kept("corpus", local))
      BY <1>10, <2>3, <3>1
    <3>6. After(m, b3, Primary, "corpus", Kept("corpus", local), FALSE)
      BY <1>3, <3>2, <3>4, <3>5, AddAfter
    <3>7. After(b2, b3, Primary, "corpus", Kept("corpus", local), FALSE)
      BY <3>2, <3>3, <3>6, AfterBoth
    <3>8. OnlyFrom(b3, done \cup {"corpus"})
      BY <2>1, <3>2, <3>7, OnlyFromGrows
    <3>9. QED
      BY <3>7, <3>8 DEF After
  <2>4. QED
    BY <2>2, <2>3
<1>19. places \subseteq Places /\ \A p \in places : SourceAt(p) \notin done \cup {"corpus"}
  BY <1>11, <1>17, <1>32 DEF Submitted
<1>20. marked \in SUBSET Source
  BY <1>3, <1>12, <1>19
<1>21. PICK c : c = bundle'
  OBVIOUS
<1>22. /\ Accounted(c) /\ c.listed = b3.listed /\ c.errors = b3.errors
       /\ \A s \in marked : c.status[s] # None
  BY <1>13, <1>18, <1>20, <1>21, MarkAllAccounted
<1>23. failed' = c.errors
  <2>1. failed = {}
    BY <1>1 DEF Told, EmptyBundle
  <2>2. c.errors = Unconfigured \cup (IF project /\ r1.raises # None THEN {"github"} ELSE {})
                                \cup (IF qs /\ r2.raises # None THEN {"github"} ELSE {})
    BY <1>14, <1>15, <1>16, <1>18, <1>22
  <2>3. (r1.raises # None => project) /\ (r2.raises # None => qs)
    BY <1>5, <1>6, <1>32
  <2> HIDE DEF project, person, projectDone, personDone, skipped
  <2>4. QED
    BY <1>6, <2>1, <2>2, <2>3
<1>24. /\ DOMAIN streams' = places
       /\ streams' \in [places -> Streams]
       /\ \A p \in places : streams'[p].at = "queued"
  <2>1. [at |-> "queued", result |-> Skipped] \in Streams
    BY <1>5 DEF Streams
  <2>2. QED
    BY <1>13, <2>1
<1>25. TypeOK'
  <2>1. c \in Bundle /\ c.errors \subseteq Source
    BY <1>22, BundleFields DEF Accounted
  <2>2. retrying = None
    BY <1>1 DEF StartInv, TypeOK
  <2>3. QED
    BY <1>1, <1>2, <1>19, <1>21, <1>23, <1>24, <2>1, <2>2 DEF TypeOK
<1>26. AccountInv' /\ StartInv' /\ RetryInv'
  <2>1. \A p \in places : c.status[SourceAt(p)] # None
    BY <1>12, <1>22
  <2>2. retrying' = None
    BY <1>1 DEF StartInv, TypeOK
  <2>3. QED
    BY <1>1, <1>2, <1>21, <1>22, <1>23, <1>24, <2>1, <2>2 DEF AccountInv, Told, StartInv, RetryInv
<1>27. OnlyFrom(c, done \cup {"corpus"})
  BY <1>18, <1>22 DEF OnlyFrom
<1>28. CountInv'
  <2>1. ASSUME NEW l \in Label, NEW s \in Source, NEW u \in Url
        PROVE  \/ c.listed[<<l, s>>][u] <= Cardinality(Consumed(l, s)')
               \/ c.listed[<<l, s>>][u] <= 1 /\ ~Streamed(s)'
    <3>1. CASE c.listed[<<l, s>>][u] = 0
      <4>1. Consumed(l, s)' = {}
        BY <1>24 DEF Consumed
      <4>2. Cardinality(Consumed(l, s)') = 0
        BY <4>1, FS_EmptySet
      <4>3. QED
        BY <3>1, <4>2
    <3>2. CASE c.listed[<<l, s>>][u] = 1 /\ s \in done \cup {"corpus"}
      <4>1. ~Streamed(s)'
        BY <1>2, <1>19, <1>24, <3>2 DEF Streamed
      <4>2. QED
        BY <3>2, <4>1
    <3>3. QED
      BY <1>27, <3>1, <3>2 DEF OnlyFrom
  <2>2. QED
    BY <1>21, <2>1 DEF CountInv
<1>29. LabelInv'
  <2>1. 1 \in 1..Len(run.plan)
    BY <1>1, RunFacts DEF TypeOK
  <2>2. Primary \in labels
    BY <1>1, <2>1 DEF LabelInv, Primary
  <2>3. \A l \in Label, s \in Source : UrlsUnder(c, l, s) # {} => l = Primary
    <3> SUFFICES ASSUME NEW l \in Label, NEW s \in Source, NEW u \in Url,
                        c.listed[<<l, s>>][u] > 0
                 PROVE  l = Primary
      BY DEF UrlsUnder
    <3>1. QED
      BY <1>27 DEF OnlyFrom
  <2>4. QED
    BY <1>1, <1>21, <2>2, <2>3 DEF LabelInv
<1>30. HonestReport'
  BY <1>1, <1>25 DEF HonestReport
<1>31. QED
  BY <1>25, <1>26, <1>28, <1>29, <1>30 DEF IInv

(* After the pool: a URL is listed by the streams of the pool, or once.       *)
Bounded(b) ==
    \A l \in Label, s \in Source, u \in Url :
        \/ b.listed[<<l, s>>][u] <= Cardinality(Consumed(l, s))
        \/ b.listed[<<l, s>>][u] <= 1

LEMMA BoundedGrows ==
    ASSUME NEW b, b \in Bundle, NEW c, NEW l, NEW s \in Source, NEW urls, NEW f,
           After(b, c, l, s, urls, f), urls \cap UrlsOf(b, s) = {}, Bounded(b)
    PROVE  Bounded(c)
<1> SUFFICES ASSUME NEW m \in Label, NEW t \in Source, NEW u \in Url
             PROVE  \/ c.listed[<<m, t>>][u] <= Cardinality(Consumed(m, t))
                    \/ c.listed[<<m, t>>][u] <= 1
  BY DEF Bounded
<1>1. CASE c.listed[<<m, t>>][u] = b.listed[<<m, t>>][u]
  BY <1>1 DEF Bounded
<1>2. CASE c.listed[<<m, t>>][u] # b.listed[<<m, t>>][u]
  <2>1. t = s
    BY <1>2 DEF After
  <2>2. u \in urls /\ c.listed[<<m, s>>][u] = b.listed[<<m, s>>][u] + 1
    BY <1>2, <2>1 DEF After
  <2>3. b.listed[<<m, s>>][u] \in Nat
    <3>1. b.listed \in [Label \X Source -> [Url -> Nat]]
      BY BundleFields
    <3>2. QED
      BY <3>1
  <2>4. ~(b.listed[<<m, s>>][u] > 0)
    BY <2>2 DEF UrlsOf, UrlsUnder
  <2>5. b.listed[<<m, s>>][u] = 0
    BY <2>3, <2>4
  <2>6. QED
    BY <2>1, <2>2, <2>5
<1>3. QED
  BY <1>1, <1>2

(* After the pool: c is b after the source x was searched, under labels among *)
(* these, and maybe failed.                                                 *)
Grown(b, c, fails, under) ==
    /\ Accounted(c) /\ Bounded(c)
    /\ c.errors = b.errors \cup (IF fails THEN {"x"} ELSE {})
    /\ \A s \in Source : b.status[s] # None => c.status[s] # None
    /\ \A m \in Label, t \in Source :
         UrlsUnder(c, m, t) # {} => UrlsUnder(b, m, t) # {} \/ (m \in under /\ t = "x")

LEMMA GrownSame ==
    ASSUME NEW b, Accounted(b), Bounded(b)
    PROVE  Grown(b, b, FALSE, {})
BY DEF Grown

LEMMA GrownBoth ==
    ASSUME NEW b, NEW c, NEW d, NEW f \in BOOLEAN, NEW g \in BOOLEAN, NEW under,
           Grown(b, c, f, under), Grown(c, d, g, under)
    PROVE  Grown(b, d, f \/ g, under)
<1>1. Accounted(d) /\ Bounded(d)
  BY DEF Grown
<1>2. d.errors = b.errors \cup (IF f \/ g THEN {"x"} ELSE {})
  BY DEF Grown
<1>3. \A s \in Source : b.status[s] # None => d.status[s] # None
  BY DEF Grown
<1>4. \A m \in Label, t \in Source :
        UrlsUnder(d, m, t) # {} => UrlsUnder(b, m, t) # {} \/ (m \in under /\ t = "x")
  BY DEF Grown
<1>5. QED
  BY <1>1, <1>2, <1>3, <1>4 DEF Grown

LEMMA GrownAfter ==
    ASSUME NEW b, Accounted(b), Bounded(b), NEW c, NEW l \in Label, NEW urls, NEW f \in BOOLEAN,
           After(b, c, l, "x", urls, f), urls \cap UrlsOf(b, "x") = {}, "x" \in Source,
           NEW under, urls # {} => l \in under
    PROVE  Grown(b, c, f, under)
<1>1. b \in Bundle /\ Accounted(c)
  BY DEF Accounted, After
<1>2. PICK x \in Source : x = "x"
  OBVIOUS
<1>3. Bounded(c)
  <2>1. After(b, c, l, x, urls, f) /\ urls \cap UrlsOf(b, x) = {}
    BY <1>2
  <2>2. QED
    BY <1>1, <2>1, BoundedGrows
<1>4. c.errors = b.errors \cup (IF f THEN {"x"} ELSE {})
  BY DEF After
<1>5. \A s \in Source : b.status[s] # None => c.status[s] # None
  BY DEF After
<1>6. ASSUME NEW m \in Label, NEW t \in Source, UrlsUnder(c, m, t) # {}, UrlsUnder(b, m, t) = {}
      PROVE  m = l /\ t = "x" /\ urls # {}
  <2>1. PICK u \in Url : c.listed[<<m, t>>][u] > 0 /\ ~(b.listed[<<m, t>>][u] > 0)
    BY <1>6 DEF UrlsUnder
  <2>2. c.listed[<<m, t>>][u] # b.listed[<<m, t>>][u]
    BY <2>1
  <2>3. t = "x"
    BY <2>2 DEF After
  <2>4. QED
    BY <2>2, <2>3 DEF After
<1>7. QED
  BY <1>1, <1>3, <1>4, <1>5, <1>6 DEF Grown

LEMMA LaneGrown ==
    ASSUME NEW b, Accounted(b), Bounded(b), NEW r, "x" \in Source, Primary \in Label
    PROVE  Grown(b, Lane(b, r), r.raises # None, {})
<1>1. PICK c : c = Lane(b, r)
  OBVIOUS
<1>2. PICK f \in BOOLEAN : f = (r.raises # None)
  OBVIOUS
<1>3. After(b, c, Primary, "x", {}, r.raises # None)
  BY <1>1, LaneAfter
<1>4. After(b, c, Primary, "x", {}, f)
  BY <1>2, <1>3
<1>5. PICK urls : urls = {}
  OBVIOUS
<1>6. PICK under : under = {}
  OBVIOUS
<1>7. /\ After(b, c, Primary, "x", urls, f) /\ urls \cap UrlsOf(b, "x") = {}
      /\ urls # {} => Primary \in under
  BY <1>4, <1>5
<1>8. Grown(b, c, f, under)
  BY <1>7, GrownAfter
<1>9. QED
  BY <1>1, <1>2, <1>6, <1>8

LEMMA NewGrown ==
    ASSUME NEW b, Accounted(b), Bounded(b), NEW l \in Label, NEW urls \in SUBSET Url,
           "x" \in Source
    PROVE  Grown(b, New(b, l, urls), FALSE, {l})
<1>1. PICK c : c = New(b, l, urls)
  OBVIOUS
<1>2. PICK new : new = urls \ UrlsOf(b, "x")
  OBVIOUS
<1>3. After(b, c, l, "x", new, FALSE)
  BY <1>1, <1>2, NewAfter
<1>4. PICK f \in BOOLEAN : f = FALSE
  OBVIOUS
<1>5. Grown(b, c, f, {l})
  <2>1. new \cap UrlsOf(b, "x") = {}
    BY <1>2
  <2>2. After(b, c, l, "x", new, f)
    BY <1>3, <1>4
  <2>3. QED
    BY <2>1, <2>2, GrownAfter
<1>6. QED
  BY <1>1, <1>4, <1>5

(* A step after the pool.                                                   *)
LEMMA LaterStep ==
    ASSUME IInv, phase \in {"supplement", "thin"}, phase' \in {"thin", "finish"},
           Accounted(bundle'), Bounded(bundle'), failed' = bundle'.errors,
           \A s \in Source : bundle.status[s] # None => bundle'.status[s] # None,
           labels \subseteq labels', labels' \subseteq Label,
           \A l \in Label, s \in Source : UrlsUnder(bundle', l, s) # {} => l \in labels',
           UNCHANGED <<run, streams, limited, retrying, report>>
    PROVE  IInv'
<1>1. TypeOK /\ Told /\ RetryInv /\ LabelInv /\ StartInv
  BY DEF IInv, AccountInv
<1>2. /\ Places' = Places
      /\ \A q : LabelAt(q)' = LabelAt(q) /\ SourceAt(q)' = SourceAt(q)
  BY SameRun
<1>3. PICK c : c = bundle'
  OBVIOUS
<1>4. c \in Bundle /\ c.errors \subseteq Source
  BY <1>3, BundleFields DEF Accounted
<1>5. TypeOK'
  BY <1>1, <1>2, <1>3, <1>4 DEF TypeOK
<1>6. \A p \in DOMAIN streams : SourceAt(p) \in Source
  BY <1>1, RunFacts DEF TypeOK
<1>7. AccountInv' /\ StartInv' /\ RetryInv'
  BY <1>1, <1>2, <1>6 DEF AccountInv, Told, StartInv, RetryInv
<1>8. CountInv'
  <2>1. \A l, s : Consumed(l, s)' = Consumed(l, s)
    BY <1>2 DEF Consumed
  <2>2. \A l \in Label, s \in Source, u \in Url :
          \/ c.listed[<<l, s>>][u] <= Cardinality(Consumed(l, s))
          \/ c.listed[<<l, s>>][u] <= 1
    BY <1>3 DEF Bounded
  <2>3. phase' # "fetch"
    OBVIOUS
  <2>4. QED
    BY <1>3, <2>1, <2>2, <2>3 DEF CountInv
<1>9. LabelInv'
  BY <1>1 DEF LabelInv
<1>10. HonestReport'
  BY <1>5 DEF HonestReport
<1>11. QED
  BY <1>5, <1>7, <1>8, <1>9, <1>10 DEF IInv

LEMMA SupplementKeeps ==
    ASSUME IInv, Supplement
    PROVE  IInv'
<1>1. /\ TypeOK /\ LabelInv /\ CountInv /\ Accounted(bundle) /\ failed = bundle.errors
      /\ phase = "supplement" /\ phase' = "thin"
      /\ UNCHANGED <<run, streams, limited, retrying, report>>
  BY DEF IInv, AccountInv, Told, Supplement
<1>2. Bounded(bundle)
  BY <1>1 DEF CountInv, Bounded
<1>3. CASE ~LanesRun
  <2>1. UNCHANGED <<bundle, labels, failed>>
    BY <1>3 DEF Supplement
  <2>2. Bounded(bundle') /\ labels \subseteq Label
    BY <1>1, <1>2, <2>1 DEF TypeOK, Bounded
  <2>3. QED
    BY <1>1, <2>1, <2>2, LaterStep DEF LabelInv
<1>4. CASE LanesRun
  <2>1. PICK handles \in {run.handle, TRUE}, from, about, other \in LaneResult :
               LET lanes == IF handles THEN Lane(Lane(bundle, from), about) ELSE bundle
                   primary == IF handles THEN New(lanes, Primary, from.urls \cup about.urls) ELSE lanes
                   tried == IF run.related THEN Lane(primary, other) ELSE primary
                   all == IF run.related THEN New(tried, "supplemental-related", other.urls) ELSE tried
               IN /\ ~handles => from = Skipped /\ about = Skipped
                  /\ handles => run.handle \/ HasItems(bundle, "x") \/ HasItems(bundle, "reddit")
                  /\ ~run.related => other = Skipped
                  /\ bundle' = all
                  /\ labels' = IF UrlsUnder(all, "supplemental-related", "x") # {}
                               THEN labels \cup {"supplemental-related"} ELSE labels
                  /\ failed' = IF \E r \in {from, about, other} : r.raises # None
                               THEN failed \cup {"x"} ELSE failed
    BY <1>4, Zenon DEF Supplement
  <2> DEFINE lanes == IF handles THEN Lane(Lane(bundle, from), about) ELSE bundle
             primary == IF handles THEN New(lanes, Primary, from.urls \cup about.urls) ELSE lanes
             tried == IF run.related THEN Lane(primary, other) ELSE primary
             all == IF run.related THEN New(tried, "supplemental-related", other.urls) ELSE tried
  <2>2. /\ ~handles => from = Skipped /\ about = Skipped
        /\ ~run.related => other = Skipped
        /\ bundle' = all
        /\ labels' = IF UrlsUnder(all, "supplemental-related", "x") # {}
                     THEN labels \cup {"supplemental-related"} ELSE labels
        /\ failed' = IF \E r \in {from, about, other} : r.raises # None
                     THEN failed \cup {"x"} ELSE failed
    BY <2>1
  <2>3. PICK b1, b2, b3, b4 : b1 = lanes /\ b2 = primary /\ b3 = tried /\ b4 = all
    OBVIOUS
  <2>4. /\ b1 = IF handles THEN Lane(Lane(bundle, from), about) ELSE bundle
        /\ b2 = IF handles THEN New(b1, Primary, from.urls \cup about.urls) ELSE b1
        /\ b3 = IF run.related THEN Lane(b2, other) ELSE b2
        /\ b4 = IF run.related THEN New(b3, "supplemental-related", other.urls) ELSE b3
    BY <2>3
  <2> HIDE DEF lanes, primary, tried, all
  <2>5. /\ from \in ResultType /\ about \in ResultType /\ other \in ResultType
        /\ Skipped.raises = None
    BY ResultAssumption DEF LaneResult, Skipped, Got
  <2>6. /\ from.urls \cup about.urls \in SUBSET Url /\ other.urls \in SUBSET Url
        /\ "x" \in Source /\ Primary \in Label /\ "supplemental-related" \in Label
    BY <1>1, <2>5, SourceAssumption, RunFacts DEF ResultType, TypeOK
  <2>7. PICK f, g, h \in BOOLEAN :
          f = (from.raises # None) /\ g = (about.raises # None) /\ h = (other.raises # None)
    OBVIOUS
  <2>8. Grown(bundle, b1, f \/ g, {})
    <3>1. CASE handles
      <4>1. PICK m : m = Lane(bundle, from)
        OBVIOUS
      <4>2. Grown(bundle, m, f, {})
        BY <1>1, <1>2, <2>6, <2>7, <4>1, LaneGrown
      <4>3. Accounted(m) /\ Bounded(m)
        BY <4>2 DEF Grown
      <4>4. b1 = Lane(m, about)
        BY <2>4, <3>1, <4>1
      <4>5. Grown(m, b1, g, {})
        BY <2>6, <2>7, <4>3, <4>4, LaneGrown
      <4>6. QED
        BY <4>2, <4>5, GrownBoth
    <3>2. CASE ~handles
      <4>1. b1 = bundle
        BY <2>4, <3>2
      <4>2. f = FALSE /\ g = FALSE
        BY <2>2, <2>5, <2>7, <3>2
      <4>3. Grown(bundle, bundle, FALSE, {})
        BY <1>1, <1>2, GrownSame
      <4>4. QED
        BY <4>1, <4>2, <4>3
    <3>3. QED
      BY <3>1, <3>2
  <2>9. Accounted(b1) /\ Bounded(b1)
    BY <2>8 DEF Grown
  <2>10. Grown(b1, b2, FALSE, {Primary})
    <3>1. CASE handles
      <4>1. PICK found \in SUBSET Url : found = from.urls \cup about.urls
        BY <2>6
      <4>2. b2 = New(b1, Primary, found)
        BY <2>4, <3>1, <4>1
      <4>3. QED
        BY <2>6, <2>9, <4>2, NewGrown
    <3>2. CASE ~handles
      <4>1. b2 = b1
        BY <2>4, <3>2
      <4>2. QED
        BY <2>9, <4>1 DEF Grown
    <3>3. QED
      BY <3>1, <3>2
  <2>11. Accounted(b2) /\ Bounded(b2)
    BY <2>10 DEF Grown
  <2>12. Grown(b2, b3, h, {})
    <3>1. CASE run.related
      <4>1. b3 = Lane(b2, other)
        BY <2>4, <3>1
      <4>2. QED
        BY <2>6, <2>7, <2>11, <4>1, LaneGrown
    <3>2. CASE ~run.related
      <4>1. b3 = b2
        BY <2>4, <3>2
      <4>2. h = FALSE
        BY <2>2, <2>5, <2>7, <3>2
      <4>3. Grown(b2, b2, FALSE, {})
        BY <2>11, GrownSame
      <4>4. QED
        BY <4>1, <4>2, <4>3
    <3>3. QED
      BY <3>1, <3>2
  <2>13. Accounted(b3) /\ Bounded(b3)
    BY <2>12 DEF Grown
  <2>14. Grown(b3, b4, FALSE, {"supplemental-related"})
    <3>1. CASE run.related
      <4>1. PICK found \in SUBSET Url, l \in Label :
              found = other.urls /\ l = "supplemental-related"
        BY <2>6
      <4>2. b4 = New(b3, l, found)
        BY <2>4, <3>1, <4>1
      <4>3. Grown(b3, b4, FALSE, {l})
        BY <2>6, <2>13, <4>2, NewGrown
      <4>4. QED
        BY <4>1, <4>3
    <3>2. CASE ~run.related
      <4>1. b4 = b3
        BY <2>4, <3>2
      <4>2. QED
        BY <2>13, <4>1 DEF Grown
    <3>3. QED
      BY <3>1, <3>2
  <2>15. Accounted(b4) /\ Bounded(b4)
    BY <2>14 DEF Grown
  <2>16. bundle' = b4
    BY <2>2, <2>3
  <2>17. \A s \in Source : bundle.status[s] # None => b4.status[s] # None
    BY <2>8, <2>10, <2>12, <2>14 DEF Grown
  <2>18. failed' = b4.errors
    <3>1. b4.errors = bundle.errors \cup (IF f \/ g THEN {"x"} ELSE {}) \cup (IF h THEN {"x"} ELSE {})
      BY <2>8, <2>10, <2>12, <2>14 DEF Grown
    <3>2. (\E r \in {from, about, other} : r.raises # None) <=> (f \/ g \/ h)
      BY <2>7
    <3>3. failed' = IF f \/ g \/ h THEN failed \cup {"x"} ELSE failed
      BY <2>2, <3>2
    <3>4. QED
      BY <1>1, <3>1, <3>3
  <2>19. \A l \in Label, s \in Source : UrlsUnder(b4, l, s) # {} => l \in labels'
    <3> SUFFICES ASSUME NEW l \in Label, NEW s \in Source, UrlsUnder(b4, l, s) # {}
                 PROVE  l \in labels'
      OBVIOUS
    <3>1. Primary \in labels /\ labels \subseteq labels'
      <4>1. 1 \in 1..Len(run.plan)
        BY <1>1, RunFacts DEF TypeOK
      <4>2. Primary \in labels
        BY <1>1, <4>1 DEF LabelInv, Primary
      <4>3. QED
        BY <2>2, <4>2
    <3>2. CASE l = "supplemental-related" /\ s = "x"
      <4>1. UrlsUnder(all, "supplemental-related", "x") # {}
        BY <2>3, <3>2
      <4>2. QED
        BY <2>2, <3>2, <4>1
    <3>3. CASE ~(l = "supplemental-related" /\ s = "x")
      <4>1. UrlsUnder(b3, l, s) # {}
        BY <2>14, <3>3 DEF Grown
      <4>2. UrlsUnder(b2, l, s) # {}
        BY <2>12, <4>1 DEF Grown
      <4>3. UrlsUnder(b1, l, s) # {} \/ l = Primary
        BY <2>10, <4>2 DEF Grown
      <4>4. UrlsUnder(bundle, l, s) # {} \/ l = Primary
        BY <2>8, <4>3 DEF Grown
      <4>5. QED
        BY <1>1, <3>1, <4>4 DEF LabelInv
    <3>4. QED
      BY <3>2, <3>3
  <2>20. labels \subseteq labels' /\ labels' \subseteq Label
    BY <1>1, <2>2, <2>6 DEF TypeOK
  <2>21. QED
    BY <1>1, <2>15, <2>16, <2>17, <2>18, <2>19, <2>20, LaterStep
<1>5. QED
  BY <1>3, <1>4

(* What a source of the thin retry answers touches that source alone.         *)
LEMMA RetriedAccounted ==
    ASSUME Accounted(bundle), Bounded(bundle), Primary \in Label,
           NEW own \in SUBSET Source, NEW answer \in [own -> Result]
    PROVE  LET c == Retried(answer)
           IN /\ Accounted(c) /\ Bounded(c)
              /\ c.errors = bundle.errors
                            \cup {s \in own : answer[s].raises # None \/ answer[s].note # None}
              /\ \A s \in Source : bundle.status[s] # None => c.status[s] # None
              /\ \A l \in Label, s \in Source :
                   UrlsUnder(c, l, s) # {} => UrlsUnder(bundle, l, s) # {} \/ l = Primary
<1>1. PICK after : after = [s \in own |-> AfterThinRetry(bundle, s, answer[s])]
  OBVIOUS
<1>2. PICK bad : bad = {s \in own : answer[s].raises # None \/ answer[s].note # None}
  OBVIOUS
<1>3. bundle \in Bundle /\ \A s \in Source : Sound(bundle, s)
  BY DEF Accounted
<1>5. ASSUME NEW s \in own
      PROVE  /\ Accounted(after[s]) /\ Bounded(after[s])
             /\ s \in after[s].errors <=> (s \in bundle.errors \/ s \in bad)
             /\ bundle.status[s] # None => after[s].status[s] # None
             /\ \A l \in Label, u \in Url :
                  after[s].listed[<<l, s>>][u] # bundle.listed[<<l, s>>][u] => l = Primary
  <2>1. PICK r \in ResultType : r = answer[s]
    BY ResultAssumption
  <2>2. PICK a : a = after[s]
    OBVIOUS
  <2>3. a = AfterThinRetry(bundle, s, r)
    BY <1>1, <2>1, <2>2
  <2>4. PICK urls : urls = Kept(s, r.urls) \ UrlsOf(bundle, s)
    OBVIOUS
  <2>5. PICK f \in BOOLEAN : f = (r.raises # None \/ r.note # None)
    OBVIOUS
  <2>6. s \in Source
    OBVIOUS
  <2>7. After(bundle, a, Primary, s, urls, f)
    <3>1. After(bundle, AfterThinRetry(bundle, s, r), Primary, s,
                Kept(s, r.urls) \ UrlsOf(bundle, s), r.raises # None \/ r.note # None)
      BY <2>6, ThinRetryAfter
    <3>2. QED
      BY <2>3, <2>4, <2>5, <3>1
  <2>8. f <=> s \in bad
    BY <1>2, <2>1, <2>5
  <2>9. urls \cap UrlsOf(bundle, s) = {}
    BY <2>4
  <2>10. Bounded(a)
    BY <1>3, <2>6, <2>7, <2>9, BoundedGrows
  <2>11. Accounted(a)
    BY <2>7 DEF After
  <2>12. s \in a.errors <=> (s \in bundle.errors \/ s \in bad)
    BY <2>7, <2>8 DEF After
  <2>13. /\ bundle.status[s] # None => a.status[s] # None
         /\ \A l \in Label, u \in Url :
              a.listed[<<l, s>>][u] # bundle.listed[<<l, s>>][u] => l = Primary
    BY <2>6, <2>7 DEF After
  <2>14. QED
    BY <2>2, <2>10, <2>11, <2>12, <2>13
<1>6. PICK li, st, er :
        /\ li = [k \in Label \X Source |->
                   IF k[2] \in own THEN after[k[2]].listed[k] ELSE bundle.listed[k]]
        /\ st = [s \in Source |-> IF s \in own THEN after[s].status[s] ELSE bundle.status[s]]
        /\ er = bundle.errors \cup {s \in own : s \in after[s].errors}
  OBVIOUS
<1>7. PICK c : c = Retried(answer)
  OBVIOUS
<1>8. c = [listed |-> li, status |-> st, errors |-> er]
  <2>1. li = [k \in Label \X Source |->
                IF k[2] \in own THEN AfterThinRetry(bundle, k[2], answer[k[2]]).listed[k]
                ELSE bundle.listed[k]]
    BY <1>1, <1>6
  <2>2. st = [s \in Source |-> IF s \in own THEN AfterThinRetry(bundle, s, answer[s]).status[s]
                               ELSE bundle.status[s]]
    BY <1>1, <1>6
  <2>3. er = bundle.errors \cup {s \in own : s \in AfterThinRetry(bundle, s, answer[s]).errors}
    BY <1>1, <1>6
  <2>4. DOMAIN answer = own
    OBVIOUS
  <2>5. QED
    BY <1>7, <2>1, <2>2, <2>3, <2>4 DEF Retried
<1>9. c.listed = li /\ c.status = st /\ c.errors = er
  BY <1>8
<1>10. \A s \in own : after[s] \in Bundle
  BY <1>5 DEF Accounted
<1>11. c \in Bundle
  <2>1. \A s \in own : after[s].listed \in [Label \X Source -> [Url -> Nat]]
    BY <1>10, BundleFields
  <2>2. \A s \in own : after[s].status \in [Source -> Outcome \cup {None}]
    BY <1>10, BundleFields
  <2>3. /\ bundle.listed \in [Label \X Source -> [Url -> Nat]]
        /\ bundle.status \in [Source -> Outcome \cup {None}]
        /\ bundle.errors \subseteq Source
    BY <1>3, BundleFields
  <2>4. li \in [Label \X Source -> [Url -> Nat]]
    <3>1. PICK F : F = [Url -> Nat]
      OBVIOUS
    <3>2. QED
      BY <1>6, <2>1, <2>3, <3>1
  <2>5. st \in [Source -> Outcome \cup {None}]
    <3>1. PICK O : O = Outcome \cup {None}
      OBVIOUS
    <3>2. QED
      BY <1>6, <2>2, <2>3, <3>1
  <2>6. er \subseteq Source
    BY <1>6, <2>3
  <2>7. QED
    BY <1>8, <2>4, <2>5, <2>6 DEF Bundle
<1>12. \A l \in Label, s \in Source :
         c.listed[<<l, s>>] = IF s \in own THEN after[s].listed[<<l, s>>] ELSE bundle.listed[<<l, s>>]
  BY <1>6, <1>9
<1>13. ASSUME NEW s \in Source
       PROVE  Sound(c, s)
  <2>1. CASE s \in own
    <3>1. c.status[s] = after[s].status[s]
      BY <1>6, <1>9, <2>1
    <3>2. s \in after[s].errors <=> s \in c.errors
      BY <1>5, <1>6, <1>9, <2>1
    <3>3. \A l \in Label : c.listed[<<l, s>>] = after[s].listed[<<l, s>>]
      BY <1>12, <2>1
    <3>4. Sound(after[s], s)
      BY <1>5, <2>1 DEF Accounted
    <3>5. QED
      BY <3>1, <3>2, <3>3, <3>4, SoundIsLocal
  <2>2. CASE s \notin own
    <3>1. c.status[s] = bundle.status[s]
      BY <1>6, <1>9, <2>2
    <3>2. s \in bundle.errors <=> s \in c.errors
      BY <1>6, <1>9, <2>2
    <3>3. \A l \in Label : c.listed[<<l, s>>] = bundle.listed[<<l, s>>]
      BY <1>12, <2>2
    <3>4. QED
      BY <1>3, <3>1, <3>2, <3>3, SoundIsLocal
  <2>3. QED
    BY <2>1, <2>2
<1>14. Bounded(c)
  <2> SUFFICES ASSUME NEW l \in Label, NEW s \in Source, NEW u \in Url
               PROVE  \/ c.listed[<<l, s>>][u] <= Cardinality(Consumed(l, s))
                      \/ c.listed[<<l, s>>][u] <= 1
    BY DEF Bounded
  <2>1. CASE s \in own
    <3>1. Bounded(after[s])
      BY <1>5, <2>1
    <3>2. c.listed[<<l, s>>] = after[s].listed[<<l, s>>]
      BY <1>12, <2>1
    <3>3. QED
      BY <3>1, <3>2 DEF Bounded
  <2>2. CASE s \notin own
    BY <1>12, <2>2 DEF Bounded
  <2>3. QED
    BY <2>1, <2>2
<1>15. c.errors = bundle.errors \cup bad
  <2>1. \A s \in own : s \in after[s].errors <=> (s \in bundle.errors \/ s \in bad)
    BY <1>5
  <2>2. bad \subseteq own
    BY <1>2
  <2>3. QED
    BY <1>6, <1>9, <2>1, <2>2
<1>16. \A s \in Source : bundle.status[s] # None => c.status[s] # None
  BY <1>5, <1>6, <1>9
<1>17. ASSUME NEW l \in Label, NEW s \in Source, UrlsUnder(c, l, s) # {}
       PROVE  UrlsUnder(bundle, l, s) # {} \/ l = Primary
  <2>1. PICK u \in Url : c.listed[<<l, s>>][u] > 0
    BY <1>17 DEF UrlsUnder
  <2>2. CASE c.listed[<<l, s>>][u] = bundle.listed[<<l, s>>][u]
    BY <2>1, <2>2 DEF UrlsUnder
  <2>3. CASE c.listed[<<l, s>>][u] # bundle.listed[<<l, s>>][u]
    BY <1>5, <1>12, <2>3
  <2>4. QED
    BY <2>2, <2>3
<1>18. Accounted(c)
  BY <1>11, <1>13 DEF Accounted
<1>19. QED
  BY <1>2, <1>7, <1>14, <1>15, <1>16, <1>17, <1>18

LEMMA PlannedTypes ==
    ASSUME run \in Run
    PROVE  PlannedSources \subseteq Source
BY RunFacts, SourceAssumption DEF PlannedSources

LEMMA RetryThinKeeps ==
    ASSUME IInv, RetryThin
    PROVE  IInv'
<1>1. /\ TypeOK /\ LabelInv /\ CountInv /\ Accounted(bundle) /\ failed = bundle.errors
      /\ phase = "thin" /\ phase' = "finish"
      /\ UNCHANGED <<run, streams, limited, retrying, labels, report>>
  BY DEF IInv, AccountInv, Told, RetryThin
<1>2. Bounded(bundle) /\ labels \subseteq Label /\ run \in Run
  BY <1>1 DEF CountInv, Bounded, TypeOK
<1>3. PICK own : own = Thin \ limited
  OBVIOUS
<1>4. own \in SUBSET Source
  BY <1>2, <1>3, PlannedTypes DEF Thin
<1>5. PICK answer \in [own -> Result] :
        /\ bundle' = Retried(answer)
        /\ failed' = failed \cup {s \in own : answer[s].raises # None \/ answer[s].note # None}
  BY <1>3, Zenon DEF RetryThin
<1>6. Primary \in Label /\ Primary \in labels
  <2>1. 1 \in 1..Len(run.plan)
    BY <1>2, RunFacts
  <2>2. QED
    BY <1>1, <1>2, <2>1 DEF LabelInv, Primary
<1>7. /\ Accounted(bundle') /\ Bounded(bundle')
      /\ (bundle').errors = bundle.errors
                    \cup {s \in own : answer[s].raises # None \/ answer[s].note # None}
      /\ \A s \in Source : bundle.status[s] # None => (bundle').status[s] # None
      /\ \A l \in Label, s \in Source :
           UrlsUnder(bundle', l, s) # {} => UrlsUnder(bundle, l, s) # {} \/ l = Primary
  <2>1. PICK c : c = Retried(answer)
    OBVIOUS
  <2>2. /\ Accounted(c) /\ Bounded(c)
        /\ c.errors = bundle.errors
                      \cup {s \in own : answer[s].raises # None \/ answer[s].note # None}
        /\ \A s \in Source : bundle.status[s] # None => c.status[s] # None
        /\ \A l \in Label, s \in Source :
             UrlsUnder(c, l, s) # {} => UrlsUnder(bundle, l, s) # {} \/ l = Primary
    BY <1>1, <1>2, <1>4, <1>6, <2>1, RetriedAccounted
  <2>3. QED
    BY <1>5, <2>1, <2>2
<1>8. failed' = (bundle').errors
  BY <1>1, <1>5, <1>7
<1>9. \A l \in Label, s \in Source : UrlsUnder(bundle', l, s) # {} => l \in labels'
  BY <1>1, <1>6, <1>7 DEF LabelInv
<1>10. QED
  BY <1>1, <1>2, <1>7, <1>8, <1>9, LaterStep

(* The last word on one source.                                              *)
LEMMA FinalWord ==
    ASSUME NEW o \in Outcome, NEW some \in BOOLEAN
    PROVE  /\ FinalState(o, some) \in State
           /\ FinalState(o, some) \in Failing \cup {"partial"} <=> o.state \notin {"ok", "no-results"}
           /\ o.state \notin Failing => (FinalState(o, some) \in {"ok", "partial"} <=> some)
           /\ o.state \in Failing => FinalState(o, some) = o.state
<1>1. o.state \in State /\ ClassifyDetail(o.detail) \in {"rate-limited", "error"}
  BY DEF Outcome, ClassifyDetail
<1>2. CASE o.state = "no-results"
  BY <1>2 DEF FinalState, State, Failing
<1>3. CASE o.state = "ok"
  BY <1>3 DEF FinalState, State, Failing
<1>4. CASE o.state = "partial"
  BY <1>1, <1>4 DEF FinalState, State, Failing
<1>5. CASE o.state \in Failing
  BY <1>5 DEF FinalState, State, Failing
<1>6. QED
  BY <1>1, <1>2, <1>3, <1>4, <1>5 DEF State

LEMMA Dropping ==
    ASSUME NEW b, b \in Bundle, NEW s
    PROVE  LET c == DropSource(b, s)
           IN /\ c \in Bundle
              /\ \A l \in Label, t \in Source, u \in Url :
                   c.listed[<<l, t>>][u] = b.listed[<<l, t>>][u] \/ c.listed[<<l, t>>][u] = 0
<1>1. PICK li : li = [k \in Label \X Source |->
                        IF k[2] = s THEN [u \in Url |-> 0] ELSE b.listed[k]]
  OBVIOUS
<1>2. PICK c : c = DropSource(b, s)
  OBVIOUS
<1>3. /\ b.listed \in [Label \X Source -> [Url -> Nat]]
      /\ b.status \in [Source -> Outcome \cup {None}]
      /\ b.errors \subseteq Source
      /\ b = [listed |-> b.listed, status |-> b.status, errors |-> b.errors]
  BY BundleFields
<1>4. li \in [Label \X Source -> [Url -> Nat]]
  <2>1. PICK F : F = [Url -> Nat]
    OBVIOUS
  <2>2. [u \in Url |-> 0] \in F
    BY <2>1
  <2>3. QED
    BY <1>1, <1>3, <2>1, <2>2
<1>5. c = [b EXCEPT !.listed = li]
  BY <1>1, <1>2 DEF DropSource
<1>6. c \in Bundle /\ c.listed = li
  <2>1. LET d == [b EXCEPT !.listed = li] IN d \in Bundle /\ d.listed = li
    BY <1>3, <1>4 DEF Bundle
  <2>2. QED
    BY <1>5, <2>1
<1>7. ASSUME NEW l \in Label, NEW t \in Source, NEW u \in Url
      PROVE  c.listed[<<l, t>>][u] = b.listed[<<l, t>>][u] \/ c.listed[<<l, t>>][u] = 0
  BY <1>1, <1>6
<1>8. QED
  BY <1>2, <1>6, <1>7

LEMMA FinishKeeps ==
    ASSUME IInv, Finish
    PROVE  IInv'
<1>1. /\ TypeOK /\ Accounted(bundle) /\ Told /\ RetryInv /\ CountInv /\ LabelInv
      /\ phase = "finish" /\ phase' = "done"
      /\ UNCHANGED <<run, streams, limited, retrying, labels, failed>>
  BY DEF IInv, AccountInv, Finish
<1>2. /\ Places' = Places
      /\ \A q : LabelAt(q)' = LabelAt(q) /\ SourceAt(q)' = SourceAt(q)
  BY <1>1, SameRun
<1>3. bundle \in Bundle /\ \A s \in Source : Sound(bundle, s)
  BY <1>1 DEF Accounted
<1>4. PICK include \in BOOLEAN :
         LET degraded == {s \in bundle.errors : HasItems(bundle, s)}
             gated == IF HasItems(bundle, "jobs") /\ ~run.hiring /\ ~include
                      THEN DropSource(bundle, "jobs") ELSE bundle
             items == [s \in Source |-> FinalItems(gated, s)]
         IN /\ HasItems(bundle, "jobs") \/ include
            /\ bundle' = gated
            /\ report' = [items |-> items, errors |-> bundle.errors \ degraded,
                          degraded |-> degraded,
                          status |-> [s \in Source |->
                             IF bundle.status[s] = None THEN None
                             ELSE FinalState(bundle.status[s], items[s] # {})]]
  BY Zenon DEF Finish
<1>5. PICK g : g = bundle'
  OBVIOUS
<1>6. PICK items, degraded, status :
         /\ items = [s \in Source |-> FinalItems(g, s)]
         /\ degraded = {s \in bundle.errors : HasItems(bundle, s)}
         /\ status = [s \in Source |->
                        IF bundle.status[s] = None THEN None
                        ELSE FinalState(bundle.status[s], items[s] # {})]
  OBVIOUS
<1>7. report' = [items |-> items, errors |-> bundle.errors \ degraded,
                 degraded |-> degraded, status |-> status]
  BY <1>4, <1>5, <1>6
<1>8. g = bundle \/ g = DropSource(bundle, "jobs")
  BY <1>4, <1>5
<1>9. /\ g \in Bundle
      /\ \A l \in Label, t \in Source, u \in Url :
           g.listed[<<l, t>>][u] = bundle.listed[<<l, t>>][u] \/ g.listed[<<l, t>>][u] = 0
  <2>1. CASE g = bundle
    BY <1>3, <2>1
  <2>2. CASE g = DropSource(bundle, "jobs")
    BY <1>3, <2>2, Dropping
  <2>3. QED
    BY <1>8, <2>1, <2>2
<1>10. \A s \in Source : items[s] \subseteq Url /\ (items[s] # {} => HasItems(bundle, s))
  <2> SUFFICES ASSUME NEW s \in Source
               PROVE  items[s] \subseteq Url /\ (items[s] # {} => HasItems(bundle, s))
    OBVIOUS
  <2>1. items[s] \subseteq UrlsOf(g, s)
    BY <1>6 DEF FinalItems
  <2>2. UrlsOf(g, s) \subseteq Url
    BY DEF UrlsOf, UrlsUnder
  <2>3. ASSUME NEW u \in UrlsOf(g, s)
        PROVE  HasItems(bundle, s)
    <3>1. PICK l \in Label : u \in UrlsUnder(g, l, s)
      BY <2>3 DEF UrlsOf
    <3>2. u \in Url /\ g.listed[<<l, s>>][u] > 0
      BY <3>1 DEF UrlsUnder
    <3>3. bundle.listed[<<l, s>>][u] > 0
      BY <1>9, <3>2
    <3>4. QED
      BY <3>2, <3>3 DEF HasItems
  <2>4. QED
    BY <2>1, <2>2, <2>3
<1>11. /\ bundle.status \in [Source -> Outcome \cup {None}]
       /\ bundle.errors \subseteq Source
  BY <1>3, BundleFields
<1>12. ASSUME NEW s \in Source
       PROVE  /\ status[s] \in State \cup {None}
              /\ s \in failed <=> status[s] \in Failing \cup {"partial"}
              /\ status[s] \in {"ok", "partial"} <=> items[s] # {}
              /\ bundle.status[s] # None => status[s] # None
  <2>1. Sound(bundle, s) /\ failed = bundle.errors
    BY <1>1, <1>3 DEF Told
  <2>2. CASE bundle.status[s] = None
    <3>1. status[s] = None /\ None \notin State
      BY <1>6, <2>2, NoneAssumption
    <3>2. s \notin failed /\ items[s] = {}
      BY <1>10, <2>1, <2>2 DEF Sound, FailedBefore
    <3>3. QED
      BY <2>2, <3>1, <3>2 DEF State
  <2>3. CASE bundle.status[s] # None
    <3>1. PICK o \in Outcome : o = bundle.status[s]
      BY <1>11, <2>3
    <3>2. PICK some \in BOOLEAN : some = (items[s] # {})
      OBVIOUS
    <3>3. status[s] = FinalState(o, some)
      BY <1>6, <2>3, <3>1, <3>2
    <3>4. /\ status[s] \in State
          /\ status[s] \in Failing \cup {"partial"} <=> o.state \notin {"ok", "no-results"}
          /\ o.state \notin Failing => (status[s] \in {"ok", "partial"} <=> some)
          /\ o.state \in Failing => status[s] = o.state
      BY <3>3, FinalWord
    <3>5. s \in failed <=> o.state \notin {"ok", "no-results"}
      BY <2>1, <2>3, <3>1 DEF Sound, FailedBefore
    <3>6. o.state \in Failing => ~some
      BY <1>10, <2>1, <2>3, <3>1, <3>2 DEF Sound
    <3>7. {"ok", "partial"} \cap Failing = {}
      BY DEF Failing
    <3>8. status[s] \in {"ok", "partial"} <=> some
      BY <3>4, <3>6, <3>7
    <3>9. status[s] # None
      BY <3>4, NoneAssumption
    <3>10. QED
      BY <3>2, <3>4, <3>5, <3>8, <3>9
  <2>4. QED
    BY <2>2, <2>3
<1>13. /\ report' \in Report
       /\ (report').items = items /\ (report').status = status /\ (report').degraded = degraded
       /\ (report').errors = bundle.errors \ degraded
  <2>1. items \in [Source -> SUBSET Url]
    BY <1>6, <1>10
  <2>2. status \in [Source -> State \cup {None}]
    <3>1. PICK S : S = State \cup {None}
      OBVIOUS
    <3>2. QED
      BY <1>6, <1>12, <3>1
  <2>3. degraded \in SUBSET Source /\ bundle.errors \ degraded \in SUBSET Source
    BY <1>6, <1>11
  <2>4. QED
    BY <1>7, <2>1, <2>2, <2>3 DEF Report
<1>14. TypeOK'
  BY <1>1, <1>2, <1>5, <1>9, <1>13 DEF TypeOK
<1>15. HonestReport'
  <2>1. \A s \in Source :
          /\ s \in failed <=> status[s] \in Failing \cup {"partial"}
          /\ s \in failed <=> s \in (bundle.errors \ degraded) \cup degraded
          /\ status[s] \in {"ok", "partial"} <=> items[s] # {}
    BY <1>1, <1>6, <1>12 DEF Told
  <2>2. \A p \in DOMAIN streams : status[SourceAt(p)] # None
    <3>1. \A p \in DOMAIN streams : SourceAt(p) \in Source
      BY <1>1, RunFacts DEF TypeOK
    <3>2. QED
      BY <1>1, <1>12, <3>1 DEF Told
  <2>3. QED
    BY <1>1, <1>2, <1>13, <1>14, <2>1, <2>2 DEF HonestReport
<1>16. AccountInv' /\ StartInv' /\ RetryInv'
  BY <1>1 DEF AccountInv, StartInv, RetryInv
<1>17. CountInv'
  <2>1. \A l, s : Consumed(l, s)' = Consumed(l, s)
    BY <1>1, <1>2 DEF Consumed
  <2>2. ASSUME NEW l \in Label, NEW s \in Source, NEW u \in Url
        PROVE  \/ g.listed[<<l, s>>][u] <= Cardinality(Consumed(l, s))
               \/ g.listed[<<l, s>>][u] <= 1
    <3>1. \/ bundle.listed[<<l, s>>][u] <= Cardinality(Consumed(l, s))
          \/ bundle.listed[<<l, s>>][u] <= 1
      BY <1>1 DEF CountInv
    <3>2. g.listed[<<l, s>>][u] = bundle.listed[<<l, s>>][u] \/ g.listed[<<l, s>>][u] = 0
      BY <1>9
    <3>3. QED
      BY <3>1, <3>2
  <2>3. QED
    BY <1>1, <1>5, <2>1, <2>2 DEF CountInv
<1>18. LabelInv'
  <2>1. ASSUME NEW l \in Label, NEW s \in Source, UrlsUnder(g, l, s) # {}
        PROVE  UrlsUnder(bundle, l, s) # {}
    BY <1>9, <2>1 DEF UrlsUnder
  <2>2. QED
    BY <1>1, <1>5, <2>1 DEF LabelInv
<1>19. QED
  BY <1>14, <1>15, <1>16, <1>17, <1>18 DEF IInv

LEMMA StutterKeeps ==
    ASSUME IInv, UNCHANGED vars
    PROVE  IInv'
<1>1. /\ UNCHANGED <<run, phase, bundle, streams, limited, retrying, labels, failed, report>>
      /\ TypeOK /\ AccountInv /\ StartInv /\ RetryInv /\ CountInv /\ LabelInv /\ HonestReport
  BY DEF vars, IInv
<1>2. /\ Places' = Places
      /\ \A q : LabelAt(q)' = LabelAt(q) /\ SourceAt(q)' = SourceAt(q)
  BY <1>1, SameRun
<1>3. TypeOK' /\ StartInv' /\ RetryInv' /\ LabelInv'
  BY <1>1, <1>2 DEF TypeOK, StartInv, RetryInv, LabelInv
<1>4. AccountInv'
  BY <1>1, <1>2 DEF AccountInv, Told
<1>5. CountInv'
  <2>1. \A l, s : Consumed(l, s)' = Consumed(l, s) /\ (Streamed(s)' <=> Streamed(s))
    BY <1>1, <1>2 DEF Consumed, Streamed
  <2>2. QED
    BY <1>1, <2>1 DEF CountInv
<1>6. HonestReport'
  BY <1>1, <1>2, <1>3 DEF HonestReport
<1>7. QED
  BY <1>3, <1>4, <1>5, <1>6 DEF IInv

LEMMA Invariant == Spec => []IInv
<1>1. Init => IInv
  BY InitialState
<1>2. ASSUME IInv, [Next]_vars
      PROVE  IInv'
  <2>1. CASE Prepare
    BY <1>2, <2>1, PrepareKeeps
  <2>2. ASSUME NEW p \in DOMAIN streams, Start(p)
        PROVE  IInv'
    BY <1>2, <2>2, StartKeeps
  <2>3. ASSUME NEW p \in DOMAIN streams, Answer(p)
        PROVE  IInv'
    BY <1>2, <2>3, AnswerKeeps
  <2>4. ASSUME NEW p \in DOMAIN streams, Consume(p)
        PROVE  IInv'
    BY <1>2, <2>4, ConsumeKeeps
  <2>5. CASE Retry
    BY <1>2, <2>5, RetryKeeps
  <2>6. CASE PoolDrained
    BY <1>2, <2>6, PoolDrainedKeeps
  <2>7. CASE Supplement
    BY <1>2, <2>7, SupplementKeeps
  <2>8. CASE RetryThin
    BY <1>2, <2>8, RetryThinKeeps
  <2>9. CASE Finish
    BY <1>2, <2>9, FinishKeeps
  <2>10. CASE UNCHANGED vars
    BY <1>2, <2>10, StutterKeeps
  <2>11. QED
    BY <1>2, <2>1, <2>2, <2>3, <2>4, <2>5, <2>6, <2>7, <2>8, <2>9, <2>10 DEF Next, Done
<1>3. QED
  BY <1>1, <1>2, PTL DEF Spec

(* What the fusion counts on, in a state of the invariant: the places whose   *)
(* streams are consumed are among those the plan searches.                 *)
LEMMA FusionFromInvariant == IInv => FusionInput
<1> SUFFICES ASSUME IInv, NEW l \in Label, NEW s \in Source
             PROVE  /\ \A u \in Url : \/ bundle.listed[<<l, s>>][u] <= 1
                                      \/ bundle.listed[<<l, s>>][u] <= Cardinality(Searches(l, s))
                    /\ UrlsUnder(bundle, l, s) # {} => l \in labels
  BY DEF FusionInput
<1>1. TypeOK /\ CountInv /\ LabelInv
  BY DEF IInv
<1>2. IsFiniteSet(Places) /\ DOMAIN streams \subseteq Places
  BY <1>1, RunFacts DEF TypeOK
<1>3. Searches(l, s) \in SUBSET Places /\ Consumed(l, s) \in SUBSET Searches(l, s)
  BY <1>2 DEF Searches, Consumed
<1>4. IsFiniteSet(Searches(l, s))
  BY <1>2, <1>3, FS_Subset
<1>5. /\ Cardinality(Consumed(l, s)) <= Cardinality(Searches(l, s))
      /\ Cardinality(Consumed(l, s)) \in Nat /\ Cardinality(Searches(l, s)) \in Nat
  BY <1>3, <1>4, FS_Subset, FS_CardinalityType
<1>6. ASSUME NEW u \in Url
      PROVE  \/ bundle.listed[<<l, s>>][u] <= 1
             \/ bundle.listed[<<l, s>>][u] <= Cardinality(Searches(l, s))
  <2>1. bundle.listed \in [Label \X Source -> [Url -> Nat]]
    BY <1>1, BundleFields DEF TypeOK
  <2>2. bundle.listed[<<l, s>>][u] \in Nat
    BY <2>1
  <2>3. \/ bundle.listed[<<l, s>>][u] <= Cardinality(Consumed(l, s))
        \/ bundle.listed[<<l, s>>][u] <= 1
    BY <1>1 DEF CountInv
  <2>4. QED
    BY <1>5, <2>2, <2>3
<1>7. QED
  BY <1>1, <1>6 DEF LabelInv

-----------------------------------------------------------------------------
(* Whatever the plan, the caps and the answers of the sources: the bundle,   *)
(* the streams, the retry and the report keep their types, the streams stay *)
(* within the plan, and a status is one of RunOutcomeStates.               *)
THEOREM TypesKept == Spec => []TypeOK
<1>1. IInv => TypeOK
  BY DEF IInv
<1>2. QED
  BY <1>1, Invariant, PTL

(* The report of run() is honest about every source, for any plan, any       *)
(* number of streams in any order of completion, and any answers: a source  *)
(* is failing, partial or named in the warnings exactly when one of its     *)
(* calls failed, in whatever phase; ok and partial are said of the sources   *)
(* with items in the report; every submitted source has a status.          *)
THEOREM ReportHonest == Spec => []HonestReport
<1>1. IInv => HonestReport
  BY DEF IInv
<1>2. QED
  BY <1>1, Invariant, PTL

(* Whatever the plan and the answers, the pool, the supplemental lanes and    *)
(* the thin retry list no URL more often under a label and source than the  *)
(* plan searches it there, and every label with items is in the plan.       *)
THEOREM FusionFed == Spec => []FusionInput
BY Invariant, FusionFromInvariant, PTL
=============================================================================
