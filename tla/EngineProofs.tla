----------------------------- MODULE EngineProofs -----------------------------
(***************************************************************************)
(* What the parts of the engine keep, they keep for every value of the          *)
(* constants.  A part takes its steps alone, so that its invariant is one of the *)
(* engine.                                                                 *)
(***************************************************************************)
EXTENDS Engine, FiniteSetTheorems, WellFoundedInduction, TLAPS

(* The engine never goes from one part to another.                              *)
LEMMA SamePart ==
    ASSUME [EngineNext]_engine
    PROVE  part' = part
  BY DEF EngineNext, HttpStep, OnOne, engine

-----------------------------------------------------------------------------
(* The answers a call met, counted.                                            *)
Met(sent, a) == {i \in 1..Len(sent) : sent[i] \in a}

LEMMA CountOf == ASSUME NEW a PROVE Http!Count(a) = Cardinality(Met(output.sent, a))
  BY DEF Http!Count, Met, Http!Cardinality, Http!IsFiniteSet, Cardinality, IsFiniteSet

LEMMA MetFinite ==
    ASSUME NEW sent \in Seq(Http!Answer), NEW a
    PROVE  /\ IsFiniteSet(Met(sent, a)) /\ Cardinality(Met(sent, a)) \in Nat
           /\ Cardinality(Met(sent, a)) <= Len(sent)
  <1>1. PICK k \in Nat : k = Len(sent)
    OBVIOUS
  <1>2. IsFiniteSet(1..k) /\ Cardinality(1..k) = k
    BY FS_Interval, SMTT(30)
  <1>3. Met(sent, a) \subseteq 1..k
    BY <1>1 DEF Met
  <1> QED
    BY <1>1, <1>2, <1>3, FS_Subset, FS_CardinalityType

LEMMA MetMore ==
    ASSUME NEW sent \in Seq(Http!Answer), NEW x \in Http!Answer, NEW a
    PROVE  Cardinality(Met(Append(sent, x), a)) = Cardinality(Met(sent, a)) + (IF x \in a THEN 1 ELSE 0)
  <1> DEFINE more == Append(sent, x)
             k == Len(sent) + 1
  <1>1. more \in Seq(Http!Answer) /\ Len(more) = k /\ more[k] = x /\ k \in Nat
        /\ \A i \in 1..Len(sent) : more[i] = sent[i]
    OBVIOUS
  <1>2. IsFiniteSet(Met(sent, a)) /\ Cardinality(Met(sent, a)) \in Nat /\ k \notin Met(sent, a)
    <2>1. k \notin Met(sent, a)
      BY DEF Met
    <2> QED
      BY <2>1, MetFinite
  <1>3. CASE x \in a
    <2>1. Met(more, a) = Met(sent, a) \cup {k}
      <3> HIDE DEF more
      <3> QED
        BY <1>1, <1>3 DEF Met
    <2> QED
      BY <1>2, <1>3, <2>1, FS_AddElement
  <1>4. CASE x \notin a
    <2>1. Met(more, a) = Met(sent, a)
      <3> HIDE DEF more
      <3> QED
        BY <1>1, <1>4 DEF Met
    <2> QED
      BY <1>2, <1>4, <2>1
  <1> QED
    BY <1>3, <1>4

-----------------------------------------------------------------------------
(* The record of a call: what a change of some fields does to it.              *)
Sents == Seq(Http!Answer)
Outcomes == Http!Understood \cup {Http!None}
Ends == {Http!None, "value", "raised", "escaped"}
Records == Seq(Outcomes)
CallRow == [attempt : Nat, effective : Nat, limited : Nat, dns : Nat, sent : Sents,
            last : Outcomes, end : Ends, captured : Records, exchanges : Records]
LEMMA RowExchanged ==
    ASSUME NEW r \in CallRow, NEW x \in Records,
           NEW c, c = [r EXCEPT !.exchanges = x]
    PROVE  /\ c \in CallRow
           /\ c.attempt = r.attempt /\ c.effective = r.effective /\ c.limited = r.limited
           /\ c.dns = r.dns /\ c.sent = r.sent /\ c.last = r.last
           /\ c.end = r.end /\ c.captured = r.captured /\ c.exchanges = x
  BY ZenonT(60) DEF CallRow
LEMMA RowCaptured ==
    ASSUME NEW r \in CallRow, NEW x \in Records,
           NEW c, c = [r EXCEPT !.captured = x]
    PROVE  /\ c \in CallRow
           /\ c.attempt = r.attempt /\ c.effective = r.effective /\ c.limited = r.limited
           /\ c.dns = r.dns /\ c.sent = r.sent /\ c.last = r.last
           /\ c.end = r.end /\ c.captured = x /\ c.exchanges = r.exchanges
  BY ZenonT(60) DEF CallRow
LEMMA RowEnded ==
    ASSUME NEW r \in CallRow, NEW x \in Ends,
           NEW c, c = [r EXCEPT !.end = x]
    PROVE  /\ c \in CallRow
           /\ c.attempt = r.attempt /\ c.effective = r.effective /\ c.limited = r.limited
           /\ c.dns = r.dns /\ c.sent = r.sent /\ c.last = r.last
           /\ c.end = x /\ c.captured = r.captured /\ c.exchanges = r.exchanges
  BY ZenonT(60) DEF CallRow
LEMMA RowLimited ==
    ASSUME NEW r \in CallRow, NEW x \in Nat,
           NEW c, c = [r EXCEPT !.limited = x]
    PROVE  /\ c \in CallRow
           /\ c.attempt = r.attempt /\ c.effective = r.effective /\ c.limited = x
           /\ c.dns = r.dns /\ c.sent = r.sent /\ c.last = r.last
           /\ c.end = r.end /\ c.captured = r.captured /\ c.exchanges = r.exchanges
  BY ZenonT(60) DEF CallRow
LEMMA RowTried ==
    ASSUME NEW r \in CallRow, NEW x \in Nat,
           NEW c, c = [r EXCEPT !.attempt = x]
    PROVE  /\ c \in CallRow
           /\ c.attempt = x /\ c.effective = r.effective /\ c.limited = r.limited
           /\ c.dns = r.dns /\ c.sent = r.sent /\ c.last = r.last
           /\ c.end = r.end /\ c.captured = r.captured /\ c.exchanges = r.exchanges
  BY ZenonT(60) DEF CallRow

LEMMA CallIsRow == Http!Call = CallRow
  BY DEF Http!Call, CallRow, Sents, Outcomes, Ends, Records
LEMMA Longer ==
    /\ \A s \in Sents, a \in Http!Answer : Append(s, a) \in Sents
    /\ \A x \in Records, o \in Outcomes : Append(x, o) \in Records
  BY DEF Sents, Records

(* The pieces the actions of a call are made of, field by field.                  *)
LEMMA SentRow ==
    ASSUME NEW a \in Http!Answer, NEW r \in CallRow, r = output, NEW c, c = Http!Sent(a)
    PROVE  /\ c \in CallRow
           /\ c.attempt = r.attempt /\ c.effective = r.effective
           /\ c.limited = r.limited /\ c.dns = r.dns /\ c.end = r.end
           /\ c.sent = Append(r.sent, a)
           /\ c.last = IF a \in {"ok", "garbled"} THEN r.last ELSE a
           /\ c.captured = r.captured /\ c.exchanges = r.exchanges
  <1>1. r.sent \in Sents /\ r.last \in Outcomes
    BY DEF CallRow
  <1>2. PICK l \in Outcomes : l = IF a \in {"ok", "garbled"} THEN r.last ELSE a
    BY <1>1 DEF Outcomes, Http!Answer, Http!Garbled
  <1>3. PICK s \in Sents : s = Append(r.sent, a)
    BY <1>1, Longer
  <1>4. c = [r EXCEPT !.sent = s, !.last = l]
    BY <1>2, <1>3 DEF Http!Sent, Http!Garbled, CallRow
  <1>5. /\ c \in CallRow
        /\ c.attempt = r.attempt /\ c.effective = r.effective /\ c.limited = r.limited
        /\ c.dns = r.dns /\ c.sent = s /\ c.last = l
        /\ c.end = r.end /\ c.captured = r.captured /\ c.exchanges = r.exchanges
    BY <1>4, ZenonT(60) DEF CallRow
  <1> QED
    BY <1>2, <1>3, <1>5

LEMMA AgainRow ==
    ASSUME NEW c \in CallRow, NEW d, d = Http!Again(c)
    PROVE  /\ d \in CallRow
           /\ d.attempt = c.attempt + 1 /\ d.effective = c.effective
           /\ d.limited = c.limited /\ d.dns = c.dns /\ d.end = c.end /\ d.sent = c.sent
           /\ d.last = c.last /\ d.captured = c.captured /\ d.exchanges = c.exchanges
  <1>1. c.attempt \in Nat
    BY DEF CallRow
  <1>2. PICK x \in Nat : x = c.attempt + 1
    BY <1>1
  <1>3. d = [c EXCEPT !.attempt = x]
    BY <1>2 DEF Http!Again, CallRow
  <1> QED
    BY <1>2, <1>3, RowTried

LEMMA RaisedRow ==
    ASSUME NEW c \in CallRow, NEW error \in Outcomes, NEW d,
           d = Http!RaiseRecorded(c, error)
    PROVE  /\ d \in CallRow /\ d.end = "raised"
           /\ d.attempt = c.attempt /\ d.effective = c.effective
           /\ d.limited = c.limited /\ d.dns = c.dns /\ d.sent = c.sent /\ d.last = c.last
           /\ d.captured = IF error \in input.misses THEN c.captured ELSE Append(c.captured, error)
           /\ d.exchanges = IF input.session # "record" \/ input.nested THEN c.exchanges
                            ELSE Append(c.exchanges, error)
  <1>0. c.captured \in Records /\ c.exchanges \in Records
    BY DEF CallRow
  <1>1. PICK x \in Records : x = IF input.session # "record" \/ input.nested THEN c.exchanges
                           ELSE Append(c.exchanges, error)
    BY <1>0, Longer
  <1>2. PICK y \in Records : y = IF error \in input.misses THEN c.captured ELSE Append(c.captured, error)
    BY <1>0, Longer
  <1>3. PICK e : e = Http!FixtureRecord(c, error)
    OBVIOUS
  <1>4. e = [c EXCEPT !.exchanges = x]
    BY <1>1, <1>3 DEF Http!FixtureRecord, CallRow
  <1>5. /\ e \in CallRow /\ e.attempt = c.attempt /\ e.effective = c.effective /\ e.limited = c.limited
        /\ e.dns = c.dns /\ e.sent = c.sent /\ e.last = c.last /\ e.captured = c.captured /\ e.exchanges = x
    <2>1. x \in Records
      OBVIOUS
    <2> QED
      BY <1>4, <2>1, RowExchanged
  <1>6. PICK f : f = Http!RecordFailure(e, error)
    OBVIOUS
  <1>7. f = [e EXCEPT !.captured = y]
    BY <1>2, <1>5, <1>6 DEF Http!RecordFailure, CallRow
  <1>8. /\ f \in CallRow /\ f.attempt = e.attempt /\ f.effective = e.effective /\ f.limited = e.limited
        /\ f.dns = e.dns /\ f.sent = e.sent /\ f.last = e.last /\ f.captured = y
        /\ f.exchanges = e.exchanges
    <2>1. y \in Records
      OBVIOUS
    <2> QED
      BY <1>5, <1>7, <2>1, RowCaptured
  <1>9. d = [f EXCEPT !.end = "raised"]
    BY <1>3, <1>6 DEF Http!RaiseRecorded, Http!Raise
  <1>10. /\ d \in CallRow /\ d.attempt = f.attempt /\ d.effective = f.effective /\ d.limited = f.limited
         /\ d.dns = f.dns /\ d.sent = f.sent /\ d.last = f.last /\ d.captured = f.captured
         /\ d.exchanges = f.exchanges /\ d.end = "raised"
    <2>1. "raised" \in Ends
      BY DEF Ends
    <2> QED
      BY <1>8, <1>9, <2>1, RowEnded
  <1> QED
    BY <1>1, <1>2, <1>5, <1>8, <1>10

-----------------------------------------------------------------------------
(* What holds of a call at every moment: the counts of what it met fit its budgets, *)
NonDns == Http!HttpError \cup {"url", "reset"}
N(r, a) == Cardinality(Met(r.sent, a))
Budgeted(r) ==
    /\ r \in CallRow
    /\ r.limited = N(r, {"429"}) /\ r.limited <= Max429
    /\ N(r, NonDns) <= input.retries
    /\ Len(r.sent) <= r.effective
    /\ \/ r.effective = input.retries
       \/ N(r, {"dns"}) > 0 /\ r.effective = MinDns /\ input.retries >= 1
(* what it told is the outcome it had,                                          *)
ErrorOf(r) == IF input.session = "replay" THEN input.recorded ELSE r.last
Told(r) ==
    /\ r.end # "raised" => r.captured = <<>>
    /\ r.end = "raised" => r.captured = IF ErrorOf(r) \in input.misses THEN <<>> ELSE <<ErrorOf(r)>>
    /\ r.exchanges =
          IF r.end \in {"none", "escaped"} \/ input.session # "record" \/ input.nested THEN <<>>
          ELSE <<IF r.end = "value" THEN "ok" ELSE r.last>>
(* and one on its way has tries left for the errors that are not about names.       *)
OnItsWay(r) ==
    r.end = "none" =>
        /\ Len(r.sent) = r.attempt /\ N(r, NonDns) <= r.attempt
        /\ N(r, NonDns) = 0 \/ N(r, NonDns) < input.retries
        /\ r.limited < Max429
(* Only a garbled answer, or a rate limit, made an escaped call what it is.           *)
Clean(r) == N(r, {"garbled"}) = 0
Blamed(r) == N(r, {"garbled"}) = 1 \/ (Clean(r) /\ N(r, {"429"}) \in 1..(Max429 - 1))
Escapes(r) ==
    /\ r.end # "escaped" => Clean(r)
    /\ r.end = "escaped" => input.session # "replay" /\ Blamed(r)
Kept(r) == Budgeted(r) /\ Told(r) /\ OnItsWay(r) /\ Escapes(r)
CallInv == input \in Http!Request /\ Kept(output)

LEMMA Numbers ==
    ASSUME CallInv
    PROVE  /\ input.retries \in Nat /\ Max429 \in Nat \ {0} /\ MinDns \in Nat
           /\ input.misses \subseteq {"404"} /\ input.recorded \in Http!Understood
  BY CallsAssumption DEF CallInv, Http!Request, Http!CallAssumption
LEMMA RowNumbers ==
    ASSUME NEW r \in CallRow
    PROVE  /\ r.attempt \in Nat /\ r.effective \in Nat /\ r.limited \in Nat /\ r.dns \in Nat
           /\ r.sent \in Seq(Http!Answer) /\ Len(r.sent) \in Nat
           /\ \A a : N(r, a) \in Nat /\ N(r, a) <= Len(r.sent)
  <1>1. /\ r.attempt \in Nat /\ r.effective \in Nat /\ r.limited \in Nat /\ r.dns \in Nat
        /\ r.sent \in Sents
    BY DEF CallRow
  <1>2. r.sent \in Seq(Http!Answer)
    BY <1>1 DEF Sents
  <1>3. \A a : N(r, a) \in Nat /\ N(r, a) <= Len(r.sent)
    BY <1>2, MetFinite DEF N
  <1> QED
    BY <1>1, <1>2, <1>3

(* An attempt: one more answer, within the budget.                              *)
LEMMA Attempt ==
    ASSUME CallInv, Http!Sending, NEW r, r = output, NEW a \in Http!Answer, NEW c, c = Http!Sent(a)
    PROVE  /\ c \in CallRow /\ r \in CallRow /\ c.end = "none"
           /\ c.captured = <<>> /\ c.exchanges = <<>>
           /\ c.last = (IF a \in {"ok", "garbled"} THEN r.last ELSE a)
           /\ c.attempt = r.attempt /\ c.effective = r.effective /\ c.limited = r.limited /\ c.dns = r.dns
           /\ Len(c.sent) = r.attempt + 1 /\ r.attempt < r.effective /\ input.retries >= 1
           /\ \A x : N(c, x) = N(r, x) + (IF a \in x THEN 1 ELSE 0)
           /\ r.limited = N(r, {"429"}) /\ r.limited < Max429
           /\ N(r, NonDns) <= r.attempt /\ N(r, NonDns) + 1 <= input.retries
           /\ \/ r.effective = input.retries
              \/ N(r, {"dns"}) > 0 /\ r.effective = MinDns
           /\ input.session # "replay"
           /\ N(c, {"garbled"}) = IF a = "garbled" THEN 1 ELSE 0
  <1>1. r \in CallRow /\ r.end = "none" /\ r.attempt < r.effective /\ input.session # "replay"
    BY DEF Http!Sending, Http!None, CallInv, Kept, Budgeted
  <1>2. /\ c \in CallRow
        /\ c.attempt = r.attempt /\ c.effective = r.effective
        /\ c.limited = r.limited /\ c.dns = r.dns /\ c.end = r.end
        /\ c.sent = Append(r.sent, a)
        /\ c.last = (IF a \in {"ok", "garbled"} THEN r.last ELSE a)
        /\ c.captured = r.captured /\ c.exchanges = r.exchanges
    BY <1>1, SentRow
  <1>3. r.captured = <<>> /\ r.exchanges = <<>>
    BY <1>1 DEF CallInv, Kept, Told
  <1>4. /\ Len(r.sent) = r.attempt /\ N(r, NonDns) <= r.attempt
        /\ N(r, NonDns) = 0 \/ N(r, NonDns) < input.retries
        /\ r.limited < Max429
    BY <1>1 DEF CallInv, Kept, OnItsWay
  <1>5. /\ r.attempt \in Nat /\ r.effective \in Nat /\ r.sent \in Seq(Http!Answer)
        /\ \A x : N(r, x) \in Nat
    BY <1>1, RowNumbers
  <1>6. Len(c.sent) = r.attempt + 1
    BY <1>2, <1>4, <1>5
  <1>7. \A x : N(c, x) = N(r, x) + (IF a \in x THEN 1 ELSE 0)
    BY <1>2, <1>5, MetMore DEF N
  <1>8. /\ r.limited = N(r, {"429"})
        /\ \/ r.effective = input.retries
           \/ N(r, {"dns"}) > 0 /\ r.effective = MinDns /\ input.retries >= 1
    BY DEF CallInv, Kept, Budgeted
  <1>9. input.retries \in Nat
    BY Numbers
  <1>10. input.retries >= 1 /\ N(r, NonDns) + 1 <= input.retries
    BY <1>1, <1>4, <1>5, <1>8, <1>9
  <1>11. N(r, {"garbled"}) = 0
    BY <1>1 DEF CallInv, Kept, Escapes, Clean
  <1>12. N(c, {"garbled"}) = IF a = "garbled" THEN 1 ELSE 0
    BY <1>7, <1>11
  <1> QED
    BY <1>1, <1>2, <1>3, <1>4, <1>6, <1>7, <1>8, <1>10, <1>12

(* An attempt keeps the budgets, whatever it meets but a rate limit.               *)
LEMMA AttemptBudgeted ==
    ASSUME CallInv, Http!Sending, NEW a \in Http!Answer \ {"429"}, NEW c, c = Http!Sent(a)
    PROVE  Budgeted(c)
  <1>1. PICK r : r = output
    OBVIOUS
  <1>2. /\ c \in CallRow /\ r \in CallRow
        /\ c.effective = r.effective /\ c.limited = r.limited
        /\ Len(c.sent) = r.attempt + 1 /\ r.attempt < r.effective /\ input.retries >= 1
        /\ \A x : N(c, x) = N(r, x) + (IF a \in x THEN 1 ELSE 0)
        /\ r.limited = N(r, {"429"}) /\ r.limited < Max429
        /\ N(r, NonDns) + 1 <= input.retries
        /\ \/ r.effective = input.retries
           \/ N(r, {"dns"}) > 0 /\ r.effective = MinDns
    BY <1>1, Attempt
  <1>3. /\ r.attempt \in Nat /\ r.effective \in Nat /\ r.limited \in Nat /\ \A x : N(r, x) \in Nat
        /\ input.retries \in Nat /\ Max429 \in Nat
    BY <1>2, RowNumbers, Numbers
  <1>4. N(c, {"429"}) = N(r, {"429"})
    BY <1>2, <1>3
  <1>5. N(c, NonDns) <= N(r, NonDns) + 1 /\ N(c, NonDns) \in Nat
    BY <1>2, <1>3
  <1>6. N(c, {"dns"}) >= N(r, {"dns"}) /\ N(c, {"dns"}) \in Nat
    BY <1>2, <1>3
  <1> QED
    BY <1>2, <1>3, <1>4, <1>5, <1>6 DEF Budgeted

(* A call that raises what it met last, or what was recorded of it.                *)
LEMMA Raises ==
    ASSUME CallInv, NEW c, Budgeted(c), Clean(c), c.end = "none", c.captured = <<>>, c.exchanges = <<>>,
           NEW d, d = Http!RaiseRecorded(c, ErrorOf(c)), ErrorOf(c) \in Outcomes
    PROVE  Kept(d)
  <1>1. PICK error \in Outcomes : error = ErrorOf(c)
    OBVIOUS
  <1>2. c \in CallRow
    BY DEF Budgeted
  <1>3. /\ d \in CallRow /\ d.end = "raised"
        /\ d.attempt = c.attempt /\ d.effective = c.effective
        /\ d.limited = c.limited /\ d.dns = c.dns /\ d.sent = c.sent /\ d.last = c.last
        /\ d.captured = IF error \in input.misses THEN c.captured ELSE Append(c.captured, error)
        /\ d.exchanges = IF input.session # "record" \/ input.nested THEN c.exchanges
                         ELSE Append(c.exchanges, error)
    <2>1. d = Http!RaiseRecorded(c, error)
      BY <1>1
    <2>2. error \in Outcomes
      OBVIOUS
    <2> QED
      BY <1>2, <2>1, <2>2, RaisedRow
  <1>4. Budgeted(d)
    BY <1>3 DEF Budgeted, N
  <1>5. Append(<<>>, error) = <<error>>
    OBVIOUS
  <1>6. ErrorOf(d) = error
    BY <1>1, <1>3 DEF ErrorOf
  <1>7. input.session = "record" => error = d.last
    BY <1>1, <1>3 DEF ErrorOf
  <1>8. Told(d)
    BY <1>3, <1>5, <1>6, <1>7 DEF Told
  <1>9. Escapes(d)
    BY <1>3 DEF Escapes, Clean, N
  <1> QED
    BY <1>3, <1>4, <1>8, <1>9 DEF Kept, OnItsWay

(* A call that goes on after an attempt, with the tries it has left.                *)
LEMMA GoesOn ==
    ASSUME NEW c, Budgeted(c), Clean(c), c.end = "none", c.captured = <<>>, c.exchanges = <<>>,
           Len(c.sent) = c.attempt + 1, N(c, NonDns) <= c.attempt + 1,
           N(c, NonDns) = 0 \/ N(c, NonDns) < input.retries, c.limited < Max429,
           NEW d, d = Http!Again(c)
    PROVE  Kept(d)
  <1>1. c \in CallRow
    BY DEF Budgeted
  <1>2. /\ d \in CallRow
        /\ d.attempt = c.attempt + 1 /\ d.effective = c.effective
        /\ d.limited = c.limited /\ d.dns = c.dns /\ d.end = c.end /\ d.sent = c.sent
        /\ d.last = c.last /\ d.captured = c.captured /\ d.exchanges = c.exchanges
    BY <1>1, AgainRow
  <1>3. Budgeted(d)
    BY <1>2 DEF Budgeted, N
  <1>4. Told(d)
    BY <1>2 DEF Told
  <1>5. OnItsWay(d)
    BY <1>2 DEF OnItsWay, N
  <1>6. Escapes(d)
    BY <1>2 DEF Escapes, Clean, N
  <1> QED
    BY <1>3, <1>4, <1>5, <1>6 DEF Kept

(* The end of a call that is not refused.                                      *)
LEMMA EndsWell ==
    ASSUME NEW c, Budgeted(c), Clean(c), c.captured = <<>>,
           NEW d, d = [c EXCEPT !.end = "value"],
           c.exchanges = IF input.session # "record" \/ input.nested THEN <<>> ELSE <<"ok">>
    PROVE  Kept(d)
  <1>1. c \in CallRow /\ "value" \in Ends
    BY DEF Budgeted, Ends
  <1>2. /\ d \in CallRow
        /\ d.attempt = c.attempt /\ d.effective = c.effective /\ d.limited = c.limited
        /\ d.dns = c.dns /\ d.sent = c.sent /\ d.last = c.last
        /\ d.end = "value" /\ d.captured = c.captured /\ d.exchanges = c.exchanges
    BY <1>1, RowEnded
  <1>3. Budgeted(d)
    BY <1>2 DEF Budgeted, N
  <1>4. Escapes(d)
    BY <1>2 DEF Escapes, Clean, N
  <1> QED
    BY <1>2, <1>3, <1>4 DEF Kept, Told, OnItsWay

LEMMA ReplayKept == ASSUME CallInv, Http!Replay PROVE Kept(output')
  <1>1. PICK r : r = output
    OBVIOUS
  <1>2. /\ Budgeted(r) /\ r.end = "none" /\ r.captured = <<>> /\ r.exchanges = <<>>
        /\ input.session = "replay" /\ r \in CallRow /\ Clean(r)
    BY <1>1 DEF CallInv, Kept, Budgeted, Told, Escapes, Http!Replay, Http!None
  <1>3. CASE input.recorded = "ok"
    <2>1. output' = [r EXCEPT !.end = "value"]
      BY <1>1, <1>3 DEF Http!Replay
    <2> QED
      BY <1>2, <2>1, EndsWell
  <1>4. CASE input.recorded # "ok"
    <2>1. output' = Http!Raise(r, input.recorded)
      BY <1>1, <1>4 DEF Http!Replay
    <2>2. output' = Http!RaiseRecorded(r, ErrorOf(r))
      BY <1>2, <2>1 DEF Http!RaiseRecorded, Http!FixtureRecord, ErrorOf
    <2>3. ErrorOf(r) \in Outcomes
      BY <1>2, Numbers DEF ErrorOf, Outcomes
    <2> QED
      BY <1>2, <2>2, <2>3, Raises
  <1> QED
    BY <1>3, <1>4

LEMMA SucceedKept == ASSUME CallInv, Http!Succeed PROVE Kept(output')
  <1>1. PICK r : r = output
    OBVIOUS
  <1>2. PICK c : c = Http!Sent("ok")
    OBVIOUS
  <1>3. "ok" \in Http!Answer \ {"429"} /\ Http!Sending
    BY DEF Http!Answer, Http!Understood, Http!Succeed
  <1>4. Budgeted(c)
    BY <1>2, <1>3, AttemptBudgeted
  <1>5. c \in CallRow /\ c.captured = <<>> /\ c.exchanges = <<>> /\ Clean(c)
    BY <1>1, <1>2, <1>3, Attempt DEF Clean
  <1>6. PICK x : x = IF input.session # "record" \/ input.nested THEN <<>> ELSE <<"ok">>
    OBVIOUS
  <1>7. x \in Records
    <2>1. "ok" \in Outcomes
      BY DEF Outcomes, Http!Understood
    <2>2. <<>> \in Records /\ <<"ok">> \in Records
      BY <2>1 DEF Records
    <2> QED
      BY <1>6, <2>2
  <1>8. PICK e : e = Http!FixtureRecord(c, "ok")
    OBVIOUS
  <1>9. e = [c EXCEPT !.exchanges = x]
    BY <1>5, <1>6, <1>8 DEF Http!FixtureRecord, CallRow
  <1>10. /\ e \in CallRow /\ e.attempt = c.attempt /\ e.effective = c.effective /\ e.limited = c.limited
         /\ e.dns = c.dns /\ e.sent = c.sent /\ e.last = c.last /\ e.end = c.end
         /\ e.captured = c.captured /\ e.exchanges = x
    BY <1>5, <1>7, <1>9, RowExchanged
  <1>11. Budgeted(e) /\ Clean(e)
    BY <1>4, <1>5, <1>10 DEF Budgeted, Clean, N
  <1>12. output' = [e EXCEPT !.end = "value"]
    BY <1>2, <1>8 DEF Http!Succeed
  <1> QED
    BY <1>5, <1>6, <1>10, <1>11, <1>12, EndsWell

(* An attempt that the caller is told of, whatever it met but a rate limit.          *)
LEMMA AttemptRaised ==
    ASSUME CallInv, Http!Sending, NEW a \in Http!Understood \ {"429", "ok"},
           NEW d, d = Http!RaiseRecorded(Http!Sent(a), a)
    PROVE  Kept(d)
  <1>1. PICK r : r = output
    OBVIOUS
  <1>2. PICK c : c = Http!Sent(a)
    OBVIOUS
  <1>0. a \in Http!Answer \ {"429"} /\ a \notin {"ok", "garbled"}
    BY DEF Http!Answer, Http!Understood, Http!HttpError, Http!ClientError, Http!Network
  <1>3. Budgeted(c)
    BY <1>0, <1>2, AttemptBudgeted
  <1>4. /\ c \in CallRow /\ c.end = "none" /\ c.captured = <<>> /\ c.exchanges = <<>>
        /\ c.last = a /\ input.session # "replay" /\ Clean(c)
    BY <1>0, <1>1, <1>2, Attempt DEF Clean
  <1>5. ErrorOf(c) = a /\ a \in Outcomes
    BY <1>4 DEF ErrorOf, Outcomes
  <1>6. d = Http!RaiseRecorded(c, ErrorOf(c)) /\ ErrorOf(c) \in Outcomes
    BY <1>2, <1>5
  <1> QED
    BY <1>3, <1>4, <1>6, Raises

(* ... and one that is tried again while the caller has tries left.                 *)
LEMMA AttemptRetried ==
    ASSUME CallInv, Http!Sending, NEW a \in Http!Understood \ {"429", "ok"},
           NEW d, d = IF Http!HasRetry THEN Http!Again(Http!Sent(a)) ELSE Http!Break(Http!Sent(a))
    PROVE  Kept(d)
  <1>1. PICK r : r = output
    OBVIOUS
  <1>2. PICK c : c = Http!Sent(a)
    OBVIOUS
  <1>0. a \in Http!Answer \ {"429"} /\ a \notin {"ok", "garbled"}
    BY DEF Http!Answer, Http!Understood, Http!HttpError, Http!ClientError, Http!Network
  <1>3. Budgeted(c)
    BY <1>0, <1>2, AttemptBudgeted
  <1>4. /\ c \in CallRow /\ r \in CallRow /\ c.end = "none" /\ c.captured = <<>> /\ c.exchanges = <<>>
        /\ c.last = a /\ input.session # "replay"
        /\ c.attempt = r.attempt /\ c.limited = r.limited /\ Len(c.sent) = r.attempt + 1
        /\ \A x : N(c, x) = N(r, x) + (IF a \in x THEN 1 ELSE 0)
        /\ r.limited < Max429 /\ N(r, NonDns) <= r.attempt /\ Clean(c)
    BY <1>0, <1>1, <1>2, Attempt DEF Clean
  <1>5. CASE Http!HasRetry
    <2>1. r.attempt < input.retries - 1
      BY <1>1, <1>5 DEF Http!HasRetry
    <2>2. r.attempt \in Nat /\ N(r, NonDns) \in Nat /\ input.retries \in Nat
      BY <1>4, RowNumbers, Numbers
    <2>3. N(c, NonDns) <= c.attempt + 1 /\ N(c, NonDns) < input.retries
      BY <1>4, <2>1, <2>2
    <2>4. d = Http!Again(c) /\ Len(c.sent) = c.attempt + 1 /\ c.limited < Max429
      BY <1>2, <1>4, <1>5
    <2> QED
      BY <1>3, <1>4, <2>3, <2>4, GoesOn
  <1>6. CASE ~Http!HasRetry
    <2>1. ErrorOf(c) = c.last /\ c.last \in Outcomes
      BY <1>4 DEF ErrorOf, Outcomes
    <2>2. d = Http!RaiseRecorded(c, ErrorOf(c)) /\ ErrorOf(c) \in Outcomes
      BY <1>2, <1>6, <2>1 DEF Http!Break
    <2> QED
      BY <1>3, <1>4, <2>2, Raises
  <1> QED
    BY <1>5, <1>6

(* The end of a call that escapes: nothing was told of it.                          *)
LEMMA EscapeEnds ==
    ASSUME NEW c, Budgeted(c), c.captured = <<>>, c.exchanges = <<>>, input.session # "replay",
           Blamed(c), NEW d, d = Http!Escaped(c)
    PROVE  Kept(d)
  <1>1. c \in CallRow /\ "escaped" \in Ends /\ d = [c EXCEPT !.end = "escaped"]
    BY DEF Budgeted, Ends, Http!Escaped
  <1>2. /\ d \in CallRow
        /\ d.attempt = c.attempt /\ d.effective = c.effective /\ d.limited = c.limited
        /\ d.dns = c.dns /\ d.sent = c.sent /\ d.last = c.last
        /\ d.end = "escaped" /\ d.captured = c.captured /\ d.exchanges = c.exchanges
    BY <1>1, RowEnded
  <1>3. Budgeted(d)
    BY <1>2 DEF Budgeted, N
  <1>4. Escapes(d)
    BY <1>2 DEF Escapes, Blamed, Clean, N
  <1> QED
    BY <1>2, <1>3, <1>4 DEF Kept, Told, OnItsWay

LEMMA EscapeKept == ASSUME CallInv, Http!Escape PROVE Kept(output')
  <1>1. PICK r : r = output
    OBVIOUS
  <1>2. PICK c : c = Http!Sent("garbled")
    OBVIOUS
  <1>3. "garbled" \in Http!Answer \ {"429"} /\ Http!Sending
    BY DEF Http!Answer, Http!Garbled, Http!Escape
  <1>4. Budgeted(c)
    BY <1>2, <1>3, AttemptBudgeted
  <1>5. /\ c.captured = <<>> /\ c.exchanges = <<>> /\ input.session # "replay"
        /\ N(c, {"garbled"}) = 1
    BY <1>1, <1>2, <1>3, Attempt
  <1>9. Blamed(c)
    BY <1>5 DEF Blamed
  <1>6. PICK d : d = Http!Escaped(c)
    OBVIOUS
  <1>7. output' = d
    BY <1>2, <1>6 DEF Http!Escape, Http!Garbled
  <1>8. Kept(d)
    BY <1>4, <1>5, <1>6, <1>9, EscapeEnds
  <1> QED
    BY <1>7, <1>8

LEMMA RateLimitedKept == ASSUME CallInv, Http!RateLimited PROVE Kept(output')
  <1>1. PICK r : r = output
    OBVIOUS
  <1>2. PICK b : b = Http!Sent("429")
    OBVIOUS
  <1>3. "429" \in Http!Answer /\ Http!Sending
    BY DEF Http!Answer, Http!Understood, Http!HttpError, Http!RateLimited
  <1>4. /\ b \in CallRow /\ r \in CallRow /\ b.end = "none" /\ b.captured = <<>> /\ b.exchanges = <<>>
        /\ b.last = "429" /\ input.session # "replay"
        /\ b.attempt = r.attempt /\ b.effective = r.effective /\ b.limited = r.limited
        /\ Len(b.sent) = r.attempt + 1 /\ r.attempt < r.effective /\ input.retries >= 1
        /\ \A x : N(b, x) = N(r, x) + (IF "429" \in x THEN 1 ELSE 0)
        /\ r.limited = N(r, {"429"}) /\ r.limited < Max429
        /\ N(r, NonDns) <= r.attempt /\ N(r, NonDns) + 1 <= input.retries
        /\ \/ r.effective = input.retries
           \/ N(r, {"dns"}) > 0 /\ r.effective = MinDns
        /\ N(b, {"garbled"}) = 0
    BY <1>1, <1>2, <1>3, Attempt
  <1>5. /\ r.attempt \in Nat /\ r.effective \in Nat /\ r.limited \in Nat /\ \A x : N(r, x) \in Nat
        /\ input.retries \in Nat /\ Max429 \in Nat
    BY <1>4, RowNumbers, Numbers
  <1>6. PICK l \in Nat : l = b.limited + 1
    BY <1>4, <1>5
  <1>7. PICK c : c = [b EXCEPT !.limited = l]
    OBVIOUS
  <1>8. c = [Http!Sent("429") EXCEPT !.limited = @ + 1]
    BY <1>2, <1>4, <1>6, <1>7 DEF CallRow
  <1>9. /\ c \in CallRow
        /\ c.attempt = b.attempt /\ c.effective = b.effective /\ c.limited = l
        /\ c.dns = b.dns /\ c.sent = b.sent /\ c.last = b.last
        /\ c.end = b.end /\ c.captured = b.captured /\ c.exchanges = b.exchanges
    <2>1. l \in Nat
      OBVIOUS
    <2> QED
      BY <1>4, <1>7, <2>1, RowLimited
  <1>10. \A x : N(c, x) = N(r, x) + (IF "429" \in x THEN 1 ELSE 0)
    BY <1>4, <1>9 DEF N
  <1>11. N(c, {"429"}) = l /\ l <= Max429
    BY <1>4, <1>5, <1>6, <1>10
  <1>12. "429" \in NonDns /\ "429" \notin {"dns"}
    BY DEF NonDns, Http!HttpError
  <1>13. N(c, NonDns) = N(r, NonDns) + 1 /\ N(c, {"dns"}) = N(r, {"dns"})
    BY <1>5, <1>10, <1>12
  <1>14. Budgeted(c)
    <2>1. Len(c.sent) <= c.effective
      BY <1>4, <1>5, <1>9
    <2>2. \/ c.effective = input.retries
          \/ N(c, {"dns"}) > 0 /\ c.effective = MinDns /\ input.retries >= 1
      BY <1>4, <1>9, <1>13
    <2>3. N(c, NonDns) <= input.retries
      BY <1>4, <1>13
    <2> QED
      BY <1>9, <1>11, <2>1, <2>2, <2>3 DEF Budgeted
  <1>15. /\ c.limited >= Max429 \/ ~Http!HasRetry => output' = Http!Break(c)
         /\ ~(c.limited >= Max429 \/ ~Http!HasRetry) =>
               output' = Http!Again(c) \/ output' = Http!Escaped(c)
    BY <1>8, ZenonT(60) DEF Http!RateLimited
  <1>0. Clean(c)
    BY <1>4, <1>9 DEF Clean, N
  <1>16. CASE c.limited >= Max429 \/ ~Http!HasRetry
    <2>1. ErrorOf(c) = c.last /\ c.last \in Outcomes
      BY <1>4, <1>9 DEF ErrorOf, Outcomes, Http!Understood, Http!HttpError
    <2>2. output' = Http!RaiseRecorded(c, ErrorOf(c)) /\ ErrorOf(c) \in Outcomes
      BY <1>15, <1>16, <2>1 DEF Http!Break
    <2>3. c.end = "none" /\ c.captured = <<>> /\ c.exchanges = <<>>
      BY <1>4, <1>9
    <2> QED
      BY <1>0, <1>14, <2>2, <2>3, Raises
  <1>17. CASE ~(c.limited >= Max429 \/ ~Http!HasRetry)
    <2>1. r.attempt < input.retries - 1
      BY <1>1, <1>17 DEF Http!HasRetry
    <2>2. N(c, NonDns) <= c.attempt + 1 /\ N(c, NonDns) < input.retries
      BY <1>4, <1>5, <1>9, <1>13, <2>1
    <2>3. Len(c.sent) = c.attempt + 1 /\ c.end = "none" /\ c.captured = <<>> /\ c.exchanges = <<>>
      BY <1>4, <1>9
    <2>5. c.limited < Max429
      BY <1>5, <1>9, <1>17
    <2>6. CASE output' = Http!Again(c)
      BY <1>0, <1>14, <2>2, <2>3, <2>5, <2>6, GoesOn
    <2>7. CASE output' = Http!Escaped(c)
      <3>1. Blamed(c)
        BY <1>0, <1>4, <1>5, <1>6, <1>9, <1>11, <2>5 DEF Blamed
      <3> QED
        BY <1>0, <1>4, <1>14, <2>3, <2>7, <3>1, EscapeEnds
    <2> QED
      BY <1>15, <1>17, <2>6, <2>7
  <1> QED
    BY <1>16, <1>17

LEMMA DnsFailureKept == ASSUME CallInv, Http!DnsFailure PROVE Kept(output')
  <1>1. PICK r : r = output
    OBVIOUS
  <1>2. PICK b : b = Http!Sent("dns")
    OBVIOUS
  <1>3. "dns" \in Http!Answer \ {"429"} /\ Http!Sending
    BY DEF Http!Answer, Http!Understood, Http!Network, Http!DnsFailure
  <1>4. /\ b \in CallRow /\ r \in CallRow /\ b.end = "none" /\ b.captured = <<>> /\ b.exchanges = <<>>
        /\ b.attempt = r.attempt /\ b.effective = r.effective /\ b.limited = r.limited
        /\ Len(b.sent) = r.attempt + 1 /\ r.attempt < r.effective /\ input.retries >= 1
        /\ \A x : N(b, x) = N(r, x) + (IF "dns" \in x THEN 1 ELSE 0)
        /\ r.limited < Max429
        /\ N(r, NonDns) <= r.attempt /\ N(r, NonDns) + 1 <= input.retries
        /\ \/ r.effective = input.retries
           \/ N(r, {"dns"}) > 0 /\ r.effective = MinDns
        /\ N(b, {"garbled"}) = 0
    BY <1>1, <1>2, <1>3, Attempt
  <1>5. /\ r.attempt \in Nat /\ r.effective \in Nat /\ b.dns \in Nat /\ \A x : N(r, x) \in Nat
        /\ input.retries \in Nat /\ MinDns \in Nat
    BY <1>4, RowNumbers, Numbers
  <1>6. Budgeted(b)
    BY <1>2, <1>3, AttemptBudgeted
  <1>7. PICK x \in Nat : x = b.dns + 1
    BY <1>5
  <1>8. PICK y \in Nat : y = IF b.effective < MinDns THEN MinDns ELSE b.effective
    BY <1>4, <1>5
  <1>9. PICK c : c = [b EXCEPT !.dns = x, !.effective = y]
    OBVIOUS
  <1>10. c = [Http!Sent("dns") EXCEPT !.dns = @ + 1, !.effective = IF @ < MinDns THEN MinDns ELSE @]
    BY <1>2, <1>4, <1>7, <1>8, <1>9 DEF CallRow
  <1>11. /\ c \in CallRow
         /\ c.attempt = b.attempt /\ c.effective = y /\ c.limited = b.limited
         /\ c.dns = x /\ c.sent = b.sent /\ c.last = b.last
         /\ c.end = b.end /\ c.captured = b.captured /\ c.exchanges = b.exchanges
    <2>1. x \in Nat
      BY <1>5, <1>7
    <2>2. y \in Nat
      BY <1>8
    <2>3. b \in CallRow
      BY <1>4
    <2> QED
      BY <1>9, <2>1, <2>2, <2>3, ZenonT(60) DEF CallRow
  <1>12. \A z : N(c, z) = N(r, z) + (IF "dns" \in z THEN 1 ELSE 0)
    BY <1>4, <1>11 DEF N
  <1>13. "dns" \notin NonDns /\ "dns" \in {"dns"}
    BY DEF NonDns, Http!HttpError, Http!ClientError
  <1>14. N(c, NonDns) = N(r, NonDns) /\ N(c, {"dns"}) > 0
    BY <1>5, <1>12, <1>13
  <1>15. Budgeted(c)
    <2>1. Len(c.sent) <= c.effective
      BY <1>4, <1>5, <1>8, <1>11
    <2>2. c.effective = input.retries \/ c.effective = MinDns
      BY <1>4, <1>8, <1>11
    <2>3. c.limited = N(c, {"429"}) /\ c.limited <= Max429
      BY <1>6, <1>11 DEF Budgeted, N
    <2>4. N(c, NonDns) <= input.retries
      BY <1>4, <1>5, <1>14
    <2> QED
      BY <1>4, <1>11, <1>14, <2>1, <2>2, <2>3, <2>4 DEF Budgeted
  <1>16. output' = Http!Again(c)
    BY <1>10 DEF Http!DnsFailure
  <1>17. N(c, NonDns) <= c.attempt + 1 /\ N(c, NonDns) < input.retries
    BY <1>4, <1>5, <1>11, <1>14
  <1>18. /\ Len(c.sent) = c.attempt + 1 /\ c.end = "none" /\ c.captured = <<>> /\ c.exchanges = <<>>
         /\ c.limited < Max429 /\ Clean(c)
    BY <1>4, <1>11 DEF Clean, N
  <1> QED
    BY <1>15, <1>16, <1>17, <1>18, GoesOn

LEMMA ExhaustedKept == ASSUME CallInv, Http!Exhausted PROVE Kept(output')
  <1>1. PICK r : r = output
    OBVIOUS
  <1>2. /\ Budgeted(r) /\ r.end = "none" /\ r.captured = <<>> /\ r.exchanges = <<>>
        /\ input.session # "replay" /\ r \in CallRow /\ Clean(r)
    BY <1>1 DEF CallInv, Kept, Budgeted, Told, Escapes, Http!Exhausted, Http!None
  <1>3. r.last \in Outcomes
    BY <1>2 DEF CallRow
  <1>4. output' = Http!RaiseRecorded(r, ErrorOf(r)) /\ ErrorOf(r) \in Outcomes
    BY <1>1, <1>2, <1>3 DEF Http!Exhausted, ErrorOf
  <1> QED
    BY <1>2, <1>4, Raises

LEMMA CallStarts == ASSUME Http!Init PROVE CallInv
  <1>1. input \in Http!Request /\ input.retries \in Nat
    BY CallsAssumption DEF Http!Init, Http!Request, Http!CallAssumption
  <1>2. PICK r : r = output
    OBVIOUS
  <1>3. r = [attempt |-> 0, effective |-> input.retries, limited |-> 0, dns |-> 0,
             sent |-> <<>>, last |-> "none", end |-> "none", captured |-> <<>>, exchanges |-> <<>>]
    BY <1>2 DEF Http!Init, Http!None
  <1>4. <<>> \in Sents /\ <<>> \in Records /\ "none" \in Outcomes /\ "none" \in Ends
    BY DEF Sents, Records, Outcomes, Ends, Http!None
  <1>5. r \in CallRow
    BY <1>1, <1>3, <1>4 DEF CallRow
  <1>6. r.sent = <<>> /\ r.limited = 0 /\ r.effective = input.retries /\ r.attempt = 0
        /\ r.end = "none" /\ r.captured = <<>> /\ r.exchanges = <<>>
    BY <1>3
  <1>7. Len(r.sent) = 0
    BY <1>6
  <1>8. \A a : N(r, a) = 0
    BY <1>5, <1>7, RowNumbers
  <1>9. Max429 \in Nat \ {0}
    BY CallsAssumption DEF Http!CallAssumption
  <1>10. Budgeted(r)
    BY <1>1, <1>5, <1>6, <1>7, <1>8, <1>9 DEF Budgeted
  <1>11. Told(r) /\ OnItsWay(r) /\ Escapes(r)
    BY <1>6, <1>7, <1>8, <1>9 DEF Told, OnItsWay, Escapes, Clean
  <1> QED
    BY <1>1, <1>2, <1>10, <1>11 DEF CallInv, Kept

LEMMA CallSteps == ASSUME CallInv, HttpStep PROVE CallInv'
  <1>1. input' = input /\ input' \in Http!Request
    BY DEF HttpStep, OnOne, Http!Next, CallInv
  <1>2. Kept(output')
    <2>1. CASE Http!Replay
      BY <2>1, ReplayKept
    <2>2. CASE Http!Succeed
      BY <2>2, SucceedKept
    <2>3. CASE Http!InvalidJson
      <3>1. "json" \in Http!Understood \ {"429", "ok"}
        BY DEF Http!Understood
      <3>2. Http!Sending /\ output' = Http!RaiseRecorded(Http!Sent("json"), "json")
        BY <2>3 DEF Http!InvalidJson
      <3> QED
        BY <3>1, <3>2, AttemptRaised
    <2>4. CASE Http!Refused
      <3>1. PICK a \in Http!ClientError : Http!Sending /\ output' = Http!RaiseRecorded(Http!Sent(a), a)
        BY <2>4 DEF Http!Refused
      <3>2. a \in Http!Understood \ {"429", "ok"}
        BY DEF Http!Understood, Http!HttpError, Http!ClientError
      <3> QED
        BY <3>1, <3>2, AttemptRaised
    <2>5. CASE Http!RateLimited
      BY <2>5, RateLimitedKept
    <2>6. CASE Http!ServerError
      <3>1. "500" \in Http!Understood \ {"429", "ok"}
        BY DEF Http!Understood, Http!HttpError
      <3>2. Http!Sending /\ output' = IF Http!HasRetry THEN Http!Again(Http!Sent("500"))
                                      ELSE Http!Break(Http!Sent("500"))
        BY <2>6 DEF Http!ServerError
      <3> QED
        BY <3>1, <3>2, AttemptRetried
    <2>7. CASE Http!DnsFailure
      BY <2>7, DnsFailureKept
    <2>8. CASE Http!ConnectionError
      <3>1. PICK a \in {"url", "reset"} : Http!Sending /\
                output' = IF Http!HasRetry THEN Http!Again(Http!Sent(a)) ELSE Http!Break(Http!Sent(a))
        BY <2>8 DEF Http!ConnectionError
      <3>2. a \in Http!Understood \ {"429", "ok"}
        BY DEF Http!Understood, Http!Network
      <3> QED
        BY <3>1, <3>2, AttemptRetried
    <2>9. CASE Http!Exhausted
      BY <2>9, ExhaustedKept
    <2>10. CASE Http!Escape
      BY <2>10, EscapeKept
    <2> QED
      BY <2>1, <2>2, <2>3, <2>4, <2>5, <2>6, <2>7, <2>8, <2>9, <2>10 DEF HttpStep, Http!Next
  <1>3. Kept(output)'
    BY <1>1, <1>2 DEF Kept, Budgeted, Told, OnItsWay, Escapes, Blamed, Clean, ErrorOf
  <1> QED
    BY <1>1, <1>3 DEF CallInv

LEMMA CallTells == ASSUME CallInv PROVE Http!TypeOK /\ Http!BudgetKept /\ Http!OutcomeOnce
  <1>1. PICK r : r = output
    OBVIOUS
  <1>2. Budgeted(r) /\ Told(r) /\ Escapes(r) /\ r \in CallRow
    BY <1>1 DEF CallInv, Kept, Budgeted
  <1>3. Http!TypeOK
    BY <1>1, <1>2, CallIsRow DEF Http!TypeOK, CallInv
  <1>4. Http!BudgetKept
    <2>1. \A a : Http!Count(a) = N(r, a)
      BY <1>1, CountOf DEF N
    <2>2. /\ r.effective \in Nat /\ Len(r.sent) \in Nat /\ input.retries \in Nat /\ Max429 \in Nat
          /\ \A x : N(r, x) \in Nat
      BY <1>2, RowNumbers, Numbers
    <2>3. N(r, NonDns) <= input.retries /\ N(r, {"429"}) <= Max429
      BY <1>2 DEF Budgeted
    <2>4. Len(r.sent) > input.retries => N(r, {"dns"}) > 0 /\ Len(r.sent) <= MinDns
      BY <1>2, <2>2 DEF Budgeted
    <2>5. N(r, {"garbled"}) <= 1
      BY <1>2, <2>2 DEF Escapes, Blamed, Clean
    <2> QED
      BY <1>1, <2>1, <2>3, <2>4, <2>5 DEF Http!BudgetKept, Http!Garbled, NonDns
  <1>5. Http!OutcomeOnce
    <2>1. \A a : Http!Count(a) = N(r, a)
      BY <1>1, CountOf DEF N
    <2>2. r.end = "escaped" =>
             /\ input.session # "replay"
             /\ Http!Count({"garbled"}) = 1 \/ Http!Count({"429"}) \in 1..(Max429 - 1)
      BY <1>2, <2>1 DEF Escapes, Blamed
    <2> QED
      BY <1>1, <1>2, <2>2 DEF Told, ErrorOf, Http!OutcomeOnce, Http!Error, Http!None, Http!Garbled
  <1> QED
    BY <1>3, <1>4, <1>5

(* A call of the engine keeps its budgets, whatever the servers answer, and what it  *)
(* tells is its outcome, once: for every budget a caller may ask for.             *)
THEOREM CallKeeps == EngineSpec => []CallHonest
  <1> DEFINE Inv == part = "http" => CallInv
  <1>1. EngineInit => Inv
    BY CallStarts DEF EngineInit
  <1>2. Inv /\ [EngineNext]_engine => Inv'
    <2> SUFFICES ASSUME Inv, [EngineNext]_engine, part = "http"
                 PROVE  CallInv'
      BY SamePart
    <2>1. CASE HttpStep
      BY <2>1, CallSteps
    <2>2. CASE UNCHANGED engine
      BY <2>2 DEF engine, CallInv, Kept, Budgeted, Told, OnItsWay, Escapes, Blamed, Clean, ErrorOf
    <2> QED
      BY <2>1, <2>2 DEF EngineNext, OnOne
  <1>3. Inv => CallHonest
    BY CallTells DEF CallHonest
  <1> QED
    BY <1>1, <1>2, <1>3, PTL DEF EngineSpec

-----------------------------------------------------------------------------
(* The .env file and the device codes of a setup.  A command appends only keys that    *)
(* the user's lines do not have, and only pins a browser that is safe for every        *)
(* service; a code belongs to one start, and what a poll removed nobody writes again.  *)
Assignment ==
    (STRING \X STRING) \cup {Setup!ApiKey, Setup!SetupComplete} \cup {<<"FROM_BROWSER", b>> : b \in Setup!Stores}
OldLines(i) == i.file.lines
SafePin(i, b) ==
    /\ b # "chrome"
    /\ \A s \in Setup!Service :
          Setup!FoundIn(Setup!Chromium \o Setup!SilentBrowsers, i.stores[s]) \in {b, Setup!None}
    /\ (b # "firefox-wsl" => Setup!CookieExtractionBrowsers(<<b>>) # <<>>)
Addition(i, a) ==
    /\ a \in Assignment /\ a[1] \notin Setup!KeysIn(OldLines(i))
    /\ (a[1] = "FROM_BROWSER" => SafePin(i, a[2]))
EnvFine(i, e) ==
    /\ e \in [lines : Seq(Seq(Assignment)), whole : BOOLEAN]
    /\ Len(e.lines) >= Len(OldLines(i))
    /\ \A n \in 1..Len(e.lines) : Len(e.lines[n]) = 1
    /\ \A n \in 1..Len(OldLines(i)) : e.lines[n] = OldLines(i)[n]
    /\ \A n \in 1..Len(e.lines) : n > Len(OldLines(i)) => Addition(i, e.lines[n][1])
Aim(c) == IF c = "auto" THEN Setup!SetupComplete[1] ELSE Setup!ApiKey[1]
Phases(c) ==
    IF c = "auto" THEN {"idle", "found", "appending", "done"}
    ELSE IF c = "start" THEN {"idle", "saving", "written", "done"}
    ELSE {"idle", "polling", "profile", "raised", "cleanup", "keeping", "appending", "done"}
RowFields == {"pc", "code", "left", "adds", "whole", "status", "pin", "persisted", "stuck"}
Appending(i, c, r, e) ==
    /\ r.adds \in Seq(Assignment) /\ \A n \in 1..Len(r.adds) : Addition(i, r.adds[n])
    /\ (r.whole => e.whole)
    /\ (Aim(c) \in Setup!KeysIn(e.lines) \/ \E n \in 1..Len(r.adds) : r.adds[n][1] = Aim(c))
RowFine(i, c, r, e, h, v) ==
    /\ RowFields \subseteq DOMAIN r
    /\ r.pc \in Phases(c)
    /\ (r.code = Setup!None \/ (r.code \in Code /\ v[r.code] # "unissued"))
    /\ (r.pc = "idle" => r.code = Setup!None)
    /\ (r.pc \in {"saving", "written"} => r.code \in Code /\ h # r.code)
    /\ (c = "poll" /\ r.pc \in {"keeping", "appending", "done"} /\ r.code # Setup!None /\ ~r.stuck =>
            h # r.code)
    /\ (r.pc = "found" => \/ r.pin = Setup!None \/ "FROM_BROWSER" \in Setup!KeysIn(e.lines)
                          \/ (r.pin \in Setup!Stores /\ SafePin(i, r.pin)))
    /\ (r.pc = "appending" => Appending(i, c, r, e))
    /\ (r.persisted => Aim(c) \in Setup!KeysIn(e.lines))
Apart(table) ==
    \A p, q \in Process : p # q /\ table[p].pc \in {"saving", "written"} => table[q].code # table[p].code
SetupInv ==
    /\ EnvFine(input, input.file) /\ EnvFine(input, output)
    /\ DOMAIN s2 = Code /\ (s1 \in Code => s2[s1] # "unissued")
    /\ DOMAIN s3 = Process
    /\ \A p \in Process : RowFine(input, input.command[p], s3[p], output, s1, s2)
    /\ Apart(s3)

LEMMA NoneIsNoCode == Setup!None \notin Code /\ Setup!Torn \notin Code
  BY SetupAssumption DEF Setup!SetupAssumption, Setup!None, Setup!Torn

Carried(p, r, e, h, v) ==
    /\ RowFine(input, input.command[p], r, e, h, v) /\ EnvFine(input, e)
    /\ Setup!KeysIn(output.lines) \subseteq Setup!KeysIn(e.lines) /\ (output.whole => e.whole)
    /\ DOMAIN v = Code /\ \A c \in Code : s2[c] # "unissued" => v[c] # "unissued"
    /\ (h \in Code => v[h] # "unissued")
    /\ (h = s1 \/ \A q \in Process : q # p => s3[q].code # h \/ s3[q].code = Setup!None)
    /\ \A q \in Process : q # p /\ s3[q].pc \in {"saving", "written"} => s3[q].code # r.code
    /\ \A q \in Process : q # p /\ r.pc \in {"saving", "written"} => s3[q].code # r.code

(* One command moves on: the file keeps what it had, the codes of the others stay.      *)
LEMMA OneCommand ==
    ASSUME SetupInv, NEW p \in Process, NEW r, s3' = [s3 EXCEPT ![p] = r], input' = input,
           NEW e, NEW h, NEW v, e = output', h = s1', v = s2', Carried(p, r, e, h, v)
    PROVE  SetupInv'
  <1>0. /\ RowFine(input, input.command[p], r, output', s1', s2') /\ EnvFine(input, output')
        /\ Setup!KeysIn(output.lines) \subseteq Setup!KeysIn(output'.lines) /\ (output.whole => output'.whole)
        /\ DOMAIN s2' = Code /\ \A c \in Code : s2[c] # "unissued" => s2'[c] # "unissued"
        /\ (s1' \in Code => s2'[s1'] # "unissued")
        /\ (s1' = s1 \/ \A q \in Process : q # p => s3[q].code # s1' \/ s3[q].code = Setup!None)
        /\ \A q \in Process : q # p /\ s3[q].pc \in {"saving", "written"} => s3[q].code # r.code
        /\ \A q \in Process : q # p /\ r.pc \in {"saving", "written"} => s3[q].code # r.code
    BY DEF Carried
  <1>1. DOMAIN s3' = Process /\ \A q \in Process : s3'[q] = IF q = p THEN r ELSE s3[q]
    BY DEF SetupInv
  <1>2. \A q \in Process : RowFine(input, input.command[q], s3[q], output, s1, s2)
    BY DEF SetupInv
  <1>3. \A q \in Process : q # p => RowFine(input, input.command[q], s3[q], output', s1', s2')
    <2> TAKE q \in Process
    <2> HAVE q # p
    <2> PICK c : c = input.command[q]
      OBVIOUS
    <2> PICK x : x = s3[q]
      OBVIOUS
    <2>1. RowFine(input, c, x, output, s1, s2)
      BY <1>2
    <2>2. x.code = Setup!None \/ s1' = s1 \/ s1' # x.code
      BY <1>0
    <2>3. x.pc = "appending" => Appending(input, c, x, output')
      BY <1>0, <2>1 DEF RowFine, Appending
    <2>4. (x.pc \in {"saving", "written"} => x.code \in Code /\ s1' # x.code)
      BY <2>1, <2>2, NoneIsNoCode DEF RowFine
    <2>9. (c = "poll" /\ x.pc \in {"keeping", "appending", "done"} /\ x.code # Setup!None /\ ~x.stuck => s1 # x.code)
      BY <2>1, Zenon DEF RowFine
    <2>5. (c = "poll" /\ x.pc \in {"keeping", "appending", "done"} /\ x.code # Setup!None /\ ~x.stuck => s1' # x.code)
      BY <2>2, <2>9
    <2>6. (x.code = Setup!None \/ (x.code \in Code /\ s2'[x.code] # "unissued"))
      BY <1>0, <2>1 DEF RowFine
    <2>7. /\ (x.pc = "found" => \/ x.pin = Setup!None \/ "FROM_BROWSER" \in Setup!KeysIn(output'.lines)
                               \/ (x.pin \in Setup!Stores /\ SafePin(input, x.pin)))
          /\ (x.persisted => Aim(c) \in Setup!KeysIn(output'.lines))
      BY <1>0, <2>1 DEF RowFine
    <2>8. RowFields \subseteq DOMAIN x /\ x.pc \in Phases(c) /\ (x.pc = "idle" => x.code = Setup!None)
      BY <2>1 DEF RowFine
    <2> QED
      BY <2>3, <2>4, <2>5, <2>6, <2>7, <2>8, Zenon DEF RowFine
  <1>4. \A q \in Process : RowFine(input, input.command[q], s3'[q], output', s1', s2')
    BY <1>0, <1>1, <1>3
  <1>6. Apart(s3')
    <2> SUFFICES ASSUME NEW a \in Process, NEW b \in Process, a # b, s3'[a].pc \in {"saving", "written"}
                 PROVE  s3'[b].code # s3'[a].code
      BY DEF Apart
    <2>1. Apart(s3)
      BY DEF SetupInv
    <2>2. CASE a = p
      BY <1>0, <1>1, <2>2
    <2>3. CASE b = p
      BY <1>0, <1>1, <2>3
    <2>4. CASE a # p /\ b # p
      BY <1>1, <2>1, <2>4 DEF Apart
    <2> QED
      BY <2>2, <2>3, <2>4
  <1> QED
    <2>1. EnvFine(input', input'.file) /\ EnvFine(input', output')
      BY <1>0 DEF SetupInv
    <2>2. \A q \in Process : RowFine(input', input'.command[q], s3'[q], output', s1', s2')
      BY <1>4
    <2>3. DOMAIN s2' = Code /\ (s1' \in Code => s2'[s1'] # "unissued")
      BY <1>0
    <2> QED
      BY <1>1, <1>6, <2>1, <2>2, <2>3, Zenon DEF SetupInv, EnvFine, OldLines, Addition, Assignment, SafePin, RowFine,
       Appending, Apart, Aim, Phases, RowFields, Setup!KeysIn, Setup!None, Setup!ApiKey, Setup!SetupComplete,
       Setup!Service, Setup!Chromium, Setup!SilentBrowsers, Setup!FoundIn, Setup!CookieExtractionBrowsers,
       Setup!Yielding, Setup!FirstYielding, Setup!StoreOf, Setup!Extracted, Setup!Known, Setup!InOrder,
       Setup!KnownBrowsers, Setup!Stores, Setup!Cardinality, Setup!IsFiniteSet

LEMMA SameCode ==
    ASSUME SetupInv, NEW p \in Process, NEW r, s3' = [s3 EXCEPT ![p] = r],
           UNCHANGED <<input, output, s1, s2>>, r.code = s3[p].code,
           r.pc \in {"saving", "written"} => s3[p].pc \in {"saving", "written"},
           RowFine(input, input.command[p], r, output, s1, s2)
    PROVE  SetupInv'
  <1>1. \A q \in Process : q # p /\ s3[q].pc \in {"saving", "written"} => s3[q].code # r.code
    BY DEF SetupInv, Apart
  <1>2. \A q \in Process : q # p /\ r.pc \in {"saving", "written"} => s3[q].code # r.code
    BY DEF SetupInv, Apart
  <1>3. Carried(p, r, output, s1, s2)
    BY <1>1, <1>2 DEF Carried, SetupInv
  <1> QED
    BY <1>3, OneCommand

(* What a step lays over the record of a command.                               *)
LEMMA LaidOver ==
    ASSUME NEW x, RowFields \subseteq DOMAIN x, NEW new, DOMAIN new \subseteq RowFields,
           NEW d, d = Setup!Over(new, x)
    PROVE  /\ RowFields \subseteq DOMAIN d
           /\ \A f \in RowFields : d[f] = IF f \in DOMAIN new THEN new[f] ELSE x[f]
  BY DEF Setup!Over

LEMMA EndKept ==
    ASSUME SetupInv, NEW p \in Process,
           \/ Setup!AlreadyRegistered(p) \/ Setup!StartFails(p) \/ Setup!PollTimesOut(p) \/ Setup!FetchApiKey(p)
           \/ Setup!PollRaises(p)
    PROVE  SetupInv'
  <1>1. PICK x : x = s3[p]
    OBVIOUS
  <1>2. RowFine(input, input.command[p], x, output, s1, s2)
    BY <1>1 DEF SetupInv
  <1>3. CASE Setup!AlreadyRegistered(p)
    <2>1. PICK new : new = [pc |-> "done", status |-> "already_registered", persisted |-> TRUE]
      OBVIOUS
    <2>2. DOMAIN new = {"pc", "status", "persisted"} /\ new.pc = "done"
      BY <2>1
    <2>3. PICK d : d = Setup!Over(new, x)
      OBVIOUS
    <2>4. /\ RowFields \subseteq DOMAIN d /\ d.pc = "done" /\ d.code = x.code
      BY <1>2, <2>2, <2>3, LaidOver DEF RowFine, RowFields
    <2>5. Aim(input.command[p]) \in Setup!KeysIn(output.lines) /\ input.command[p] \in {"start", "full"}
      BY <1>3 DEF Setup!AlreadyRegistered, Setup!Has, Setup!Command, Aim
    <2>6. RowFine(input, input.command[p], d, output, s1, s2)
      BY <1>2, <2>4, <2>5 DEF RowFine, Phases
    <2>7. s3' = [s3 EXCEPT ![p] = d] /\ UNCHANGED <<input, output, s1, s2>>
      BY <1>1, <1>3, <2>1, <2>3 DEF Setup!AlreadyRegistered, Setup!Step
    <2> QED
      BY <1>1, <2>4, <2>6, <2>7, SameCode
  <1>4. CASE Setup!StartFails(p)
    <2>1. PICK new : new = [pc |-> "done", status |-> "error"]
      OBVIOUS
    <2>2. DOMAIN new = {"pc", "status"} /\ new.pc = "done"
      BY <2>1
    <2>3. PICK d : d = Setup!Over(new, x)
      OBVIOUS
    <2>4. /\ RowFields \subseteq DOMAIN d /\ d.pc = "done" /\ d.code = x.code /\ d.persisted = x.persisted
      BY <1>2, <2>2, <2>3, LaidOver DEF RowFine, RowFields
    <2>5. input.command[p] \in {"start", "full"}
      BY <1>4 DEF Setup!StartFails, Setup!Command
    <2>6. RowFine(input, input.command[p], d, output, s1, s2)
      BY <1>2, <2>4, <2>5 DEF RowFine, Phases
    <2>7. s3' = [s3 EXCEPT ![p] = d] /\ UNCHANGED <<input, output, s1, s2>>
      BY <1>1, <1>4, <2>1, <2>3 DEF Setup!StartFails, Setup!End, Setup!Step
    <2> QED
      BY <1>1, <2>4, <2>6, <2>7, SameCode
  <1>5. CASE Setup!PollTimesOut(p) \/ Setup!FetchApiKey(p)
    <2>1. PICK status : /\ s3' = [s3 EXCEPT ![p] = Setup!Over([pc |-> "cleanup", status |-> status], s3[p])]
                        /\ UNCHANGED <<input, output, s1, s2>>
      BY <1>5 DEF Setup!PollTimesOut, Setup!FetchApiKey, Setup!Step
    <2>2. PICK new : new = [pc |-> "cleanup", status |-> status]
      OBVIOUS
    <2>3. DOMAIN new = {"pc", "status"} /\ new.pc = "cleanup"
      BY <2>2
    <2>4. PICK d : d = Setup!Over(new, x)
      OBVIOUS
    <2>5. /\ RowFields \subseteq DOMAIN d /\ d.pc = "cleanup" /\ d.code = x.code /\ d.persisted = x.persisted
      BY <1>2, <2>3, <2>4, LaidOver DEF RowFine, RowFields
    <2>6. x.pc \in {"polling", "profile"}
      BY <1>1, <1>5 DEF Setup!PollTimesOut, Setup!FetchApiKey, Setup!At
    <2>7. RowFine(input, input.command[p], d, output, s1, s2)
      BY <1>2, <2>5, <2>6 DEF RowFine, Phases
    <2>8. s3' = [s3 EXCEPT ![p] = d]
      BY <1>1, <2>1, <2>2, <2>4
    <2> QED
      BY <1>1, <2>1, <2>5, <2>7, <2>8, SameCode
  <1>6. CASE Setup!PollRaises(p)
    <2>1. PICK new : new = [pc |-> "raised"]
      OBVIOUS
    <2>2. DOMAIN new = {"pc"} /\ new.pc = "raised"
      BY <2>1
    <2>3. PICK d : d = Setup!Over(new, x)
      OBVIOUS
    <2>4. /\ RowFields \subseteq DOMAIN d /\ d.pc = "raised" /\ d.code = x.code /\ d.persisted = x.persisted
      BY <1>2, <2>2, <2>3, LaidOver DEF RowFine, RowFields
    <2>5. x.pc \in {"polling", "profile"}
      BY <1>1, <1>6 DEF Setup!PollRaises, Setup!At
    <2>6. RowFine(input, input.command[p], d, output, s1, s2)
      BY <1>2, <2>4, <2>5 DEF RowFine, Phases
    <2>7. s3' = [s3 EXCEPT ![p] = d] /\ UNCHANGED <<input, output, s1, s2>>
      BY <1>1, <1>6, <2>1, <2>3 DEF Setup!PollRaises, Setup!Step
    <2> QED
      BY <1>1, <2>4, <2>6, <2>7, SameCode
  <1> QED
    BY <1>3, <1>4, <1>5, <1>6

LEMMA AskKept == ASSUME SetupInv, NEW p \in Process, Setup!Ask(p) PROVE SetupInv'
  <1>1. PICK x : x = s3[p]
    OBVIOUS
  <1>2. RowFine(input, input.command[p], x, output, s1, s2) /\ x.pc = "polling"
    BY <1>1 DEF SetupInv, Setup!Ask, Setup!At
  <1>3. PICK new : /\ s3' = [s3 EXCEPT ![p] = Setup!Over(new, s3[p])]
                   /\ \/ DOMAIN new = {"left"}
                      \/ DOMAIN new = {"pc"} /\ new.pc = "profile"
                      \/ DOMAIN new = {"pc", "status"} /\ new.pc = "cleanup"
    <2>1. CASE \E slept \in {1, 2} : Setup!Step(p, [left |-> IF s3[p].left < slept THEN 0 ELSE s3[p].left - slept])
      <3>1. PICK n : Setup!Step(p, [left |-> n])
        BY <2>1
      <3>2. PICK new : new = [left |-> n]
        OBVIOUS
      <3>3. DOMAIN new = {"left"}
        BY <3>2
      <3>4. s3' = [s3 EXCEPT ![p] = Setup!Over(new, s3[p])]
        BY <3>1, <3>2 DEF Setup!Step
      <3> QED
        BY <3>3, <3>4
    <2>2. CASE Setup!Step(p, [pc |-> "profile"])
      <3>1. PICK new : new = [pc |-> "profile"]
        OBVIOUS
      <3>2. DOMAIN new = {"pc"} /\ new.pc = "profile"
        BY <3>1
      <3>3. s3' = [s3 EXCEPT ![p] = Setup!Over(new, s3[p])]
        BY <2>2, <3>1 DEF Setup!Step
      <3> QED
        BY <2>2, <3>2, <3>3 DEF Setup!Step
    <2>3. CASE Setup!Step(p, [pc |-> "cleanup", status |-> "timeout"])
      <3>1. PICK new : new = [pc |-> "cleanup", status |-> "timeout"]
        OBVIOUS
      <3>2. DOMAIN new = {"pc", "status"} /\ new.pc = "cleanup"
        BY <3>1
      <3>3. s3' = [s3 EXCEPT ![p] = Setup!Over(new, s3[p])]
        BY <2>3, <3>1 DEF Setup!Step
      <3> QED
        BY <2>3, <3>2, <3>3 DEF Setup!Step
    <2> QED
      BY <2>1, <2>2, <2>3 DEF Setup!Ask
  <1>4. PICK d : d = Setup!Over(new, x)
    OBVIOUS
  <1>5. /\ RowFields \subseteq DOMAIN d /\ d.code = x.code /\ d.persisted = x.persisted
        /\ d.pc \in {"polling", "profile", "cleanup"}
    BY <1>2, <1>3, <1>4, LaidOver DEF RowFine, RowFields
  <1>6. RowFine(input, input.command[p], d, output, s1, s2)
    BY <1>2, <1>5 DEF RowFine, Phases
  <1>7. s3' = [s3 EXCEPT ![p] = d] /\ UNCHANGED <<input, output, s1, s2>>
    BY <1>1, <1>3, <1>4 DEF Setup!Ask
  <1> QED
    BY <1>1, <1>5, <1>6, <1>7, SameCode

(* A start takes a code nobody has; a poll the one in the file, which no start still    *)
(* has to write.                                                              *)
LEMMA TakeCodeKept ==
    ASSUME SetupInv, NEW p \in Process, NEW c \in Code, NEW new, DOMAIN new \subseteq RowFields,
           "pc" \in DOMAIN new, "code" \in DOMAIN new, new.code = c, "persisted" \notin DOMAIN new,
           s3[p].pc = "idle", s3' = [s3 EXCEPT ![p] = Setup!Over(new, s3[p])],
           UNCHANGED <<input, output, s1>>,
           \/ /\ s2[c] = "unissued" /\ s2' = [s2 EXCEPT ![c] = "pending"]
              /\ \/ (new.pc = "polling" /\ input.command[p] = "full")
                 \/ (new.pc = "saving" /\ input.command[p] = "start")
           \/ c = s1 /\ s2' = s2 /\ new.pc = "polling" /\ input.command[p] = "poll"
    PROVE  SetupInv'
  <1>1. PICK x : x = s3[p]
    OBVIOUS
  <1>2. RowFine(input, input.command[p], x, output, s1, s2) /\ x.pc = "idle"
    BY <1>1 DEF SetupInv
  <1>3. PICK d : d = Setup!Over(new, x)
    OBVIOUS
  <1>4. /\ RowFields \subseteq DOMAIN d /\ d.code = c /\ d.persisted = x.persisted /\ d.pc = new.pc
    BY <1>2, <1>3, LaidOver DEF RowFine, RowFields
  <1>5. /\ DOMAIN s2' = Code /\ \A k \in Code : s2[k] # "unissued" => s2'[k] # "unissued"
        /\ s2'[c] # "unissued"
    BY DEF SetupInv
  <1>6. d.pc = "saving" => s1 # d.code
    BY <1>4 DEF SetupInv
  <1>7. RowFine(input, input.command[p], d, output, s1, s2')
    BY <1>2, <1>4, <1>5, <1>6, NoneIsNoCode DEF RowFine, Phases
  <1>8. \A q \in Process : q # p /\ s3[q].pc \in {"saving", "written"} => s3[q].code # d.code
    <2> SUFFICES ASSUME NEW q \in Process, q # p, s3[q].pc \in {"saving", "written"} PROVE s3[q].code # d.code
      OBVIOUS
    <2>1. RowFine(input, input.command[q], s3[q], output, s1, s2)
      BY DEF SetupInv
    <2> QED
      BY <1>4, <2>1, NoneIsNoCode DEF RowFine
  <1>9. \A q \in Process : q # p /\ d.pc \in {"saving", "written"} => s3[q].code # d.code
    <2> SUFFICES ASSUME NEW q \in Process, q # p, d.pc \in {"saving", "written"} PROVE s3[q].code # d.code
      OBVIOUS
    <2>1. RowFine(input, input.command[q], s3[q], output, s1, s2)
      BY DEF SetupInv
    <2> QED
      BY <1>4, <2>1, NoneIsNoCode DEF RowFine
  <1>10. s3' = [s3 EXCEPT ![p] = d] /\ input' = input /\ s1' = s1
    BY <1>1, <1>3
  <1>11. PICK v : v = s2'
    OBVIOUS
  <1>12. Carried(p, d, output, s1, v)
    BY <1>5, <1>7, <1>8, <1>9, <1>11 DEF Carried, SetupInv
  <1> QED
    BY <1>10, <1>11, <1>12, OneCommand

LEMMA StartFlowKept ==
    ASSUME SetupInv, NEW p \in Process, NEW c \in Code, Setup!StartFlow(p, c)
    PROVE  SetupInv'
  <1>1. CASE input.command[p] = "full"
    <2>1. PICK new : new = [pc |-> "polling", code |-> c, left |-> Answers]
      OBVIOUS
    <2>2. DOMAIN new = {"pc", "code", "left"} /\ new.pc = "polling" /\ new.code = c
      BY <2>1
    <2>3. s3' = [s3 EXCEPT ![p] = Setup!Over(new, s3[p])]
      BY <1>1, <2>1 DEF Setup!StartFlow, Setup!Command, Setup!Step
    <2>4. /\ s3[p].pc = "idle" /\ UNCHANGED <<input, output, s1>>
          /\ s2[c] = "unissued" /\ s2' = [s2 EXCEPT ![c] = "pending"]
      BY DEF Setup!StartFlow, Setup!At
    <2> QED
      BY <1>1, <2>2, <2>3, <2>4, TakeCodeKept DEF RowFields
  <1>2. CASE input.command[p] # "full"
    <2>1. PICK new : new = [pc |-> "saving", code |-> c]
      OBVIOUS
    <2>2. DOMAIN new = {"pc", "code"} /\ new.pc = "saving" /\ new.code = c
      BY <2>1
    <2>3. s3' = [s3 EXCEPT ![p] = Setup!Over(new, s3[p])] /\ input.command[p] = "start"
      BY <1>2, <2>1 DEF Setup!StartFlow, Setup!Command, Setup!Step
    <2>4. /\ s3[p].pc = "idle" /\ UNCHANGED <<input, output, s1>>
          /\ s2[c] = "unissued" /\ s2' = [s2 EXCEPT ![c] = "pending"]
      BY DEF Setup!StartFlow, Setup!At
    <2> QED
      BY <1>2, <2>2, <2>3, <2>4, TakeCodeKept DEF RowFields
  <1> QED
    BY <1>1, <1>2

LEMMA ReadHandleKept == ASSUME SetupInv, NEW p \in Process, Setup!ReadHandle(p) PROVE SetupInv'
  <1>1. CASE s1 \in Code
    <2>1. PICK new : new = [pc |-> "polling", code |-> s1, left |-> Answers]
      OBVIOUS
    <2>2. DOMAIN new = {"pc", "code", "left"} /\ new.pc = "polling" /\ new.code = s1
      BY <2>1
    <2>3. s3' = [s3 EXCEPT ![p] = Setup!Over(new, s3[p])]
      BY <1>1, <2>1 DEF Setup!ReadHandle, Setup!Step
    <2>4. s3[p].pc = "idle" /\ UNCHANGED <<input, output, s1, s2>> /\ input.command[p] = "poll"
      BY DEF Setup!ReadHandle, Setup!At, Setup!Command
    <2>5. PICK c \in Code : c = s1
      BY <1>1
    <2> QED
      BY <2>2, <2>3, <2>4, <2>5, TakeCodeKept DEF RowFields
  <1>2. CASE s1 \notin Code
    <2>1. PICK x : x = s3[p]
      OBVIOUS
    <2>2. RowFine(input, input.command[p], x, output, s1, s2) /\ x.pc = "idle" /\ input.command[p] = "poll"
      BY <2>1 DEF SetupInv, Setup!ReadHandle, Setup!At, Setup!Command
    <2>3. PICK new : new = [pc |-> "done", status |-> "error"]
      OBVIOUS
    <2>4. DOMAIN new = {"pc", "status"} /\ new.pc = "done"
      BY <2>3
    <2>5. PICK d : d = Setup!Over(new, x)
      OBVIOUS
    <2>6. /\ RowFields \subseteq DOMAIN d /\ d.pc = "done" /\ d.code = x.code /\ d.persisted = x.persisted
      BY <2>2, <2>4, <2>5, LaidOver DEF RowFine, RowFields
    <2>7. RowFine(input, input.command[p], d, output, s1, s2)
      BY <2>2, <2>6 DEF RowFine, Phases
    <2>8. s3' = [s3 EXCEPT ![p] = d] /\ UNCHANGED <<input, output, s1, s2>>
      BY <1>2, <2>1, <2>3, <2>5 DEF Setup!ReadHandle, Setup!End, Setup!Step
    <2> QED
      BY <2>1, <2>6, <2>7, <2>8, SameCode
  <1> QED
    BY <1>1, <1>2

(* The steps that touch the file of the code: a start tears it and writes its own code  *)
(* into it, a poll removes it.                                                 *)
LEMMA HandleKept ==
    ASSUME SetupInv, NEW p \in Process, Setup!SaveHandle(p) \/ Setup!HandleSaved(p) \/ Setup!Cleanup(p)
    PROVE  SetupInv'
  <1>1. PICK x : x = s3[p]
    OBVIOUS
  <1>2. RowFine(input, input.command[p], x, output, s1, s2)
    BY <1>1 DEF SetupInv
  <1>3. UNCHANGED <<input, output, s2>>
    BY DEF Setup!SaveHandle, Setup!HandleSaved, Setup!Cleanup
  <1>4. PICK new : /\ s3' = [s3 EXCEPT ![p] = Setup!Over(new, s3[p])]
                   /\ DOMAIN new \subseteq {"pc", "status", "stuck"} /\ "pc" \in DOMAIN new
                   /\ \/ x.pc = "saving" /\ new.pc = "written" /\ s1' = Setup!Torn
                      \/ x.pc = "saving" /\ new.pc = "done" /\ s1' = s1
                      \/ x.pc = "written" /\ new.pc = "done" /\ s1' = x.code
                      \/ /\ x.pc = "cleanup" /\ new.pc \in {"keeping", "done"} /\ "stuck" \in DOMAIN new
                         /\ (new.stuck /\ s1' = s1) \/ s1' = Setup!None
    <2>1. CASE Setup!SaveHandle(p) /\ s1' = Setup!Torn /\ Setup!Step(p, [pc |-> "written"])
      <3>1. PICK new : new = [pc |-> "written"]
        OBVIOUS
      <3>2. DOMAIN new = {"pc"} /\ new.pc = "written"
        BY <3>1
      <3>3. s3' = [s3 EXCEPT ![p] = Setup!Over(new, s3[p])]
        BY <1>1, <2>1, <3>1 DEF Setup!SaveHandle, Setup!At, Setup!Step
      <3> QED
        BY <1>1, <2>1, <3>2, <3>3 DEF Setup!SaveHandle, Setup!At, Setup!Step
    <2>2. CASE Setup!SaveHandle(p) /\ s1' = s1 /\ Setup!End(p, "awaiting_authorization")
      <3>1. PICK new : new = [pc |-> "done", status |-> "awaiting_authorization"]
        OBVIOUS
      <3>2. DOMAIN new = {"pc", "status"} /\ new.pc = "done"
        BY <3>1
      <3>3. s3' = [s3 EXCEPT ![p] = Setup!Over(new, s3[p])]
        BY <1>1, <2>2, <3>1 DEF Setup!SaveHandle, Setup!At, Setup!End, Setup!Step
      <3> QED
        BY <1>1, <2>2, <3>2, <3>3 DEF Setup!SaveHandle, Setup!At, Setup!End, Setup!Step
    <2>3. CASE Setup!HandleSaved(p)
      <3>1. PICK new : new = [pc |-> "done", status |-> "awaiting_authorization"]
        OBVIOUS
      <3>2. DOMAIN new = {"pc", "status"} /\ new.pc = "done"
        BY <3>1
      <3>3. s3' = [s3 EXCEPT ![p] = Setup!Over(new, s3[p])]
        BY <1>1, <2>3, <3>1 DEF Setup!HandleSaved, Setup!At, Setup!End, Setup!Step
      <3> QED
        BY <1>1, <2>3, <3>2, <3>3 DEF Setup!HandleSaved, Setup!At, Setup!End, Setup!Step
    <2>4. CASE Setup!Cleanup(p)
      <3>1. PICK stuck \in BOOLEAN :
                /\ s1' = IF stuck THEN s1 ELSE Setup!None
                /\ Setup!Step(p, [pc |-> IF s3[p].status = "success" THEN "keeping" ELSE "done",
                                  stuck |-> stuck])
        BY <2>4 DEF Setup!Cleanup
      <3>2. PICK new : new = [pc |-> IF s3[p].status = "success" THEN "keeping" ELSE "done",
                              stuck |-> stuck]
        OBVIOUS
      <3>3. DOMAIN new = {"pc", "stuck"} /\ new.pc \in {"keeping", "done"} /\ new.stuck = stuck
        BY <3>2
      <3>4. s3' = [s3 EXCEPT ![p] = Setup!Over(new, s3[p])]
        BY <3>1, <3>2 DEF Setup!Step
      <3>5. x.pc = "cleanup"
        BY <1>1, <2>4 DEF Setup!Cleanup, Setup!At
      <3>6. (new.stuck /\ s1' = s1) \/ s1' = Setup!None
        BY <3>1, <3>3
      <3> QED
        BY <3>3, <3>4, <3>5, <3>6
    <2> QED
      BY <2>1, <2>2, <2>3, <2>4 DEF Setup!SaveHandle
  <1>5. PICK d : d = Setup!Over(new, x)
    OBVIOUS
  <1>6. /\ RowFields \subseteq DOMAIN d /\ d.code = x.code /\ d.persisted = x.persisted /\ d.pc = new.pc
        /\ ("stuck" \in DOMAIN new => d.stuck = new.stuck)
    BY <1>2, <1>4, <1>5, LaidOver DEF RowFine, RowFields
  <1>7. /\ \A q \in Process : q # p /\ s3[q].pc \in {"saving", "written"} => s3[q].code # d.code
        /\ \A q \in Process : q # p /\ d.pc \in {"saving", "written"} => s3[q].code # d.code
    BY <1>1, <1>4, <1>6 DEF SetupInv, Apart
  <1>8. s1' = s1 \/ \A q \in Process : q # p => s3[q].code # s1' \/ s3[q].code = Setup!None
    <2>1. \A q \in Process : s3[q].code \in Code \cup {Setup!None}
      BY DEF SetupInv, RowFine
    <2>2. CASE x.pc = "written" /\ s1' = x.code
      BY <1>1, <2>2 DEF SetupInv, Apart
    <2> QED
      BY <1>4, <2>1, <2>2, NoneIsNoCode DEF Setup!Torn, Setup!None
  <1>9. RowFine(input, input.command[p], d, output, s1', s2)
    BY <1>2, <1>4, <1>6, NoneIsNoCode DEF RowFine, Phases
  <1>10. s1' \in Code => s2[s1'] # "unissued"
    BY <1>2, <1>4, NoneIsNoCode DEF SetupInv, RowFine
  <1>11. s3' = [s3 EXCEPT ![p] = d]
    BY <1>1, <1>4, <1>5
  <1>12. PICK h : h = s1'
    OBVIOUS
  <1>13. Carried(p, d, output, h, s2)
    BY <1>7, <1>8, <1>9, <1>10, <1>12 DEF Carried, SetupInv
  <1> QED
    BY <1>3, <1>11, <1>12, <1>13, OneCommand

LEMMA OldKeys == ASSUME SetupInv PROVE Setup!KeysIn(OldLines(input)) \subseteq Setup!KeysIn(output.lines)
  <1> SUFFICES ASSUME NEW n \in 1..Len(OldLines(input))
               PROVE  OldLines(input)[n][1][1] \in Setup!KeysIn(output.lines)
    BY DEF Setup!KeysIn
  <1>1. n \in 1..Len(output.lines) /\ output.lines[n] = OldLines(input)[n]
    <2>1. output.lines \in Seq(Seq(Assignment)) /\ input.file.lines \in Seq(Seq(Assignment))
      BY DEF SetupInv, EnvFine
    <2>2. Len(output.lines) >= Len(OldLines(input)) /\ Len(output.lines) \in Nat /\ Len(OldLines(input)) \in Nat
      BY <2>1 DEF SetupInv, EnvFine, OldLines
    <2> QED
      BY <2>2 DEF SetupInv, EnvFine
  <1> QED
    BY <1>1 DEF Setup!KeysIn

(* What reads the file prepares the lines that are missing, or is done.              *)
LEMMA ReadEnvKept ==
    ASSUME SetupInv, NEW p \in Process, NEW adds \in Seq(Assignment), Setup!ReadEnv(p, adds),
           UNCHANGED <<input, output, s1, s2>>,
           s3[p].pc \in {"keeping", "found"},
           \A n \in 1..Len(adds) : Addition(input, adds[n]),
           Aim(input.command[p]) \in Setup!KeysIn(output.lines) \/ \E n \in 1..Len(adds) : adds[n][1] = Aim(input.command[p])
    PROVE  SetupInv'
  <1>1. PICK x : x = s3[p]
    OBVIOUS
  <1>2. RowFine(input, input.command[p], x, output, s1, s2) /\ x.pc \in {"keeping", "found"}
    BY <1>1 DEF SetupInv
  <1>3. CASE adds = <<>>
    <2>1. PICK new : new = [pc |-> "done", persisted |-> TRUE]
      OBVIOUS
    <2>2. DOMAIN new = {"pc", "persisted"} /\ new.pc = "done"
      BY <2>1
    <2>3. PICK d : d = Setup!Over(new, x)
      OBVIOUS
    <2>4. RowFields \subseteq DOMAIN d /\ d.pc = "done" /\ d.code = x.code /\ d.stuck = x.stuck
      BY <1>2, <2>2, <2>3, LaidOver DEF RowFine, RowFields
    <2>5. Aim(input.command[p]) \in Setup!KeysIn(output.lines)
      BY <1>3
    <2>6. RowFine(input, input.command[p], d, output, s1, s2)
      BY <1>2, <2>4, <2>5 DEF RowFine, Phases
    <2>7. s3' = [s3 EXCEPT ![p] = d]
      BY <1>1, <1>3, <2>1, <2>3 DEF Setup!ReadEnv, Setup!Step
    <2> QED
      BY <1>1, <2>4, <2>6, <2>7, SameCode
  <1>4. CASE adds # <<>>
    <2>1. PICK new : new = [pc |-> "appending", adds |-> adds, whole |-> output.whole]
      OBVIOUS
    <2>2. /\ DOMAIN new = {"pc", "adds", "whole"} /\ new.pc = "appending" /\ new.adds = adds
          /\ new.whole = output.whole
      BY <2>1
    <2>3. PICK d : d = Setup!Over(new, x)
      OBVIOUS
    <2>4. /\ RowFields \subseteq DOMAIN d /\ d.pc = "appending" /\ d.code = x.code /\ d.stuck = x.stuck /\ d.persisted = x.persisted
          /\ d.adds = adds /\ d.whole = output.whole
      BY <1>2, <2>2, <2>3, LaidOver DEF RowFine, RowFields
    <2>5. Appending(input, input.command[p], d, output)
      BY <2>4 DEF Appending
    <2>6. RowFine(input, input.command[p], d, output, s1, s2)
      BY <1>2, <2>4, <2>5 DEF RowFine, Phases
    <2>7. s3' = [s3 EXCEPT ![p] = d]
      BY <1>1, <1>4, <2>1, <2>3 DEF Setup!ReadEnv, Setup!Step
    <2> QED
      BY <1>1, <2>4, <2>6, <2>7, SameCode
  <1> QED
    BY <1>3, <1>4

LEMMA MissingLine ==
    ASSUME SetupInv, NEW a \in Assignment, a[1] = "FROM_BROWSER" => Setup!Has(a) \/ SafePin(input, a[2]),
           NEW adds, adds = Setup!Missing(a)
    PROVE  /\ adds \in Seq(Assignment) /\ \A n \in 1..Len(adds) : Addition(input, adds[n])
           /\ (a[1] \in Setup!KeysIn(output.lines) \/ (Len(adds) = 1 /\ adds[1] = a))
           /\ Len(adds) \in 0..1
  <1>1. CASE Setup!Has(a)
    BY <1>1 DEF Setup!Missing, Setup!Has
  <1>2. CASE ~Setup!Has(a)
    <2>1. adds = <<a>> /\ a[1] \notin Setup!KeysIn(output.lines)
      BY <1>2 DEF Setup!Missing, Setup!Has
    <2>2. Addition(input, a)
      BY <1>2, <2>1, OldKeys DEF Addition
    <2> QED
      BY <2>1, <2>2
  <1> QED
    BY <1>1, <1>2

LEMMA WriteApiKeyKept == ASSUME SetupInv, NEW p \in Process, Setup!WriteApiKey(p) PROVE SetupInv'
  <1>1. PICK a : a = Setup!ApiKey
    OBVIOUS
  <1>2.  a \in Assignment /\ a[1] # "FROM_BROWSER"
    <2>1. a \in Assignment
      BY <1>1 DEF Assignment
    <2> QED
      BY <1>1, <2>1 DEF Setup!ApiKey
  <1>3. PICK adds : adds = Setup!Missing(a)
    OBVIOUS
  <1>4. /\ adds \in Seq(Assignment) /\ \A n \in 1..Len(adds) : Addition(input, adds[n])
        /\ (a[1] \in Setup!KeysIn(output.lines) \/ (Len(adds) = 1 /\ adds[1] = a))
    BY <1>2, <1>3, MissingLine
  <1>5. s3[p].pc = "keeping" /\ Setup!ReadEnv(p, adds) /\ UNCHANGED <<input, output, s1, s2>>
    BY <1>1, <1>3 DEF Setup!WriteApiKey, Setup!At
  <1>6. input.command[p] # "auto"
    BY <1>5 DEF SetupInv, RowFine, Phases
  <1>7. Aim(input.command[p]) = a[1]
    BY <1>1, <1>6 DEF Aim
  <1> QED
    BY <1>4, <1>5, <1>7, ReadEnvKept

LEMMA WriteSetupKept == ASSUME SetupInv, NEW p \in Process, Setup!WriteSetupConfig(p) PROVE SetupInv'
  <1>1. PICK a : a = Setup!SetupComplete
    OBVIOUS
  <1>2.  a \in Assignment /\ a[1] # "FROM_BROWSER"
    <2>1. a \in Assignment
      BY <1>1 DEF Assignment
    <2> QED
      BY <1>1, <2>1 DEF Setup!SetupComplete
  <1>3. PICK first : first = Setup!Missing(a)
    OBVIOUS
  <1>4. /\ first \in Seq(Assignment) /\ \A n \in 1..Len(first) : Addition(input, first[n])
        /\ (a[1] \in Setup!KeysIn(output.lines) \/ (Len(first) = 1 /\ first[1] = a))
        /\ Len(first) \in 0..1
    BY <1>2, <1>3, MissingLine
  <1>5. PICK pin : pin = s3[p].pin
    OBVIOUS
  <1>6. PICK second : second = Setup!PinLine(pin)
    OBVIOUS
  <1>7. /\ s3[p].pc = "found" /\ UNCHANGED <<input, output, s1, s2>>
        /\ Setup!ReadEnv(p, first \o second)
    BY <1>1, <1>3, <1>5, <1>6 DEF Setup!WriteSetupConfig, Setup!At
  <1>8. /\ input.command[p] = "auto"
        /\ \/ pin = Setup!None \/ "FROM_BROWSER" \in Setup!KeysIn(output.lines)
           \/ (pin \in Setup!Stores /\ SafePin(input, pin))
    BY <1>5, <1>7 DEF SetupInv, RowFine, Phases
  <1>9. /\ second \in Seq(Assignment) /\ \A n \in 1..Len(second) : Addition(input, second[n])
        /\ Len(second) \in 0..1
    <2>1. CASE pin = Setup!None
      BY <1>6, <2>1 DEF Setup!PinLine
    <2>2. CASE pin # Setup!None /\ "FROM_BROWSER" \in Setup!KeysIn(output.lines)
      <3>1. second = <<>>
        BY <1>6, <2>2 DEF Setup!PinLine, Setup!Missing, Setup!Has
      <3> QED
        BY <3>1
    <2>3. CASE pin # Setup!None /\ pin \in Setup!Stores /\ SafePin(input, pin)
      <3>1. PICK b : b = <<"FROM_BROWSER", pin>>
        OBVIOUS
      <3>2. b \in Assignment /\ b[2] = pin
        BY <2>3, <3>1 DEF Assignment
      <3>3. second = Setup!Missing(b)
        BY <1>6, <2>3, <3>1 DEF Setup!PinLine
      <3> QED
        BY <2>3, <3>2, <3>3, MissingLine
    <2> QED
      BY <1>8, <2>1, <2>2, <2>3
  <1>10. PICK adds : adds = first \o second
    OBVIOUS
  <1>11. adds \in Seq(Assignment) /\ \A n \in 1..Len(adds) : Addition(input, adds[n])
    BY <1>4, <1>9, <1>10
  <1>12. Aim("auto") = a[1]
    BY <1>1 DEF Aim
  <1>13. a[1] \in Setup!KeysIn(output.lines) \/ \E n \in 1..Len(adds) : adds[n][1] = a[1]
    <2>1. CASE Len(first) = 1 /\ first[1] = a
      <3>1. 1 \in 1..Len(adds) /\ adds[1] = a
        BY <1>4, <1>9, <1>10, <2>1
      <3> QED
        BY <3>1
    <2> QED
      BY <1>4, <2>1
  <1> QED
    BY <1>7, <1>8, <1>10, <1>11, <1>12, <1>13, ReadEnvKept

(* What was there stays where it was, and what comes is an addition.                  *)
LEMMA Extended ==
    ASSUME SetupInv, NEW adds \in Seq(Assignment), \A n \in 1..Len(adds) : Addition(input, adds[n]),
           NEW lines, lines = [i \in 1..Len(adds) |-> <<adds[i]>>],
           NEW e, e = [lines |-> output.lines \o lines, whole |-> TRUE]
    PROVE  /\ EnvFine(input, e) /\ Setup!KeysIn(output.lines) \subseteq Setup!KeysIn(e.lines) /\ e.whole
           /\ \A n \in 1..Len(adds) : adds[n][1] \in Setup!KeysIn(e.lines)
  <1>1. PICK L : L = output.lines
    OBVIOUS
  <1>2. /\ L \in Seq(Seq(Assignment)) /\ Len(L) \in Nat /\ Len(adds) \in Nat
        /\ \A n \in 1..Len(L) : Len(L[n]) = 1
        /\ Len(OldLines(input)) \in Nat /\ Len(L) >= Len(OldLines(input))
        /\ \A n \in 1..Len(OldLines(input)) : L[n] = OldLines(input)[n]
        /\ \A n \in 1..Len(L) : n > Len(OldLines(input)) => Addition(input, L[n][1])
    <2>1. input.file.lines \in Seq(Seq(Assignment)) /\ output.lines \in Seq(Seq(Assignment))
      BY DEF SetupInv, EnvFine
    <2>2. Len(output.lines) \in Nat /\ Len(adds) \in Nat /\ Len(OldLines(input)) \in Nat
      BY <2>1 DEF OldLines
    <2> QED
      BY <1>1, <2>1, <2>2 DEF SetupInv, EnvFine
  <1>3. /\ lines \in Seq(Seq(Assignment)) /\ Len(lines) = Len(adds)
        /\ \A n \in 1..Len(adds) : lines[n] = <<adds[n]>>
    <2>1. \A n \in 1..Len(adds) : <<adds[n]>> \in Seq(Assignment)
      OBVIOUS
    <2> QED
      BY <1>2, <2>1
  <1>4. PICK M : M = L \o lines
    OBVIOUS
  <1>5. /\ M \in Seq(Seq(Assignment)) /\ Len(M) = Len(L) + Len(adds)
        /\ \A n \in 1..Len(L) : n \in 1..Len(M) /\ M[n] = L[n]
        /\ \A n \in 1..Len(adds) : Len(L) + n \in 1..Len(M) /\ M[Len(L) + n] = <<adds[n]>>
    BY <1>2, <1>3, <1>4
  <1>6. \A m \in 1..Len(M) : m \in 1..Len(L) \/ \E n \in 1..Len(adds) : m = Len(L) + n
    <2> SUFFICES ASSUME NEW m \in 1..Len(M), m \notin 1..Len(L) PROVE \E n \in 1..Len(adds) : m = Len(L) + n
      OBVIOUS
    <2>1. m - Len(L) \in 1..Len(adds) /\ m = Len(L) + (m - Len(L))
      BY <1>2, <1>5
    <2> QED
      BY <2>1
  <1>7. e.lines = M /\ e.whole = TRUE /\ e \in [lines : Seq(Seq(Assignment)), whole : BOOLEAN]
    BY <1>1, <1>4, <1>5
  <1>8. \A m \in 1..Len(M) : Len(M[m]) = 1 /\ (m > Len(OldLines(input)) => Addition(input, M[m][1]))
    <2> TAKE m \in 1..Len(M)
    <2>1. CASE m \in 1..Len(L)
      BY <1>2, <1>5, <2>1
    <2>2. CASE m \notin 1..Len(L)
      <3>1. PICK n \in 1..Len(adds) : m = Len(L) + n
        BY <1>6, <2>2
      <3>2. M[m] = <<adds[n]>>
        BY <1>5, <3>1
      <3>3. Len(M[m]) = 1 /\ M[m][1] = adds[n]
        BY <3>2
      <3> QED
        BY <3>3
    <2> QED
      BY <2>1, <2>2
  <1>9. \A n \in 1..Len(OldLines(input)) : M[n] = OldLines(input)[n]
    BY <1>2, <1>5
  <1>10. EnvFine(input, e)
    <2>1. Len(M) >= Len(OldLines(input))
      BY <1>2, <1>5
    <2>2. /\ Len(e.lines) >= Len(OldLines(input))
          /\ \A m \in 1..Len(e.lines) : Len(e.lines[m]) = 1
          /\ \A n \in 1..Len(OldLines(input)) : e.lines[n] = OldLines(input)[n]
          /\ \A m \in 1..Len(e.lines) : m > Len(OldLines(input)) => Addition(input, e.lines[m][1])
      BY <1>7, <1>8, <1>9, <2>1
    <2> QED
      BY <1>7, <2>2, Zenon DEF EnvFine
  <1>11. Setup!KeysIn(L) \subseteq Setup!KeysIn(M)
    <2> SUFFICES ASSUME NEW n \in 1..Len(L) PROVE L[n][1][1] \in Setup!KeysIn(M)
      BY DEF Setup!KeysIn
    <2> QED
      BY <1>5 DEF Setup!KeysIn
  <1>12. \A n \in 1..Len(adds) : adds[n][1] \in Setup!KeysIn(M)
    <2> TAKE n \in 1..Len(adds)
    <2>1. PICK m \in 1..Len(M) : M[m] = <<adds[n]>>
      BY <1>5
    <2>2. M[m][1] = adds[n]
      BY <2>1
    <2>3. M[m][1][1] \in Setup!KeysIn(M)
      BY DEF Setup!KeysIn
    <2> QED
      BY <2>2, <2>3
  <1> QED
    BY <1>1, <1>7, <1>10, <1>11, <1>12

LEMMA AppendKept == ASSUME SetupInv, NEW p \in Process, Setup!AppendEnv(p) PROVE SetupInv'
  <1>1. PICK x : x = s3[p]
    OBVIOUS
  <1>2. /\ RowFine(input, input.command[p], x, output, s1, s2) /\ x.pc = "appending"
        /\ Appending(input, input.command[p], x, output) /\ UNCHANGED <<input, s1, s2>>
    BY <1>1 DEF SetupInv, RowFine, Setup!AppendEnv, Setup!At
  <1>3. PICK new :
            /\ s3' = [s3 EXCEPT ![p] = Setup!Over(new, s3[p])]
            /\ DOMAIN new = {"pc", "persisted"} /\ new.pc = "done"
            /\ (output' = Setup!Appended(x.adds, x.whole) \/ (~new.persisted /\ output' = output))
    <2>1. CASE output' = Setup!Appended(x.adds, x.whole) /\ Setup!Step(p, [pc |-> "done", persisted |-> TRUE])
      <3>1. PICK new : new = [pc |-> "done", persisted |-> TRUE]
        OBVIOUS
      <3>2. s3' = [s3 EXCEPT ![p] = Setup!Over(new, s3[p])]
        BY <2>1, <3>1 DEF Setup!Step
      <3>3. DOMAIN new = {"pc", "persisted"} /\ new.pc = "done"
        BY <3>1
      <3> QED
        BY <2>1, <3>2, <3>3
    <2>2. CASE output' = output /\ Setup!Step(p, [pc |-> "done", persisted |-> FALSE])
      <3>1. PICK new : new = [pc |-> "done", persisted |-> FALSE]
        OBVIOUS
      <3>2. s3' = [s3 EXCEPT ![p] = Setup!Over(new, s3[p])]
        BY <2>2, <3>1 DEF Setup!Step
      <3>3. DOMAIN new = {"pc", "persisted"} /\ new.pc = "done" /\ ~new.persisted
        BY <3>1
      <3> QED
        BY <2>2, <3>2, <3>3
    <2> QED
      BY <1>1, <2>1, <2>2 DEF Setup!AppendEnv
  <1>5. PICK d : d = Setup!Over(new, x)
    OBVIOUS
  <1>6. /\ RowFields \subseteq DOMAIN d /\ d.pc = "done" /\ d.code = x.code /\ d.stuck = x.stuck
        /\ d.persisted = new.persisted
    BY <1>2, <1>3, <1>5, LaidOver DEF RowFine, RowFields
  <1>7. s3' = [s3 EXCEPT ![p] = d]
    BY <1>1, <1>3, <1>5
  <1>8. CASE ~new.persisted /\ output' = output
    <2>1. RowFine(input, input.command[p], d, output, s1, s2)
      BY <1>2, <1>6, <1>8 DEF RowFine, Phases
    <2> QED
      BY <1>1, <1>2, <1>3, <1>6, <1>7, <1>8, <2>1, SameCode
  <1>9. CASE output' = Setup!Appended(x.adds, x.whole)
    <2>1. PICK adds : adds = x.adds
      OBVIOUS
    <2>2. /\ adds \in Seq(Assignment) /\ \A n \in 1..Len(adds) : Addition(input, adds[n])
          /\ (x.whole => output.whole)
          /\ (Aim(input.command[p]) \in Setup!KeysIn(output.lines)
              \/ \E n \in 1..Len(adds) : adds[n][1] = Aim(input.command[p]))
      BY <1>2, <2>1 DEF Appending
    <2>3. PICK lines : lines = [i \in 1..Len(adds) |-> <<adds[i]>>]
      OBVIOUS
    <2>4. PICK e : e = [lines |-> output.lines \o lines, whole |-> TRUE]
      OBVIOUS
    <2>5. output' = e
      BY <1>3, <1>9, <2>1, <2>2, <2>3, <2>4 DEF Setup!Appended
    <2>6. /\ EnvFine(input, e) /\ Setup!KeysIn(output.lines) \subseteq Setup!KeysIn(e.lines) /\ e.whole
          /\ \A n \in 1..Len(adds) : adds[n][1] \in Setup!KeysIn(e.lines)
      BY <2>2, <2>3, <2>4, Extended
    <2>7. Aim(input.command[p]) \in Setup!KeysIn(e.lines)
      BY <2>2, <2>6
    <2>8. RowFine(input, input.command[p], d, e, s1, s2)
      BY <1>2, <1>6, <2>7 DEF RowFine, Phases
    <2>9. \A q \in Process : q # p /\ s3[q].pc \in {"saving", "written"} => s3[q].code # d.code
      BY <1>1, <1>6 DEF SetupInv, Apart
    <2>10. Carried(p, d, e, s1, s2)
      BY <1>6, <2>6, <2>8, <2>9 DEF Carried, SetupInv
    <2> QED
      BY <1>2, <1>7, <2>5, <2>10, OneCommand
  <1> QED
    BY <1>3, <1>8, <1>9

(* The browser that answers, of the three that are asked when nothing is pinned.        *)
LEMMA SomeStore ==
    ASSUME NEW stores
    PROVE  Setup!FoundIn(Setup!Chromium \o Setup!SilentBrowsers, stores) \in Setup!Stores \cup {Setup!None}
  <1>1. PICK all : all = Setup!Chromium \o Setup!SilentBrowsers
    OBVIOUS
  <1>2. DOMAIN all = 1..3 /\ \A n \in 1..3 : all[n] \in Setup!KnownBrowsers
    BY <1>1 DEF Setup!Chromium, Setup!SilentBrowsers, Setup!KnownBrowsers
  <1>3. PICK Y : Y = Setup!Yielding(all, stores)
    OBVIOUS
  <1>4. Y \subseteq 1..3
    BY <1>2, <1>3 DEF Setup!Yielding
  <1>5. CASE Y = {}
    BY <1>1, <1>3, <1>5 DEF Setup!FoundIn, Setup!None
  <1>6. CASE Y # {}
    <2>1. \E n \in Y : \A m \in Y : n <= m
      <3>1. \A m \in Y : m = 1 \/ m = 2 \/ m = 3
        BY <1>4
      <3>2. CASE 1 \in Y
        BY <3>1, <3>2
      <3>3. CASE 1 \notin Y /\ 2 \in Y
        BY <3>1, <3>3
      <3>4. CASE 1 \notin Y /\ 2 \notin Y
        BY <1>6, <3>1, <3>4
      <3> QED
        BY <3>2, <3>3, <3>4
    <2>2. PICK n : n = CHOOSE i \in Y : \A j \in Y : i <= j
      OBVIOUS
    <2>3. n \in 1..3
      BY <1>4, <2>1, <2>2
    <2>4. Setup!FirstYielding(all, stores) = all[n]
      BY <1>3, <2>2 DEF Setup!FirstYielding
    <2>5. Setup!StoreOf(all[n], stores) \in Setup!Stores
      BY <1>2, <2>3 DEF Setup!StoreOf, Setup!Stores
    <2>6. Setup!FoundIn(all, stores) = Setup!StoreOf(all[n], stores)
      BY <1>3, <1>6, <2>4 DEF Setup!FoundIn
    <2> QED
      BY <1>1, <2>5, <2>6
  <1> QED
    BY <1>5, <1>6

(* A browser the later runs know is one they read.                               *)
LEMMA ReadLater ==
    ASSUME NEW b \in Setup!KnownBrowsers
    PROVE  Setup!CookieExtractionBrowsers(<<b>>) # <<>>
  <1>1. PICK one : one = <<b>>
    OBVIOUS
  <1>2. Setup!Known(one) = {1} /\ one # <<"auto">>
    BY <1>1 DEF Setup!Known, Setup!KnownBrowsers
  <1>3. Setup!Cardinality({1}) = Cardinality({1}) /\ Cardinality({1}) = 1
    BY FS_Singleton DEF Setup!Cardinality, Cardinality, Setup!IsFiniteSet, IsFiniteSet
  <1>4. PICK read : read = [n \in 1..1 |-> one[Setup!InOrder(Setup!Known(one))[n]]]
    OBVIOUS
  <1>5. Setup!CookieExtractionBrowsers(one) = read
    BY <1>2, <1>3, <1>4 DEF Setup!CookieExtractionBrowsers
  <1>6. 1 \in DOMAIN read /\ DOMAIN <<>> = {}
    BY <1>4
  <1>7. read # <<>>
    BY <1>6
  <1> QED
    BY <1>1, <1>5, <1>7

(* A pin names the one browser every service's cookies were found in.               *)
LEMMA PinFound ==
    ASSUME SetupInv, NEW b, b = Setup!Pin
    PROVE  \/ b = Setup!None \/ "FROM_BROWSER" \in Setup!KeysIn(output.lines)
           \/ (b \in Setup!Stores /\ SafePin(input, b))
  <1> SUFFICES ASSUME b # Setup!None, "FROM_BROWSER" \notin Setup!KeysIn(output.lines)
               PROVE  b \in Setup!Stores /\ SafePin(input, b)
    OBVIOUS
  <1>1. Setup!Settings = {}
    BY DEF Setup!Settings, Setup!KeysIn
  <1>2. PICK all : all = Setup!Chromium \o Setup!SilentBrowsers
    OBVIOUS
  <1>3. Setup!Browsers = all
    BY <1>1, <1>2 DEF Setup!Browsers
  <1>4. PICK F : F = {Setup!FoundIn(all, input.stores[s]) : s \in Setup!Service} \ {Setup!None}
    OBVIOUS
  <1>5. Setup!Found = F
    BY <1>3, <1>4 DEF Setup!Found
  <1>6. PICK c \in F \ {"chrome"} : F = {c}
    BY <1>5 DEF Setup!Pin
  <1>7. b = c
    <2>1. b = CHOOSE x \in F : TRUE
      BY <1>5, <1>6 DEF Setup!Pin
    <2> QED
      BY <1>6, <2>1
  <1>8. \A s \in Setup!Service : Setup!FoundIn(all, input.stores[s]) \in {b, Setup!None}
    BY <1>4, <1>6, <1>7
  <1>9. b \in Setup!Stores /\ b # "chrome"
    <2>1. PICK s \in Setup!Service : b = Setup!FoundIn(all, input.stores[s])
      BY <1>4, <1>6, <1>7
    <2>2. PICK st : st = input.stores[s]
      OBVIOUS
    <2>3. Setup!FoundIn(all, st) \in Setup!Stores \cup {Setup!None}
      BY <1>2, SomeStore
    <2> QED
      BY <1>6, <1>7, <2>1, <2>2, <2>3
  <1>10. b # "firefox-wsl" => Setup!CookieExtractionBrowsers(<<b>>) # <<>>
    BY <1>9, ReadLater DEF Setup!Stores
  <1> QED
    BY <1>2, <1>8, <1>9, <1>10 DEF SafePin

LEMMA AutoKept == ASSUME SetupInv, NEW p \in Process, Setup!AutoSetup(p) PROVE SetupInv'
  <1>1. PICK x : x = s3[p]
    OBVIOUS
  <1>2. /\ RowFine(input, input.command[p], x, output, s1, s2) /\ x.pc = "idle" /\ input.command[p] = "auto"
        /\ UNCHANGED <<input, output, s1, s2>>
    BY <1>1 DEF SetupInv, Setup!AutoSetup, Setup!At, Setup!Command
  <1>3. PICK b : b = Setup!Pin
    OBVIOUS
  <1>4. PICK new : new = [pc |-> "found", pin |-> b, status |-> "auto"]
    OBVIOUS
  <1>5. DOMAIN new = {"pc", "pin", "status"} /\ new.pc = "found" /\ new.pin = b
    BY <1>4
  <1>6. PICK d : d = Setup!Over(new, x)
    OBVIOUS
  <1>7. /\ RowFields \subseteq DOMAIN d /\ d.pc = "found" /\ d.code = x.code /\ d.persisted = x.persisted
        /\ d.pin = b
    BY <1>2, <1>5, <1>6, LaidOver DEF RowFine, RowFields
  <1>8. \/ b = Setup!None \/ "FROM_BROWSER" \in Setup!KeysIn(output.lines)
        \/ (b \in Setup!Stores /\ SafePin(input, b))
    BY <1>3, PinFound
  <1>9. RowFine(input, input.command[p], d, output, s1, s2)
    BY <1>2, <1>7, <1>8 DEF RowFine, Phases
  <1>10. s3' = [s3 EXCEPT ![p] = d]
    BY <1>1, <1>3, <1>4, <1>6 DEF Setup!AutoSetup, Setup!Step
  <1> QED
    BY <1>1, <1>2, <1>7, <1>9, <1>10, SameCode

LEMMA GrantKept ==
    ASSUME SetupInv, (\E c \in Code : Setup!Grant(c)) \/ UNCHANGED <<input, output, s1, s2, s3>>
    PROVE  SetupInv'
  <1>1. UNCHANGED <<input, output, s1, s3>>
    BY DEF Setup!Grant
  <1>2. DOMAIN s2' = Code /\ \A c \in Code : s2[c] # "unissued" => s2'[c] # "unissued"
    BY DEF SetupInv, Setup!Grant
  <1>3. EnvFine(input', input'.file) /\ EnvFine(input', output')
    BY <1>1 DEF SetupInv
  <1>4. DOMAIN s3' = Process /\ Apart(s3')
    BY <1>1 DEF SetupInv
  <1>5. s1' \in Code => s2'[s1'] # "unissued"
    BY <1>1, <1>2 DEF SetupInv
  <1>6. \A p \in Process : RowFine(input', input'.command[p], s3'[p], output', s1', s2')
    <2> SUFFICES ASSUME NEW p \in Process PROVE RowFine(input, input.command[p], s3[p], output, s1, s2')
      BY <1>1
    <2>1. RowFine(input, input.command[p], s3[p], output, s1, s2)
      BY DEF SetupInv
    <2> QED
      BY <1>2, <2>1 DEF RowFine
  <1> QED
    BY <1>2, <1>3, <1>4, <1>5, <1>6, Zenon DEF SetupInv, EnvFine, OldLines, Addition, Assignment, SafePin,
       RowFine, Appending, Apart, Aim, Phases, RowFields, Setup!KeysIn, Setup!None, Setup!ApiKey,
       Setup!SetupComplete, Setup!Service, Setup!Chromium, Setup!SilentBrowsers, Setup!FoundIn,
       Setup!CookieExtractionBrowsers, Setup!Yielding, Setup!FirstYielding, Setup!StoreOf, Setup!Extracted,
       Setup!Known, Setup!InOrder, Setup!KnownBrowsers, Setup!Stores, Setup!Cardinality, Setup!IsFiniteSet

LEMMA SetupSteps ==
    ASSUME SetupInv, Setup!Next \/ UNCHANGED <<input, output, s1, s2, s3>>
    PROVE  SetupInv'
  <1>1. CASE \E p \in Process : Setup!Advance(p)
    <2>1. PICK p \in Process : Setup!Advance(p)
      BY <1>1
    <2>2. CASE \E c \in Code : Setup!StartFlow(p, c)
      BY <2>2, StartFlowKept
    <2>3. CASE \/ Setup!AlreadyRegistered(p) \/ Setup!StartFails(p) \/ Setup!PollTimesOut(p)
               \/ Setup!FetchApiKey(p) \/ Setup!PollRaises(p)
      BY <2>3, EndKept
    <2>4. CASE Setup!SaveHandle(p) \/ Setup!HandleSaved(p) \/ Setup!Cleanup(p)
      BY <2>4, HandleKept
    <2>5. CASE Setup!ReadHandle(p) \/ Setup!Ask(p)
      BY <2>5, ReadHandleKept, AskKept
    <2>6. CASE Setup!WriteApiKey(p) \/ Setup!AppendEnv(p) \/ Setup!AutoSetup(p) \/ Setup!WriteSetupConfig(p)
      BY <2>6, WriteApiKeyKept, AppendKept, AutoKept, WriteSetupKept
    <2> QED
      BY <2>1, <2>2, <2>3, <2>4, <2>5, <2>6, Zenon DEF Setup!Advance
  <1> QED
    BY <1>1, GrantKept DEF Setup!Next

LEMMA SetupStarts == ASSUME Setup!Init PROVE SetupInv
  <1>1. PICK scenario \in Scenarios, command \in [Process -> {"start", "poll", "full", "auto"}] :
            input = [command |-> command, stores |-> scenario.stores, file |-> scenario.file]
    BY DEF Setup!Init
  <1>2. /\ input.file = output /\ input.file.lines = output.lines
        /\ \A p \in Process : input.command[p] \in {"start", "poll", "full", "auto"}
    BY <1>1 DEF Setup!Init
  <1>3. /\ scenario.file \in [lines : Seq(Seq(STRING \X STRING)), whole : BOOLEAN]
        /\ \A i \in 1..Len(scenario.file.lines) : Len(scenario.file.lines[i]) = 1
    BY SetupAssumption DEF Setup!SetupAssumption
  <1>4. PICK L : L = output.lines
    OBVIOUS
  <1>5. /\ L \in Seq(Seq(STRING \X STRING)) /\ Len(L) \in Nat /\ \A i \in 1..Len(L) : Len(L[i]) = 1
        /\ output \in [lines : Seq(Seq(STRING \X STRING)), whole : BOOLEAN]
    BY <1>1, <1>2, <1>3, <1>4
  <1>6. L \in Seq(Seq(Assignment))
    <2>1. \A s \in Seq(STRING \X STRING) : s \in Seq(Assignment)
      BY DEF Assignment
    <2> QED
      BY <1>5, <2>1
  <1>7. output \in [lines : Seq(Seq(Assignment)), whole : BOOLEAN]
    BY <1>4, <1>5, <1>6
  <1>8. EnvFine(input, output) /\ EnvFine(input, input.file)
    BY <1>2, <1>4, <1>5, <1>7 DEF EnvFine, OldLines
  <1>9. PICK r : r = Setup!Idle
    OBVIOUS
  <1>10. RowFields \subseteq DOMAIN r /\ r.pc = "idle" /\ r.code = Setup!None /\ ~r.persisted
    BY <1>9 DEF Setup!Idle, RowFields
  <1>11. s3 = [p \in Process |-> r]
    BY <1>9 DEF Setup!Init
  <1>12. \A p \in Process : RowFine(input, input.command[p], s3[p], output, s1, s2)
    BY <1>10, <1>11 DEF RowFine, Phases
  <1>13. Apart(s3)
    BY <1>10, <1>11 DEF Apart
  <1>14. DOMAIN s2 = Code /\ (s1 \in Code => s2[s1] # "unissued")
    BY DEF Setup!Init
  <1> QED
    BY <1>8, <1>11, <1>12, <1>13, <1>14 DEF SetupInv

LEMMA SetupTells == ASSUME SetupInv PROVE Setup!EnvKept /\ Setup!SpentCodeGone /\ Setup!PinIsSafe
  <1>1. /\ input.file.lines \in Seq(Seq(Assignment)) /\ output.lines \in Seq(Seq(Assignment))
        /\ OldLines(input) = input.file.lines
    BY DEF SetupInv, EnvFine, OldLines
  <1>2. PICK old : old = input.file.lines
    OBVIOUS
  <1>3. PICK L : L = output.lines
    OBVIOUS
  <1>4. /\ Len(L) >= Len(old) /\ \A n \in 1..Len(old) : L[n] = old[n]
        /\ \A n \in 1..Len(L) : Len(L[n]) = 1 /\ (n > Len(old) => Addition(input, L[n][1]))
        /\ Len(L) \in Nat /\ Len(old) \in Nat
    BY <1>1, <1>2, <1>3 DEF SetupInv, EnvFine
  <1>5. SubSeq(L, 1, Len(old)) = old
    <2>1. PICK S : S = SubSeq(L, 1, Len(old))
      OBVIOUS
    <2>2. S \in Seq(Seq(Assignment)) /\ Len(S) = Len(old) /\ \A n \in 1..Len(old) : S[n] = old[n]
      BY <1>1, <1>2, <1>3, <1>4, <2>1
    <2> QED
      BY <1>1, <1>2, <2>1, <2>2
  <1>6. \A n \in Len(old) + 1..Len(L) : L[n][1][1] \notin Setup!KeysIn(old)
    BY <1>1, <1>2, <1>4 DEF Addition
  <1>7. \A p \in Process : s3[p].persisted =>
            IF input.command[p] = "auto" THEN Setup!Has(Setup!SetupComplete) ELSE Setup!Has(Setup!ApiKey)
    BY DEF SetupInv, RowFine, Aim, Setup!Has
  <1>8. Setup!EnvKept
    BY <1>2, <1>3, <1>4, <1>5, <1>6, <1>7 DEF Setup!EnvKept, Setup!Command
  <1>9. Setup!SpentCodeGone
    BY DEF Setup!SpentCodeGone, SetupInv, RowFine, Setup!Command, Setup!At
  <1>10. \A a \in Setup!Written : a[1] = "FROM_BROWSER" => SafePin(input, a[2])
    <2> SUFFICES ASSUME NEW n \in Len(old) + 1..Len(L), L[n][1][1] = "FROM_BROWSER"
                 PROVE  SafePin(input, L[n][1][2])
      BY <1>2, <1>3 DEF Setup!Written
    <2>1. n \in 1..Len(L) /\ n > Len(old)
      BY <1>4
    <2>2. Addition(input, L[n][1])
      BY <1>4, <2>1
    <2> QED
      BY <2>2 DEF Addition
  <1>11. Setup!PinIsSafe
    BY <1>10, Zenon DEF Setup!PinIsSafe, SafePin
  <1> QED
    BY <1>8, <1>9, <1>11

-----------------------------------------------------------------------------
(* The settings are a function of the layers, the policy and the cookies.            *)
InputFields == {"process", "project", "user", "keychain", "pass", "mode", "allow", "from", "stores", "bird", "xurl"}
SettingsInv ==
    /\ DOMAIN input = InputFields
    /\ output.end \in {"none", "loaded", "resolved"}
    /\ (output.end # "none" => output.config = Configuring!GetConfig(input))
    /\ (output.end = "resolved" => output.pending = Configuring!XPendingBrowserAuth(input, output.config))

(* Two inputs whose layers hold the same where they are read give the same settings.    *)
LEMMA SameLayers ==
    ASSUME NEW i, NEW j,
           \A key : \A n \in 1..5 : (key \in i[Configuring!Layers[n]]
                                   /\ (Configuring!Layers[n] = "project" => Configuring!ProjectConfigTrusted(i)))
                              <=> (key \in j[Configuring!Layers[n]]
                                   /\ (Configuring!Layers[n] = "project" => Configuring!ProjectConfigTrusted(j)))
    PROVE  Configuring!Merged(i) = Configuring!Merged(j)
  <1>1. \A key \in Configuring!Option : Configuring!Holding(i, key) = Configuring!Holding(j, key)
    BY DEF Configuring!Holding
  <1> QED
    BY <1>1, Zenon DEF Configuring!Merged

LEMMA LayersRead ==
    /\ Configuring!Layers = <<"process", "project", "user", "keychain", "pass">>
    /\ \A n \in 1..5 : Configuring!Layers[n] \in {"process", "project", "user", "keychain", "pass"}
  BY DEF Configuring!Layers

LEMMA SettingsSteps ==
    ASSUME SettingsInv, Configuring!Next \/ UNCHANGED <<input, output>>
    PROVE  SettingsInv'
  <1>1. CASE Configuring!Load
    <2>1. PICK config : config = Configuring!GetConfig(input)
      OBVIOUS
    <2>2. PICK out : out = [end |-> "loaded", config |-> config]
      OBVIOUS
    <2>3. out.end = "loaded" /\ out.config = config
      BY <2>2
    <2>4. output' = out /\ input' = input
      BY <1>1, <2>1, <2>2 DEF Configuring!Load
    <2>5. /\ DOMAIN input' = InputFields /\ output'.end = "loaded"
          /\ output'.config = Configuring!GetConfig(input)
      BY <2>1, <2>3, <2>4 DEF SettingsInv
    <2> QED
      BY <2>4, <2>5 DEF SettingsInv, InputFields
  <1>2. CASE Configuring!Resolve
    <2>1. PICK config : config = output.config
      OBVIOUS
    <2>2. PICK pending : pending = Configuring!XPendingBrowserAuth(input, config)
      OBVIOUS
    <2>3. PICK chain : chain = Configuring!XBackendChain(input, config)
      OBVIOUS
    <2>4. PICK out : out = [end |-> "resolved", config |-> config, chain |-> chain, pending |-> pending]
      OBVIOUS
    <2>5. out.end = "resolved" /\ out.config = config /\ out.pending = pending
      BY <2>4
    <2>6. output' = out /\ input' = input
      BY <1>2, <2>1, <2>2, <2>3, <2>4 DEF Configuring!Resolve
    <2>7. config = Configuring!GetConfig(input)
      BY <1>2, <2>1 DEF SettingsInv, Configuring!Resolve
    <2> QED
      BY <2>2, <2>5, <2>6, <2>7 DEF SettingsInv, InputFields
  <1>3. CASE UNCHANGED <<input, output>>
    BY <1>3 DEF SettingsInv, InputFields
  <1> QED
    BY <1>1, <1>2, <1>3 DEF Configuring!Next

LEMMA SettingsStart == ASSUME Configuring!Init PROVE SettingsInv
  <1>1. DOMAIN input = InputFields
    BY DEF Configuring!Init, InputFields
  <1>2. PICK out : out = [end |-> "none"]
    OBVIOUS
  <1>3. out.end = "none"
    BY <1>2
  <1>4. output.end = "none"
    BY <1>2, <1>3 DEF Configuring!Init
  <1> QED
    BY <1>1, <1>4 DEF SettingsInv

LEMMA SettingsUntrusted == ASSUME SettingsInv PROVE Configuring!UntrustedSilent
  <1>1. PICK j : j = [input EXCEPT !.project = {}]
    OBVIOUS
  <1>2. /\ j.process = input.process /\ j.project = {} /\ j.user = input.user /\ j.keychain = input.keychain
        /\ j.pass = input.pass /\ j.mode = input.mode /\ j.allow = input.allow /\ j.from = input.from
        /\ j.stores = input.stores
    BY <1>1 DEF SettingsInv, InputFields
  <1> SUFFICES ASSUME output.end = "loaded", ~Configuring!ProjectConfigTrusted(j)
               PROVE  output.config = Configuring!GetConfig(j)
    BY <1>1 DEF Configuring!UntrustedSilent
  <1>3. ~Configuring!ProjectConfigTrusted(input)
    BY <1>2 DEF Configuring!ProjectConfigTrusted
  <1>4. Configuring!Merged(input) = Configuring!Merged(j)
    <2>1. \A n \in 1..5 : Configuring!Layers[n] # "project" => input[Configuring!Layers[n]] = j[Configuring!Layers[n]]
      BY <1>2, LayersRead
    <2>2. \A key : \A n \in 1..5 :
             (key \in input[Configuring!Layers[n]]
                /\ (Configuring!Layers[n] = "project" => Configuring!ProjectConfigTrusted(input)))
             <=> (key \in j[Configuring!Layers[n]]
                    /\ (Configuring!Layers[n] = "project" => Configuring!ProjectConfigTrusted(j)))
      BY <1>3, <2>1
    <2> QED
      BY <2>2, SameLayers
  <1>5. Configuring!GetConfig(input) = Configuring!GetConfig(j)
    <2>1. PICK config : config = Configuring!Merged(input)
      OBVIOUS
    <2>2. Configuring!BrowserCredentials(input, config) = Configuring!BrowserCredentials(j, config)
      BY <1>2, Zenon DEF Configuring!BrowserCredentials, Configuring!Browsers
    <2> QED
      BY <1>2, <1>4, <2>1, <2>2, Zenon DEF Configuring!GetConfig
  <1> QED
    BY <1>5 DEF SettingsInv

LEMMA SettingsInspect == ASSUME SettingsInv PROVE Configuring!InspectionReadsNoCookies
  <1> SUFFICES ASSUME output.end = "loaded", input.mode # "read", NEW stores \in CookieStores
               PROVE  output.config = Configuring!GetConfig([input EXCEPT !.stores = stores])
    BY DEF Configuring!InspectionReadsNoCookies
  <1>1. PICK j : j = [input EXCEPT !.stores = stores]
    OBVIOUS
  <1>2. /\ j.process = input.process /\ j.project = input.project /\ j.user = input.user
        /\ j.keychain = input.keychain /\ j.pass = input.pass /\ j.mode = input.mode /\ j.allow = input.allow
    BY <1>1 DEF SettingsInv, InputFields
  <1>3. Configuring!Merged(input) = Configuring!Merged(j)
    <2>1. \A n \in 1..5 : input[Configuring!Layers[n]] = j[Configuring!Layers[n]]
      BY <1>2, LayersRead
    <2>2. Configuring!ProjectConfigTrusted(input) <=> Configuring!ProjectConfigTrusted(j)
      BY <1>2 DEF Configuring!ProjectConfigTrusted
    <2> QED
      BY <2>1, <2>2, SameLayers
  <1>4. Configuring!GetConfig(input) = Configuring!GetConfig(j)
    BY <1>2, <1>3, Zenon DEF Configuring!GetConfig
  <1> QED
    BY <1>1, <1>4 DEF SettingsInv

LEMMA SettingsPending == ASSUME SettingsInv PROVE Configuring!PendingComesTrue
  <1>1. PICK config : config = output.config
    OBVIOUS
  <1>2. PICK run : run = [input EXCEPT !.mode = "read"]
    OBVIOUS
  <1>3. PICK found : found = Configuring!FoundCookies(Configuring!Browsers(input, config), input.stores)
    OBVIOUS
  <1> SUFFICES ASSUME output.end = "resolved", output.pending, config["LAST30DAYS_X_BACKEND"] = "none",
                      found = Configuring!Token
               PROVE  Configuring!XBackendChain(run, Configuring!GetConfig(run)) # <<>>
    BY <1>1, <1>2, <1>3 DEF Configuring!PendingComesTrue
  <1>4. input.mode # "read" /\ input.bird /\ config = Configuring!GetConfig(input)
    BY <1>1 DEF SettingsInv, Configuring!XPendingBrowserAuth
  <1>5. /\ run.process = input.process /\ run.project = input.project /\ run.user = input.user
        /\ run.keychain = input.keychain /\ run.pass = input.pass /\ run.allow = input.allow
        /\ run.mode = "read" /\ run.from = input.from /\ run.stores = input.stores /\ run.bird = input.bird
    BY <1>2 DEF SettingsInv, InputFields
  <1>6. Configuring!Merged(run) = config
    <2>1. \A n \in 1..5 : input[Configuring!Layers[n]] = run[Configuring!Layers[n]]
      BY <1>5, LayersRead
    <2>2. Configuring!ProjectConfigTrusted(input) <=> Configuring!ProjectConfigTrusted(run)
      BY <1>5 DEF Configuring!ProjectConfigTrusted
    <2>3. Configuring!Merged(run) = Configuring!Merged(input)
      BY <2>1, <2>2, SameLayers
    <2> QED
      BY <1>4, <2>3, Zenon DEF Configuring!GetConfig
  <1>7. PICK filled : filled = Configuring!BrowserCredentials(run, config)
    OBVIOUS
  <1>8. /\ filled \subseteq Configuring!Token
        /\ \A key \in Configuring!Token : key \in filled \/ config[key] # "none"
    <2>1. Configuring!Browsers(run, config) = Configuring!Browsers(input, config)
      BY <1>5, Zenon DEF Configuring!Browsers
    <2>2. Configuring!FoundCookies(Configuring!Browsers(run, config), run.stores) = Configuring!Token
      BY <1>3, <1>5, <2>1
    <2>3. filled = IF \A key \in Configuring!Token : config[key] # "none" THEN {}
                   ELSE {key \in Configuring!Token : config[key] = "none"}
      BY <1>7, <2>2, Zenon DEF Configuring!BrowserCredentials
    <2> QED
      BY <2>3
  <1>9. PICK got : got = Configuring!GetConfig(run)
    OBVIOUS
  <1>10. got = [key \in Configuring!Option |-> IF key \in filled THEN "browser" ELSE config[key]]
    BY <1>5, <1>6, <1>7, <1>9, Zenon DEF Configuring!GetConfig
  <1>11. \A key \in Configuring!Token : got[key] # "none"
    BY <1>8, <1>10 DEF Configuring!Option, Configuring!Secret
  <1>12. got["LAST30DAYS_X_BACKEND"] = "none"
    <2>1. "LAST30DAYS_X_BACKEND" \in Configuring!Option /\ "LAST30DAYS_X_BACKEND" \notin filled
      BY <1>8 DEF Configuring!Option, Configuring!Token
    <2> QED
      BY <1>10, <2>1
  <1>13. Configuring!XBackendAvailable(run, got, "bird")
    BY <1>4, <1>5, <1>11 DEF Configuring!XBackendAvailable, Configuring!BirdCredentials
  <1>14. Configuring!IfAvailable(run, got, "bird") = <<"bird">>
    BY <1>13 DEF Configuring!IfAvailable
  <1>15. PICK a, b : /\ a = Configuring!IfAvailable(run, got, "xai") /\ b = Configuring!IfAvailable(run, got, "xurl")
                     /\ Configuring!XBackendChain(run, got) = a \o <<"bird">> \o b
    BY <1>12, <1>14 DEF Configuring!XBackendChain
  <1>16. a \in {<<>>, <<"xai">>} /\ b \in {<<>>, <<"xurl">>}
    BY <1>15 DEF Configuring!IfAvailable
  <1>17. a \o <<"bird">> \o b # <<>>
    BY <1>16
  <1> QED
    BY <1>9, <1>15, <1>17

(* However the commands of a setup interleave, the user's lines stay, each new line is    *)
(* sound, a spent device code is gone and a pin is safe; a project that is not trusted    *)
(* is silent, an inspection reads no cookies, and an X that is announced comes.         *)
THEOREM SettingsStay == EngineSpec => []SettingsKept
  <1> DEFINE Inv == /\ part = "settings" => SettingsInv
                    /\ part = "setup" => SetupInv
  <1>1. EngineInit => Inv
    BY SettingsStart, SetupStarts DEF EngineInit
  <1>2. Inv /\ [EngineNext]_engine => Inv'
    <2> SUFFICES ASSUME Inv, [EngineNext]_engine
                 PROVE  (part' = "settings" => SettingsInv') /\ (part' = "setup" => SetupInv')
      OBVIOUS
    <2>1. part' = part
      BY SamePart
    <2>2. ASSUME part = "settings" PROVE SettingsInv'
      <3>1. Configuring!Next \/ UNCHANGED <<input, output>>
        BY <2>2 DEF EngineNext, HttpStep, OnOne, engine
      <3> QED
        BY <2>2, <3>1, SettingsSteps
    <2>3. ASSUME part = "setup" PROVE SetupInv'
      <3>1. Setup!Next \/ UNCHANGED <<input, output, s1, s2, s3>>
        BY <2>3 DEF EngineNext, HttpStep, OnOne, engine
      <3> QED
        BY <2>3, <3>1, SetupSteps
    <2> QED
      BY <2>1, <2>2, <2>3
  <1>3. Inv => SettingsKept
    BY SettingsUntrusted, SettingsInspect, SettingsPending, SetupTells DEF SettingsKept
  <1> QED
    BY <1>1, <1>2, <1>3, PTL DEF EngineSpec

-----------------------------------------------------------------------------
(* The token bucket keeps its promise for every number of threads, every burst and  *)
(* every length of a run.  Nobody looks at the bucket from the future.                              *)
LimiterClock == s2.last <= s1 /\ s2.tokens <= Capacity
(* What was let through since a call and what is in the bucket together fit     *)
(* into the burst and the refill since that call.                           *)
LimiterBudget == \A i \in 1..Len(s4) :
            /\ s4[i] <= s2.last
            /\ s2.tokens + (Len(s4) - i + 1) <= Capacity + (s2.last - s4[i])
LimiterInv == Limiter!TypeOK /\ LimiterClock /\ LimiterBudget /\ Limiter!NoStampede

LEMMA RefilledBounds ==
    ASSUME Limiter!CapacityAssumption, Limiter!TypeOK, LimiterClock
    PROVE  /\ Limiter!Refilled \in Nat
           /\ Limiter!Refilled <= Capacity
           /\ Limiter!Refilled <= s2.tokens + (s1 - s2.last)
  BY DEF Limiter!CapacityAssumption, Limiter!TypeOK, LimiterClock, Limiter!Refilled, Limiter!Least

(* The arithmetic of a refill: time that passes adds at most as much to the     *)
(* bucket as it adds to what a stretch may let through.                      *)
LEMMA RefillArithmetic ==
    ASSUME NEW c \in Nat, NEW r \in Nat, NEW b \in Nat, NEW l \in Nat, NEW w \in Nat,
           NEW g \in Nat, NEW d \in Int,
           r <= b + (w - l), g <= l, l <= w, b + d <= c + (l - g)
    PROVE  g <= w /\ r + d <= c + (w - g)
  OBVIOUS

LEMMA GrantArithmetic ==
    ASSUME NEW c \in Nat, NEW r \in Nat, NEW w \in Nat, NEW g \in Nat,
           NEW k \in Nat, NEW i \in Nat,
           r + (k - i + 1) <= c + (w - g), r >= 1
    PROVE  (k + 1) - i + 1 <= c + (w - g)
  OBVIOUS

LEMMA LimiterStarts ==
    ASSUME Limiter!CapacityAssumption
    PROVE  Limiter!Init => LimiterInv
  BY DEF Limiter!CapacityAssumption, Limiter!Init, LimiterInv, Limiter!TypeOK, LimiterClock, LimiterBudget, Limiter!NoStampede, Limiter!Awake

LEMMA TickKept == LimiterInv /\ Limiter!Tick => LimiterInv'
  <1> SUFFICES ASSUME LimiterInv, Limiter!Tick PROVE LimiterInv'
    OBVIOUS
  <1>1. Limiter!TypeOK'
    BY DEF LimiterInv, Limiter!TypeOK, Limiter!Tick
  <1>2. LimiterClock'
    BY DEF LimiterInv, Limiter!TypeOK, LimiterClock, Limiter!Tick
  <1>3. LimiterBudget' /\ Limiter!NoStampede'
    BY DEF LimiterInv, LimiterBudget, Limiter!NoStampede, Limiter!Tick
  <1> QED
    BY <1>1, <1>2, <1>3 DEF LimiterInv

(* A thread that finds no token leaves the bucket refilled.                   *)
LEMMA WaitKept ==
    ASSUME Limiter!CapacityAssumption, LimiterInv, NEW t \in Thread, Limiter!Acquire(t), ~(Limiter!Refilled >= 1)
    PROVE  LimiterInv'
  <1>c. Capacity \in Nat \ {0} /\ MaxTime \in Nat
    BY DEF Limiter!CapacityAssumption
  <1>0. /\ s2' = [tokens |-> Limiter!Refilled, last |-> s1]
        /\ s3' = [s3 EXCEPT ![t] = s1 + 1]
        /\ s4' = s4 /\ s1' = s1
    BY DEF Limiter!Acquire
  <1>1. /\ Limiter!Refilled \in Nat /\ Limiter!Refilled <= Capacity
        /\ Limiter!Refilled <= s2.tokens + (s1 - s2.last)
    BY RefilledBounds DEF LimiterInv
  <1>2. Limiter!TypeOK'
    BY <1>0, <1>1 DEF LimiterInv, Limiter!TypeOK
  <1>3. LimiterClock'
    BY <1>0, <1>1 DEF LimiterInv, Limiter!TypeOK, LimiterClock
  <1>4. LimiterBudget'
    <2> SUFFICES ASSUME NEW i \in 1..Len(s4)
                 PROVE  /\ s4[i] <= s1
                        /\ Limiter!Refilled + (Len(s4) - i + 1) <= Capacity + (s1 - s4[i])
      BY <1>0 DEF LimiterBudget
    <2>1. /\ s4[i] <= s2.last
          /\ s2.tokens + (Len(s4) - i + 1) <= Capacity + (s2.last - s4[i])
      BY DEF LimiterInv, LimiterBudget
    <2>2. /\ s1 \in Nat /\ s2.last \in Nat /\ s2.tokens \in Nat /\ s4[i] \in Nat
          /\ Len(s4) \in Nat /\ s2.last <= s1
      BY DEF LimiterInv, Limiter!TypeOK, LimiterClock
    <2> QED
      <3>1. Len(s4) - i + 1 \in Int
        BY <2>2
      <3> QED
        BY <1>1, <2>1, <2>2, <3>1, <1>c, RefillArithmetic
  <1>5. Limiter!NoStampede'
    BY <1>0 DEF LimiterInv, Limiter!NoStampede
  <1> QED
    BY <1>2, <1>3, <1>4, <1>5 DEF LimiterInv

(* A thread that is let through pays with a token.                            *)
LEMMA GrantPaid ==
    ASSUME Limiter!CapacityAssumption, LimiterInv, NEW t \in Thread, Limiter!Acquire(t), Limiter!Refilled >= 1
    PROVE  LimiterInv'
  <1>c. Capacity \in Nat \ {0} /\ MaxTime \in Nat
    BY DEF Limiter!CapacityAssumption
  <1>0. /\ s2' = [tokens |-> Limiter!Refilled - 1, last |-> s1]
        /\ s3' = [s3 EXCEPT ![t] = Limiter!Served]
        /\ s4' = Append(s4, s1) /\ s1' = s1
    BY DEF Limiter!Acquire
  <1>1. /\ Limiter!Refilled \in Nat /\ Limiter!Refilled <= Capacity
        /\ Limiter!Refilled <= s2.tokens + (s1 - s2.last)
    BY RefilledBounds DEF LimiterInv
  <1> DEFINE n == Len(s4)
  <1>2. /\ s1 \in Nat /\ s2.last \in Nat /\ s2.tokens \in Nat
        /\ n \in Nat /\ s2.last <= s1 /\ s4 \in Seq(Nat)
    BY DEF LimiterInv, Limiter!TypeOK, LimiterClock
  <1>3. /\ Len(s4') = n + 1
        /\ s4'[n + 1] = s1
        /\ \A i \in 1..n : s4'[i] = s4[i] /\ s4[i] \in Nat
    BY <1>0, <1>2
  <1>4. Limiter!TypeOK'
    BY <1>0, <1>1, <1>2, <1>c DEF LimiterInv, Limiter!TypeOK, Limiter!Served
  <1>5. LimiterClock'
    BY <1>0, <1>1, <1>2, <1>c DEF LimiterClock
  <1>6. \A i \in 1..n : /\ s4[i] <= s1
                        /\ Limiter!Refilled + (n - i + 1) <= Capacity + (s1 - s4[i])
    <2> SUFFICES ASSUME NEW i \in 1..n
                 PROVE  /\ s4[i] <= s1
                        /\ Limiter!Refilled + (n - i + 1) <= Capacity + (s1 - s4[i])
      OBVIOUS
    <2>1. /\ s4[i] <= s2.last
          /\ s2.tokens + (n - i + 1) <= Capacity + (s2.last - s4[i])
      BY DEF LimiterInv, LimiterBudget
    <2>2. s4[i] \in Nat
      BY <1>2
    <2>3. n - i + 1 \in Int
      BY <1>2
    <2>4. Capacity \in Nat
      BY <1>c
    <2> DEFINE d == n - i + 1
               r == Limiter!Refilled
    <2> HIDE DEF d, r
    <2>5. /\ r \in Nat /\ r <= s2.tokens + (s1 - s2.last) /\ d \in Int
          /\ s2.tokens + d <= Capacity + (s2.last - s4[i])
      BY <1>1, <2>1, <2>3 DEF d, r
    <2>6. s4[i] <= s1 /\ r + d <= Capacity + (s1 - s4[i])
      BY <1>2, <2>1, <2>2, <2>4, <2>5, RefillArithmetic
    <2> QED
      BY <2>6 DEF d, r
  <1>7. LimiterBudget'
    <2> SUFFICES ASSUME NEW i \in 1..(n + 1)
                 PROVE  /\ s4'[i] <= s1
                        /\ (Limiter!Refilled - 1) + (n + 1 - i + 1) <= Capacity + (s1 - s4'[i])
      BY <1>0, <1>3 DEF LimiterBudget
    <2>1. CASE i = n + 1
      BY <2>1, <1>1, <1>2, <1>3, <1>c
    <2>2. CASE i \in 1..n
      BY <2>2, <1>1, <1>2, <1>3, <1>6, <1>c, SMTT(60)
    <2> QED
      BY <2>1, <2>2, <1>2
  <1>8. Limiter!NoStampede'
    <2> SUFFICES ASSUME NEW i \in 1..(n + 1), NEW j \in 1..(n + 1), i <= j
                 PROVE  j - i + 1 <= Capacity + (s4'[j] - s4'[i])
      BY <1>3 DEF Limiter!NoStampede
    <2>1. CASE j \in 1..n
      <3>1. i \in 1..n
        BY <2>1, <1>2
      <3> QED
        BY <2>1, <3>1, <1>3 DEF LimiterInv, Limiter!NoStampede
    <2>2. CASE j = n + 1 /\ i = n + 1
      BY <2>2, <1>2, <1>3, <1>c
    <2>3. CASE j = n + 1 /\ i \in 1..n
      <3>1. /\ s4'[j] = s1 /\ s4'[i] = s4[i] /\ s4[i] \in Nat
            /\ Limiter!Refilled + (n - i + 1) <= Capacity + (s1 - s4[i])
        BY <2>3, <1>3, <1>6
      <3>2. Capacity \in Nat /\ i \in Nat
        BY <2>3, <1>2, <1>c
      <3> DEFINE r == Limiter!Refilled
                 k == n
      <3>3. /\ r \in Nat /\ r >= 1 /\ k \in Nat /\ j = k + 1
            /\ r + (k - i + 1) <= Capacity + (s1 - s4[i])
        BY <2>3, <3>1, <1>1, <1>2
      <3> HIDE DEF r, k
      <3>4. (k + 1) - i + 1 <= Capacity + (s1 - s4[i])
        BY <1>2, <3>1, <3>2, <3>3, GrantArithmetic
      <3> QED
        BY <3>1, <3>3, <3>4
    <2> QED
      BY <2>1, <2>2, <2>3, <1>2
  <1> QED
    BY <1>4, <1>5, <1>7, <1>8 DEF LimiterInv

LEMMA LimiterMoves ==
    ASSUME Limiter!CapacityAssumption
    PROVE  LimiterInv /\ [Limiter!Next]_(Limiter!vars) => LimiterInv'
  <1> SUFFICES ASSUME LimiterInv, [Limiter!Next]_(Limiter!vars) PROVE LimiterInv'
    OBVIOUS
  <1>1. CASE \E t \in Thread : Limiter!Acquire(t)
    BY <1>1, WaitKept, GrantPaid
  <1>2. CASE Limiter!Tick
    BY <1>2, TickKept
  <1>3. CASE UNCHANGED Limiter!vars
    BY <1>3 DEF LimiterInv, Limiter!TypeOK, LimiterClock, LimiterBudget, Limiter!NoStampede, Limiter!vars
  <1> QED
    BY <1>1, <1>2, <1>3 DEF Limiter!Next

LEMMA LimiterSteps ==
    ASSUME part = "limiter", LimiterInv, [EngineNext]_engine
    PROVE  LimiterInv'
  <1>1. [Limiter!Next]_(Limiter!vars)
    BY DEF EngineNext, HttpStep, OnOne, engine, Limiter!vars
  <1>2. Limiter!CapacityAssumption
    BY LimiterAssumption
  <1> QED
    BY <1>1, <1>2, LimiterMoves

(* The limiter of an engine lets no more calls through than burst and refill, for   *)
(* any number of threads, any burst and any time.                               *)
THEOREM LimiterKeeps == EngineSpec => []NoStampede
  <1> DEFINE Inv == part = "limiter" => LimiterInv
  <1>1. EngineInit => Inv
    BY LimiterAssumption, LimiterStarts DEF EngineInit
  <1>2. Inv /\ [EngineNext]_engine => Inv'
    BY SamePart, LimiterSteps
  <1>3. Inv => NoStampede
    BY DEF NoStampede, LimiterInv
  <1> QED
    BY <1>1, <1>2, <1>3, PTL DEF EngineSpec

-----------------------------------------------------------------------------
CapturesP == INSTANCE CaptureItemsProofs WITH
    minute <- input, limits <- output, periods <- s1, captures <- s2, notes <- s3, requests <- s4,
    None <- Nobody

(* The module the captures are proved in extends that of which the engine has its    *)
(* captures: the same definitions under two names.                              *)
LEMMA CapturesConstants == CapturesP!CaptureAssumption
  <1>1. Captures!CaptureAssumption
    BY CapturesAssumption
  <1> QED
    BY <1>1 DEF Captures!CaptureAssumption, CapturesP!CaptureAssumption, Captures!Request,
           CapturesP!Request, Captures!Input, CapturesP!Input
LEMMA CapturesInit == Captures!Init => CapturesP!Init
  BY DEF Captures!Init, CapturesP!Init, Captures!Request, CapturesP!Request, Captures!Unsent,
         CapturesP!Unsent
LEMMA CapturesNext == Captures!Next => CapturesP!Next
  BY DEF Captures!At, CapturesP!At, Captures!In, CapturesP!In, Captures!Go, CapturesP!Go,
         Captures!Tell, CapturesP!Tell, Captures!Receive, CapturesP!Receive, Captures!Entry,
         CapturesP!Entry, Captures!Counted, CapturesP!Counted, Captures!WithinRateLimit,
         CapturesP!WithinRateLimit, Captures!CapturesOf, CapturesP!CapturesOf, Captures!PeriodsAt,
         CapturesP!PeriodsAt, Captures!UrlOf, CapturesP!UrlOf, Captures!Lookup, CapturesP!Lookup,
         Captures!WithPeriod, CapturesP!WithPeriod, Captures!NewCapture, CapturesP!NewCapture,
         Captures!WithoutOrphan, CapturesP!WithoutOrphan, Captures!Insert, CapturesP!Insert,
         Captures!Resolve, CapturesP!Resolve, Captures!ReadCapture, CapturesP!ReadCapture,
         Captures!Find, CapturesP!Find, Captures!Assigned, CapturesP!Assigned, Captures!Update,
         CapturesP!Update, Captures!Detail, CapturesP!Detail, Captures!CreateNote,
         CapturesP!CreateNote, Captures!OwnNote, CapturesP!OwnNote, Captures!UpdateNote,
         CapturesP!UpdateNote, Captures!ReadNote, CapturesP!ReadNote, Captures!Die, CapturesP!Die,
         Captures!Tick, CapturesP!Tick, Captures!Handle, CapturesP!Handle, Captures!Next,
         CapturesP!Next, Captures!Request, CapturesP!Request, Captures!tables, CapturesP!tables,
         Captures!vars, CapturesP!vars
LEMMA CapturesCount ==
    ASSUME NEW S
    PROVE  Captures!Cardinality(S) = CapturesP!Cardinality(S)
  BY DEF Captures!Cardinality, CapturesP!Cardinality, Captures!IsFiniteSet, CapturesP!IsFiniteSet

LEMMA CapturesStart ==
    ASSUME EngineInit, part = "captures"
    PROVE  CapturesP!IInv /\ CapturesP!RateInv
  <1>1. CapturesP!Init
    BY CapturesInit DEF EngineInit
  <1> QED
    BY <1>1, CapturesConstants, CapturesP!InitIInv, CapturesP!InitRateInv

LEMMA CapturesStep ==
    ASSUME part = "captures", CapturesP!IInv, CapturesP!RateInv, [EngineNext]_engine
    PROVE  CapturesP!IInv' /\ CapturesP!RateInv'
  <1>1. Captures!Next \/ UNCHANGED <<input, output, s1, s2, s3, s4>>
    BY DEF EngineNext, HttpStep, OnOne, engine
  <1>2. [CapturesP!Next]_(CapturesP!vars)
    BY <1>1, CapturesNext DEF CapturesP!vars
  <1> QED
    BY <1>2, CapturesConstants, CapturesP!NextStep, CapturesP!RateStep

LEMMA CapturesTell ==
    ASSUME CapturesP!IInv, CapturesP!RateInv
    PROVE  /\ Captures!TypeOK /\ Captures!NoOrphans /\ Captures!OneCapture /\ Captures!CreatedOnce
           /\ Captures!GuardsUnreachable /\ Captures!RefusedWhenSpent /\ Captures!AuthorsTold
  <1>1. CapturesP!TypeOK /\ CapturesP!NoOrphans
    BY DEF CapturesP!IInv
  <1>2. CapturesP!OneCapture
    BY CapturesP!OneCaptureHolds
  <1>3. CapturesP!CreatedOnce /\ CapturesP!GuardsUnreachable /\ CapturesP!AuthorsTold
    BY CapturesP!OthersHold
  <1>4. CapturesP!RefusedWhenSpent
    BY CapturesConstants, CapturesP!Refusals
  <1>5. Captures!TypeOK
    BY <1>1 DEF Captures!TypeOK, CapturesP!TypeOK, Captures!Request, CapturesP!Request, Captures!Input,
           CapturesP!Input, Captures!Pc, CapturesP!Pc, Captures!Status, CapturesP!Status,
           Captures!PeriodRow, CapturesP!PeriodRow, Captures!CaptureRow, CapturesP!CaptureRow,
           Captures!NoteRow, CapturesP!NoteRow
  <1>6. Captures!NoOrphans
    BY <1>1 DEF Captures!NoOrphans, CapturesP!NoOrphans, Captures!Request, CapturesP!Request
  <1>7. Captures!OneCapture /\ Captures!CreatedOnce
    BY <1>2, <1>3 DEF Captures!OneCapture, CapturesP!OneCapture, Captures!CreatedOnce, CapturesP!CreatedOnce,
           Captures!Request, CapturesP!Request, Captures!Told, CapturesP!Told, Captures!SameKey,
           CapturesP!SameKey, Captures!At, CapturesP!At, Captures!In, CapturesP!In
  <1>8. Captures!GuardsUnreachable /\ Captures!AuthorsTold
    BY <1>3 DEF Captures!GuardsUnreachable, CapturesP!GuardsUnreachable, Captures!AuthorsTold,
           CapturesP!AuthorsTold, Captures!Request, CapturesP!Request, Captures!In, CapturesP!In
  <1>9. Captures!RefusedWhenSpent
    BY <1>4, CapturesCount DEF Captures!RefusedWhenSpent, CapturesP!RefusedWhenSpent, Captures!Request,
           CapturesP!Request, Captures!In, CapturesP!In
  <1> QED
    BY <1>5, <1>6, <1>7, <1>8, <1>9

(* Captures, edits and notes keep their promises next to everything else: one       *)
(* capture per request id, no orphan, no lost row, the right authors, and no         *)
(* refusal for the requests of another minute.                                   *)
THEOREM CapturesKept == EngineSpec => []CapturesHold
  <1> DEFINE Inv == part = "captures" => CapturesP!IInv /\ CapturesP!RateInv
  <1>1. EngineInit => Inv
    BY CapturesStart
  <1>2. Inv /\ [EngineNext]_engine => Inv'
    BY SamePart, CapturesStep
  <1>3. Inv => CapturesHold
    BY CapturesTell DEF CapturesHold
  <1> QED
    BY <1>1, <1>2, <1>3, PTL DEF EngineSpec

-----------------------------------------------------------------------------
LEMMA LeastOf == ASSUME NEW S, S \subseteq Nat, S # {} PROVE \E x \in S : \A y \in S : x <= y
  <1>1. PICK R : R = {ss \in Nat \X Nat : ss[1] < ss[2]}
    OBVIOUS
  <1>2. IsWellFoundedOn(R, Nat)
    BY <1>1, NatLessThanWellFounded, Zenon DEF OpToRel
  <1>3. PICK x \in S : \A y \in S : ~(<<y, x>> \in R)
    BY <1>2, WFMin
  <1>4. \A y \in S : ~(y < x)
    <2> TAKE y \in S
    <2>1. CASE y < x
      <3>1. <<y, x>> \in R
        BY <1>1, <2>1
      <3> QED
        BY <1>3, <3>1
    <2> QED
      BY <2>1
  <1>5. \A y \in S : x <= y
    BY <1>4
  <1> QED
    BY <1>5

LEMMA SetInduction ==
    ASSUME NEW T, 0 \in T, \A k \in Nat : k \in T => k + 1 \in T
    PROVE  \A k \in Nat : k \in T
  <1>1. PICK S : S = {k \in Nat : k \notin T}
    OBVIOUS
  <1>2. CASE S = {}
    BY <1>1, <1>2
  <1>3. CASE S # {}
    <2>1. S \subseteq Nat
      BY <1>1
    <2>2. PICK m \in S : \A k \in S : m <= k
      BY <1>3, <2>1, LeastOf
    <2>3. m \in Nat /\ m \notin T /\ m # 0
      BY <1>1
    <2>4. m - 1 \in Nat /\ ~(m <= m - 1) /\ (m - 1) + 1 = m
      BY <2>3
    <2>5. m - 1 \notin S
      BY <2>2, <2>4
    <2>6. m - 1 \in T
      BY <1>1, <2>4, <2>5
    <2>7. (m - 1) + 1 \in T
      BY <2>4, <2>6
    <2> QED
      BY <2>3, <2>4, <2>7
  <1> QED
    BY <1>2, <1>3

-----------------------------------------------------------------------------
(* Stories and drills.  The loop keeps one set, which exists up to every number.        *)
KeptBy(S, takes, K) ==
    /\ K \in SUBSET S
    /\ \A i \in S : i \in K <=> ~\E l \in K : l < i /\ <<l, i>> \in takes
LEMMA KeepsMore ==
    ASSUME NEW k \in Nat, NEW S \in SUBSET Nat, NEW takes, NEW K,
           KeptBy(S \cap (0..k), takes, K)
    PROVE  \E L : KeptBy(S \cap (0..(k + 1)), takes, L)
  <1>1. PICK L : L = IF k + 1 \in S /\ ~(\E l \in K : <<l, k + 1>> \in takes)
                     THEN K \cup {k + 1} ELSE K
    OBVIOUS
  <1>2. K \subseteq S \cap (0..k)
    BY DEF KeptBy
  <1>3. \A i \in K : i \in Nat /\ i <= k /\ i < k + 1 /\ i # k + 1
    BY <1>2
  <1>4. L \in SUBSET (S \cap (0..(k + 1)))
    BY <1>1, <1>2, <1>3
  <1>5. ASSUME NEW i \in S \cap (0..(k + 1))
        PROVE  i \in L <=> ~\E l \in L : l < i /\ <<l, i>> \in takes
    <2>1. CASE i = k + 1
      <3>1. \A l \in L : l < i <=> l \in K
        BY <1>1, <1>3, <2>1
      <3>2. i \in L <=> ~\E l \in K : <<l, i>> \in takes
        BY <1>1, <1>3, <2>1
      <3>3. K \subseteq L
        BY <1>1
      <3> QED
        BY <3>1, <3>2, <3>3
    <2>2. CASE i # k + 1
      <3>1. i \in S \cap (0..k) /\ i < k + 1 /\ ~(k + 1 < i)
        BY <2>2
      <3>2. i \in L <=> i \in K
        BY <1>1, <2>2
      <3>3. \A l : (l \in L /\ l < i) <=> (l \in K /\ l < i)
        BY <1>1, <3>1
      <3>4. i \in K <=> ~\E l \in K : l < i /\ <<l, i>> \in takes
        BY <3>1 DEF KeptBy
      <3> QED
        BY <3>2, <3>3, <3>4
    <2> QED
      BY <2>1, <2>2
  <1> QED
    BY <1>4, <1>5 DEF KeptBy

LEMMA SomeKept ==
    ASSUME NEW n \in Nat, NEW S \in SUBSET (0..n), NEW takes
    PROVE  \E K : KeptBy(S, takes, K)
  <1>1. PICK D : D = {k \in Nat : \E K : KeptBy(S \cap (0..k), takes, K)}
    OBVIOUS
  <1>2. S \in SUBSET Nat
    OBVIOUS
  <1>3. KeptBy(S \cap (0..0), takes, S \cap (0..0))
    <2>1. \A i, l \in S \cap (0..0) : ~(l < i)
      OBVIOUS
    <2> QED
      BY <2>1 DEF KeptBy
  <1>4. 0 \in D
    BY <1>1, <1>3
  <1>5. \A k \in Nat : k \in D => k + 1 \in D
    BY <1>1, <1>2, KeepsMore
  <1>6. n \in D
    BY <1>4, <1>5, SetInduction
  <1>7. S \cap (0..n) = S
    OBVIOUS
  <1> QED
    BY <1>1, <1>6, <1>7

LEMMA KeptIs ==
    ASSUME NEW n \in Nat, NEW S \in SUBSET (0..n), NEW takes
    PROVE  KeptBy(S, takes, Clustering!Kept(S, takes)) /\ KeptBy(S, takes, Drilling!Kept(S, takes))
  <1>1. \E K \in SUBSET S : \A i \in S : i \in K <=> ~\E l \in K : l < i /\ <<l, i>> \in takes
    <2>1. PICK L : KeptBy(S, takes, L)
      BY SomeKept
    <2>2. L \in SUBSET S /\ \A i \in S : i \in L <=> ~\E l \in L : l < i /\ <<l, i>> \in takes
      BY <2>1, Zenon DEF KeptBy
    <2> QED
      BY <2>2, Zenon
  <1>2. PICK K : K = CHOOSE L \in SUBSET S :
                        \A i \in S : i \in L <=> ~\E l \in L : l < i /\ <<l, i>> \in takes
    OBVIOUS
  <1>3. KeptBy(S, takes, K)
    BY <1>1, <1>2 DEF KeptBy
  <1>4. K = Clustering!Kept(S, takes) /\ K = Drilling!Kept(S, takes)
    BY <1>2 DEF Clustering!Kept, Drilling!Kept
  <1> QED
    BY <1>3, <1>4

(* Where the loop puts each thing: with one that is kept, which takes it.               *)
JoinedBy(S, takes, K, f) ==
    /\ K \subseteq S /\ f \in [S -> K]
    /\ \A i \in K : f[i] = i
    /\ \A i \in S : f[i] = i \/ <<f[i], i>> \in takes
LEMMA JoinedIs ==
    ASSUME NEW n \in Nat, NEW S \in SUBSET (0..n), NEW takes
    PROVE  JoinedBy(S, takes, Clustering!Kept(S, takes), Clustering!Joined(S, takes))
  <1> DEFINE K == Clustering!Kept(S, takes)
             fits(i) == {l \in K : l = i \/ (i \notin K /\ l < i /\ <<l, i>> \in takes)}
             h(i) == CHOOSE l \in fits(i) : \A m \in fits(i) : l <= m
  <1>1. [i \in S |-> h(i)] = Clustering!Joined(S, takes)
    BY DEF Clustering!Joined
  <1>2. KeptBy(S, takes, K)
    BY KeptIs
  <1> HIDE DEF K
  <1>3. K \subseteq S /\ K \subseteq Nat
    BY <1>2 DEF KeptBy
  <1>4. ASSUME NEW i \in S PROVE h(i) \in fits(i)
    <2>1. PICK F : F = fits(i)
      OBVIOUS
    <2>2. h(i) = CHOOSE l \in F : \A m \in F : l <= m
      BY <2>1
    <2>3. F \subseteq Nat
      BY <1>3, <2>1
    <2>4. i \in K \/ \E l \in K : l < i /\ <<l, i>> \in takes
      BY <1>2 DEF KeptBy
    <2>5. F # {}
      BY <2>1, <2>4
    <2>6. \E l \in F : \A m \in F : l <= m
      BY <2>3, <2>5, LeastOf
    <2>7. h(i) \in F
      BY <2>2, <2>6
    <2> QED
      BY <2>1, <2>7
  <1> HIDE DEF h
  <1>5. \A i \in S : /\ h(i) \in K /\ (i \in K => h(i) = i)
                     /\ h(i) = i \/ <<h(i), i>> \in takes
    BY <1>4
  <1>6. PICK g : g = [i \in S |-> h(i)]
    OBVIOUS
  <1>7. g \in [S -> K]
    BY <1>5, <1>6
  <1>8. \A i \in K : g[i] = i
    BY <1>3, <1>5, <1>6
  <1>9. \A i \in S : g[i] = i \/ <<g[i], i>> \in takes
    BY <1>5, <1>6
  <1>10. JoinedBy(S, takes, K, g)
    BY <1>3, <1>7, <1>8, <1>9, Zenon DEF JoinedBy
  <1> QED
    BY <1>1, <1>6, <1>10 DEF K


(* What is dropped as a duplicate is like something better that is kept.                *)
Deduplicated(q, kept) ==
    /\ \A i \in Clustering!Candidate \ kept : \E j \in kept : j < i /\ {j, i} \in q.alike
    /\ \A i, j \in kept : (i # j /\ Clustering!IsJob(q, i) = Clustering!IsJob(q, j))
                            => {i, j} \notin q.alike
LEMMA Dedupes == ASSUME NEW q PROVE Deduplicated(q, Clustering!DedupeItems(q))
  <1>1. PICK K : K = Clustering!DedupeItems(q)
    OBVIOUS
  <1>2. PICK takes : takes = Clustering!Duplicates(q)
    OBVIOUS
  <1>3. ClusterSize \in Nat /\ Clustering!Candidate \in SUBSET (0..ClusterSize)
    BY ClustersAssumption DEF Clustering!ClustersAssumption, Clustering!Candidate
  <1>4. KeptBy(Clustering!Candidate, takes, K)
    BY <1>1, <1>2, <1>3, KeptIs DEF Clustering!DedupeItems
  <1>5. \A i, j \in Clustering!Candidate :
           <<i, j>> \in takes <=> ({i, j} \in q.alike
                                   /\ Clustering!IsJob(q, i) = Clustering!IsJob(q, j))
    BY <1>2 DEF Clustering!Duplicates, Clustering!Alike
  <1>6. K \subseteq Clustering!Candidate
        /\ \A i \in Clustering!Candidate : i \in K <=> ~\E l \in K : l < i /\ <<l, i>> \in takes
    BY <1>4 DEF KeptBy
  <1>7. ASSUME NEW i \in Clustering!Candidate \ K
        PROVE  \E j \in K : j < i /\ {j, i} \in q.alike
    BY <1>5, <1>6
  <1>8. ASSUME NEW i \in K, NEW j \in K, i # j, {i, j} \in q.alike,
               Clustering!IsJob(q, i) = Clustering!IsJob(q, j)
        PROVE  FALSE
    <2>1. i \in Nat /\ j \in Nat
      BY <1>3, <1>6
    <2>2. CASE i < j
      BY <1>5, <1>6, <1>8, <2>2
    <2>3. CASE j < i
      <3>1. {j, i} = {i, j}
        OBVIOUS
      <3>2. <<j, i>> \in takes
        BY <1>5, <1>6, <1>8, <3>1
      <3> QED
        BY <1>6, <2>3, <3>2
    <2> QED
      BY <1>8, <2>1, <2>2, <2>3
  <1> QED
    BY <1>1, <1>7, <1>8, Zenon DEF Deduplicated

(* The clusters around leaders, and what the second pass makes of them.                  *)
Bet(q, i) == "polymarket" \in q.sources[i]
Grouped(q, heads, leader, into) ==
    \E S : /\ heads \subseteq Clustering!Candidate /\ S \subseteq heads
           /\ leader \in [Clustering!Candidate -> heads] /\ \A l \in heads : leader[l] = l
           /\ into \in [heads -> S] /\ \A l \in S : into[l] = l
           /\ q.alike = {} => /\ \A i \in Clustering!Candidate : leader[i] = i
                              /\ \A l \in heads : Bet(q, l) <=> Bet(q, into[l])
LEMMA Groups ==
    ASSUME NEW q
    PROVE  Grouped(q, Clustering!Leading(q), Clustering!Leader(q), Clustering!MergedInto(q))
  <1>1. PICK heads : heads = Clustering!Leading(q)
    OBVIOUS
  <1>2. PICK leader : leader = Clustering!Leader(q)
    OBVIOUS
  <1>3. PICK into : into = Clustering!MergedInto(q)
    OBVIOUS
  <1>4. ClusterSize \in Nat /\ Clustering!Candidate \in SUBSET (0..ClusterSize)
    BY ClustersAssumption DEF Clustering!ClustersAssumption, Clustering!Candidate
  <1>5. PICK takes : takes = Clustering!Alike(q)
    OBVIOUS
  <1>6. KeptBy(Clustering!Candidate, takes, heads)
    BY <1>1, <1>4, <1>5, KeptIs DEF Clustering!Leading
  <1>7. JoinedBy(Clustering!Candidate, takes, heads, leader)
    BY <1>1, <1>2, <1>4, <1>5, JoinedIs DEF Clustering!Leader, Clustering!Leading
  <1>8. heads \in SUBSET (0..ClusterSize)
    BY <1>4, <1>6 DEF KeptBy
  <1>9. PICK merging : merging = Clustering!Merging(q)
    OBVIOUS
  <1>10. PICK S : S = Clustering!Kept(heads, merging)
    OBVIOUS
  <1>11. JoinedBy(heads, merging, S, into)
    <2>1. into = Clustering!Joined(heads, merging)
      BY <1>1, <1>3, <1>9 DEF Clustering!MergedInto
    <2> QED
      BY <1>4, <1>8, <1>10, <2>1, JoinedIs
  <1>12. /\ leader \in [Clustering!Candidate -> heads] /\ \A l \in heads : leader[l] = l
         /\ heads \subseteq Clustering!Candidate
         /\ \A i \in Clustering!Candidate : leader[i] = i \/ <<leader[i], i>> \in takes
    BY <1>7, Zenon DEF JoinedBy
  <1>13. /\ into \in [heads -> S] /\ \A l \in S : into[l] = l
         /\ S \subseteq heads
         /\ \A l \in heads : into[l] = l \/ <<into[l], l>> \in merging
    BY <1>11, Zenon DEF JoinedBy
  <1>14. ASSUME q.alike = {} PROVE \A i \in Clustering!Candidate : leader[i] = i
    BY <1>5, <1>12, <1>14 DEF Clustering!Alike
  <1>15. ASSUME q.alike = {}, NEW l \in heads PROVE Bet(q, l) <=> Bet(q, into[l])
    <2>1. CASE into[l] = l
      BY <2>1
    <2>2. CASE <<into[l], l>> \in merging
      <3>1. Clustering!MayMerge(q, Clustering!Group(leader, into[l]), Clustering!Group(leader, l))
        BY <1>2, <1>9, <2>2 DEF Clustering!Merging
      <3>2. \A k \in heads : Clustering!Group(leader, k) = {k}
        BY <1>12, <1>14, <1>15 DEF Clustering!Group
      <3>3. into[l] \in heads
        BY <1>13
      <3>4. Clustering!MayMerge(q, {into[l]}, {l})
        BY <3>1, <3>2, <3>3
      <3>5. \A k : Clustering!SourcesOf(q, {k}) = q.sources[k]
        BY DEF Clustering!SourcesOf
      <3>6. ("polymarket" \in q.sources[into[l]]) = ("polymarket" \in q.sources[l])
        BY <3>4, <3>5 DEF Clustering!MayMerge
      <3> QED
        BY <3>6 DEF Bet
    <2> QED
      BY <1>13, <2>1, <2>2
  <1> QED
    BY <1>1, <1>2, <1>3, <1>12, <1>13, <1>14, <1>15, Zenon DEF Grouped


(* A set of stories, from what each of them tells.                                       *)
Represents(S, R) == R \subseteq S /\ \E i \in R : \A j \in S : i <= j
LEMMA Represented ==
    ASSUME NEW S \in SUBSET Clustering!Candidate, S # {}
    PROVE  Represents(S, Clustering!Representatives(S))
  <1>1. S \subseteq Nat
    BY ClustersAssumption DEF Clustering!ClustersAssumption, Clustering!Candidate
  <1>2. PICK i \in S : \A j \in S : i <= j
    BY <1>1, LeastOf
  <1>3. {j \in S : j < i} = {}
    <2>1. \A j \in S : ~(j < i)
      BY <1>1, <1>2
    <2> QED
      BY <2>1
  <1>4. Clustering!Cardinality({}) = 0
    BY FS_EmptySet DEF Clustering!Cardinality, Cardinality
  <1>5. i \in Clustering!Representatives(S)
    BY <1>3, <1>4, ClustersAssumption
       DEF Clustering!Representatives, Clustering!ClustersAssumption
  <1>6. Clustering!Representatives(S) \subseteq S
    BY DEF Clustering!Representatives
  <1> QED
    BY <1>2, <1>5, <1>6 DEF Represents

Together(q, S) == q.alike = {} => \A i, j \in S : Bet(q, i) <=> Bet(q, j)
StoriesTold(q, C) ==
    /\ UNION {c.members : c \in C} = Clustering!Candidate
    /\ \A c, d \in C : c # d => c.id # d.id /\ c.members \cap d.members = {}
    /\ \A c \in C : Represents(c.members, c.representatives) /\ Together(q, c.members)
Tells(q, L, n, M) ==
    /\ M \in [L -> SUBSET Clustering!Candidate]
    /\ \A k, l \in L : k # l => n[k] # n[l] /\ M[k] \cap M[l] = {}
    /\ \A i \in Clustering!Candidate : \E l \in L : i \in M[l]
    /\ \A l \in L : M[l] # {} /\ Together(q, M[l])
LEMMA ToldOf ==
    ASSUME NEW q, NEW L, NEW n, NEW M, Tells(q, L, n, M),
           NEW C, \A c : c \in C <=> \E l \in L : c = Clustering!Cluster(n[l], M[l])
    PROVE  StoriesTold(q, C)
  <1> USE DEF Tells
  <1>1. \A l \in L : LET c == Clustering!Cluster(n[l], M[l])
                     IN /\ c.id = n[l] /\ c.members = M[l]
                        /\ c.representatives = Clustering!Representatives(M[l])
    BY DEF Clustering!Cluster
  <1>2. \A c \in C : \E l \in L : c = Clustering!Cluster(n[l], M[l]) /\ c.id = n[l] /\ c.members = M[l]
                                  /\ c.representatives = Clustering!Representatives(M[l])
    BY <1>1
  <1>3. UNION {c.members : c \in C} = Clustering!Candidate
    <2>1. ASSUME NEW i \in Clustering!Candidate PROVE \E c \in C : i \in c.members
      <3>1. PICK l \in L : i \in M[l]
        OBVIOUS
      <3>2. PICK c : c = Clustering!Cluster(n[l], M[l])
        OBVIOUS
      <3>3. c \in C /\ c.members = M[l]
        BY <1>1, <3>2
      <3> QED
        BY <3>1, <3>3
    <2>2. \A c \in C : c.members \subseteq Clustering!Candidate
      BY <1>2
    <2> QED
      BY <2>1, <2>2
  <1>4. ASSUME NEW c \in C, NEW d \in C, c # d PROVE c.id # d.id /\ c.members \cap d.members = {}
    <2>1. PICK k \in L : c = Clustering!Cluster(n[k], M[k]) /\ c.id = n[k] /\ c.members = M[k]
      BY <1>2
    <2>2. PICK l \in L : d = Clustering!Cluster(n[l], M[l]) /\ d.id = n[l] /\ d.members = M[l]
      BY <1>2
    <2>3. k # l
      BY <1>4, <2>1, <2>2
    <2> QED
      BY <2>1, <2>2, <2>3
  <1>5. ASSUME NEW c \in C
        PROVE  Represents(c.members, c.representatives) /\ Together(q, c.members)
    <2>1. PICK l \in L : c.members = M[l] /\ c.representatives = Clustering!Representatives(M[l])
      BY <1>2
    <2>2. M[l] \in SUBSET Clustering!Candidate /\ M[l] # {} /\ Together(q, M[l])
      OBVIOUS
    <2>3. Represents(M[l], Clustering!Representatives(M[l]))
      BY <2>2, Represented
    <2> QED
      BY <2>1, <2>2, <2>3
  <1> QED
    BY <1>3, <1>4, <1>5 DEF StoriesTold

LEMMA Numbering ==
    ASSUME NEW q, NEW k \in Clustering!Leading(q), NEW l \in Clustering!Leading(q), k < l,
           Clustering!Leading(q) \subseteq Clustering!Candidate
    PROVE  Clustering!Number(q, k) # Clustering!Number(q, l)
  <1>1. PICK heads : heads = Clustering!Leading(q)
    OBVIOUS
  <1>2. ClusterSize \in Nat /\ heads \subseteq 1..ClusterSize
    BY <1>1, ClustersAssumption DEF Clustering!ClustersAssumption, Clustering!Candidate
  <1>3. IsFiniteSet(heads)
    <2>1. IsFiniteSet(1..ClusterSize)
      BY <1>2, FS_Interval
    <2> QED
      BY <1>2, <2>1, FS_Subset
  <1>4. PICK A : A = {h \in heads : h <= k}
    OBVIOUS
  <1>5. PICK B : B = {h \in heads : h <= l}
    OBVIOUS
  <1>6. IsFiniteSet(B)
    BY <1>3, <1>5, FS_Subset
  <1>7. A \subseteq B /\ l \in B /\ l \notin A
    BY <1>1, <1>2, <1>4, <1>5
  <1>8. Cardinality(A) < Cardinality(B)
    BY <1>6, <1>7, FS_Subset, FS_CardinalityType
  <1>9. IsFiniteSet(A) /\ Cardinality(A) \in Nat /\ Cardinality(B) \in Nat
    BY <1>6, <1>7, FS_Subset, FS_CardinalityType
  <1>10. \A T : Clustering!Cardinality(T) = Cardinality(T)
    BY DEF Clustering!Cardinality, Cardinality
  <1>11. Clustering!Number(q, k) = Cardinality(A) /\ Clustering!Number(q, l) = Cardinality(B)
    BY <1>1, <1>4, <1>5, <1>10 DEF Clustering!Number
  <1> QED
    BY <1>8, <1>9, <1>11

LEMMA OneStory == ASSUME NEW q PROVE StoriesTold(q, Clustering!ClusterCandidates(q))
  <1>1. CASE ~q.clusterable
    <2>1. PICK n : n = [i \in Clustering!Candidate |-> i]
      OBVIOUS
    <2>2. PICK M : M = [i \in Clustering!Candidate |-> {i}]
      OBVIOUS
    <2>3. M \in [Clustering!Candidate -> SUBSET Clustering!Candidate]
      BY <2>2
    <2>4. \A c : c \in Clustering!ClusterCandidates(q)
                    <=> \E l \in Clustering!Candidate : c = Clustering!Cluster(n[l], M[l])
      <3>1. Clustering!ClusterCandidates(q) = {Clustering!Cluster(l, {l}) : l \in Clustering!Candidate}
        BY <1>1 DEF Clustering!ClusterCandidates
      <3>2. \A l \in Clustering!Candidate : n[l] = l /\ M[l] = {l}
        BY <2>1, <2>2
      <3>3. \A c : c \in Clustering!ClusterCandidates(q)
                      <=> \E l \in Clustering!Candidate : c = Clustering!Cluster(l, {l})
        BY <3>1, Zenon
      <3>4. \A l \in Clustering!Candidate :
               Clustering!Cluster(n[l], M[l]) = Clustering!Cluster(l, {l})
        BY <3>2
      <3> QED
        BY <3>3, <3>4, Zenon
    <2>5. \A k, l \in Clustering!Candidate : k # l => n[k] # n[l] /\ M[k] \cap M[l] = {}
      BY <2>1, <2>2
    <2>6. \A i \in Clustering!Candidate : \E l \in Clustering!Candidate : i \in M[l]
      BY <2>2
    <2>7. \A l \in Clustering!Candidate : M[l] # {} /\ Together(q, M[l])
      BY <2>2 DEF Together
    <2>8. Tells(q, Clustering!Candidate, n, M)
      BY <2>3, <2>5, <2>6, <2>7, Zenon DEF Tells
    <2> QED
      BY <2>4, <2>8, ToldOf
  <1>2. CASE q.clusterable
    <2>1. PICK heads : heads = Clustering!Leading(q)
      OBVIOUS
    <2>2. PICK leader : leader = Clustering!Leader(q)
      OBVIOUS
    <2>3. PICK into : into = Clustering!MergedInto(q)
      OBVIOUS
    <2>4. Grouped(q, heads, leader, into)
      BY <2>1, <2>2, <2>3, Groups
    <2>5. PICK S : /\ heads \subseteq Clustering!Candidate /\ S \subseteq heads
                   /\ leader \in [Clustering!Candidate -> heads] /\ \A l \in heads : leader[l] = l
                   /\ into \in [heads -> S] /\ \A l \in S : into[l] = l
                   /\ q.alike = {} => /\ \A i \in Clustering!Candidate : leader[i] = i
                                      /\ \A l \in heads : Bet(q, l) <=> Bet(q, into[l])
      BY <2>4 DEF Grouped
    <2>6. PICK L : L = {k \in heads : into[k] = k}
      OBVIOUS
    <2>7. L = S
      BY <2>5, <2>6
    <2>8. PICK n : n = [l \in L |-> Clustering!Number(q, l)]
      OBVIOUS
    <2>9. PICK M : M = [l \in L |-> {i \in Clustering!Candidate : into[leader[i]] = l}]
      OBVIOUS
    <2>10. M \in [L -> SUBSET Clustering!Candidate]
      BY <2>9
    <2>11. \A c : c \in Clustering!ClusterCandidates(q)
                     <=> \E l \in L : c = Clustering!Cluster(n[l], M[l])
      <3>1. Clustering!ClusterCandidates(q) =
               {Clustering!Cluster(Clustering!Number(q, l),
                                   {i \in Clustering!Candidate : into[leader[i]] = l}) : l \in L}
        BY <1>2, <2>1, <2>2, <2>3, <2>6
           DEF Clustering!ClusterCandidates, Clustering!MergeEntityClusters
      <3>2. \A l \in L : /\ n[l] = Clustering!Number(q, l)
                         /\ M[l] = {i \in Clustering!Candidate : into[leader[i]] = l}
        BY <2>8, <2>9
      <3>3. \A c : c \in Clustering!ClusterCandidates(q)
                      <=> \E l \in L : c = Clustering!Cluster(Clustering!Number(q, l),
                                            {i \in Clustering!Candidate : into[leader[i]] = l})
        BY <3>1, Zenon
      <3>4. \A l \in L : Clustering!Cluster(n[l], M[l]) =
                Clustering!Cluster(Clustering!Number(q, l),
                                   {i \in Clustering!Candidate : into[leader[i]] = l})
        BY <3>2
      <3> QED
        <4> SUFFICES ASSUME NEW c PROVE c \in Clustering!ClusterCandidates(q)
                            <=> \E l \in L : c = Clustering!Cluster(n[l], M[l])
          OBVIOUS
        <4>1. ASSUME c \in Clustering!ClusterCandidates(q)
              PROVE  \E l \in L : c = Clustering!Cluster(n[l], M[l])
          <5>1. PICK l \in L : c = Clustering!Cluster(Clustering!Number(q, l),
                                        {i \in Clustering!Candidate : into[leader[i]] = l})
            BY <3>3, <4>1, Zenon
          <5>2. c = Clustering!Cluster(n[l], M[l])
            BY <3>4, <5>1, Zenon
          <5> QED
            BY <5>2
        <4>2. ASSUME NEW l \in L, c = Clustering!Cluster(n[l], M[l])
              PROVE  c \in Clustering!ClusterCandidates(q)
          <5>1. c = Clustering!Cluster(Clustering!Number(q, l),
                                       {i \in Clustering!Candidate : into[leader[i]] = l})
            BY <3>4, <4>2, Zenon
          <5> QED
            BY <3>3, <5>1, Zenon
        <4> QED
          BY <4>1, <4>2
    <2>12. ASSUME NEW k \in L, NEW l \in L, k # l PROVE n[k] # n[l] /\ M[k] \cap M[l] = {}
      <3>1. k \in heads /\ l \in heads /\ k \in Nat /\ l \in Nat
        BY <2>5, <2>7, ClustersAssumption DEF Clustering!ClustersAssumption, Clustering!Candidate
      <3>2. k < l \/ l < k
        BY <2>12, <3>1
      <3>3. Clustering!Number(q, k) # Clustering!Number(q, l)
        BY <2>1, <2>5, <3>1, <3>2, Numbering
      <3>4. n[k] # n[l]
        BY <2>8, <3>3
      <3>5. M[k] \cap M[l] = {}
        BY <2>9, <2>12
      <3> QED
        BY <3>4, <3>5
    <2>13. \A i \in Clustering!Candidate : \E l \in L : i \in M[l]
      <3> TAKE i \in Clustering!Candidate
      <3>1. into[leader[i]] \in L
        BY <2>5, <2>7
      <3> QED
        BY <2>9, <3>1
    <2>14. ASSUME NEW l \in L PROVE M[l] # {} /\ Together(q, M[l])
      <3>1. l \in M[l]
        BY <2>5, <2>7, <2>9
      <3>2. ASSUME q.alike = {}, NEW i \in M[l] PROVE Bet(q, i) <=> Bet(q, l)
        <4>1. i \in Clustering!Candidate /\ into[leader[i]] = l
          BY <2>9, <3>2
        <4>2. leader[i] = i /\ leader[i] \in heads
          BY <2>5, <3>2, <4>1
        <4> QED
          BY <2>5, <3>2, <4>1, <4>2
      <3> QED
        BY <3>1, <3>2 DEF Together
    <2>15. Tells(q, L, n, M)
      BY <2>10, <2>12, <2>13, <2>14, Zenon DEF Tells
    <2> QED
      BY <2>11, <2>15, ToldOf
  <1> QED
    BY <1>1, <1>2


(* A drill.  Places and what stands there.                                               *)
Question(q) == q.cluster \in [Drilling!Candidate -> 0..Stories] /\ q.found \subseteq Drilling!Candidate
               /\ q.target \in Drilling!ClustersOf(q.cluster)
LEMMA Places ==
    ASSUME NEW i \in Drilling!Candidate
    PROVE  /\ i \in 1..DrillSize /\ DrillSize + i \in (DrillSize + 1)..(2 * DrillSize)
           /\ 2 * DrillSize + i \in Nat /\ 2 * DrillSize + i > 2 * DrillSize
           /\ Drilling!At(i) = i /\ Drilling!At(DrillSize + i) = i
           /\ Drilling!At(2 * DrillSize + i) = i
  <1>1. DrillSize \in Nat /\ i \in 1..DrillSize
    BY DrillAssumption DEF Drilling!DrillAssumption, Drilling!Candidate
  <1> QED
    BY <1>1 DEF Drilling!At

Focus(q, K) ==
    /\ K \subseteq Drilling!Contending(q)
    /\ \A p \in K : \A r \in K : Drilling!At(p) = Drilling!At(r) => p = r
    /\ \A p \in Drilling!Contending(q) \ K : \E l \in K :
          Drilling!At(l) = Drilling!At(p) \/ {Drilling!At(p), Drilling!At(l)} \in q.alike
    /\ \A p \in Drilling!Contending(q) : /\ Drilling!At(p) \in Drilling!Candidate \ Drilling!Unrelated(q)
                                      /\ p \in Nat /\ p <= 2 * DrillSize
LEMMA FocusIs == ASSUME NEW q, Question(q) PROVE Focus(q, Drilling!Focused(q))
  <1>1. PICK K : K = Drilling!Focused(q)
    OBVIOUS
  <1>2. PICK takes : takes = Drilling!Duplicates(q)
    OBVIOUS
  <1>3. PICK S : S = Drilling!Contending(q)
    OBVIOUS
  <1>4. DrillSize \in Nat /\ 2 * DrillSize \in Nat
    BY DrillAssumption DEF Drilling!DrillAssumption
  <1>5. ASSUME NEW p \in S
        PROVE  /\ Drilling!At(p) \in Drilling!Candidate \ Drilling!Unrelated(q)
               /\ p \in 1..(2 * DrillSize)
    <2>1. CASE p \in q.found \ Drilling!Unrelated(q)
      <3>1. p \in Drilling!Candidate
        BY <2>1 DEF Question
      <3> QED
        BY <1>4, <2>1, <3>1, Places
    <2>2. CASE p \in {DrillSize + i : i \in Drilling!Old(q, q.target)}
      <3>1. PICK i \in Drilling!Old(q, q.target) : p = DrillSize + i
        BY <2>2
      <3>2. i \in Drilling!Candidate /\ i \notin Drilling!Unrelated(q)
        BY <3>1 DEF Drilling!Old, Drilling!Unrelated
      <3> QED
        BY <1>4, <3>1, <3>2, Places
    <2> QED
      BY <1>3, <2>1, <2>2 DEF Drilling!Contending
  <1>6. S \in SUBSET (0..(2 * DrillSize))
    BY <1>4, <1>5
  <1>7. KeptBy(S, takes, K)
    BY <1>1, <1>2, <1>3, <1>4, <1>6, KeptIs DEF Drilling!Focused
  <1>8. K \subseteq S /\ \A p \in S : p \in K <=> ~\E l \in K : l < p /\ <<l, p>> \in takes
    BY <1>7 DEF KeptBy
  <1>9. \A p, r \in S : <<p, r>> \in takes <=> (\/ Drilling!At(p) = Drilling!At(r)
                                               \/ {Drilling!At(p), Drilling!At(r)} \in q.alike)
    BY <1>2, <1>5 DEF Drilling!Duplicates
  <1>10. ASSUME NEW p \in K, NEW r \in K, Drilling!At(p) = Drilling!At(r) PROVE p = r
    <2>1. p \in Nat /\ r \in Nat
      BY <1>5, <1>8
    <2>2. <<p, r>> \in takes /\ <<r, p>> \in takes
      BY <1>8, <1>9, <1>10
    <2>3. ~(p < r) /\ ~(r < p)
      BY <1>8, <2>2
    <2> QED
      BY <2>1, <2>3
  <1>11. ASSUME NEW p \in S \ K
         PROVE  \E l \in K : \/ Drilling!At(l) = Drilling!At(p)
                             \/ {Drilling!At(p), Drilling!At(l)} \in q.alike
    <2>1. PICK l \in K : <<l, p>> \in takes
      BY <1>8
    <2>2. {Drilling!At(l), Drilling!At(p)} = {Drilling!At(p), Drilling!At(l)}
      OBVIOUS
    <2> QED
      BY <1>8, <1>9, <2>1, <2>2
  <1>12. \A p \in S : p \in Nat /\ p <= 2 * DrillSize
    BY <1>4, <1>5
  <1> QED
    BY <1>1, <1>3, <1>5, <1>8, <1>10, <1>11, <1>12 DEF Focus

Keeps(q, o) ==
    LET ranked == {o.ranked[p] : p \in DOMAIN o.ranked}
    IN /\ ranked = UNION {o.clusters[k] : k \in DOMAIN o.clusters}
       /\ \A p, r \in DOMAIN o.ranked : o.ranked[p] = o.ranked[r] => p = r
       /\ \A k, l \in DOMAIN o.clusters : k # l => o.clusters[k] \cap o.clusters[l] = {}
       /\ \A k \in DOMAIN o.clusters \ {q.target} : o.clusters[k] = Drilling!Old(q, k)
       /\ \A i \in (Drilling!Old(q, q.target) \cup q.found) \ ranked :
             \E j \in o.clusters[q.target] : {i, j} \in q.alike
       /\ o.clusters[q.target] # {}
LEMMA MergeKeeps ==
    ASSUME NEW q, Question(q), NEW o, o = Drilling!MergeDrillReport(q)
    PROVE  Keeps(q, o)
  <1>1. PICK K : K = Drilling!Focused(q)
    OBVIOUS
  <1>2. Focus(q, K)
    BY <1>1, FocusIs
  <1>3. PICK D : D = K \cup Drilling!Rest(q)
    OBVIOUS
  <1>4. PICK F : F = {Drilling!At(p) : p \in K}
    OBVIOUS
  <1>5. PICK names : names = Drilling!ClustersOf(q.cluster)
    OBVIOUS
  <1>6. o.ranked = [p \in D |-> Drilling!At(p)]
    BY <1>1, <1>3 DEF Drilling!MergeDrillReport
  <1>7. o.clusters = [k \in names |-> IF k = q.target THEN F ELSE Drilling!Old(q, k)]
    BY <1>1, <1>4, <1>5 DEF Drilling!MergeDrillReport
  <1>8. DOMAIN o.ranked = D /\ \A p \in D : o.ranked[p] = Drilling!At(p)
    BY <1>6
  <1>9. /\ DOMAIN o.clusters = names /\ q.target \in names /\ o.clusters[q.target] = F
        /\ \A k \in names \ {q.target} : o.clusters[k] = Drilling!Old(q, k)
    BY <1>5, <1>7 DEF Question
  <1>10. ASSUME NEW p \in Drilling!Rest(q)
         PROVE  p \in Nat /\ p > 2 * DrillSize /\ p = 2 * DrillSize + Drilling!At(p)
                /\ Drilling!At(p) \in Drilling!Unrelated(q)
    <2>1. PICK i \in Drilling!Unrelated(q) : p = 2 * DrillSize + i
      BY DEF Drilling!Rest
    <2>2. i \in Drilling!Candidate
      BY <2>1 DEF Drilling!Unrelated
    <2> QED
      BY <2>1, <2>2, Places
  <1>11. \A i \in Drilling!Unrelated(q) : \E p \in Drilling!Rest(q) : Drilling!At(p) = i
    <2> TAKE i \in Drilling!Unrelated(q)
    <2>1. i \in Drilling!Candidate /\ 2 * DrillSize + i \in Drilling!Rest(q)
      BY DEF Drilling!Unrelated, Drilling!Rest
    <2> QED
      BY <2>1, Places
  <1>12. {o.ranked[p] : p \in DOMAIN o.ranked} = F \cup Drilling!Unrelated(q)
    <2>1. {o.ranked[p] : p \in DOMAIN o.ranked} = {Drilling!At(p) : p \in D}
      BY <1>8
    <2>2. PICK G : G = {Drilling!At(p) : p \in D}
      OBVIOUS
    <2>3. \A p \in D : Drilling!At(p) \in F \cup Drilling!Unrelated(q)
      BY <1>3, <1>4, <1>10
    <2>4. F \subseteq G
      BY <1>3, <1>4, <2>2
    <2>5. Drilling!Unrelated(q) \subseteq G
      BY <1>3, <1>11, <2>2
    <2>6. G = F \cup Drilling!Unrelated(q)
      BY <2>2, <2>3, <2>4, <2>5
    <2> QED
      BY <2>1, <2>2, <2>6
  <1>13. F \subseteq Drilling!Candidate \ Drilling!Unrelated(q)
    BY <1>2, <1>4 DEF Focus
  <1>14. UNION {o.clusters[k] : k \in DOMAIN o.clusters} = F \cup Drilling!Unrelated(q)
    <2>1. ASSUME NEW i \in Drilling!Unrelated(q)
          PROVE  \E k \in names : i \in o.clusters[k]
      <3>1. i \in Drilling!Candidate /\ q.cluster[i] \in names \ {q.target}
        BY <1>5 DEF Drilling!Unrelated, Drilling!ClustersOf
      <3>2. i \in Drilling!Old(q, q.cluster[i])
        BY <3>1 DEF Drilling!Old
      <3> QED
        BY <1>9, <3>1, <3>2
    <2>2. ASSUME NEW k \in names \ {q.target}
          PROVE  o.clusters[k] \subseteq Drilling!Unrelated(q)
      BY <1>5, <1>9 DEF Drilling!Unrelated, Drilling!ClustersOf, Drilling!Old
    <2> QED
      BY <1>9, <2>1, <2>2
  <1>15. ASSUME NEW p \in D, NEW r \in D, Drilling!At(p) = Drilling!At(r) PROVE p = r
    <2>1. CASE p \in K /\ r \in K
      BY <1>2, <1>15, <2>1 DEF Focus
    <2>2. CASE p \in Drilling!Rest(q) /\ r \in Drilling!Rest(q)
      BY <1>10, <1>15, <2>2
    <2>3. CASE p \in K /\ r \in Drilling!Rest(q)
      BY <1>2, <1>10, <1>15, <2>3 DEF Focus
    <2>4. CASE r \in K /\ p \in Drilling!Rest(q)
      BY <1>2, <1>10, <1>15, <2>4 DEF Focus
    <2> QED
      BY <1>3, <2>1, <2>2, <2>3, <2>4
  <1>16. ASSUME NEW k \in names, NEW l \in names, k # l
         PROVE  o.clusters[k] \cap o.clusters[l] = {}
    <2>1. \A m \in names \ {q.target} : o.clusters[m] \subseteq Drilling!Unrelated(q)
      BY <1>5, <1>9 DEF Drilling!Unrelated, Drilling!ClustersOf, Drilling!Old
    <2>2. CASE k = q.target
      BY <1>9, <1>13, <1>16, <2>1, <2>2
    <2>3. CASE l = q.target
      BY <1>9, <1>13, <1>16, <2>1, <2>3
    <2>4. CASE k # q.target /\ l # q.target
      BY <1>9, <1>16, <2>4 DEF Drilling!Old
    <2> QED
      BY <2>2, <2>3, <2>4
  <1>17. ASSUME NEW p \in Drilling!Contending(q), Drilling!At(p) \notin F
         PROVE  \E j \in F : {Drilling!At(p), j} \in q.alike
    BY <1>2, <1>4, <1>17 DEF Focus
  <1>18. ASSUME NEW i \in (Drilling!Old(q, q.target) \cup q.found) \ (F \cup Drilling!Unrelated(q))
         PROVE  \E j \in F : {i, j} \in q.alike
    <2>1. i \in Drilling!Candidate
      BY DEF Question, Drilling!Old
    <2>2. CASE i \in q.found
      <3>1. i \in Drilling!Contending(q)
        BY <1>18, <2>2 DEF Drilling!Contending
      <3> QED
        BY <1>17, <1>18, <2>1, <3>1, Places
    <2>3. CASE i \in Drilling!Old(q, q.target)
      <3>1. DrillSize + i \in Drilling!Contending(q)
        BY <2>3 DEF Drilling!Contending
      <3> QED
        BY <1>17, <1>18, <2>1, <3>1, Places
    <2> QED
      BY <2>2, <2>3
  <1>19. F # {}
    <2>1. PICK i \in Drilling!Candidate : q.cluster[i] = q.target
      BY DEF Question, Drilling!ClustersOf
    <2>2. DrillSize + i \in Drilling!Contending(q)
      BY <2>1 DEF Drilling!Contending, Drilling!Old
    <2>3. K # {}
      BY <1>2, <2>2 DEF Focus
    <2> QED
      BY <1>4, <2>3
  <1>20. PICK ranked : ranked = {o.ranked[p] : p \in DOMAIN o.ranked}
    OBVIOUS
  <1>21. ranked = UNION {o.clusters[k] : k \in DOMAIN o.clusters}
    BY <1>12, <1>14, <1>20
  <1>22. \A p, r \in DOMAIN o.ranked : o.ranked[p] = o.ranked[r] => p = r
    BY <1>8, <1>15
  <1>23. \A k, l \in DOMAIN o.clusters : k # l => o.clusters[k] \cap o.clusters[l] = {}
    BY <1>9, <1>16
  <1>24. \A k \in DOMAIN o.clusters \ {q.target} : o.clusters[k] = Drilling!Old(q, k)
    BY <1>9
  <1>25. \A i \in (Drilling!Old(q, q.target) \cup q.found) \ ranked :
            \E j \in o.clusters[q.target] : {i, j} \in q.alike
    BY <1>9, <1>12, <1>18, <1>20
  <1>26. o.clusters[q.target] # {}
    BY <1>9, <1>19
  <1> QED
    BY <1>20, <1>21, <1>22, <1>23, <1>24, <1>25, <1>26, Zenon DEF Keeps


ClustersInv == \A o \in output : Deduplicated(input, o.kept) /\ StoriesTold(input, o.clusters)
DrillInv ==
    /\ input.cluster \in [Drilling!Candidate -> 0..Stories] /\ input.found \subseteq Drilling!Candidate
    /\ \A o \in output : o.merged => Keeps(input, o)
LEMMA StoriesStart ==
    /\ Clustering!Init => ClustersInv
    /\ Drilling!Init => DrillInv
  <1>1. Clustering!Init => ClustersInv
    BY DEF Clustering!Init, ClustersInv
  <1>2. ASSUME Drilling!Init PROVE DrillInv
    <2>1. PICK c \in Drilling!Cached : \E d \in SUBSET Drilling!Candidate : \E a, t, f :
             input = [cluster |-> c, found |-> d, alike |-> a, target |-> t, fresh |-> f]
      BY <1>2 DEF Drilling!Init
    <2>2. input.cluster \in Drilling!Cached /\ input.found \subseteq Drilling!Candidate
      BY <2>1
    <2> QED
      BY <1>2, <2>2 DEF DrillInv, Drilling!Cached, Drilling!Init
  <1> QED
    BY <1>1, <1>2

LEMMA ClustersStep == ASSUME ClustersInv, Clustering!Next PROVE ClustersInv'
  <1>1. PICK o : o = [kept |-> Clustering!DedupeItems(input),
                      clusters |-> Clustering!ClusterCandidates(input)]
    OBVIOUS
  <1>2. input' = input /\ output' = {o}
    BY <1>1 DEF Clustering!Next, Clustering!Report
  <1>3. Deduplicated(input, o.kept) /\ StoriesTold(input, o.clusters)
    BY <1>1, Dedupes, OneStory
  <1> QED
    BY <1>2, <1>3 DEF ClustersInv

LEMMA DrillStep == ASSUME DrillInv, Drilling!Next PROVE DrillInv'
  <1>1. input' = input
    BY DEF Drilling!Next
  <1>2. CASE Drilling!Refuse
    <2>1. \A o \in output' : ~o.merged
      BY <1>2 DEF Drilling!Refuse
    <2> QED
      BY <1>1, <2>1 DEF DrillInv
  <1>3. CASE Drilling!Merge
    <2>1. PICK o : o = Drilling!MergeDrillReport(input)
      OBVIOUS
    <2>2. output' = {o} /\ Question(input)
      BY <1>3, <2>1 DEF Drilling!Merge, DrillInv, Question
    <2>3. Keeps(input, o)
      BY <2>1, <2>2, MergeKeeps
    <2> QED
      BY <1>1, <2>2, <2>3 DEF DrillInv
  <1> QED
    BY <1>2, <1>3 DEF Drilling!Next

LEMMA ClustersFollow == ASSUME ClustersInv PROVE Clustering!OneStoryEach /\ Clustering!KeptOnce
  <1>1. Clustering!OneStoryEach
    <2>1. \A S : Together(input, S) =>
                    (input.alike = {} => \A i, j \in S : ("polymarket" \in input.sources[i])
                                                            = ("polymarket" \in input.sources[j]))
      BY DEF Together, Bet
    <2> QED
      BY <2>1, Zenon DEF ClustersInv, StoriesTold, Represents, Clustering!OneStoryEach
  <1>2. Clustering!KeptOnce
    BY Zenon DEF ClustersInv, Deduplicated, Clustering!KeptOnce
  <1> QED
    BY <1>1, <1>2
LEMMA DrillFollows == ASSUME DrillInv PROVE Drilling!DrillKeeps
  BY Zenon DEF DrillInv, Keeps, Drilling!DrillKeeps

(* The second pass over the clusters and the merge of a drill lose no candidate and tell *)
(* none twice (cluster.py, merge_drill_report), and what deduplication drops is like    *)
(* what it keeps, for any candidates and whatever is alike.                            *)
THEOREM StoriesKept == EngineSpec => []StoryKept
  <1> DEFINE Inv == (part = "clusters" => ClustersInv) /\ (part = "drill" => DrillInv)
  <1>1. EngineInit => Inv
    BY StoriesStart DEF EngineInit
  <1>2. Inv /\ [EngineNext]_engine => Inv'
    <2> SUFFICES ASSUME Inv, [EngineNext]_engine PROVE Inv'
      OBVIOUS
    <2>1. part' = part
      BY SamePart
    <2>2. CASE UNCHANGED engine
      BY <2>2 DEF engine, ClustersInv, DrillInv
    <2>3. CASE EngineNext /\ part = "clusters"
      <3>1. Clustering!Next
        BY <2>3 DEF EngineNext, HttpStep, OnOne
      <3> QED
        BY <2>1, <2>3, <3>1, ClustersStep
    <2>4. CASE EngineNext /\ part = "drill"
      <3>1. Drilling!Next
        BY <2>4 DEF EngineNext, HttpStep, OnOne
      <3> QED
        BY <2>1, <2>4, <3>1, DrillStep
    <2> QED
      BY <2>1, <2>2, <2>3, <2>4
  <1>3. Inv => StoryKept
    BY ClustersFollow, DrillFollows DEF StoryKept
  <1> QED
    BY <1>1, <1>2, <1>3, PTL DEF EngineSpec

-----------------------------------------------------------------------------
(* Candidates in their order.  A candidate's place is the number of those before it;    *)
(* no two share one, so that every place is taken.                                    *)
Listed(S) ==
    /\ IsFiniteSet(S)
    /\ \A c \in S : c.score \in Int /\ c.fit \in Int /\ c.url \in Int
    /\ \A c, d \in S : c.url = d.url => c = d
Ahead(S, c) == {d \in S : Fusion!Before(d, c)}
Ranks(S, r) ==
    /\ r \in Injection(S, 0..(Cardinality(S) - 1)) /\ r \in Surjection(S, 0..(Cardinality(S) - 1))
    /\ \A c \in S : r[c] = Cardinality(Ahead(S, c))
Smaller(m, n) == IF m < n THEN m ELSE n

LEMMA OneCardinality == \A A : Fusion!Cardinality(A) = Cardinality(A)
  BY DEF Fusion!Cardinality, Fusion!IsFiniteSet, Cardinality, IsFiniteSet

LEMMA ListedPart == ASSUME NEW S, NEW T, T \subseteq S, Listed(S) PROVE Listed(T)
  BY FS_Subset DEF Listed

LEMMA OrderIs ==
    ASSUME NEW S, Listed(S)
    PROVE  /\ \A c, d \in S : c = d \/ Fusion!Before(c, d) \/ Fusion!Before(d, c)
           /\ \A c \in S : ~Fusion!Before(c, c)
           /\ \A c, d, e \in S : Fusion!Before(c, d) /\ Fusion!Before(d, e) => Fusion!Before(c, e)
  BY DEF Listed, Fusion!Before

LEMMA Ordered == ASSUME NEW S, Listed(S) PROVE \E r : Ranks(S, r)
  <1> DEFINE m == Cardinality(S)
             R == [c \in S |-> Cardinality(Ahead(S, c))]
  <1>1. IsFiniteSet(S) /\ m \in Nat
    BY FS_CardinalityType DEF Listed
  <1>2. \A c \in S : Ahead(S, c) \subseteq S /\ c \notin Ahead(S, c)
    BY OrderIs DEF Ahead
  <1>3. ASSUME NEW c \in S
        PROVE  IsFiniteSet(Ahead(S, c)) /\ Cardinality(Ahead(S, c)) \in 0..(m - 1)
    <2>1. IsFiniteSet(Ahead(S, c)) /\ Cardinality(Ahead(S, c)) <= m /\ Cardinality(Ahead(S, c)) # m
      BY <1>1, <1>2, FS_Subset
    <2>2. Cardinality(Ahead(S, c)) \in Nat
      BY <2>1, FS_CardinalityType
    <2> HIDE DEF m
    <2> QED
      BY <1>1, <2>1, <2>2
  <1>4. ASSUME NEW c \in S, NEW d \in S, Fusion!Before(c, d)
        PROVE  Cardinality(Ahead(S, c)) # Cardinality(Ahead(S, d))
    <2>1. Ahead(S, c) \subseteq Ahead(S, d) /\ c \in Ahead(S, d) /\ c \notin Ahead(S, c)
      BY <1>2, <1>4, OrderIs DEF Ahead
    <2>2. IsFiniteSet(Ahead(S, d))
      BY <1>3
    <2> QED
      BY <2>1, <2>2, FS_Subset
  <1>5. R \in [S -> 0..(m - 1)]
    BY <1>3
  <1>6. \A c, d \in S : R[c] = R[d] => c = d
    BY <1>4, OrderIs
  <1>7. R \in Injection(S, 0..(m - 1))
    BY <1>5, <1>6 DEF Injection, IsInjective
  <1>8. IsFiniteSet(0..(m - 1)) /\ Cardinality(0..(m - 1)) = m
    <2> HIDE DEF m
    <2>1. m - 1 \in Int /\ 0 \in Int
      BY <1>1
    <2>2. IsFiniteSet(0..(m - 1))
          /\ Cardinality(0..(m - 1)) = IF 0 > m - 1 THEN 0 ELSE (m - 1) - 0 + 1
      BY <2>1, FS_Interval
    <2> QED
      BY <1>1, <2>2
  <1>9. R \in Surjection(S, 0..(m - 1))
    BY <1>7, <1>8, FS_Injection
  <1> QED
    BY <1>7, <1>9 DEF Ranks

LEMMA FirstIs ==
    ASSUME NEW S, NEW n \in Nat, Listed(S)
    PROVE  /\ Fusion!FirstOf(S, n) \subseteq S
           /\ Listed(Fusion!FirstOf(S, n))
           /\ Cardinality(Fusion!FirstOf(S, n)) = Smaller(n, Cardinality(S))
  <1>1. PICK r : Ranks(S, r)
    BY Ordered
  <1>2. PICK T : T = Fusion!FirstOf(S, n)
    OBVIOUS
  <1>3. PICK m \in Nat : m = Cardinality(S)
    BY FS_CardinalityType DEF Listed
  <1>4. T = {c \in S : r[c] < n}
    <2>1. \A c \in S : Fusion!Cardinality({d \in S : Fusion!Before(d, c)}) = r[c]
      BY <1>1, OneCardinality DEF Ranks, Ahead
    <2> QED
      BY <1>2, <2>1 DEF Fusion!FirstOf
  <1>5. PICK k \in Nat : k = Smaller(n, m)
    BY DEF Smaller
  <1>6. /\ \A c \in S : r[c] \in 0..(m - 1)
        /\ \A c, d \in S : r[c] = r[d] => c = d
        /\ \A x \in 0..(m - 1) : \E c \in S : r[c] = x
    BY <1>1, <1>3 DEF Ranks, Injection, Surjection, IsInjective
  <1>7. PICK g : g = [c \in T |-> r[c]]
    OBVIOUS
  <1>8. \A c \in T : c \in S /\ r[c] \in 0..(k - 1) /\ g[c] = r[c]
    BY <1>4, <1>5, <1>6, <1>7 DEF Smaller
  <1>9. g \in Injection(T, 0..(k - 1))
    <2>1. g \in [T -> 0..(k - 1)]
      BY <1>7, <1>8
    <2>2. \A c, d \in T : g[c] = g[d] => c = d
      BY <1>6, <1>8
    <2> QED
      BY <2>1, <2>2 DEF Injection, IsInjective
  <1>10. g \in Surjection(T, 0..(k - 1))
    <2>1. g \in [T -> 0..(k - 1)]
      BY <1>7, <1>8
    <2>2. ASSUME NEW x \in 0..(k - 1) PROVE \E c \in T : g[c] = x
      <3>1. x \in 0..(m - 1) /\ x < n
        BY <1>5 DEF Smaller
      <3>2. PICK c \in S : r[c] = x
        BY <1>6, <3>1
      <3>3. c \in T
        BY <1>4, <3>1, <3>2
      <3> QED
        BY <1>8, <3>2, <3>3
    <2> QED
      BY <2>1, <2>2 DEF Surjection
  <1>11. IsFiniteSet(0..(k - 1)) /\ Cardinality(0..(k - 1)) = k
    <2>1. k - 1 \in Int /\ 0 \in Int
      OBVIOUS
    <2>2. IsFiniteSet(0..(k - 1))
          /\ Cardinality(0..(k - 1)) = IF 0 > k - 1 THEN 0 ELSE (k - 1) - 0 + 1
      BY <2>1, FS_Interval
    <2> QED
      BY <2>2
  <1>12. Cardinality(T) = k
    BY <1>9, <1>10, <1>11, FS_Injection
  <1>13. T \subseteq S
    BY <1>4
  <1> QED
    BY <1>2, <1>3, <1>5, <1>12, <1>13, ListedPart

(* At most so many places of each source are reserved: a candidate is told by its         *)
(* source and its place among those of the source.                                    *)
SourcesIn(S) == {c.source : c \in S}

LEMMA SourcesFinite ==
    ASSUME NEW S, IsFiniteSet(S)
    PROVE  IsFiniteSet(SourcesIn(S)) /\ Cardinality(SourcesIn(S)) \in Nat
  <1>1. PICK f : f = [c \in S |-> c.source]
    OBVIOUS
  <1>2. f \in Surjection(S, SourcesIn(S))
    BY <1>1 DEF Surjection, SourcesIn
  <1> QED
    BY <1>2, FS_Surjection, FS_CardinalityType

LEMMA MostReserved ==
    ASSUME NEW S, Listed(S), MinPerSource \in Nat
    PROVE  /\ Fusion!Reserved(S) \subseteq S
           /\ Cardinality(Fusion!Reserved(S)) <= Cardinality(SourcesIn(S)) * MinPerSource
  <1>1. PICK R : R = Fusion!Reserved(S)
    OBVIOUS
  <1>2. R \subseteq S
    BY <1>1 DEF Fusion!Reserved
  <1> DEFINE Of(s) == Fusion!From(S, s)
             rank(s, c) == Cardinality(Ahead(Of(s), c))
  <1>3. \A s : Of(s) \subseteq S /\ Listed(Of(s))
    BY ListedPart DEF Fusion!From
  <1>4. ASSUME NEW s, NEW c \in Of(s) PROVE rank(s, c) \in Nat
    <2>1. IsFiniteSet(Ahead(Of(s), c))
      BY <1>3, FS_Subset DEF Listed, Ahead
    <2> QED
      BY <2>1, FS_CardinalityType
  <1>5. ASSUME NEW c \in R PROVE c \in Of(c.source) /\ rank(c.source, c) \in 0..(MinPerSource - 1)
    <2>1. c \in S /\ c \in Fusion!FirstOf(Of(c.source), MinPerSource)
      BY <1>1 DEF Fusion!Reserved
    <2>2. c \in Of(c.source)
      BY <2>1 DEF Fusion!From
    <2>3. Fusion!Cardinality({d \in Of(c.source) : Fusion!Before(d, c)}) < MinPerSource
      BY <2>1 DEF Fusion!FirstOf
    <2>4. rank(c.source, c) < MinPerSource
      BY <2>3, OneCardinality DEF Ahead
    <2>5. rank(c.source, c) \in Nat
      BY <1>4, <2>2
    <2> HIDE DEF rank, Of
    <2> QED
      BY <2>2, <2>4, <2>5
  <1>6. ASSUME NEW s, NEW c \in Of(s), NEW d \in Of(s), rank(s, c) = rank(s, d) PROVE c = d
    <2>1. PICK r : Ranks(Of(s), r)
      BY <1>3, Ordered
    <2>2. r[c] = r[d]
      BY <1>6, <2>1 DEF Ranks
    <2> QED
      BY <2>1, <2>2 DEF Ranks, Injection, IsInjective
  <1>7. PICK I : I = 0..(MinPerSource - 1)
    OBVIOUS
  <1>8. IsFiniteSet(I) /\ Cardinality(I) = MinPerSource
    <2>1. MinPerSource - 1 \in Int /\ 0 \in Int
      OBVIOUS
    <2>2. IsFiniteSet(0..(MinPerSource - 1))
          /\ Cardinality(0..(MinPerSource - 1))
               = IF 0 > MinPerSource - 1 THEN 0 ELSE (MinPerSource - 1) - 0 + 1
      BY <2>1, FS_Interval
    <2> QED
      BY <1>7, <2>2
  <1>9. PICK f : f = [c \in R |-> <<c.source, rank(c.source, c)>>]
    OBVIOUS
  <1>10. f \in [R -> SourcesIn(S) \X I]
    <2>1. \A c \in R : c.source \in SourcesIn(S) /\ rank(c.source, c) \in I
      BY <1>2, <1>5, <1>7 DEF SourcesIn
    <2> HIDE DEF rank
    <2> QED
      BY <1>9, <2>1
  <1>11. ASSUME NEW c \in R, NEW d \in R, f[c] = f[d] PROVE c = d
    <2> HIDE DEF rank, Of
    <2>1. c.source = d.source /\ rank(c.source, c) = rank(d.source, d)
      BY <1>9, <1>11
    <2>2. c \in Of(c.source) /\ d \in Of(c.source) /\ rank(c.source, c) = rank(c.source, d)
      BY <1>5, <2>1
    <2> QED
      BY <1>6, <2>2
  <1>12. f \in Injection(R, SourcesIn(S) \X I)
    BY <1>10, <1>11 DEF Injection, IsInjective
  <1>13. IsFiniteSet(SourcesIn(S))
    BY SourcesFinite DEF Listed
  <1>14. /\ IsFiniteSet(SourcesIn(S) \X I)
         /\ Cardinality(SourcesIn(S) \X I) = Cardinality(SourcesIn(S)) * MinPerSource
    BY <1>8, <1>13, FS_Product
  <1>15. Cardinality(R) <= Cardinality(SourcesIn(S)) * MinPerSource
    BY <1>12, <1>14, FS_Injection
  <1> QED
    BY <1>1, <1>2, <1>15

(* The pool is as large as it may be, and holds what is reserved as long as that fits.    *)
PoolRepresents(S, pool) ==
    /\ Cardinality(pool) = Smaller(Cardinality(S), PoolLimit)
    /\ Cardinality(SourcesIn(S)) * MinPerSource <= PoolLimit =>
          \A s \in SourcesIn(S) : Fusion!Fits(S, s) =>
              Cardinality(Fusion!From(pool, s))
                 >= Smaller(MinPerSource, Cardinality(Fusion!From(S, s)))

LEMMA PoolIs ==
    ASSUME NEW S, Listed(S), MinPerSource \in Nat, PoolLimit \in Nat
    PROVE  Fusion!DiversifyPool(S) \subseteq S /\ PoolRepresents(S, Fusion!DiversifyPool(S))
  <1>1. PICK R : R = Fusion!Reserved(S)
    OBVIOUS
  <1>2. R \subseteq S /\ Listed(R) /\ Listed(S \ R)
    BY <1>1, MostReserved, ListedPart
  <1>3. PICK n \in Nat : n = Cardinality(S)
    BY FS_CardinalityType DEF Listed
  <1>4. PICK taken \in Nat : taken = Cardinality(R)
    BY <1>2, FS_CardinalityType DEF Listed
  <1>5. taken <= n /\ Cardinality(S \ R) = n - taken
    <2>1. S \cap R = R
      BY <1>2
    <2>2. Cardinality(S \ R) = Cardinality(S) - Cardinality(S \cap R)
      BY FS_Difference DEF Listed
    <2>3. Cardinality(R) <= Cardinality(S)
      BY <1>2, FS_Subset DEF Listed
    <2> QED
      BY <1>3, <1>4, <2>1, <2>2, <2>3
  <1>6. PICK room \in Nat : room = IF taken < PoolLimit THEN PoolLimit - taken ELSE 0
    OBVIOUS
  <1>7. PICK F : F = Fusion!FirstOf(S \ R, room)
    OBVIOUS
  <1>8. F \subseteq S \ R /\ Listed(F) /\ Cardinality(F) = Smaller(room, n - taken)
    BY <1>2, <1>5, <1>7, FirstIs
  <1>9. PICK U : U = R \cup F
    OBVIOUS
  <1>10. U \subseteq S /\ Listed(U)
    BY <1>2, <1>8, <1>9, ListedPart
  <1>11. Cardinality(U) = taken + Smaller(room, n - taken)
    <2>1. R \cap F = {}
      BY <1>8
    <2>2. Cardinality(U) = Cardinality(R) + Cardinality(F) - Cardinality(R \cap F)
      BY <1>2, <1>8, <1>9, FS_Union DEF Listed
    <2>3. Cardinality(R \cap F) = 0
      BY <2>1, FS_EmptySet
    <2> QED
      BY <1>3, <1>4, <1>5, <1>6, <1>8, <2>2, <2>3 DEF Smaller
  <1>12. PICK pool : pool = Fusion!DiversifyPool(S)
    OBVIOUS
  <1>13. pool = Fusion!FirstOf(U, PoolLimit)
    BY <1>1, <1>4, <1>6, <1>7, <1>9, <1>12, OneCardinality DEF Fusion!DiversifyPool
  <1>14. pool \subseteq U /\ Listed(pool) /\ Cardinality(pool) = Smaller(PoolLimit, Cardinality(U))
    BY <1>10, <1>13, FirstIs
  <1>15. Cardinality(pool) = Smaller(n, PoolLimit)
    BY <1>5, <1>6, <1>11, <1>14 DEF Smaller
  <1>16. ASSUME Cardinality(SourcesIn(S)) * MinPerSource <= PoolLimit,
                NEW s \in SourcesIn(S), Fusion!Fits(S, s)
         PROVE  Cardinality(Fusion!From(pool, s))
                   >= Smaller(MinPerSource, Cardinality(Fusion!From(S, s)))
    <2>1. taken <= PoolLimit
      <3>1. taken <= Cardinality(SourcesIn(S)) * MinPerSource
        BY <1>1, <1>4, MostReserved
      <3>2. Cardinality(SourcesIn(S)) \in Nat
        BY SourcesFinite DEF Listed
      <3>3. PICK k : k = Cardinality(SourcesIn(S)) * MinPerSource
        OBVIOUS
      <3>4. k \in Int
        BY <3>2, <3>3
      <3> QED
        BY <1>16, <3>1, <3>3, <3>4
    <2>2. Cardinality(U) <= PoolLimit /\ Cardinality(U) \in Nat
      BY <1>5, <1>6, <1>11, <2>1 DEF Smaller
    <2>3. Cardinality(pool) = Cardinality(U)
      BY <1>14, <2>2 DEF Smaller
    <2>4. pool = U
      BY <1>10, <1>14, <2>3, FS_Subset DEF Listed
    <2>5. PICK G : G = Fusion!FirstOf(Fusion!From(S, s), MinPerSource)
      OBVIOUS
    <2>6. Listed(Fusion!From(S, s))
      BY ListedPart DEF Fusion!From
    <2>7. G \subseteq Fusion!From(S, s)
          /\ Cardinality(G) = Smaller(MinPerSource, Cardinality(Fusion!From(S, s)))
      BY <2>5, <2>6, FirstIs
    <2>8. \A c \in G : c \in S /\ c.source = s
      BY <2>7 DEF Fusion!From
    <2>9. G \subseteq R
      BY <1>1, <1>16, <2>5, <2>8 DEF Fusion!Reserved
    <2>10. G \subseteq Fusion!From(pool, s)
      BY <1>9, <2>4, <2>8, <2>9 DEF Fusion!From
    <2>11. IsFiniteSet(Fusion!From(pool, s))
      BY <1>14, FS_Subset DEF Fusion!From, Listed
    <2>12. Cardinality(G) <= Cardinality(Fusion!From(pool, s))
      BY <2>10, <2>11, FS_Subset
    <2>13. Cardinality(G) \in Nat /\ Cardinality(Fusion!From(pool, s)) \in Nat
      BY <2>10, <2>11, FS_Subset, FS_CardinalityType
    <2> QED
      BY <2>7, <2>12, <2>13
  <1> QED
    BY <1>3, <1>10, <1>12, <1>14, <1>15, <1>16 DEF PoolRepresents

-----------------------------------------------------------------------------
(* What the two streams are fused to.                                              *)
Stream(s) ==
    /\ \E n \in Nat : DOMAIN s = 1..n
    /\ \A i \in DOMAIN s : s[i].url \in Nat /\ s[i].fit \in Int
    /\ \A i, j \in DOMAIN s : i # j => s[i].url # s[j].url

LEMMA StreamsAre == ASSUME NEW p, NEW s \in Fusion!StreamsOf(p), RankingAssumption PROVE Stream(s)
  <1>1. Address \subseteq Nat /\ StreamLength \in Nat
    BY RankingAssumption DEF Fusion!RankingAssumption
  <1>2. PICK n \in 0..StreamLength :
           s \in {f \in [1..n -> Fusion!Item(p)] : \A i, j \in 1..n : i # j => f[i].url # f[j].url}
    BY DEF Fusion!StreamsOf
  <1>3. n \in Nat /\ DOMAIN s = 1..n /\ \A i \in 1..n : s[i] \in Fusion!Item(p)
    BY <1>1, <1>2
  <1>4. ASSUME NEW i \in 1..n PROVE s[i].url \in Nat /\ s[i].fit \in Int
    <2>1. PICK a : a = s[i]
      OBVIOUS
    <2>2. a \in Fusion!Item(p)
      BY <1>3, <2>1
    <2>3. a.url \in Address /\ a.fit \in 0..1
      BY <2>2 DEF Fusion!Item
    <2>4. a.url \in Nat
      BY <1>1, <2>3
    <2>5. a.fit \in Int
      BY <2>3
    <2> QED
      BY <2>1, <2>4, <2>5
  <1>5. \A i, j \in 1..n : i # j => s[i].url # s[j].url
    BY <1>2
  <1> QED
    BY <1>3, <1>4, <1>5 DEF Stream

LEMMA RankIs ==
    ASSUME NEW s, Stream(s), NEW u \in Fusion!Urls(s)
    PROVE  /\ Fusion!Rank(s, u) \in DOMAIN s /\ Fusion!Rank(s, u) \in Nat
           /\ s[Fusion!Rank(s, u)].url = u /\ s[Fusion!Rank(s, u)].fit \in Int /\ u \in Nat
  <1>1. PICK i \in DOMAIN s : s[i].url = u
    BY DEF Fusion!Urls
  <1>2. Fusion!RanksOf(s, u) # {}
    BY <1>1 DEF Fusion!RanksOf
  <1>3. Fusion!Rank(s, u) \in Fusion!RanksOf(s, u)
    BY <1>2 DEF Fusion!Rank
  <1>4. Fusion!Rank(s, u) \in DOMAIN s /\ s[Fusion!Rank(s, u)].url = u
    BY <1>3 DEF Fusion!RanksOf
  <1> QED
    BY <1>4 DEF Stream

(* The item of a stream with an address, its candidate, and the candidate of both streams. *)
Found(s, u) == s[Fusion!Rank(s, u)]
Both(s, t, u) == Fusion!Merge(Fusion!First(s, u), Found(t, u), Fusion!Rank(t, u))
FromItems(c, us) ==
    /\ c.url \in us /\ c.url \in Nat /\ c.score \in Int /\ c.fit \in Int
    /\ \E i, j \in DOMAIN c.items : c.title = c.items[i] /\ c.snippet = c.items[j]

LEMMA Mapped == ASSUME NEW X, NEW s \in Seq(X) PROVE s \in [1..Len(s) -> X]
  OBVIOUS

LEMMA Appended ==
    ASSUME NEW X, NEW s \in Seq(X), NEW x \in X
    PROVE  /\ Append(s, x) \in Seq(X) /\ Len(Append(s, x)) = Len(s) + 1
           /\ Append(s, x)[Len(s) + 1] = x
           /\ \A i \in 1..Len(s) : Append(s, x)[i] = s[i]
  OBVIOUS

LEMMA OneAndOne == ASSUME NEW a, NEW b PROVE Append(<<a>>, b) = <<a, b>>
  <1>1. PICK one : one = <<a>>
    OBVIOUS
  <1>2. PICK two : two = <<a, b>>
    OBVIOUS
  <1>3. PICK X : X = {a, b}
    OBVIOUS
  <1>4. one \in Seq(X) /\ Len(one) = 1 /\ one[1] = a /\ a \in X /\ b \in X
    BY <1>1, <1>3
  <1>5. two \in Seq(X) /\ Len(two) = 2 /\ two[1] = a /\ two[2] = b
    BY <1>2, <1>3
  <1>6. PICK more : more = Append(one, b)
    OBVIOUS
  <1>7. /\ more \in Seq(X) /\ Len(more) = Len(one) + 1 /\ more[Len(one) + 1] = b
        /\ \A i \in 1..Len(one) : more[i] = one[i]
    <2>1. one \in Seq(X) /\ b \in X
      BY <1>4
    <2> QED
      BY <1>6, <2>1, Appended
  <1>8. Len(more) = 2 /\ more[1] = a /\ more[2] = b
    BY <1>4, <1>7
  <1>9. more \in [1..2 -> X]
    <2>1. more \in [1..Len(more) -> X]
      BY <1>7, Mapped
    <2> QED
      BY <1>8, <2>1
  <1>10. two \in [1..2 -> X]
    <2>1. two \in [1..Len(two) -> X]
      BY <1>5, Mapped
    <2> QED
      BY <1>5, <2>1
  <1>11. \A i \in 1..2 : more[i] = two[i]
    BY <1>5, <1>8
  <1>12. more = two
    BY <1>9, <1>10, <1>11
  <1> QED
    BY <1>1, <1>2, <1>6, <1>12

LEMMA FirstTold ==
    ASSUME NEW s, Stream(s), NEW u \in Fusion!Urls(s)
    PROVE  FromItems(Fusion!First(s, u), {u})
  <1>1. PICK a : a = Found(s, u)
    OBVIOUS
  <1>2. PICK r \in Nat : r = Fusion!Rank(s, u)
    BY RankIs
  <1>3. a.url = u /\ u \in Nat /\ a.fit \in Int
    BY <1>1, RankIs DEF Found
  <1>4. PICK c : c = Fusion!First(s, u)
    OBVIOUS
  <1>5. c = [url |-> a.url, source |-> a.source, title |-> a, snippet |-> a,
             fit |-> a.fit, score |-> 10 - r, items |-> <<a>>]
    BY <1>1, <1>2, <1>4 DEF Found, Fusion!First, Fusion!NewCandidate, Fusion!Score
  <1>6. 1 \in DOMAIN c.items /\ c.items[1] = a /\ c.title = a /\ c.snippet = a
    BY <1>5
  <1>7. c.url = u /\ c.fit \in Int /\ c.score \in Int
    BY <1>3, <1>5
  <1> QED
    BY <1>3, <1>4, <1>6, <1>7 DEF FromItems

BothIs(s, t, u, c) ==
    /\ c.url = u /\ c.score = 20 - Fusion!Rank(s, u) - Fusion!Rank(t, u)
    /\ c.fit = IF Found(t, u).fit > Found(s, u).fit THEN Found(t, u).fit ELSE Found(s, u).fit
    /\ {c.items[i] : i \in DOMAIN c.items} = {Found(s, u), Found(t, u)}

LEMMA BothTold ==
    ASSUME NEW s, NEW t, Stream(s), Stream(t), NEW u, u \in Fusion!Urls(s), u \in Fusion!Urls(t)
    PROVE  FromItems(Both(s, t, u), {u}) /\ BothIs(s, t, u, Both(s, t, u))
  <1>1. PICK a : a = Found(s, u)
    OBVIOUS
  <1>2. PICK b : b = Found(t, u)
    OBVIOUS
  <1>3. PICK q \in Nat : q = Fusion!Rank(s, u)
    BY RankIs
  <1>4. PICK r \in Nat : r = Fusion!Rank(t, u)
    BY RankIs
  <1>5. a.url = u /\ u \in Nat /\ a.fit \in Int /\ b.fit \in Int
    BY <1>1, <1>2, RankIs DEF Found
  <1>6. PICK c : c = Fusion!First(s, u)
    OBVIOUS
  <1>7. c = [url |-> a.url, source |-> a.source, title |-> a, snippet |-> a,
             fit |-> a.fit, score |-> 10 - q, items |-> <<a>>]
    BY <1>1, <1>3, <1>6 DEF Found, Fusion!First, Fusion!NewCandidate, Fusion!Score
  <1>8. PICK d : d = Both(s, t, u)
    OBVIOUS
  <1>9. d = Fusion!Merge(c, b, r)
    BY <1>2, <1>4, <1>6, <1>8 DEF Both
  <1>10. /\ d.url = c.url /\ d.score = c.score + (10 - r)
         /\ d.fit = IF b.fit > c.fit THEN b.fit ELSE c.fit
         /\ d.title = IF b.fit > c.fit THEN b ELSE c.title
         /\ d.snippet \in {b, c.snippet}
         /\ d.items = IF b = c.items[1] THEN c.items ELSE Append(c.items, b)
    BY <1>9 DEF Fusion!Merge, Fusion!Score
  <1>11. d.url = u /\ d.score = 20 - q - r /\ d.fit = IF b.fit > a.fit THEN b.fit ELSE a.fit
    BY <1>5, <1>7, <1>10
  <1>12. d.title \in {a, b} /\ d.snippet \in {a, b}
    BY <1>7, <1>10
  <1>13. d.items = IF b = a THEN <<a>> ELSE <<a, b>>
    <2>1. c.items = <<a>>
      BY <1>7
    <2>2. c.items[1] = a
      BY <2>1
    <2>3. Append(<<a>>, b) = <<a, b>>
      BY OneAndOne
    <2> QED
      BY <1>10, <2>1, <2>2, <2>3
  <1>14. {d.items[i] : i \in DOMAIN d.items} = {a, b}
    <2>1. CASE b = a
      BY <1>13, <2>1
    <2>2. CASE b # a
      <3>1. d.items = <<a, b>>
        BY <1>13, <2>2
      <3>2. DOMAIN d.items = {1, 2} /\ d.items[1] = a /\ d.items[2] = b
        BY <3>1
      <3> QED
        BY <3>2
    <2> QED
      BY <2>1, <2>2
  <1>15. \E i, j \in DOMAIN d.items : d.title = d.items[i] /\ d.snippet = d.items[j]
    BY <1>12, <1>14
  <1>16. d.score \in Int /\ d.fit \in Int
    BY <1>5, <1>11
  <1> QED
    BY <1>1, <1>2, <1>3, <1>4, <1>5, <1>8, <1>11, <1>14, <1>15, <1>16 DEF FromItems, BothIs

(* What is collected is one candidate for each address.                                *)
LEMMA Collected ==
    ASSUME NEW x, Stream(x[1]), Stream(x[2]), NEW c
    PROVE  c \in Fusion!Collect(x) <=>
              \/ \E u \in Fusion!Urls(x[1]) \ Fusion!Urls(x[2]) : c = Fusion!First(x[1], u)
              \/ \E u \in Fusion!Urls(x[2]) \ Fusion!Urls(x[1]) : c = Fusion!First(x[2], u)
              \/ \E u \in Fusion!Urls(x[1]) \cap Fusion!Urls(x[2]) : c = Both(x[1], x[2], u)
  BY Zenon DEF Fusion!Collect, Both, Found

LEMMA UrlsFinite == ASSUME NEW s, Stream(s) PROVE IsFiniteSet(Fusion!Urls(s))
  <1>1. PICK n \in Nat : DOMAIN s = 1..n
    BY DEF Stream
  <1>2. PICK f : f = [i \in 1..n |-> s[i].url]
    OBVIOUS
  <1>3. f \in Surjection(1..n, Fusion!Urls(s))
    BY <1>1, <1>2 DEF Surjection, Fusion!Urls
  <1>4. IsFiniteSet(1..n)
    BY FS_Interval
  <1> QED
    BY <1>3, <1>4, FS_Surjection

LEMMA CollectIs ==
    ASSUME NEW x, Stream(x[1]), Stream(x[2])
    PROVE  /\ Listed(Fusion!Collect(x))
           /\ \A c \in Fusion!Collect(x) : FromItems(c, Fusion!Urls(x[1]) \cup Fusion!Urls(x[2]))
  <1>1. PICK s : s = x[1]
    OBVIOUS
  <1>2. PICK t : t = x[2]
    OBVIOUS
  <1>3. PICK C : C = Fusion!Collect(x)
    OBVIOUS
  <1>4. Stream(s) /\ Stream(t)
    BY <1>1, <1>2
  <1> DEFINE Of(c, u) == \/ u \in Fusion!Urls(s) \ Fusion!Urls(t) /\ c = Fusion!First(s, u)
                         \/ u \in Fusion!Urls(t) \ Fusion!Urls(s) /\ c = Fusion!First(t, u)
                         \/ u \in Fusion!Urls(s) \cap Fusion!Urls(t) /\ c = Both(s, t, u)
  <1>5. ASSUME NEW c \in C PROVE \E u : Of(c, u)
    BY <1>1, <1>2, <1>3, Collected
  <1>6. ASSUME NEW c, NEW u, Of(c, u) PROVE FromItems(c, {u})
    BY <1>4, <1>6, FirstTold, BothTold
  <1>7. ASSUME NEW c, NEW u, Of(c, u)
        PROVE  u \in Fusion!Urls(s) \cup Fusion!Urls(t) /\ c.url = u
    BY <1>6, <1>7 DEF FromItems
  <1>8. ASSUME NEW c, NEW d, NEW u, Of(c, u), Of(d, u) PROVE c = d
    BY <1>8
  <1> HIDE DEF Of
  <1>9. ASSUME NEW c \in C PROVE FromItems(c, Fusion!Urls(s) \cup Fusion!Urls(t))
    BY <1>5, <1>6, <1>7 DEF FromItems
  <1>10. ASSUME NEW c \in C, NEW d \in C, c.url = d.url PROVE c = d
    BY <1>5, <1>7, <1>8, <1>10
  <1>11. PICK f : f = [c \in C |-> c.url]
    OBVIOUS
  <1>12. f \in Injection(C, Fusion!Urls(s) \cup Fusion!Urls(t))
    <2>1. f \in [C -> Fusion!Urls(s) \cup Fusion!Urls(t)]
      BY <1>9, <1>11 DEF FromItems
    <2>2. \A c, d \in C : f[c] = f[d] => c = d
      BY <1>10, <1>11
    <2> QED
      BY <2>1, <2>2 DEF Injection, IsInjective
  <1>13. IsFiniteSet(C)
    <2>1. IsFiniteSet(Fusion!Urls(s) \cup Fusion!Urls(t))
      BY <1>4, UrlsFinite, FS_Union
    <2> QED
      BY <1>12, <2>1, FS_Injection
  <1>14. Listed(C)
    BY <1>9, <1>10, <1>13 DEF Listed, FromItems
  <1> QED
    BY <1>1, <1>2, <1>3, <1>9, <1>14

(* The evidence: what of a candidate does not depend on which stream came first.          *)
EvidenceOf(c) == [url |-> c.url, score |-> c.score, fit |-> c.fit,
                 items |-> {c.items[i] : i \in DOMAIN c.items}]

LEMMA BothTurned ==
    ASSUME NEW s, NEW t, Stream(s), Stream(t), NEW u, u \in Fusion!Urls(s), u \in Fusion!Urls(t)
    PROVE  EvidenceOf(Both(s, t, u)) = EvidenceOf(Both(t, s, u))
  <1>1. PICK c : c = Both(s, t, u)
    OBVIOUS
  <1>2. PICK d : d = Both(t, s, u)
    OBVIOUS
  <1>3. BothIs(s, t, u, c) /\ BothIs(t, s, u, d)
    BY <1>1, <1>2, BothTold
  <1>4. c.url = d.url
    BY <1>3 DEF BothIs
  <1>5. c.score = d.score
    <2>1. Fusion!Rank(s, u) \in Nat /\ Fusion!Rank(t, u) \in Nat
      BY RankIs
    <2> QED
      BY <1>3, <2>1 DEF BothIs
  <1>6. c.fit = d.fit
    <2>1. Found(s, u).fit \in Int /\ Found(t, u).fit \in Int
      BY RankIs DEF Found
    <2> QED
      BY <1>3, <2>1 DEF BothIs
  <1>7. {c.items[i] : i \in DOMAIN c.items} = {d.items[i] : i \in DOMAIN d.items}
    <2>1. {Found(s, u), Found(t, u)} = {Found(t, u), Found(s, u)}
      OBVIOUS
    <2> QED
      BY <1>3, <2>1 DEF BothIs
  <1> QED
    BY <1>1, <1>2, <1>4, <1>5, <1>6, <1>7 DEF EvidenceOf

LEMMA HalfTurned ==
    ASSUME NEW x, NEW y, Stream(x[1]), Stream(x[2]), y[1] = x[2], y[2] = x[1],
           NEW c \in Fusion!Collect(x)
    PROVE  \E d \in Fusion!Collect(y) : EvidenceOf(d) = EvidenceOf(c)
  <1>1. CASE \E u \in Fusion!Urls(x[1]) \ Fusion!Urls(x[2]) : c = Fusion!First(x[1], u)
    <2>1. c \in Fusion!Collect(y)
      BY <1>1, Collected
    <2> QED
      BY <2>1
  <1>2. CASE \E u \in Fusion!Urls(x[2]) \ Fusion!Urls(x[1]) : c = Fusion!First(x[2], u)
    <2>1. c \in Fusion!Collect(y)
      BY <1>2, Collected
    <2> QED
      BY <2>1
  <1>3. CASE \E u \in Fusion!Urls(x[1]) \cap Fusion!Urls(x[2]) : c = Both(x[1], x[2], u)
    <2>1. PICK u \in Fusion!Urls(x[1]) \cap Fusion!Urls(x[2]) : c = Both(x[1], x[2], u)
      BY <1>3
    <2>2. Both(y[1], y[2], u) \in Fusion!Collect(y)
      BY Collected
    <2>3. EvidenceOf(Both(y[1], y[2], u)) = EvidenceOf(c)
      BY <2>1, BothTurned
    <2> QED
      BY <2>2, <2>3
  <1> QED
    BY <1>1, <1>2, <1>3, Collected

-----------------------------------------------------------------------------
(* What is sent is of public candidates, whose titles and snippets are of public items.   *)
Public(pool) == {c \in pool : ~Fusion!IsPrivate(c)}
FusionInv ==
    /\ Stream(input.streams[1]) /\ Stream(input.streams[2])
    /\ output.at # "new" => output.pool = Fusion!WeightedRRF(input.streams)
    /\ output.at = "ranked" =>
          output.prompt \cup output.fun \subseteq Fusion!Texts(Public(output.pool))

LEMMA FusionStart == ASSUME Fusion!Init PROVE FusionInv
  <1>1. PICK p \in Pairings : \E s \in Fusion!StreamsOf(p[1]), t \in Fusion!StreamsOf(p[2]) :
           input = [streams |-> <<s, t>>]
    BY DEF Fusion!Init
  <1>2. PICK s \in Fusion!StreamsOf(p[1]) : \E t \in Fusion!StreamsOf(p[2]) :
           input = [streams |-> <<s, t>>]
    BY <1>1
  <1>3. PICK t \in Fusion!StreamsOf(p[2]) : input = [streams |-> <<s, t>>]
    BY <1>2
  <1>4. Stream(s) /\ Stream(t)
    BY StreamsAre, RankingAssumption
  <1>5. input.streams[1] = s /\ input.streams[2] = t
    BY <1>3
  <1>6. output.at = "new"
    BY DEF Fusion!Init
  <1> QED
    BY <1>4, <1>5, <1>6 DEF FusionInv

LEMMA FusedAre ==
    ASSUME FusionInv
    PROVE  /\ Listed(Fusion!Collect(input.streams)) /\ Listed(Fusion!Fused(input.streams))
           /\ Fusion!Fused(input.streams) \subseteq Fusion!Collect(input.streams)
           /\ Fusion!WeightedRRF(input.streams) \subseteq Fusion!Fused(input.streams)
           /\ PoolRepresents(Fusion!Fused(input.streams), Fusion!WeightedRRF(input.streams))
  <1>1. Listed(Fusion!Collect(input.streams))
    BY CollectIs DEF FusionInv
  <1>2. Fusion!Fused(input.streams) \subseteq Fusion!Collect(input.streams)
    BY DEF Fusion!Fused, Fusion!CapAuthors
  <1>3. Listed(Fusion!Fused(input.streams))
    BY <1>1, <1>2, ListedPart
  <1>4. MinPerSource \in Nat /\ PoolLimit \in Nat
    BY RankingAssumption DEF Fusion!RankingAssumption
  <1> QED
    BY <1>1, <1>2, <1>3, <1>4, PoolIs DEF Fusion!WeightedRRF

LEMMA FusionStep == ASSUME FusionInv, Fusion!Next PROVE FusionInv'
  <1>1. input' = input
    BY DEF Fusion!Next, Fusion!Fuse, Fusion!Rerank
  <1>2. CASE Fusion!Fuse
    <2>1. output'.at = "pool" /\ output'.pool = Fusion!WeightedRRF(input.streams)
      BY <1>2 DEF Fusion!Fuse
    <2> QED
      BY <1>1, <2>1 DEF FusionInv
  <1>3. CASE Fusion!Rerank
    <2>1. PICK pool : pool = output.pool
      OBVIOUS
    <2>2. pool = Fusion!WeightedRRF(input.streams)
      BY <1>3, <2>1 DEF FusionInv, Fusion!Rerank
    <2>3. output'.at = "ranked" /\ output'.pool = pool
      BY <1>3, <2>1 DEF Fusion!Rerank
    <2>4. output'.prompt \cup output'.fun \subseteq Fusion!Texts(Public(pool))
      <3>1. CASE output' = [at |-> "ranked", pool |-> output.pool, prompt |-> {}, fun |-> {}]
        BY <3>1
      <3>2. CASE output' = [at |-> "ranked", pool |-> output.pool,
                            prompt |-> Fusion!Texts(Fusion!FirstOf(Public(pool), RerankLimit)),
                            fun |-> Fusion!Texts(Public(pool))]
        <4>1. Fusion!FirstOf(Public(pool), RerankLimit) \subseteq Public(pool)
          BY DEF Fusion!FirstOf
        <4>2. Fusion!Texts(Fusion!FirstOf(Public(pool), RerankLimit))
                 \subseteq Fusion!Texts(Public(pool))
          BY <4>1 DEF Fusion!Texts
        <4>3. output'.prompt = Fusion!Texts(Fusion!FirstOf(Public(pool), RerankLimit))
              /\ output'.fun = Fusion!Texts(Public(pool))
          BY <3>2
        <4> QED
          BY <4>2, <4>3
      <3> QED
        BY <1>3, <2>1, <3>1, <3>2 DEF Fusion!Rerank, Public
    <2> QED
      BY <1>1, <2>2, <2>3, <2>4 DEF FusionInv
  <1> QED
    BY <1>2, <1>3 DEF Fusion!Next

LEMMA FusionRepresents == ASSUME FusionInv PROVE Fusion!SourcesRepresented
  <1> SUFFICES ASSUME output.at # "new" PROVE Fusion!SourcesRepresented
    BY DEF Fusion!SourcesRepresented
  <1>1. PICK S : S = Fusion!Fused(input.streams)
    OBVIOUS
  <1>2. PoolRepresents(S, output.pool)
    BY <1>1, FusedAre DEF FusionInv
  <1> QED
    BY <1>1, <1>2, OneCardinality
    DEF Fusion!SourcesRepresented, PoolRepresents, SourcesIn, Smaller

LEMMA FusionOrderFree == ASSUME FusionInv PROVE Fusion!OrderFree
  <1>1. PICK x : x = input.streams
    OBVIOUS
  <1>2. PICK y : y = <<x[2], x[1]>>
    OBVIOUS
  <1>3. Stream(x[1]) /\ Stream(x[2]) /\ y[1] = x[2] /\ y[2] = x[1]
    BY <1>1, <1>2 DEF FusionInv
  <1>4. \A c \in Fusion!Collect(x) : \E d \in Fusion!Collect(y) : EvidenceOf(d) = EvidenceOf(c)
    BY <1>3, HalfTurned
  <1>5. \A c \in Fusion!Collect(y) : \E d \in Fusion!Collect(x) : EvidenceOf(d) = EvidenceOf(c)
    BY <1>3, HalfTurned
  <1>6. {EvidenceOf(c) : c \in Fusion!Collect(x)} = {EvidenceOf(c) : c \in Fusion!Collect(y)}
    BY <1>4, <1>5
  <1> QED
    BY <1>1, <1>2, <1>6 DEF Fusion!OrderFree, EvidenceOf

LEMMA FusionLocal == ASSUME FusionInv PROVE Fusion!CorpusStaysLocal
  <1> SUFFICES ASSUME output.at = "ranked", NEW x \in output.prompt \cup output.fun
               PROVE  x.source # "corpus"
    BY DEF Fusion!CorpusStaysLocal, Fusion!Corpus
  <1>1. x \in Fusion!Texts(Public(output.pool))
    BY DEF FusionInv
  <1>2. PICK c \in Public(output.pool) : x = c.title \/ x = c.snippet
    BY <1>1 DEF Fusion!Texts
  <1>3. c \in output.pool /\ ~Fusion!IsPrivate(c)
    BY <1>2 DEF Public
  <1>4. c \in Fusion!Collect(input.streams)
    BY <1>3, FusedAre DEF FusionInv
  <1>5. PICK us : FromItems(c, us)
    BY <1>4, CollectIs DEF FusionInv
  <1>6. PICK i \in DOMAIN c.items : x = c.items[i]
    BY <1>2, <1>5 DEF FromItems
  <1> QED
    BY <1>3, <1>6 DEF Fusion!IsPrivate, Fusion!Corpus

(* The pool represents its sources and is as large as it may be, the evidence does not    *)
(* depend on the order the streams ended in, and no text of the corpus is sent           *)
(* (fusion.weighted_rrf, diversify_pool, rerank_candidates), whatever was found.         *)
THEOREM RankingIsFair == EngineSpec => []RankingFair
  <1> DEFINE Inv == part = "fusion" => FusionInv
  <1>1. EngineInit => Inv
    BY FusionStart DEF EngineInit
  <1>2. Inv /\ [EngineNext]_engine => Inv'
    <2> SUFFICES ASSUME Inv, [EngineNext]_engine, part' = "fusion" PROVE FusionInv'
      OBVIOUS
    <2>1. part = "fusion" /\ FusionInv
      BY SamePart
    <2>2. CASE UNCHANGED engine
      BY <2>1, <2>2 DEF engine, FusionInv
    <2>3. CASE EngineNext
      <3>1. Fusion!Next
        BY <2>1, <2>3 DEF EngineNext, HttpStep, OnOne
      <3> QED
        BY <2>1, <3>1, FusionStep
    <2> QED
      BY <2>2, <2>3
  <1>3. Inv => RankingFair
    BY FusionRepresents, FusionOrderFree, FusionLocal DEF RankingFair
  <1> QED
    BY <1>1, <1>2, <1>3, PTL DEF EngineSpec
=============================================================================
