---------------------------- MODULE HttpRequest ----------------------------
(***************************************************************************)
(* http.request of last30days: one HTTP call with its retries, what it        *)
(* leaves in the failure capture of its stream, and what a recording session   *)
(* of the evaluation fixtures keeps of it.                                   *)
(***************************************************************************)
EXTENDS Integers, Sequences, FiniteSets

CONSTANTS
    Retries,        \* the budgets callers ask for
    Max429,         \* MAX_429_RETRIES
    MinDns          \* MIN_DNS_RETRIES
CallAssumption == Retries \subseteq Nat /\ Max429 \in Nat \ {0} /\ MinDns \in Nat

None == "none"
(* What one attempt may meet: an answer, or what urllib reports of its absence.  *)
(* Garbled stands for a body that is not UTF-8, and for an answer cut short or    *)
(* malformed (http.client.HTTPException), the body of a refusal included.       *)
ClientError == {"401", "404"}
HttpError == ClientError \cup {"429", "500"}
Network == {"dns", "url", "reset"}
Understood == HttpError \cup Network \cup {"ok", "json"}
Garbled == "garbled"
Answer == Understood \cup {Garbled}
Session == {"live", "record", "replay"}

VARIABLES
    request,    \* what the caller asked for, constant
    call        \* the state of the call
vars == <<request, call>>

Request == [retries : Retries, misses : {{}, {"404"}}, session : Session, nested : BOOLEAN,
            recorded : Understood]

Call == [attempt : Nat, effective : Nat, limited : Nat, dns : Nat, sent : Seq(Answer),
         last : Understood \cup {None}, end : {None, "value", "raised", "escaped"},
         captured : Seq(Understood \cup {None}), exchanges : Seq(Understood \cup {None})]

Init ==
    /\ request \in Request
    /\ request.session # "record" => ~request.nested
    /\ request.session # "replay" => request.recorded = "ok"
    /\ call = [attempt |-> 0, effective |-> request.retries, limited |-> 0, dns |-> 0,
               sent |-> <<>>, last |-> None, end |-> None, captured |-> <<>>, exchanges |-> <<>>]

(* _record_failure, called by _raise.                                       *)
RecordFailure(c, error) ==
    IF error \in request.misses THEN c ELSE [c EXCEPT !.captured = Append(@, error)]
Raise(c, error) == [RecordFailure(c, error) EXCEPT !.end = "raised"]

(* _fixture_record: nothing outside a recording session, and nothing of the    *)
(* calls of an adapter whose whole result is recorded.                       *)
FixtureRecord(c, answer) ==
    IF request.session # "record" \/ request.nested THEN c
    ELSE [c EXCEPT !.exchanges = Append(@, answer)]
RaiseRecorded(c, error) == Raise(FixtureRecord(c, error), error)

Sending == call.end = None /\ request.session # "replay" /\ call.attempt < call.effective
Sent(a) == [call EXCEPT !.sent = Append(@, a), !.last = IF a \in {"ok", Garbled} THEN @ ELSE a]
(* The attempt after this one, or out of the loop.                           *)
Again(c) == [c EXCEPT !.attempt = @ + 1]
Break(c) == RaiseRecorded(c, c.last)
(* An exception that no clause of the loop catches: nobody records it.         *)
Escaped(c) == [c EXCEPT !.end = "escaped"]
(* Faulty variant: the budget a DNS failure widened is the budget of all errors. *)
HasWidenedRetry == call.attempt < call.effective - 1

HasRetry == call.attempt < request.retries - 1

(* _fixture_replay answers before anything is sent.                          *)
Replay ==
    /\ request.session = "replay" /\ call.end = None
    /\ call' = IF request.recorded = "ok" THEN [call EXCEPT !.end = "value"]
               ELSE Raise(call, request.recorded)

Succeed ==
    /\ Sending
    /\ call' = [FixtureRecord(Sent("ok"), "ok") EXCEPT !.end = "value"]

InvalidJson == Sending /\ call' = RaiseRecorded(Sent("json"), "json")

(* UnicodeDecodeError and HTTPException are none of the exceptions handled.     *)
Escape == Sending /\ call' = Escaped(Sent(Garbled))

Refused == \E a \in ClientError : Sending /\ call' = RaiseRecorded(Sent(a), a)

(* Retry-After may be a number that is no time to wait (negative, nan, inf).    *)
RateLimited ==
    /\ Sending
    /\ LET c == [Sent("429") EXCEPT !.limited = @ + 1]
       IN IF c.limited >= Max429 \/ ~HasRetry THEN call' = Break(c)
          ELSE call' = Again(c) \/ call' = Escaped(c)

ServerError ==
    /\ Sending
    /\ call' = IF HasRetry THEN Again(Sent("500")) ELSE Break(Sent("500"))

(* A name that does not resolve widens the budget, and always goes on.        *)
DnsFailure ==
    /\ Sending
    /\ call' = Again([Sent("dns") EXCEPT !.dns = @ + 1,
                          !.effective = IF @ < MinDns THEN MinDns ELSE @])

ConnectionError ==
    \E a \in {"url", "reset"} :
        /\ Sending
        /\ call' = IF HasRetry THEN Again(Sent(a)) ELSE Break(Sent(a))

(* The loop is over without an answer.                                      *)
Exhausted ==
    /\ call.end = None /\ request.session # "replay" /\ call.attempt >= call.effective
    /\ call' = RaiseRecorded(call, call.last)

Next ==
    /\ \/ Replay \/ Succeed \/ InvalidJson \/ Escape \/ Refused \/ RateLimited \/ ServerError
       \/ DnsFailure \/ ConnectionError \/ Exhausted
    /\ UNCHANGED request
Spec == Init /\ [][Next]_vars /\ WF_vars(Next)

TypeOK == request \in Request /\ call \in Call

Count(a) == Cardinality({i \in 1..Len(call.sent) : call.sent[i] \in a})

(* "HTTP errors respect the caller's original retries even if a DNS failure     *)
(* widened the budget": however refused answers, resets and unresolved names    *)
(* alternate, a server is not asked again more often than the caller allowed,   *)
(* a rate limit is met at most Max429 times, and only names that do not        *)
(* resolve go beyond the budget, and one garbled answer after them.          *)
BudgetKept ==
    /\ Count(HttpError \cup {"url", "reset"}) <= request.retries
    /\ Count({Garbled}) <= 1
    /\ Count({"429"}) <= Max429
    /\ Len(call.sent) > request.retries => Count({"dns"}) > 0 /\ Len(call.sent) <= MinDns

Error == IF request.session = "replay" THEN request.recorded ELSE call.last

(* The capture of the stream and the recording hold the outcome of the call,    *)
(* once, and nothing of the attempts before it: a call that ends well after      *)
(* failures reports none, an expected miss is no failure of its source, and a   *)
(* replay of the recording meets what the caller met.  The exception is a call   *)
(* that escapes, of which neither of them holds anything, as if it had not been  *)
(* made: only a garbled answer or an impossible Retry-After makes it.         *)
OutcomeOnce ==
    /\ call.end # "raised" => call.captured = <<>>
    /\ call.end = "raised" => call.captured = IF Error \in request.misses THEN <<>> ELSE <<Error>>
    /\ call.exchanges =
          IF call.end \in {None, "escaped"} \/ request.session # "record" \/ request.nested THEN <<>>
          ELSE <<IF call.end = "value" THEN "ok" ELSE call.last>>
    /\ call.end = "escaped" =>
          /\ request.session # "replay"
          /\ Count({Garbled}) = 1 \/ Count({"429"}) \in 1..(Max429 - 1)

(* Whatever the servers answer, the call comes to this, escaped or not.         *)
CallEnded == call.end # None
=============================================================================
