-------------------------- MODULE PreferenceChange --------------------------
(***************************************************************************)
(* Changing a preference, from the form in the browser to the tables:      *)
(* PreferenceForm (apps/web/src/period-show.tsx), which picks the client   *)
(* request id and submits again after a failure, and createPreferenceChange*)
(* with the functions it calls (apps/api/src/worker.ts).                   *)
(*                                                                         *)
(* Requests are handled concurrently, each by a handler that may die       *)
(* between two of its awaits.  A request may reach the worker long after   *)
(* the form gave up on it, or never.  A D1 batch is one transaction, so    *)
(* applyPreferenceChange's four statements are one step; the call may fail *)
(* with the transaction rolled back or, when only the answer is lost, with *)
(* the transaction in place.  Periods are never deleted once a preference  *)
(* refers to them, so the 404 of an unknown period is left out.            *)
(***************************************************************************)
EXTENDS Integers, Sequences

CONSTANTS Actor, Period, Value, NoValue, Unset, Reason, None,
          Handler,      \* requests the worker handles at the same time
          MaxKeys,      \* bound: client request ids per actor
          MaxSends,     \* bound: requests sent
          MaxFailures   \* bound: failing D1 calls

ASSUME ValueAssumption == NoValue \in Value /\ Unset \notin Value
ASSUME BoundAssumption == MaxKeys \in Nat /\ MaxSends \in Nat /\ MaxFailures \in Nat

VARIABLES
    projection,     \* table preferences
    history,        \* table preference_events, in sequence order
    requests,       \* table preference_change_requests: the payload fingerprinted
    form,           \* the preference form of each participant
    minted,         \* client request ids each participant's browser has generated
    network,        \* requests on their way to the worker
    sends,          \* requests sent so far
    handler,        \* request handlers
    replies,        \* responses sent so far
    failures        \* failing D1 calls so far

tables == <<projection, history, requests>>
browser == <<form, minted, network, sends>>
vars == <<projection, history, requests, form, minted, network, sends,
          handler, replies, failures>>

(* Id 0 is one that clients other than the form use, also for several       *)
(* payloads; a form's ids are its own.                                     *)
Key == 0..MaxKeys
Payload == [period : Period, value : Value, reason : Reason]
Message == [attempt : 1..MaxSends, actor : Actor, key : Key, payload : Payload]
ASSUME NoneAssumption == None \notin Message \cup Payload \cup 1..MaxSends
Accepted == {"changed", "unchanged"}
Result == Accepted \cup {"conflict", "error"}

(* A form just mounted; pending is its pendingRequest ref. *)
NewForm == [pending |-> None, busy |-> None, saved |-> None]
Idle == [at |-> "idle", message |-> None]

Init ==
    /\ projection = [a \in Actor |-> [p \in Period |-> Unset]]
    /\ history = << >>
    /\ requests = [a \in Actor |-> [k \in Key |-> None]]
    /\ form = [a \in Actor |-> NewForm]
    /\ minted = [a \in Actor |-> 0]
    /\ network = {}
    /\ sends = 0
    /\ handler = [h \in Handler |-> Idle]
    /\ replies = {}
    /\ failures = 0

-----------------------------------------------------------------------------
(* The form.  Its button is disabled while a request is under way (busy).  *)

Send(a, key, payload) ==
    /\ form[a].busy = None
    /\ sends < MaxSends
    /\ sends' = sends + 1
    /\ network' = network \cup {[attempt |-> sends', actor |-> a, key |-> key,
                                 payload |-> payload]}
    /\ form' = [form EXCEPT ![a] = [pending |-> [key |-> key, payload |-> payload],
                                    busy |-> sends', saved |-> None]]
    /\ UNCHANGED <<tables, handler, replies, failures>>

(* Submitting what was submitted before and not acknowledged: same id. *)
Resubmit(a) ==
    /\ form[a].pending # None
    /\ Send(a, form[a].pending.key, form[a].pending.payload)
    /\ UNCHANGED minted

(* Submitting anything else: a new id.  A form belongs to one period.  *)
Submit(a, payload) ==
    /\ form[a].pending # None =>
            /\ form[a].pending.payload # payload
            /\ form[a].pending.payload.period = payload.period
    /\ minted[a] < MaxKeys
    /\ minted' = [minted EXCEPT ![a] = @ + 1]
    /\ Send(a, minted'[a], payload)

(* Faulty variant: every response counts as saved. *)
AnsweredAnyhow(a, reply) ==
    /\ form[a].busy = reply.message.attempt
    /\ form' = [form EXCEPT ![a] = [pending |-> None, busy |-> None, saved |-> @.pending]]
    /\ UNCHANGED <<tables, minted, network, sends, handler, replies, failures>>

(* The response of the request the form waits for. *)
Answered(a, reply) ==
    /\ form[a].busy = reply.message.attempt
    /\ form' = [form EXCEPT ![a] =
            IF reply.result \in Accepted
            THEN [pending |-> None, busy |-> None, saved |-> @.pending]
            ELSE [@ EXCEPT !.busy = None]]
    /\ UNCHANGED <<tables, minted, network, sends, handler, replies, failures>>

(* The fetch fails, whatever becomes of the request and its response. *)
FetchFails(a) ==
    /\ form[a].busy # None
    /\ form' = [form EXCEPT ![a].busy = None]
    /\ UNCHANGED <<tables, minted, network, sends, handler, replies, failures>>

(* The form is mounted anew: another page, another participant, or a       *)
(* reload that finds a newer preference (the form's React key).            *)
Remount(a) ==
    /\ form[a] # NewForm
    /\ form' = [form EXCEPT ![a] = NewForm]
    /\ UNCHANGED <<tables, minted, network, sends, handler, replies, failures>>

(* Another client of the API sends any payload under its id. *)
SendAgain(a, payload) ==
    /\ sends < MaxSends
    /\ sends' = sends + 1
    /\ network' = network \cup {[attempt |-> sends', actor |-> a, key |-> 0,
                                 payload |-> payload]}
    /\ UNCHANGED <<tables, form, minted, handler, replies, failures>>

-----------------------------------------------------------------------------
(* The worker. *)

Receive(h, m) ==
    /\ handler[h] = Idle
    /\ m \in network
    /\ network' = network \ {m}
    /\ handler' = [handler EXCEPT ![h] = [at |-> "lookup", message |-> m]]
    /\ UNCHANGED <<tables, form, minted, sends, replies, failures>>

Goto(h, step) ==
    /\ handler' = [handler EXCEPT ![h].at = step]
    /\ UNCHANGED <<browser, replies>>

Reply(h, result) ==
    /\ replies' = replies \cup {[message |-> handler[h].message, result |-> result]}
    /\ handler' = [handler EXCEPT ![h] = Idle]
    /\ UNCHANGED <<tables, browser, failures>>

Stored(m) == requests[m.actor][m.key]
Changed(m) == \E i \in DOMAIN history :
                  history[i].actor = m.actor /\ history[i].key = m.key

(* Faulty variant: the fingerprints are not compared. *)
StoredResultOfAnyPayload(m) == IF Changed(m) THEN "changed" ELSE "unchanged"

(* The answer to a request id that was used before. *)
StoredResult(m) ==
    IF Stored(m) # m.payload THEN "conflict"
    ELSE IF Changed(m) THEN "changed"
    ELSE "unchanged"

Lookup(h) ==
    LET m == handler[h].message IN
    /\ handler[h].at = "lookup"
    /\ \/ /\ Stored(m) # None
          /\ Reply(h, StoredResult(m))
       \/ /\ Stored(m) = None
          /\ Goto(h, "apply")
          /\ UNCHANGED <<tables, failures>>

(* Faulty variants: an existing preference row is left as it is; the event *)
(* takes over the missing row.                                             *)
CommitFirstOnly(m) ==
    LET now == projection[m.actor][m.payload.period] IN
    /\ Stored(m) = None
    /\ requests' = [requests EXCEPT ![m.actor][m.key] = m.payload]
    /\ IF now = m.payload.value
       THEN UNCHANGED <<projection, history>>
       ELSE /\ history' = Append(history,
                    [actor |-> m.actor, key |-> m.key, period |-> m.payload.period,
                     before |-> IF now = Unset THEN NoValue ELSE now,
                     after |-> m.payload.value, reason |-> m.payload.reason])
            /\ projection' = [projection EXCEPT ![m.actor][m.payload.period] =
                                IF @ = Unset THEN m.payload.value ELSE @]

CommitMissingRow(m) ==
    /\ Stored(m) = None
    /\ requests' = [requests EXCEPT ![m.actor][m.key] = m.payload]
    /\ history' = Append(history,
            [actor |-> m.actor, key |-> m.key, period |-> m.payload.period,
             before |-> projection[m.actor][m.payload.period],
             after |-> m.payload.value, reason |-> m.payload.reason])
    /\ projection' = [projection EXCEPT ![m.actor][m.payload.period] = m.payload.value]

(* The batch: the request row; an event, unless the preference row holds   *)
(* the same value; and, if there is an event, the preference row.          *)
Commit(m) ==
    LET now == projection[m.actor][m.payload.period] IN
    /\ Stored(m) = None
    /\ requests' = [requests EXCEPT ![m.actor][m.key] = m.payload]
    /\ IF now = m.payload.value
       THEN UNCHANGED <<projection, history>>
       ELSE /\ history' = Append(history,
                    [actor |-> m.actor, key |-> m.key, period |-> m.payload.period,
                     before |-> IF now = Unset THEN NoValue ELSE now,
                     after |-> m.payload.value, reason |-> m.payload.reason])
            /\ projection' = [projection EXCEPT ![m.actor][m.payload.period] = m.payload.value]

Apply(h) ==
    /\ handler[h].at = "apply"
    /\ Commit(handler[h].message)
    /\ Goto(h, "read")
    /\ UNCHANGED failures

(* The request row violates UNIQUE (actor_id, client_request_id). *)
ApplyRaced(h) ==
    /\ handler[h].at = "apply"
    /\ Stored(handler[h].message) # None
    /\ Goto(h, "raced")
    /\ UNCHANGED <<tables, failures>>

(* The call fails, before or after the transaction. *)
ApplyFails(h) ==
    /\ handler[h].at = "apply"
    /\ failures < MaxFailures
    /\ failures' = failures + 1
    /\ Commit(handler[h].message) \/ UNCHANGED tables
    /\ Goto(h, "raced")

(* Faulty variant: an id that is taken is a conflict, whoever took it. *)
RacedIsConflict(h) ==
    /\ handler[h].at = "raced"
    /\ Reply(h, IF Stored(handler[h].message) = None THEN "error" ELSE "conflict")

(* The catch: whoever used the id first has answered already. *)
Raced(h) ==
    LET m == handler[h].message IN
    /\ handler[h].at = "raced"
    /\ Reply(h, IF Stored(m) = None THEN "error" ELSE StoredResult(m))

(* historyEventById, after the batch. *)
ReadEvent(h) ==
    /\ handler[h].at = "read"
    /\ Reply(h, IF Changed(handler[h].message) THEN "changed" ELSE "unchanged")

(* The handler dies, or one of its reads fails: to the form, no answer and *)
(* an answer of status 500 are the same.                                   *)
Die(h) ==
    /\ handler[h] # Idle
    /\ handler' = [handler EXCEPT ![h] = Idle]
    /\ UNCHANGED <<tables, browser, replies, failures>>

Next ==
    \/ \E a \in Actor :
        \/ Resubmit(a) \/ FetchFails(a) \/ Remount(a)
        \/ \E payload \in Payload : Submit(a, payload) \/ SendAgain(a, payload)
        \/ \E reply \in replies : Answered(a, reply)
    \/ \E h \in Handler :
        \/ \E m \in network : Receive(h, m)
        \/ Lookup(h) \/ Apply(h) \/ ApplyRaced(h) \/ ApplyFails(h)
        \/ Raced(h) \/ ReadEvent(h) \/ Die(h)

Spec == Init /\ [][Next]_vars

-----------------------------------------------------------------------------
(* Properties. *)

Event == [actor : Actor, key : Key, period : Period,
          before : Value, after : Value, reason : Reason]

TypeOK ==
    /\ projection \in [Actor -> [Period -> Value \cup {Unset}]]
    /\ history \in Seq(Event)
    /\ requests \in [Actor -> [Key -> Payload \cup {None}]]
    /\ form \in [Actor -> [pending : [key : 1..MaxKeys, payload : Payload] \cup {None},
                           busy : 1..MaxSends \cup {None},
                           saved : [key : 1..MaxKeys, payload : Payload] \cup {None}]]
    /\ minted \in [Actor -> 0..MaxKeys]
    /\ network \subseteq Message
    /\ sends \in 0..MaxSends
    /\ handler \in [Handler -> [at : {"idle", "lookup", "apply", "raced", "read"},
                                message : Message \cup {None}]]
    /\ replies \subseteq [message : Message, result : Result]
    /\ failures \in 0..MaxFailures

(* The events of one participant on one period. *)
Own(a, p) == {i \in DOMAIN history : history[i].actor = a /\ history[i].period = p}

(* The preference rows are what replaying the history gives: every event   *)
(* starts from the value the one before it left, and the last one left the *)
(* value of the row, although requests of both participants interleave.    *)
HistoryReplays ==
    \A a \in Actor, p \in Period :
        /\ Own(a, p) = {} => projection[a][p] = Unset
        /\ \A i \in Own(a, p) :
            /\ (\A j \in Own(a, p) : j <= i) => projection[a][p] = history[i].after
            /\ (\A j \in Own(a, p) : i <= j) => history[i].before = NoValue
            /\ \A j \in Own(a, p) :
                i < j /\ ~(\E k \in Own(a, p) : i < k /\ k < j)
                    => history[j].before = history[i].after

(* One request id makes one event at most, and all its answers agree: a    *)
(* retry is told what the first attempt did, whichever of them wins the    *)
(* race and whatever fails on the way.                                     *)
OneAnswerPerRequest ==
    /\ \A i, j \in DOMAIN history :
        history[i].actor = history[j].actor /\ history[i].key = history[j].key => i = j
    /\ \A r, s \in replies :
        /\ r.message.actor = s.message.actor
        /\ r.message.key = s.message.key
        /\ r.message.payload = s.message.payload
        /\ r.result # "error" /\ s.result # "error"
        => r.result = s.result

(* When the form says "Your preference was saved", the change it sent is   *)
(* the one recorded under its id.                                          *)
SavedIsRecorded ==
    \A a \in Actor :
        form[a].saved # None => requests[a][form[a].saved.key] = form[a].saved.payload

(* The handlers, their races, retries and failures implement the log of    *)
(* preferences: acceptance is the transaction, an error answers nothing.   *)
Answers == {[actor |-> r.message.actor, key |-> r.message.key,
             payload |-> r.message.payload, result |-> r.result] :
                r \in {s \in replies : s.result # "error"}}

Log == INSTANCE PreferenceLog WITH answers <- Answers

ImplementsPreferenceLog == Log!LogSpec
=============================================================================
