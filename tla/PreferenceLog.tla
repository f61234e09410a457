--------------------------- MODULE PreferenceLog ---------------------------
(***************************************************************************)
(* What the API promises about preference changes (apps/api/src/worker.ts, *)
(* docs/product/requirements.md: "Approved preference and history          *)
(* evolution"): a request, named by its actor and client request id, is    *)
(* accepted once; if it changes the actor's preference it adds one event   *)
(* to the history; and whoever asks again gets the same answer, or a       *)
(* conflict when the same id comes with another payload.  Each acceptance  *)
(* is one indivisible step here; PreferenceChange has concurrent request   *)
(* handlers, retries and failures.                                         *)
(***************************************************************************)
EXTENDS Integers, Sequences

CONSTANTS Actor,    \* participants
          Period,   \* honeymoon periods
          Value,    \* what a preference may be: a vote and a score, each or neither
          NoValue,  \* the preference with neither
          Unset,    \* no preference row yet
          Reason,   \* reasons given with a change
          Key,      \* client request ids
          None      \* no request row yet

VARIABLES projection,   \* the current preference of every actor on every period
          history,      \* preference events in sequence order
          requests,     \* per actor and client request id, the payload accepted
          answers       \* answers given

logVars == <<projection, history, requests, answers>>

Payload == [period : Period, value : Value, reason : Reason]

LogInit ==
    /\ projection = [a \in Actor |-> [p \in Period |-> Unset]]
    /\ history = << >>
    /\ requests = [a \in Actor |-> [k \in Key |-> None]]
    /\ answers = {}

Accept(a, k, payload) ==
    LET now == projection[a][payload.period] IN
    /\ requests[a][k] = None
    /\ requests' = [requests EXCEPT ![a][k] = payload]
    /\ IF now = payload.value
       THEN UNCHANGED <<projection, history>>
       ELSE /\ projection' = [projection EXCEPT ![a][payload.period] = payload.value]
            /\ history' = Append(history,
                    [actor |-> a, key |-> k, period |-> payload.period,
                     before |-> IF now = Unset THEN NoValue ELSE now,
                     after |-> payload.value, reason |-> payload.reason])
    /\ UNCHANGED answers

(* Whether a request made an event. *)
Changed(a, k) == \E i \in DOMAIN history : history[i].actor = a /\ history[i].key = k

Answer(a, k, payload) ==
    /\ requests[a][k] # None
    /\ answers' = answers \cup
            {[actor |-> a, key |-> k, payload |-> payload,
              result |-> IF requests[a][k] # payload THEN "conflict"
                         ELSE IF Changed(a, k) THEN "changed"
                         ELSE "unchanged"]}
    /\ UNCHANGED <<projection, history, requests>>

LogNext ==
    \E a \in Actor, k \in Key, payload \in Payload :
        Accept(a, k, payload) \/ Answer(a, k, payload)

LogSpec == LogInit /\ [][LogNext]_logVars
=============================================================================
