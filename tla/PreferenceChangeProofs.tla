----------------------- MODULE PreferenceChangeProofs -----------------------
(***************************************************************************)
(* Proofs about PreferenceChange for any number of participants, handlers, *)
(* request ids, requests and failures: its types, that what the form calls *)
(* saved is recorded, that a request id has one answer, that the rows are  *)
(* what the history replays to, and the refinement of PreferenceLog.       *)
(***************************************************************************)
EXTENDS PreferenceChange, TLAPS

(* A message under way: only the form that waits for it has its attempt,    *)
(* and that form still holds what it sent.                                 *)
Sent(m) ==
    /\ m \in Message
    /\ m.attempt <= sends
    /\ \A a \in Actor : form[a].busy = m.attempt =>
            a = m.actor /\ form[a].pending = [key |-> m.key, payload |-> m.payload]

FormInv == \A a \in Actor : form[a].busy # None => form[a].busy <= sends
NetworkInv == \A m \in network : Sent(m)
HandlerInv ==
    \A h \in Handler : handler[h].at # "idle" =>
        /\ Sent(handler[h].message)
        /\ handler[h].at = "read" => Stored(handler[h].message) = handler[h].message.payload

(* Whatever was answered is what would be answered now. *)
Told(r) == r.result # "error" =>
    Stored(r.message) # None /\ r.result = StoredResult(r.message)
ReplyInv == \A r \in replies : Sent(r.message) /\ Told(r)

(* Every event belongs to a request that was accepted, and to one only.     *)
EventInv ==
    /\ \A i \in DOMAIN history : requests[history[i].actor][history[i].key] # None
    /\ \A i, j \in DOMAIN history :
        history[i].actor = history[j].actor /\ history[i].key = history[j].key => i = j

IInv == /\ TypeOK /\ FormInv /\ NetworkInv /\ HandlerInv /\ ReplyInv /\ EventInv
        /\ SavedIsRecorded

-----------------------------------------------------------------------------
LEMMA InitialState == Init => IInv
  BY BoundAssumption, ValueAssumption
  DEF Init, IInv, TypeOK, FormInv, NetworkInv, HandlerInv, ReplyInv, EventInv,
      SavedIsRecorded, Idle, NewForm, Key

(* What one transaction leaves alone: every request accepted before, and   *)
(* whether it changed anything.                                            *)
LEMMA CommitTypes ==
    ASSUME TypeOK, NEW m \in Message, Commit(m)
    PROVE  /\ projection' \in [Actor -> [Period -> Value \cup {Unset}]]
           /\ history' \in Seq(Event)
           /\ requests' \in [Actor -> [Key -> Payload \cup {None}]]
<1> USE DEF TypeOK
<1>1. /\ m.actor \in Actor /\ m.key \in Key /\ m.payload \in Payload
      /\ m.payload.period \in Period /\ m.payload.value \in Value
      /\ m.payload.reason \in Reason
  BY DEF Message, Payload
<1>2. requests' \in [Actor -> [Key -> Payload \cup {None}]]
  BY <1>1 DEF Commit
<1>3. CASE projection[m.actor][m.payload.period] = m.payload.value
  BY <1>2, <1>3 DEF Commit
<1>4. CASE projection[m.actor][m.payload.period] # m.payload.value
  <2>1. PICK b \in Value :
            history' = Append(history,
                [actor |-> m.actor, key |-> m.key, period |-> m.payload.period,
                 before |-> b, after |-> m.payload.value, reason |-> m.payload.reason])
    <3>1. projection[m.actor][m.payload.period] \in Value \cup {Unset}
      BY <1>1
    <3> QED
      BY <1>4, <3>1, ValueAssumption DEF Commit
  <2>2. [actor |-> m.actor, key |-> m.key, period |-> m.payload.period,
         before |-> b, after |-> m.payload.value, reason |-> m.payload.reason] \in Event
    BY <1>1 DEF Event
  <2>3. history' \in Seq(Event)
    BY <2>1, <2>2
  <2>4. projection' \in [Actor -> [Period -> Value \cup {Unset}]]
    <3>1. projection' = [projection EXCEPT ![m.actor][m.payload.period] = m.payload.value]
      BY <1>4 DEF Commit
    <3> QED
      BY <1>1, <3>1
  <2> QED
    BY <1>2, <2>3, <2>4
<1> QED
  BY <1>3, <1>4

LEMMA CommitRequests ==
    ASSUME TypeOK, NEW m \in Message, Commit(m)
    PROVE  /\ Stored(m)' = m.payload
           /\ Stored(m) = None
           /\ m.payload # None
           /\ \A a \in Actor, k \in Key : requests[a][k] # None => requests'[a][k] = requests[a][k]
<1>1. m.actor \in Actor /\ m.key \in Key /\ m.payload \in Payload
  BY DEF Message
<1>2. m.payload # None
  BY <1>1, NoneAssumption
<1> QED
  BY <1>1, <1>2 DEF Commit, Stored, TypeOK

LEMMA CommitHistory ==
    ASSUME TypeOK, NEW m \in Message, Commit(m)
    PROVE  \/ history' = history
           \/ /\ Len(history') = Len(history) + 1
              /\ DOMAIN history = 1..Len(history) /\ DOMAIN history' = 1..(Len(history) + 1)
              /\ \A i \in 1..Len(history) : history'[i] = history[i]
              /\ history'[Len(history) + 1].actor = m.actor
              /\ history'[Len(history) + 1].key = m.key
  BY DEF Commit, TypeOK

LEMMA CommitKeepsAnswers ==
    ASSUME TypeOK, NEW m \in Message, Commit(m), NEW x \in Message, Stored(x) # None
    PROVE  /\ Stored(x)' = Stored(x)
           /\ Changed(x)' = Changed(x)
           /\ StoredResult(x)' = StoredResult(x)
<1>1. x.actor \in Actor /\ x.key \in Key /\ m.actor \in Actor /\ m.key \in Key
  BY DEF Message
<1>2. Stored(x)' = Stored(x)
  BY <1>1, CommitRequests DEF Stored
<1>3. ~(x.actor = m.actor /\ x.key = m.key)
  BY CommitRequests DEF Stored
<1>4. Changed(x)' <=> Changed(x)
  BY <1>3, CommitHistory DEF Changed
<1>5. Changed(x)' = Changed(x)
  BY <1>4 DEF Changed
<1> QED
  BY <1>2, <1>4, <1>5 DEF StoredResult

-----------------------------------------------------------------------------
(* The steps of the form. *)

LEMMA SendStep ==
    ASSUME IInv, NEW a \in Actor, NEW key \in 1..MaxKeys, NEW payload \in Payload,
           Send(a, key, payload), minted' \in [Actor -> 0..MaxKeys]
    PROVE  IInv'
<1> DEFINE new == [attempt |-> sends', actor |-> a, key |-> key, payload |-> payload]
<1> USE BoundAssumption DEF IInv
<1>1. sends' \in 1..MaxSends /\ sends' = sends + 1
  BY DEF Send, TypeOK
<1>2. new \in Message /\ network' = network \cup {new}
  BY <1>1 DEF Send, Message, Key
<1>3. TypeOK'
  <2>1. form' \in [Actor -> [pending : [key : 1..MaxKeys, payload : Payload] \cup {None},
                             busy : 1..MaxSends \cup {None},
                             saved : [key : 1..MaxKeys, payload : Payload] \cup {None}]]
    BY <1>1 DEF Send, TypeOK
  <2>2. network' \subseteq Message
    BY <1>2 DEF TypeOK
  <2> QED
    BY <1>1, <2>1, <2>2 DEF Send, TypeOK, tables
<1>4. FormInv'
  BY <1>1 DEF Send, TypeOK, FormInv
<1>5. ASSUME NEW m \in Message, Sent(m) PROVE Sent(m)'
  BY <1>1, <1>5 DEF Send, Sent, TypeOK, Message
<1>6. ASSUME NEW m \in Message, m = new PROVE Sent(m)'
  <2>1. \A b \in Actor : b # a => form'[b].busy = form[b].busy /\ form[b].busy # sends'
    <3>1. sends' # None
      BY <1>1, NoneAssumption
    <3> QED
      BY <1>1, <3>1 DEF Send, TypeOK, FormInv
  <2>2. form'[a].pending = [key |-> key, payload |-> payload]
    BY DEF Send, TypeOK
  <2> QED
    BY <1>1, <1>6, <2>1, <2>2 DEF Sent, TypeOK
<1>7. NetworkInv'
  <2> SUFFICES ASSUME NEW m \in network' PROVE Sent(m)'
    BY DEF NetworkInv
  <2>1. CASE m \in network
    BY <1>5, <2>1 DEF NetworkInv, TypeOK
  <2>2. CASE m = new
    BY <1>2, <1>6, <2>2
  <2> QED
    BY <1>2, <2>1, <2>2
<1>8. HandlerInv'
  <2> SUFFICES ASSUME NEW h \in Handler, handler[h].at # "idle"
               PROVE  /\ Sent(handler[h].message)'
                      /\ handler[h].at = "read" =>
                           Stored(handler[h].message)' = handler[h].message.payload
    BY DEF HandlerInv, Send
  <2>1. Sent(handler[h].message)
    BY DEF HandlerInv
  <2>2. Sent(handler[h].message)'
    <3>1. handler[h].message \in Message
      BY <2>1 DEF Sent
    <3>2. handler' = handler
      BY DEF Send
    <3> QED
      BY <1>5, <2>1, <3>1, <3>2
  <2> QED
    BY <2>2 DEF HandlerInv, Send, Stored, tables
<1>9. ReplyInv'
  BY <1>5 DEF ReplyInv, Send, tables, Told, Stored, StoredResult, Changed, Sent
<1>10. EventInv'
  BY DEF EventInv, Send, tables
<1>11. SavedIsRecorded'
  BY DEF SavedIsRecorded, Send, tables, TypeOK
<1> QED
  BY <1>3, <1>4, <1>7, <1>8, <1>9, <1>10, <1>11

LEMMA SendAgainStep ==
    ASSUME IInv, NEW a \in Actor, NEW payload \in Payload, SendAgain(a, payload)
    PROVE  IInv'
<1> DEFINE new == [attempt |-> sends', actor |-> a, key |-> 0, payload |-> payload]
<1> USE BoundAssumption DEF IInv
<1>1. sends' \in 1..MaxSends /\ sends' = sends + 1 /\ sends' # None
  BY NoneAssumption DEF SendAgain, TypeOK
<1>2. new \in Message /\ network' = network \cup {new}
  BY <1>1 DEF SendAgain, Message, Key
<1>3. TypeOK'
  <2>1. network' \subseteq Message
    BY <1>2 DEF TypeOK
  <2> QED
    BY <1>1, <2>1 DEF SendAgain, TypeOK, tables
<1>4. FormInv'
  BY <1>1 DEF SendAgain, TypeOK, FormInv
<1>5. ASSUME NEW m \in Message, Sent(m) PROVE Sent(m)'
  BY <1>1, <1>5 DEF SendAgain, Sent, TypeOK, Message
<1>6. ASSUME NEW m \in Message, m = new PROVE Sent(m)'
  <2>1. \A b \in Actor : form[b].busy # sends'
    BY <1>1 DEF TypeOK, FormInv
  <2> QED
    BY <1>1, <1>6, <2>1 DEF Sent, SendAgain
<1>7. NetworkInv'
  <2> SUFFICES ASSUME NEW m \in network' PROVE Sent(m)'
    BY DEF NetworkInv
  <2>1. CASE m \in network
    BY <1>5, <2>1 DEF NetworkInv, TypeOK
  <2>2. CASE m = new
    BY <1>2, <1>6, <2>2
  <2> QED
    BY <1>2, <2>1, <2>2
<1>8. HandlerInv'
  BY <1>5 DEF HandlerInv, SendAgain, Stored, tables, Sent
<1>9. ReplyInv'
  BY <1>5 DEF ReplyInv, SendAgain, tables, Told, Stored, StoredResult, Changed, Sent
<1>10. EventInv'
  BY DEF EventInv, SendAgain, tables
<1>11. SavedIsRecorded'
  BY DEF SavedIsRecorded, SendAgain, tables
<1> QED
  BY <1>3, <1>4, <1>7, <1>8, <1>9, <1>10, <1>11

(* Steps that change one form alone, and leave it waiting for nothing new.  *)
LEMMA FormStep ==
    ASSUME IInv, UNCHANGED <<tables, minted, network, sends, handler, replies, failures>>,
           NEW a \in Actor, NEW f, form' = [form EXCEPT ![a] = f],
           f \in [pending : [key : 1..MaxKeys, payload : Payload] \cup {None},
                  busy : 1..MaxSends \cup {None},
                  saved : [key : 1..MaxKeys, payload : Payload] \cup {None}],
           f.busy = None,
           f.saved # None => requests[a][f.saved.key] = f.saved.payload
    PROVE  IInv'
<1> USE DEF IInv
<1>1. TypeOK'
  BY DEF TypeOK, tables
<1>2. FormInv'
  BY DEF FormInv, TypeOK
<1>3. ASSUME NEW m \in Message, Sent(m) PROVE Sent(m)'
  <2>1. m.attempt # None
    BY NoneAssumption DEF Message
  <2> QED
    BY <1>3, <2>1 DEF Sent, TypeOK
<1>4. NetworkInv'
  BY <1>3 DEF NetworkInv, Sent
<1>5. HandlerInv'
  BY <1>3 DEF HandlerInv, Stored, tables, Sent
<1>6. ReplyInv'
  BY <1>3 DEF ReplyInv, tables, Told, Stored, StoredResult, Changed, Sent
<1>7. EventInv'
  BY DEF EventInv, tables
<1>8. SavedIsRecorded'
  BY DEF SavedIsRecorded, tables, TypeOK
<1> QED
  BY <1>1, <1>2, <1>4, <1>5, <1>6, <1>7, <1>8

LEMMA AnsweredStep ==
    ASSUME IInv, NEW a \in Actor, NEW reply \in replies, Answered(a, reply)
    PROVE  IInv'
<1> USE DEF IInv
<1>1. /\ form[a] \in [pending : [key : 1..MaxKeys, payload : Payload] \cup {None},
                     busy : 1..MaxSends \cup {None},
                     saved : [key : 1..MaxKeys, payload : Payload] \cup {None}]
      /\ form[a].saved # None => requests[a][form[a].saved.key] = form[a].saved.payload
  BY DEF TypeOK, SavedIsRecorded
<1>2. /\ reply.message.actor = a
      /\ form[a].pending = [key |-> reply.message.key, payload |-> reply.message.payload]
  BY DEF Answered, ReplyInv, Sent
<1>3. CASE reply.result \in Accepted
  <2>1. Stored(reply.message) = reply.message.payload
    BY <1>3 DEF ReplyInv, Told, StoredResult, Accepted
  <2> DEFINE f == [pending |-> None, busy |-> None, saved |-> form[a].pending]
  <2>2. form' = [form EXCEPT ![a] = f]
    BY <1>3 DEF Answered
  <2>3. requests[a][f.saved.key] = f.saved.payload
    BY <1>2, <2>1 DEF Stored
  <2> HIDE DEF f
  <2>4. f.busy = None /\ f \in [pending : [key : 1..MaxKeys, payload : Payload] \cup {None},
                     busy : 1..MaxSends \cup {None},
                     saved : [key : 1..MaxKeys, payload : Payload] \cup {None}]
    BY <1>1 DEF f
  <2> QED
    BY <2>2, <2>3, <2>4, FormStep DEF Answered
<1>4. CASE reply.result \notin Accepted
  <2> DEFINE f == [form[a] EXCEPT !.busy = None]
  <2>1. form' = [form EXCEPT ![a] = f]
    BY <1>4 DEF Answered, TypeOK
  <2>2. /\ f.busy = None /\ f.saved = form[a].saved
        /\ f \in [pending : [key : 1..MaxKeys, payload : Payload] \cup {None},
                  busy : 1..MaxSends \cup {None},
                  saved : [key : 1..MaxKeys, payload : Payload] \cup {None}]
    BY <1>1
  <2> HIDE DEF f
  <2> QED
    BY <1>1, <2>1, <2>2, FormStep DEF Answered
<1> QED
  BY <1>3, <1>4

LEMMA FetchFailsStep ==
    ASSUME IInv, NEW a \in Actor, FetchFails(a)
    PROVE  IInv'
<1> USE DEF IInv
<1> DEFINE f == [form[a] EXCEPT !.busy = None]
<1>1. form' = [form EXCEPT ![a] = f]
  BY DEF FetchFails, TypeOK
<1>2. /\ f.busy = None /\ f.saved = form[a].saved
      /\ f \in [pending : [key : 1..MaxKeys, payload : Payload] \cup {None},
                busy : 1..MaxSends \cup {None},
                saved : [key : 1..MaxKeys, payload : Payload] \cup {None}]
  <2>1. form[a] \in [pending : [key : 1..MaxKeys, payload : Payload] \cup {None},
                     busy : 1..MaxSends \cup {None},
                     saved : [key : 1..MaxKeys, payload : Payload] \cup {None}]
    BY DEF TypeOK
  <2> QED
    BY <2>1
<1>3. f.saved # None => requests[a][f.saved.key] = f.saved.payload
  BY <1>2 DEF SavedIsRecorded
<1> HIDE DEF f
<1> QED
  BY <1>1, <1>2, <1>3, FormStep DEF FetchFails

LEMMA RemountStep ==
    ASSUME IInv, NEW a \in Actor, Remount(a)
    PROVE  IInv'
<1>1. /\ NewForm \in [pending : [key : 1..MaxKeys, payload : Payload] \cup {None},
                     busy : 1..MaxSends \cup {None},
                     saved : [key : 1..MaxKeys, payload : Payload] \cup {None}]
      /\ NewForm.busy = None /\ NewForm.saved = None
  BY DEF NewForm
<1> QED
  BY <1>1, FormStep DEF Remount

-----------------------------------------------------------------------------
(* The steps of the worker. *)

LEMMA ReceiveStep ==
    ASSUME IInv, NEW h \in Handler, NEW m \in network, Receive(h, m)
    PROVE  IInv'
<1> USE DEF IInv
<1>1. m \in Message /\ Sent(m)
  BY DEF NetworkInv, Sent
<1>2. TypeOK'
  BY <1>1 DEF Receive, TypeOK, tables
<1>3. FormInv' /\ EventInv' /\ SavedIsRecorded'
  BY DEF Receive, FormInv, EventInv, SavedIsRecorded, tables
<1>4. NetworkInv' /\ ReplyInv'
  BY DEF Receive, NetworkInv, ReplyInv, Sent, Told, Stored, StoredResult, Changed, tables
<1>5. HandlerInv'
  BY <1>1 DEF Receive, HandlerInv, TypeOK, Sent, Stored, tables
<1> QED
  BY <1>2, <1>3, <1>4, <1>5

LEMMA DieStep ==
    ASSUME IInv, NEW h \in Handler, Die(h)
    PROVE  IInv'
<1> USE DEF IInv
<1>1. TypeOK'
  BY DEF Die, TypeOK, tables, browser, Idle
<1>2. FormInv' /\ EventInv' /\ SavedIsRecorded'
  BY DEF Die, FormInv, EventInv, SavedIsRecorded, tables, browser
<1>3. NetworkInv' /\ ReplyInv'
  BY DEF Die, NetworkInv, ReplyInv, Sent, Told, Stored, StoredResult, Changed, tables, browser
<1>4. HandlerInv'
  BY DEF Die, HandlerInv, TypeOK, Sent, Stored, tables, browser, Idle
<1> QED
  BY <1>1, <1>2, <1>3, <1>4

(* A handler answers what the tables say of its request. *)
LEMMA ReplyStep ==
    ASSUME IInv, NEW h \in Handler, handler[h].at # "idle", NEW result \in Result,
           Reply(h, result),
           result # "error" => /\ Stored(handler[h].message) # None
                               /\ result = StoredResult(handler[h].message)
    PROVE  IInv'
<1> USE DEF IInv
<1> DEFINE new == [message |-> handler[h].message, result |-> result]
<1>1. Sent(handler[h].message) /\ handler[h].message \in Message
  BY DEF HandlerInv, Sent
<1>2. TypeOK'
  BY <1>1 DEF Reply, TypeOK, tables, browser, Idle
<1>3. FormInv' /\ NetworkInv' /\ EventInv' /\ SavedIsRecorded'
  BY DEF Reply, FormInv, NetworkInv, Sent, EventInv, SavedIsRecorded, tables, browser
<1>4. HandlerInv'
  BY DEF Reply, HandlerInv, TypeOK, Sent, Stored, tables, browser, Idle
<1>5. ReplyInv'
  <2> SUFFICES ASSUME NEW r \in replies' PROVE Sent(r.message)' /\ Told(r)'
    BY DEF ReplyInv
  <2>1. Sent(r.message) /\ Told(r)
    <3>1. CASE r \in replies
      BY <3>1 DEF ReplyInv
    <3>2. CASE r = new
      BY <1>1, <3>2 DEF Told
    <3> QED
      BY <3>1, <3>2 DEF Reply
  <2> QED
    BY <2>1 DEF Reply, Sent, Told, Stored, StoredResult, Changed, tables, browser
<1> QED
  BY <1>2, <1>3, <1>4, <1>5

(* A handler goes on, with its transaction in place or without one. *)
LEMMA GotoStep ==
    ASSUME IInv, NEW h \in Handler, handler[h].at # "idle",
           NEW step \in {"apply", "raced", "read"}, Goto(h, step),
           failures' \in 0..MaxFailures,
           \/ UNCHANGED tables /\ step # "read"
           \/ Commit(handler[h].message)
    PROVE  IInv'
<1> USE DEF IInv
<1> DEFINE m == handler[h].message
<1>1. m \in Message /\ Sent(m)
  BY DEF HandlerInv, Sent
<1>2. TypeOK'
  <2>1. handler' \in [Handler -> [at : {"idle", "lookup", "apply", "raced", "read"},
                                message : Message \cup {None}]]
    BY DEF Goto, TypeOK
  <2>2. CASE UNCHANGED tables
    BY <2>1, <2>2 DEF Goto, TypeOK, tables, browser
  <2>3. CASE Commit(m)
    BY <1>1, <2>1, <2>3, CommitTypes DEF Goto, TypeOK, browser
  <2> QED
    BY <2>2, <2>3
<1>3. FormInv' /\ NetworkInv'
  BY DEF Goto, FormInv, NetworkInv, Sent, browser
<1>4. ASSUME NEW a \in Actor, NEW k \in Key, requests[a][k] # None
      PROVE  requests'[a][k] = requests[a][k]
  BY <1>1, <1>4, CommitRequests DEF tables
<1>5. HandlerInv'
  <2> SUFFICES ASSUME NEW g \in Handler, handler'[g].at # "idle"
               PROVE  /\ Sent(handler[g].message)'
                      /\ handler'[g].at = "read" =>
                            requests'[handler'[g].message.actor][handler'[g].message.key]
                                = handler'[g].message.payload
    BY DEF HandlerInv, Stored
  <2>1. /\ handler'[g].message = handler[g].message
        /\ g # h => handler'[g] = handler[g]
        /\ g = h => handler'[g].at = step
    BY DEF Goto, TypeOK
  <2>2. Sent(handler[g].message)
    BY <2>1 DEF HandlerInv
  <2>3. Sent(handler[g].message)'
    BY <2>1, <2>2 DEF Goto, browser, Sent
  <2>4. ASSUME handler'[g].at = "read"
        PROVE  requests'[handler'[g].message.actor][handler'[g].message.key]
                    = handler'[g].message.payload
    <3>1. CASE g = h
      BY <1>1, <2>1, <2>4, <3>1, CommitRequests DEF Stored
    <3>2. CASE g # h
      <4>1. handler[g].message \in Message
        BY <2>2 DEF Sent
      <4>2. /\ handler[g].message.actor \in Actor /\ handler[g].message.key \in Key
            /\ handler[g].message.payload # None
        BY <4>1, NoneAssumption DEF Message
      <4>3. requests[handler[g].message.actor][handler[g].message.key]
                = handler[g].message.payload
        BY <2>1, <2>4, <3>2 DEF HandlerInv, Stored
      <4> QED
        BY <1>4, <2>1, <4>2, <4>3
    <3> QED
      BY <3>1, <3>2
  <2> QED
    BY <2>3, <2>4
<1>6. ReplyInv'
  <2> SUFFICES ASSUME NEW r \in replies PROVE Sent(r.message)' /\ Told(r)'
    BY DEF ReplyInv, Goto
  <2>1. Sent(r.message) /\ Told(r) /\ r.message \in Message
    BY DEF ReplyInv, Sent
  <2>2. Sent(r.message)'
    BY <2>1 DEF Goto, browser, Sent
  <2>3. Told(r)'
    <3>1. CASE UNCHANGED tables
      BY <2>1, <3>1 DEF Told, Stored, StoredResult, Changed, tables
    <3>2. CASE Commit(m)
      <4> SUFFICES ASSUME r.result # "error"
                   PROVE  Stored(r.message)' # None /\ r.result = StoredResult(r.message)'
        BY DEF Told
      <4>1. Stored(r.message) # None /\ r.result = StoredResult(r.message)
        BY <2>1 DEF Told
      <4> HIDE DEF m
      <4> QED
        BY <1>1, <2>1, <3>2, <4>1, CommitKeepsAnswers
    <3> QED
      BY <3>1, <3>2
  <2> QED
    BY <2>2, <2>3
<1>7. EventInv'
  <2>1. CASE UNCHANGED tables
    BY <2>1 DEF EventInv, tables
  <2>2. CASE Commit(m)
    <3> HIDE DEF m
    <3>1. \A i \in DOMAIN history : history[i].actor \in Actor /\ history[i].key \in Key
      <4>1. history \in Seq(Event)
        BY DEF TypeOK
      <4>2. \A i \in DOMAIN history : history[i] \in Event
        BY <4>1
      <4> QED
        BY <4>2 DEF Event
    <3>2. m.actor \in Actor /\ m.key \in Key
      BY <1>1 DEF Message
    <3>3. /\ requests[m.actor][m.key] = None
          /\ requests'[m.actor][m.key] # None
      BY <1>1, <2>2, CommitRequests DEF Stored
    <3>4. CASE history' = history
      BY <1>4, <3>1, <3>4 DEF EventInv
    <3>5. CASE /\ DOMAIN history = 1..Len(history) /\ DOMAIN history' = 1..(Len(history) + 1)
               /\ \A i \in 1..Len(history) : history'[i] = history[i]
               /\ history'[Len(history) + 1].actor = m.actor
               /\ history'[Len(history) + 1].key = m.key
      <4>1. Len(history) \in Nat
        BY DEF TypeOK
      <4>2. \A i \in DOMAIN history' : i = Len(history) + 1 \/ i \in DOMAIN history
        BY <3>5, <4>1
      <4>3. \A i \in DOMAIN history : ~(history[i].actor = m.actor /\ history[i].key = m.key)
        BY <3>3 DEF EventInv
      <4> QED
        BY <1>4, <3>1, <3>3, <3>5, <4>2, <4>3 DEF EventInv
    <3> QED
      BY <1>1, <2>2, <3>4, <3>5, CommitHistory
  <2> QED
    BY <2>1, <2>2
<1>8. SavedIsRecorded'
  <2> SUFFICES ASSUME NEW a \in Actor, form[a].saved # None
               PROVE  requests'[a][form[a].saved.key] = form[a].saved.payload
    BY DEF SavedIsRecorded, Goto, browser
  <2>1. form[a].saved \in [key : 1..MaxKeys, payload : Payload]
    BY DEF TypeOK
  <2>2. form[a].saved.key \in Key /\ form[a].saved.payload # None
    BY <2>1, BoundAssumption, NoneAssumption DEF Key
  <2> QED
    BY <1>4, <2>2 DEF SavedIsRecorded
<1> QED
  BY <1>2, <1>3, <1>5, <1>6, <1>7, <1>8

LEMMA ReadEventAnswer ==
    ASSUME IInv, NEW h \in Handler, ReadEvent(h)
    PROVE  \E result \in Result :
                /\ Reply(h, result) /\ result # "error"
                /\ Stored(handler[h].message) # None
                /\ result = StoredResult(handler[h].message)
<1>1. /\ handler[h].message \in Message
      /\ Stored(handler[h].message) = handler[h].message.payload
  BY DEF IInv, HandlerInv, ReadEvent, Sent
<1>2. handler[h].message.payload # None
  BY <1>1, NoneAssumption DEF Message
<1> QED
  BY <1>1, <1>2 DEF ReadEvent, StoredResult, Result, Accepted

(* What Lookup and Raced answer: what the tables say, or an error.          *)
LEMMA StoredAnswer ==
    ASSUME NEW h \in Handler, Lookup(h) \/ Raced(h)
    PROVE  \/ Lookup(h) /\ Goto(h, "apply") /\ UNCHANGED <<tables, failures>>
           \/ Reply(h, "error")
           \/ \E result \in Result :
                /\ Reply(h, result) /\ result # "error"
                /\ Stored(handler[h].message) # None
                /\ result = StoredResult(handler[h].message)
  BY DEF Lookup, Raced, StoredResult, Result, Accepted

LEMMA InductiveStep ==
    ASSUME IInv, [Next]_vars
    PROVE  IInv'
<1>1. ASSUME NEW a \in Actor, Resubmit(a) PROVE IInv'
  <2>1. form[a].pending \in [key : 1..MaxKeys, payload : Payload]
    BY <1>1 DEF IInv, TypeOK, Resubmit
  <2>2. form[a].pending.key \in 1..MaxKeys /\ form[a].pending.payload \in Payload
    BY <2>1
  <2> QED
    BY <1>1, <2>2, SendStep DEF Resubmit, IInv, TypeOK
<1>2. ASSUME NEW a \in Actor, NEW payload \in Payload, Submit(a, payload) PROVE IInv'
  <2>1. minted' \in [Actor -> 0..MaxKeys] /\ minted'[a] \in 1..MaxKeys
    BY <1>2, BoundAssumption DEF IInv, TypeOK, Submit
  <2> QED
    BY <1>2, <2>1, SendStep DEF Submit
<1>3. ASSUME NEW a \in Actor, NEW payload \in Payload, SendAgain(a, payload) PROVE IInv'
  BY <1>3, SendAgainStep
<1>4. ASSUME NEW a \in Actor, NEW reply \in replies, Answered(a, reply) PROVE IInv'
  BY <1>4, AnsweredStep
<1>5. ASSUME NEW a \in Actor, FetchFails(a) \/ Remount(a) PROVE IInv'
  BY <1>5, FetchFailsStep, RemountStep
<1>6. ASSUME NEW h \in Handler, NEW m \in network, Receive(h, m) PROVE IInv'
  BY <1>6, ReceiveStep
<1>7. ASSUME NEW h \in Handler, Lookup(h) \/ Raced(h) PROVE IInv'
  <2>1. handler[h].at # "idle"
    BY <1>7 DEF Lookup, Raced
  <2>2. CASE Goto(h, "apply") /\ UNCHANGED <<tables, failures>>
    BY <2>1, <2>2, GotoStep DEF IInv, TypeOK
  <2>3. CASE Reply(h, "error")
    BY <2>1, <2>3, ReplyStep DEF Result
  <2> QED
    BY <1>7, <2>1, <2>2, <2>3, StoredAnswer, ReplyStep
<1>8. ASSUME NEW h \in Handler, Apply(h) \/ ApplyRaced(h) PROVE IInv'
  BY <1>8, GotoStep DEF Apply, ApplyRaced, IInv, TypeOK
<1>9. ASSUME NEW h \in Handler, ApplyFails(h) PROVE IInv'
  <2>1. failures' \in 0..MaxFailures
    BY <1>9, BoundAssumption DEF ApplyFails, IInv, TypeOK
  <2> QED
    BY <1>9, <2>1, GotoStep DEF ApplyFails
<1>10. ASSUME NEW h \in Handler, ReadEvent(h) PROVE IInv'
  BY <1>10, ReadEventAnswer, ReplyStep DEF ReadEvent
<1>11. ASSUME NEW h \in Handler, Die(h) PROVE IInv'
  BY <1>11, DieStep
<1>12. CASE UNCHANGED vars
  BY <1>12 DEF vars, tables, IInv, TypeOK, FormInv, NetworkInv, HandlerInv, ReplyInv, EventInv,
              SavedIsRecorded, Sent, Told, Stored, StoredResult, Changed
<1> QED
  BY <1>1, <1>2, <1>3, <1>4, <1>5, <1>6, <1>7, <1>8, <1>9, <1>10, <1>11, <1>12 DEF Next

LEMMA Inductive == Spec => []IInv
<1>1. Init => IInv
  BY InitialState
<1>2. IInv /\ [Next]_vars => IInv'
  BY InductiveStep
<1> QED
  BY <1>1, <1>2, PTL DEF Spec

-----------------------------------------------------------------------------
(* Every table, form, message and handler keeps its type. *)
THEOREM TypeCorrect == Spec => []TypeOK
<1>1. IInv => TypeOK
  BY DEF IInv
<1> QED
  BY <1>1, Inductive, PTL

(* What the form calls saved is what was recorded under its id, however the *)
(* request raced, failed and was sent again.                                *)
THEOREM SavedRecorded == Spec => []SavedIsRecorded
<1>1. IInv => SavedIsRecorded
  BY DEF IInv
<1> QED
  BY <1>1, Inductive, PTL

(* One id makes one event at most, and all answers to one request agree.    *)
THEOREM OneAnswer == Spec => []OneAnswerPerRequest
<1>1. IInv => OneAnswerPerRequest
  <2> SUFFICES ASSUME IInv PROVE OneAnswerPerRequest
    OBVIOUS
  <2>1. ASSUME NEW r \in replies, NEW s \in replies,
               r.message.actor = s.message.actor, r.message.key = s.message.key,
               r.message.payload = s.message.payload,
               r.result # "error", s.result # "error"
        PROVE  r.result = s.result
    <3>1. r.result = StoredResult(r.message) /\ s.result = StoredResult(s.message)
      BY <2>1 DEF IInv, ReplyInv, Told
    <3>2. StoredResult(r.message) = StoredResult(s.message)
      BY <2>1 DEF StoredResult, Stored, Changed
    <3> QED
      BY <3>1, <3>2
  <2> QED
    BY <2>1 DEF IInv, EventInv, OneAnswerPerRequest
<1> QED
  BY <1>1, Inductive, PTL

-----------------------------------------------------------------------------
(* The rows and the history. *)

LEMMA CommitReplays ==
    ASSUME TypeOK, HistoryReplays, NEW m \in Message, Commit(m)
    PROVE  HistoryReplays'
<1> DEFINE now == projection[m.actor][m.payload.period]
           n == Len(history)
<1>1. /\ m.actor \in Actor /\ m.payload.period \in Period /\ m.payload.value \in Value
      /\ n \in Nat /\ DOMAIN history = 1..n
  BY DEF Message, Payload, TypeOK
<1>2. CASE now = m.payload.value
  BY <1>2 DEF Commit, HistoryReplays, Own
<1>3. CASE now # m.payload.value
  <2> DEFINE e == [actor |-> m.actor, key |-> m.key, period |-> m.payload.period,
                   before |-> IF now = Unset THEN NoValue ELSE now,
                   after |-> m.payload.value, reason |-> m.payload.reason]
  <2>1. history' = Append(history, e)
    BY <1>3 DEF Commit
  <2>2. /\ DOMAIN history' = 1..(n + 1)
        /\ \A i \in 1..n : history'[i] = history[i]
        /\ history'[n + 1] = e
    <3> HIDE DEF e
    <3> QED
      BY <1>1, <2>1 DEF TypeOK
  <2>3. projection' = [projection EXCEPT ![m.actor][m.payload.period] = m.payload.value]
    BY <1>3 DEF Commit
  <2>4. /\ e.actor = m.actor /\ e.period = m.payload.period /\ e.after = m.payload.value
        /\ e.before = IF now = Unset THEN NoValue ELSE now
    OBVIOUS
  <2>5. \A i \in 1..n : history[i].after \in Value
    <3>1. \A i \in 1..n : history[i] \in Event
      BY <1>1 DEF TypeOK
    <3> QED
      BY <3>1 DEF Event
  <2> HIDE DEF e
  <2> SUFFICES ASSUME NEW a \in Actor, NEW p \in Period
      PROVE  /\ Own(a, p)' = {} => projection'[a][p] = Unset
             /\ \A i \in Own(a, p)' :
                 /\ (\A j \in Own(a, p)' : j <= i) => projection'[a][p] = history'[i].after
                 /\ (\A j \in Own(a, p)' : i <= j) => history'[i].before = NoValue
                 /\ \A j \in Own(a, p)' :
                     i < j /\ ~(\E k \in Own(a, p)' : i < k /\ k < j)
                         => history'[j].before = history'[i].after
    BY DEF HistoryReplays
  <2>6. /\ Own(a, p) = {} => projection[a][p] = Unset
        /\ \A i \in Own(a, p) :
            /\ (\A j \in Own(a, p) : j <= i) => projection[a][p] = history[i].after
            /\ (\A j \in Own(a, p) : i <= j) => history[i].before = NoValue
            /\ \A j \in Own(a, p) :
                i < j /\ ~(\E k \in Own(a, p) : i < k /\ k < j)
                    => history[j].before = history[i].after
    BY DEF HistoryReplays
  <2>7. Own(a, p) \subseteq 1..n /\ \A i \in Own(a, p) : history'[i] = history[i]
    BY <1>1, <2>2 DEF Own
  <2>8. CASE a = m.actor /\ p = m.payload.period
    <3>1. Own(a, p)' = Own(a, p) \cup {n + 1}
      BY <1>1, <2>2, <2>4, <2>8 DEF Own
    <3>2. projection'[a][p] = m.payload.value
      BY <1>1, <2>3, <2>8 DEF TypeOK
    <3>3. ASSUME NEW i \in Own(a, p)', \A j \in Own(a, p)' : j <= i
          PROVE  projection'[a][p] = history'[i].after
      <4>1. n + 1 <= i
        BY <3>1, <3>3
      <4>2. i \notin 1..n
        BY <1>1, <4>1
      <4>3. i = n + 1
        BY <2>7, <3>1, <4>2
      <4> QED
        BY <2>2, <2>4, <3>2, <4>3
    <3>4. ASSUME NEW i \in Own(a, p)', \A j \in Own(a, p)' : i <= j
          PROVE  history'[i].before = NoValue
      <4>1. CASE i \in Own(a, p)
        BY <2>6, <2>7, <3>1, <3>4, <4>1
      <4>2. CASE i = n + 1
        <5>1. Own(a, p) = {}
          BY <1>1, <2>7, <3>1, <3>4, <4>2
        <5> QED
          BY <2>2, <2>4, <2>6, <2>8, <4>2, <5>1
      <4> QED
        BY <3>1, <4>1, <4>2
    <3>5. ASSUME NEW i \in Own(a, p)', NEW j \in Own(a, p)', i < j,
                 ~(\E k \in Own(a, p)' : i < k /\ k < j)
          PROVE  history'[j].before = history'[i].after
      <4>1. i \in Own(a, p)
        BY <1>1, <2>7, <3>1, <3>5
      <4>2. CASE j \in Own(a, p)
        BY <2>6, <2>7, <3>1, <3>5, <4>1, <4>2
      <4>3. CASE j = n + 1
        <5>1. \A k \in Own(a, p) : k <= i
          BY <1>1, <2>7, <3>1, <3>5, <4>1, <4>3
        <5>2. now = history[i].after
          BY <2>6, <2>8, <4>1, <5>1
        <5>3. now # Unset
          BY <2>5, <2>7, <4>1, <5>2, ValueAssumption
        <5> HIDE DEF now
        <5> QED
          BY <2>2, <2>4, <2>7, <4>1, <4>3, <5>2, <5>3
      <4> QED
        BY <3>1, <4>2, <4>3
    <3>6. Own(a, p)' # {}
      BY <3>1
    <3> QED
      BY <3>3, <3>4, <3>5, <3>6
  <2>9. CASE ~(a = m.actor /\ p = m.payload.period)
    <3>1. Own(a, p)' = Own(a, p)
      BY <1>1, <2>2, <2>4, <2>9 DEF Own
    <3>2. projection'[a][p] = projection[a][p]
      BY <1>1, <2>3, <2>9 DEF TypeOK
    <3> QED
      BY <2>6, <2>7, <3>1, <3>2
  <2> QED
    BY <2>8, <2>9
<1> QED
  BY <1>2, <1>3

(* Every step commits the request of a handler or leaves the tables alone.  *)
LEMMA TableSteps ==
    ASSUME IInv, [Next]_vars
    PROVE  \/ UNCHANGED tables
           \/ \E m \in Message : Commit(m)
<1>1. ASSUME NEW h \in Handler, Apply(h) \/ ApplyFails(h)
      PROVE  UNCHANGED tables \/ \E m \in Message : Commit(m)
  <2>1. handler[h].message \in Message
    BY <1>1 DEF Apply, ApplyFails, IInv, HandlerInv, Sent
  <2> QED
    BY <1>1, <2>1 DEF Apply, ApplyFails
<1>2. ASSUME NEW h \in Handler, Lookup(h) \/ ApplyRaced(h) \/ Raced(h) \/ ReadEvent(h) \/ Die(h)
      PROVE  UNCHANGED tables
  BY <1>2 DEF Lookup, ApplyRaced, Raced, ReadEvent, Die, Reply
<1>3. ASSUME NEW h \in Handler, NEW m \in network, Receive(h, m)
      PROVE  UNCHANGED tables
  BY <1>3 DEF Receive
<1>4. ASSUME NEW a \in Actor, Resubmit(a) \/ FetchFails(a) \/ Remount(a)
      PROVE  UNCHANGED tables
  BY <1>4 DEF Resubmit, FetchFails, Remount, Send
<1>5. ASSUME NEW a \in Actor, NEW payload \in Payload, Submit(a, payload) \/ SendAgain(a, payload)
      PROVE  UNCHANGED tables
  BY <1>5 DEF Submit, SendAgain, Send
<1>6. ASSUME NEW a \in Actor, NEW reply \in replies, Answered(a, reply)
      PROVE  UNCHANGED tables
  BY <1>6 DEF Answered
<1>7. CASE UNCHANGED vars
  BY <1>7 DEF vars, tables
<1> HIDE DEF tables
<1> QED
  BY <1>1, <1>2, <1>3, <1>4, <1>5, <1>6, <1>7 DEF Next

(* Replaying the events of a participant on a period gives the row, and     *)
(* every event starts where the one before it ended, whatever interleaves.  *)
THEOREM HistoryReplayed == Spec => []HistoryReplays
<1>1. Init => HistoryReplays
  BY DEF Init, HistoryReplays, Own
<1>2. IInv /\ HistoryReplays /\ [Next]_vars => HistoryReplays'
  <2> SUFFICES ASSUME IInv, HistoryReplays, [Next]_vars PROVE HistoryReplays'
    OBVIOUS
  <2>1. CASE UNCHANGED tables
    BY <2>1 DEF tables, HistoryReplays, Own
  <2>2. CASE \E m \in Message : Commit(m)
    BY <2>2, CommitReplays DEF IInv
  <2> QED
    BY <2>1, <2>2, TableSteps
<1> QED
  BY <1>1, <1>2, Inductive, PTL DEF Spec

-----------------------------------------------------------------------------
(* Refinement. *)

LEMMA CommitAccepts ==
    ASSUME IInv, NEW h \in Handler, handler[h].at # "idle", Commit(handler[h].message),
           UNCHANGED replies
    PROVE  Log!LogNext
<1> DEFINE m == handler[h].message
<1>1. m.actor \in Actor /\ m.key \in Key /\ m.payload \in Log!Payload
  BY DEF IInv, HandlerInv, Sent, Message, Payload, Log!Payload
<1>2. Answers' = Answers
  BY DEF Answers
<1>3. Log!Accept(m.actor, m.key, m.payload)
  BY <1>2 DEF Log!Accept, Commit, Stored
<1> QED
  BY <1>1, <1>3 DEF Log!LogNext

LEMMA ReplyAnswers ==
    ASSUME IInv, NEW h \in Handler, handler[h].at # "idle", NEW result \in Result,
           Reply(h, result),
           result # "error" => /\ Stored(handler[h].message) # None
                               /\ result = StoredResult(handler[h].message)
    PROVE  [Log!LogNext]_(Log!logVars)
<1> DEFINE m == handler[h].message
           answer == [actor |-> m.actor, key |-> m.key, payload |-> m.payload,
                      result |-> result]
<1>1. m.actor \in Actor /\ m.key \in Key /\ m.payload \in Log!Payload
  BY DEF IInv, HandlerInv, Sent, Message, Payload, Log!Payload
<1>2. replies' = replies \cup {[message |-> m, result |-> result]} /\ UNCHANGED tables
  BY DEF Reply
<1>3. CASE result = "error"
  <2>1. Answers' = Answers
    BY <1>2, <1>3 DEF Answers
  <2> QED
    BY <1>2, <2>1 DEF Log!logVars, tables
<1>4. CASE result # "error"
  <2>1. Answers' = Answers \cup {answer}
    <3> DEFINE told == {s \in replies : s.result # "error"}
               new == [message |-> m, result |-> result]
    <3>1. told' = told \cup {new}
      BY <1>2, <1>4
    <3>2. Answers' = {[actor |-> r.message.actor, key |-> r.message.key,
                       payload |-> r.message.payload, result |-> r.result] :
                            r \in told \cup {new}}
      BY <3>1 DEF Answers
    <3>3. Answers = {[actor |-> r.message.actor, key |-> r.message.key,
                      payload |-> r.message.payload, result |-> r.result] : r \in told}
      BY DEF Answers
    <3>4. answer = [actor |-> new.message.actor, key |-> new.message.key,
                    payload |-> new.message.payload, result |-> new.result]
      OBVIOUS
    <3> HIDE DEF told, new, answer
    <3> QED
      BY <3>2, <3>3, <3>4
  <2>2. Log!Changed(m.actor, m.key) <=> Changed(m)
    BY DEF Log!Changed, Changed
  <2>3. answer.result = IF requests[m.actor][m.key] # m.payload THEN "conflict"
                        ELSE IF Log!Changed(m.actor, m.key) THEN "changed"
                        ELSE "unchanged"
    BY <1>4, <2>2 DEF StoredResult, Stored
  <2>4. Log!Answer(m.actor, m.key, m.payload)
    BY <1>2, <1>4, <2>1, <2>3 DEF Log!Answer, Stored, tables
  <2> QED
    BY <1>1, <2>4 DEF Log!LogNext
<1> QED
  BY <1>3, <1>4

LEMMA Stutters ==
    ASSUME UNCHANGED <<tables, replies>>
    PROVE  UNCHANGED Log!logVars
<1>1. Answers' = Answers
  BY DEF Answers
<1> QED
  BY <1>1 DEF Log!logVars, tables

LEMMA Simulation ==
    ASSUME IInv, [Next]_vars
    PROVE  [Log!LogNext]_(Log!logVars)
<1>1. ASSUME NEW a \in Actor, Resubmit(a) \/ FetchFails(a) \/ Remount(a)
      PROVE  [Log!LogNext]_(Log!logVars)
  BY <1>1, Stutters DEF Resubmit, FetchFails, Remount, Send
<1>2. ASSUME NEW a \in Actor, NEW payload \in Payload, Submit(a, payload) \/ SendAgain(a, payload)
      PROVE  [Log!LogNext]_(Log!logVars)
  BY <1>2, Stutters DEF Submit, SendAgain, Send
<1>3. ASSUME NEW a \in Actor, NEW reply \in replies, Answered(a, reply)
      PROVE  [Log!LogNext]_(Log!logVars)
  BY <1>3, Stutters DEF Answered
<1>4. ASSUME NEW h \in Handler, NEW m \in network, Receive(h, m)
      PROVE  [Log!LogNext]_(Log!logVars)
  BY <1>4, Stutters DEF Receive
<1>5. ASSUME NEW h \in Handler, ApplyRaced(h) \/ Die(h)
       PROVE  [Log!LogNext]_(Log!logVars)
  BY <1>5, Stutters DEF ApplyRaced, Goto, Die
<1>6. ASSUME NEW h \in Handler, Lookup(h) \/ Raced(h) PROVE [Log!LogNext]_(Log!logVars)
  <2>1. handler[h].at # "idle"
    BY <1>6 DEF Lookup, Raced
  <2>2. CASE Goto(h, "apply") /\ UNCHANGED <<tables, failures>>
    BY <2>2, Stutters DEF Goto
  <2>3. CASE Reply(h, "error")
    BY <2>1, <2>3, ReplyAnswers DEF Result
  <2> QED
    BY <1>6, <2>1, <2>2, <2>3, StoredAnswer, ReplyAnswers
<1>7. ASSUME NEW h \in Handler, Apply(h) PROVE [Log!LogNext]_(Log!logVars)
  BY <1>7, CommitAccepts DEF Apply, Goto
<1>8. ASSUME NEW h \in Handler, ApplyFails(h) PROVE [Log!LogNext]_(Log!logVars)
  <2>1. CASE UNCHANGED tables
    BY <1>8, <2>1, Stutters DEF ApplyFails, Goto
  <2>2. CASE Commit(handler[h].message)
    BY <1>8, <2>2, CommitAccepts DEF ApplyFails, Goto
  <2> QED
    BY <1>8, <2>1, <2>2 DEF ApplyFails
<1>9. ASSUME NEW h \in Handler, ReadEvent(h) PROVE [Log!LogNext]_(Log!logVars)
  BY <1>9, ReadEventAnswer, ReplyAnswers DEF ReadEvent
<1>10. CASE UNCHANGED vars
  BY <1>10, Stutters DEF vars, tables
<1> QED
  BY <1>1, <1>2, <1>3, <1>4, <1>5, <1>6, <1>7, <1>8, <1>9, <1>10 DEF Next

LEMMA InitialSimulation == Init => Log!LogInit
<1> SUFFICES ASSUME Init PROVE Log!LogInit
  OBVIOUS
<1>1. Answers = {}
  BY DEF Init, Answers
<1> QED
  BY <1>1 DEF Init, Log!LogInit

(* Concurrent handlers that race, fail, die and are asked again implement  *)
(* the log in which a request is accepted once and always answered alike.  *)
THEOREM ChangesImplementLog == Spec => ImplementsPreferenceLog
<1>1. Init => Log!LogInit
  BY InitialSimulation
<1>2. IInv /\ [Next]_vars => [Log!LogNext]_(Log!logVars)
  BY Simulation
<1> QED
  BY <1>1, <1>2, Inductive, PTL DEF Spec, ImplementsPreferenceLog, Log!LogSpec
=============================================================================
