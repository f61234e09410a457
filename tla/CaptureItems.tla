----------------------------- MODULE CaptureItems -----------------------------
(***************************************************************************)
(* The API Worker but for preference changes: the links participants capture,  *)
(* their edits of the periods these make, their notes, and the limit that every *)
(* request passes first.  Handlers run concurrently; a D1 call or batch is one   *)
(* step, and a handler may end between any two of them.                       *)
(***************************************************************************)
EXTENDS Naturals, FiniteSets

CONSTANTS
    Actor,          \* the participants
    Link,           \* the source URLs they capture
    Url,            \* the URLs normalizeUrl makes of them
    Normalized,     \* normalizeUrl
    Key,            \* client request ids
    None,           \* no row, nobody
    Limit,          \* REQUESTS_PER_MINUTE
    MaxRequests,    \* bound on the requests
    MaxMinutes,     \* bound on the clock
    Offered         \* what each request may ask for in this instance

(* Requests are numbered; a UUID a request mints is its number.                 *)
Request == 1..MaxRequests
Input ==
    [kind : {"capture"}, actor : Actor, link : Link, key : Key]
    \cup [kind : {"update"}, actor : Actor, period : Request, fields : SUBSET {"title", "metadata"}]
    \cup [kind : {"note"}, actor : Actor, period : Request]
    \cup [kind : {"edit"}, actor : Actor, period : Request, note : Request]

(* What the instances, and the proofs, take for granted.                       *)
CaptureAssumption ==
    /\ MaxRequests \in Nat /\ MaxMinutes \in Nat /\ Limit \in Nat
    /\ Normalized \in [Link -> Url]
    /\ Offered \in [Request -> SUBSET Input]
    /\ None \notin Actor \cup Input \cup [url : Url, title : Nat, metadata : Nat, by : Actor \cup {None}]
                  \cup [period : Request, actor : Actor, link : Link, key : Key]
                  \cup [period : Request, actor : Actor, body : Request]

VARIABLES
    minute,     \* Date.now() / 60000
    limits,     \* rate_limits: the window and the count of each actor
    periods,    \* honeymoon_periods: url, and who set title and metadata last
    captures,   \* captures: period, actor, link, key
    notes,      \* notes: period, actor, body (the request that wrote it)
    requests    \* the requests and the handlers that serve them
vars == <<minute, limits, periods, captures, notes, requests>>
tables == <<limits, periods, captures, notes>>

Unsent == [pc |-> "unsent", input |-> None, window |-> 0, created |-> FALSE,
           status |-> "none", capture |-> 0]
Init ==
    /\ minute = 1
    /\ limits = [a \in Actor |-> [window |-> 0, count |-> 0]]
    /\ periods = [p \in Request |-> None]
    /\ captures = [c \in Request |-> None]
    /\ notes = [i \in Request |-> None]
    /\ requests = [n \in Request |-> Unsent]

At(n, pc) == requests[n].pc = pc
In(n) == requests[n].input
Go(n, pc) == requests' = [requests EXCEPT ![n].pc = pc]
(* What the client is told: a status, and the capture if it is about one.        *)
Tell(n, status, capture) ==
    requests' = [requests EXCEPT ![n].pc = "done", ![n].status = status, ![n].capture = capture]

(* fetch: the actor is looked up, then the clock is read, before the limit is      *)
(* counted.                                                                *)
Receive(n, input) ==
    /\ At(n, "unsent") /\ \A m \in Request : m < n => ~At(m, "unsent")
    /\ requests' = [requests EXCEPT ![n].pc = "received", ![n].input = input, ![n].window = minute]
    /\ UNCHANGED <<minute, tables>>

Entry == [capture |-> "lookup", update |-> "find", note |-> "find", edit |-> "rewrite"]
Counted(n) ==
    LET row == limits[In(n).actor]
    IN IF row.window = requests[n].window THEN row.count + 1 ELSE 1
WithinRateLimit(n) ==
    /\ At(n, "received")
    /\ limits' = [limits EXCEPT ![In(n).actor] = [window |-> requests[n].window, count |-> Counted(n)]]
    /\ IF Counted(n) <= Limit THEN Go(n, Entry[In(n).kind]) ELSE Tell(n, "rate_limited", 0)
    /\ UNCHANGED <<minute, periods, captures, notes>>

-----------------------------------------------------------------------------
(* createCapture.                                                           *)
CapturesOf(n) ==
    {c \in Request : captures[c] # None /\ captures[c].actor = In(n).actor /\ captures[c].key = In(n).key}
PeriodsAt(table, url) == {p \in Request : table[p] # None /\ table[p].url = url}
UrlOf(n) == Normalized[In(n).link]

Lookup(n) ==
    /\ At(n, "lookup")
    /\ IF CapturesOf(n) = {} THEN Go(n, "insert")
       ELSE \E c \in CapturesOf(n) : Tell(n, "replayed", c)
    /\ UNCHANGED <<minute, tables>>

(* The statements of the batch, one after the other.                           *)
WithPeriod(n) ==
    IF PeriodsAt(periods, UrlOf(n)) # {} THEN periods
    ELSE [periods EXCEPT ![n] = [url |-> UrlOf(n), title |-> 0, metadata |-> 0, by |-> None]]
NewCapture(n, p) == [period |-> p, actor |-> In(n).actor, link |-> In(n).link, key |-> In(n).key]
(* Faulty variant: the period inserted for a capture that was a replay stays.     *)
WithOrphan(n, table, rows) == table
WithoutOrphan(n, table, rows) ==
    IF \E c \in Request : rows[c] # None /\ rows[c].period = n THEN table
    ELSE [table EXCEPT ![n] = None]
Insert(n) ==
    /\ At(n, "insert")
    /\ IF CapturesOf(n) # {} THEN captures' = captures
       ELSE \E p \in PeriodsAt(WithPeriod(n), UrlOf(n)) :
                captures' = [captures EXCEPT ![n] = NewCapture(n, p)]
    /\ periods' = WithoutOrphan(n, WithPeriod(n), captures')
    /\ requests' = [requests EXCEPT
            ![n].pc = IF CapturesOf(n) = {} THEN "read" ELSE "resolve",
            ![n].created = PeriodsAt(periods, UrlOf(n)) = {}]
    /\ UNCHANGED <<minute, limits, notes>>

(* The conflicting capture is read; "a zero-change unique insert must have a      *)
(* conflicting row" says the comment at the error.                             *)
Resolve(n) ==
    /\ At(n, "resolve")
    /\ IF CapturesOf(n) = {} THEN Tell(n, "broken", 0)
       ELSE \E c \in CapturesOf(n) :
                Tell(n, IF periods[captures[c].period] = None THEN "broken" ELSE "replayed", c)
    /\ UNCHANGED <<minute, tables>>
ReadCapture(n) ==
    /\ At(n, "read")
    /\ IF PeriodsAt(periods, UrlOf(n)) = {} \/ captures[n] = None THEN Tell(n, "broken", 0)
       ELSE Tell(n, IF requests[n].created THEN "created" ELSE "existing", n)
    /\ UNCHANGED <<minute, tables>>

-----------------------------------------------------------------------------
(* update and createNote look for the period, and then write; a note also needs    *)
(* the row it refers to.                                                    *)
Find(n) ==
    /\ At(n, "find")
    /\ IF periods[In(n).period] = None THEN Tell(n, "not_found", 0)
       ELSE Go(n, IF In(n).kind = "update" THEN "assign" ELSE "write")
    /\ UNCHANGED <<minute, tables>>

Assigned(row, n) ==
    [row EXCEPT !.title = IF "title" \in In(n).fields THEN n ELSE @,
                !.metadata = IF "metadata" \in In(n).fields THEN n ELSE @,
                !.by = IF "metadata" \in In(n).fields THEN In(n).actor ELSE @]
Update(n) ==
    /\ At(n, "assign")
    /\ periods' = IF periods[In(n).period] = None THEN periods
                  ELSE [periods EXCEPT ![In(n).period] = Assigned(@, n)]
    /\ Go(n, "detail")
    /\ UNCHANGED <<minute, limits, captures, notes>>
Detail(n) ==
    /\ At(n, "detail")
    /\ Tell(n, IF periods[In(n).period] = None THEN "broken" ELSE "updated", 0)
    /\ UNCHANGED <<minute, tables>>

CreateNote(n) ==
    /\ At(n, "write")
    /\ notes' = IF periods[In(n).period] = None THEN notes
                ELSE [notes EXCEPT ![n] = [period |-> In(n).period, actor |-> In(n).actor, body |-> n]]
    /\ Go(n, "noted")
    /\ UNCHANGED <<minute, limits, periods, captures>>
OwnNote(n) ==
    /\ notes[In(n).note] # None
    /\ notes[In(n).note].period = In(n).period /\ notes[In(n).note].actor = In(n).actor
UpdateNote(n) ==
    /\ At(n, "rewrite")
    /\ IF OwnNote(n)
       THEN notes' = [notes EXCEPT ![In(n).note].body = n] /\ Go(n, "rewritten")
       ELSE notes' = notes /\ Tell(n, "not_found", 0)
    /\ UNCHANGED <<minute, limits, periods, captures>>
ReadNote(n) ==
    /\ At(n, "noted") \/ At(n, "rewritten")
    /\ LET i == IF At(n, "noted") THEN n ELSE In(n).note
       IN Tell(n, IF notes[i] = None THEN "broken" ELSE "noted", 0)
    /\ UNCHANGED <<minute, tables>>

(* A handler ends, or a D1 call fails before or after it took effect: the client   *)
(* does not learn what became of its request.                                 *)
Die(n) ==
    /\ requests[n].pc \notin {"unsent", "done", "lost", "gone"}
    /\ Go(n, IF At(n, "received") THEN "lost" ELSE "gone")
    /\ UNCHANGED <<minute, tables>>
Tick == minute < MaxMinutes /\ minute' = minute + 1 /\ UNCHANGED <<tables, requests>>

Handle(n) ==
    \/ WithinRateLimit(n)
    \/ Lookup(n) \/ Insert(n) \/ Resolve(n) \/ ReadCapture(n)
    \/ Find(n) \/ Update(n) \/ Detail(n) \/ CreateNote(n) \/ UpdateNote(n) \/ ReadNote(n)
    \/ Die(n)
Next ==
    \/ \E n \in Request : Handle(n) \/ \E input \in Offered[n] : Receive(n, input)
    \/ Tick
Spec == Init /\ [][Next]_vars

-----------------------------------------------------------------------------
(* The tables and the requests keep their types.                              *)
PeriodRow == [url : Url, title : {0} \cup Request, metadata : {0} \cup Request, by : Actor \cup {None}]
CaptureRow == [period : Request, actor : Actor, link : Link, key : Key]
NoteRow == [period : Request, actor : Actor, body : Request]
Pc == {"unsent", "received", "lookup", "insert", "resolve", "read", "find", "assign", "detail", "write",
       "noted", "rewrite", "rewritten", "done", "lost", "gone"}
Status == {"none", "rate_limited", "replayed", "created", "existing", "not_found", "updated", "noted",
           "broken"}
TypeOK ==
    /\ minute \in Nat
    /\ limits \in [Actor -> [window : Nat, count : Nat]]
    /\ periods \in [Request -> PeriodRow \cup {None}]
    /\ captures \in [Request -> CaptureRow \cup {None}]
    /\ notes \in [Request -> NoteRow \cup {None}]
    /\ requests \in [Request -> [pc : Pc, input : Input \cup {None}, window : Nat, created : BOOLEAN,
                                 status : Status, capture : {0} \cup Request]]

(* "does not expose an orphan when concurrent idempotent requests use different   *)
(* URLs": every period was captured, under one URL each, and every capture is of   *)
(* the period its link normalizes to (createCapture).                          *)
NoOrphans ==
    /\ \A p \in Request : periods[p] # None =>
        \E c \in Request : captures[c] # None /\ captures[c].period = p
    /\ \A c \in Request : captures[c] # None =>
        /\ periods[captures[c].period] # None
        /\ periods[captures[c].period].url = Normalized[captures[c].link]
    /\ \A p, q \in Request : periods[p] # None /\ periods[q] # None /\ periods[p].url = periods[q].url => p = q

(* "resolves concurrent idempotent requests to one capture": a request id makes    *)
(* one capture, every answer to it names that one, and one at most claims to have  *)
(* made it (createCapture).                                                  *)
Told(n) == At(n, "done") /\ requests[n].capture # 0
SameKey(m, n) == In(m).actor = In(n).actor /\ In(m).key = In(n).key
OneCapture ==
    \A m, n \in Request : Told(m) /\ Told(n) /\ SameKey(m, n) =>
        /\ requests[m].capture = requests[n].capture
        /\ requests[m].status # "replayed" /\ requests[n].status # "replayed" => m = n

(* One request at most is told that it created a period (createCapture).         *)
CreatedOnce ==
    \A m, n \in {k \in Request : Told(k) /\ requests[k].status = "created"} :
        captures[m].period = captures[n].period => m = n

(* The errors the source calls unreachable are: rows a handler wrote, or found,    *)
(* are there when it comes back from an await.                                *)
GuardsUnreachable == \A n \in Request : requests[n].status # "broken"

(* A participant is refused for requests of the same minute alone, however late    *)
(* the count of an earlier minute comes (withinRateLimit).                      *)
RefusedWhenSpent ==
    \A n \in Request : requests[n].status = "rate_limited" =>
        Cardinality({m \in Request :
            /\ requests[m].pc \notin {"unsent", "received", "lost"} /\ requests[m].status # "rate_limited"
            /\ In(m).actor = In(n).actor /\ requests[m].window = requests[n].window}) >= Limit

(* Notes and metadata are attributed to who wrote them (updateNote, update).       *)
AuthorsTold ==
    /\ \A i \in Request : notes[i] # None => In(notes[i].body).actor = notes[i].actor
    /\ \A p \in Request : periods[p] # None /\ periods[p].metadata # 0 =>
        In(periods[p].metadata).actor = periods[p].by
=============================================================================
