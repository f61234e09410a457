-------------------------- MODULE CaptureItemsProofs --------------------------
(***************************************************************************)
(* Captures, edits and notes keep their promises for any participants, links,  *)
(* request ids and number of requests at a time.                             *)
(***************************************************************************)
EXTENDS CaptureItems, FiniteSetTheorems, TLAPS

(* What a handler is at fits what it was asked for.                            *)
InputInv ==
    \A n \in Request :
        /\ ~At(n, "unsent") => In(n) \in Input
        /\ requests[n].pc \in {"lookup", "insert", "resolve", "read"} => In(n).kind = "capture"
        /\ requests[n].pc = "find" => In(n).kind \in {"update", "note"}
        /\ requests[n].pc \in {"assign", "detail"} => In(n).kind = "update"
        /\ requests[n].pc \in {"write", "noted"} => In(n).kind = "note"
        /\ requests[n].pc \in {"rewrite", "rewritten"} => In(n).kind = "edit"
(* The ids a request mints are in no table before its batch, and the capture of     *)
(* that id is its own.                                                       *)
MintInv ==
    \A n \in Request :
        /\ requests[n].pc \in {"unsent", "received", "lookup", "insert"} =>
            periods[n] = None /\ captures[n] = None
        /\ captures[n] # None =>
            /\ In(n).kind = "capture"
            /\ captures[n].actor = In(n).actor
            /\ captures[n].key = In(n).key
            /\ captures[n].link = In(n).link
(* UNIQUE (actor_id, client_request_id).                                       *)
UniqueKey ==
    \A c, d \in Request :
        /\ captures[c] # None /\ captures[d] # None
        /\ captures[c].actor = captures[d].actor /\ captures[c].key = captures[d].key
        => c = d
(* The rows a handler comes back to are there.                                  *)
FoundInv ==
    \A n \in Request :
        /\ requests[n].pc = "resolve" => CapturesOf(n) # {}
        /\ requests[n].pc = "read" =>
            captures[n] # None /\ (requests[n].created => captures[n].period = n)
        /\ requests[n].pc \in {"assign", "detail", "write"} => periods[In(n).period] # None
        /\ requests[n].pc = "noted" => notes[n] # None
        /\ requests[n].pc = "rewritten" => notes[In(n).note] # None
(* What was told is so.                                                      *)
ToldInv ==
    \A n \in Request :
        /\ requests[n].status # "broken"
        /\ requests[n].capture # 0 =>
            /\ requests[n].pc = "done"
            /\ In(n).kind = "capture"
            /\ captures[requests[n].capture] # None
            /\ captures[requests[n].capture].actor = In(n).actor
            /\ captures[requests[n].capture].key = In(n).key
            /\ requests[n].status # "replayed" => requests[n].capture = n
            /\ requests[n].status = "created" => captures[n].period = n
(* Who wrote is one who was asked.                                            *)
AuthorInv ==
    /\ \A i \in Request : notes[i] # None =>
        ~At(notes[i].body, "unsent") /\ In(notes[i].body).actor = notes[i].actor
    /\ \A p \in Request : periods[p] # None /\ periods[p].metadata # 0 =>
        ~At(periods[p].metadata, "unsent") /\ In(periods[p].metadata).actor = periods[p].by
IInv == TypeOK /\ InputInv /\ MintInv /\ UniqueKey /\ FoundInv /\ ToldInv /\ NoOrphans /\ AuthorInv

-----------------------------------------------------------------------------
(* What an input of each kind consists of.                                     *)
LEMMA Inputs ==
    ASSUME NEW x \in Input
    PROVE  /\ x.actor \in Actor
           /\ x.kind \in {"capture", "update", "note", "edit"}
           /\ x.kind = "capture" => x.link \in Link /\ x.key \in Key
           /\ x.kind = "update" => x.period \in Request
           /\ x.kind = "note" => x.period \in Request
           /\ x.kind = "edit" => x.period \in Request /\ x.note \in Request
  BY DEF Input

(* None is no row.                                                            *)
LEMMA NoneIsNoRow ==
    ASSUME CaptureAssumption
    PROVE  None \notin Input /\ None \notin PeriodRow /\ None \notin CaptureRow /\ None \notin NoteRow
  <1>1. PeriodRow \subseteq [url : Url, title : Nat, metadata : Nat, by : Actor \cup {None}]
    BY DEF PeriodRow, Request, CaptureAssumption
  <1> QED
    BY <1>1 DEF CaptureAssumption, CaptureRow, NoteRow

LEMMA InitIInv ==
    ASSUME CaptureAssumption
    PROVE  Init => IInv
  <1> SUFFICES ASSUME Init PROVE IInv
    OBVIOUS
  <1>1. TypeOK
    BY DEF Init, TypeOK, Unsent, Pc, Status
  <1>2. InputInv /\ MintInv /\ FoundInv
    BY DEF Init, InputInv, MintInv, FoundInv, Unsent, At
  <1>3. UniqueKey /\ ToldInv /\ NoOrphans /\ AuthorInv
    BY DEF Init, UniqueKey, ToldInv, NoOrphans, AuthorInv, Unsent
  <1> QED
    BY <1>1, <1>2, <1>3 DEF IInv

-----------------------------------------------------------------------------
(* A step that leaves the tables alone and takes one request to a place, with an    *)
(* answer, that fits the tables.                                              *)
Fits(n, r) ==
    /\ r.pc # "unsent" => r.input \in Input
    /\ r.pc \in {"lookup", "insert", "resolve", "read"} => r.input.kind = "capture"
    /\ r.pc = "find" => r.input.kind \in {"update", "note"}
    /\ r.pc \in {"assign", "detail"} => r.input.kind = "update"
    /\ r.pc \in {"write", "noted"} => r.input.kind = "note"
    /\ r.pc \in {"rewrite", "rewritten"} => r.input.kind = "edit"
    /\ r.pc \in {"unsent", "received", "lookup", "insert"} => periods[n] = None /\ captures[n] = None
    /\ r.pc \notin {"resolve", "read"}
    /\ r.pc \in {"assign", "detail", "write"} => periods[r.input.period] # None
    /\ r.pc \notin {"noted", "rewritten"}
    /\ r.status # "broken"
    /\ r.capture # 0 =>
        /\ r.pc = "done" /\ r.input.kind = "capture"
        /\ captures[r.capture] # None
        /\ captures[r.capture].actor = r.input.actor
        /\ captures[r.capture].key = r.input.key
        /\ r.status # "replayed" => r.capture = n
        /\ r.status = "created" => captures[n].period = n
RequestRow ==
    [pc : Pc, input : Input \cup {None}, window : Nat, created : BOOLEAN,
     status : Status, capture : {0} \cup Request]

LEMMA RequestStep ==
    ASSUME IInv, NEW n \in Request, NEW r \in RequestRow,
           r.pc # "unsent",
           At(n, "unsent") \/ r.input = In(n),
           requests' = [requests EXCEPT ![n] = r],
           limits' \in [Actor -> [window : Nat, count : Nat]],
           UNCHANGED <<minute, periods, captures, notes>>,
           Fits(n, r)
    PROVE  IInv'
  <1> USE DEF IInv
  <1>0. requests \in [Request -> RequestRow]
    BY DEF TypeOK, RequestRow
  <1>a. \A m \in Request : requests'[m] = IF m = n THEN r ELSE requests[m]
    BY <1>0
  <1>1. TypeOK'
    BY <1>0 DEF TypeOK, RequestRow
  <1>2. InputInv'
    BY <1>a DEF InputInv, Fits, At, In
  <1>3. MintInv'
    BY <1>a DEF MintInv, Fits, At, In
  <1>4. UniqueKey' /\ NoOrphans'
    BY DEF UniqueKey, NoOrphans
  <1>5. FoundInv'
    BY <1>a DEF FoundInv, Fits, At, In, CapturesOf
  <1>6. ToldInv'
    BY <1>a DEF ToldInv, Fits, At, In
  <1>7. AuthorInv'
    <2>1. \A i \in Request : notes[i] # None => notes[i].body \in Request
      BY DEF TypeOK, NoteRow
    <2>2. \A p \in Request : periods[p] # None => periods[p].metadata \in {0} \cup Request
      BY DEF TypeOK, PeriodRow
    <2> QED
      BY <1>a, <2>1, <2>2 DEF AuthorInv, At, In
  <1> QED
    BY <1>1, <1>2, <1>3, <1>4, <1>5, <1>6, <1>7

(* No handler on its way has told anything yet.                                *)
LEMMA Untold ==
    ASSUME IInv, NEW n \in Request
    PROVE  /\ requests[n] \in RequestRow
           /\ requests[n].pc # "done" => requests[n].capture = 0
           /\ requests[n].status # "broken"
           /\ requests[n].pc # "unsent" => In(n) \in Input
           /\ In(n) = requests[n].input
  BY DEF IInv, TypeOK, RequestRow, ToldInv, InputInv, At, In

LEMMA ReceiveStep ==
    ASSUME CaptureAssumption, IInv, NEW n \in Request, NEW input \in Offered[n], Receive(n, input)
    PROVE  IInv'
  <1> DEFINE r == [requests[n] EXCEPT !.pc = "received", !.input = input, !.window = minute]
  <1>1. requests' = [requests EXCEPT ![n] = r] /\ UNCHANGED <<minute, tables>> /\ At(n, "unsent")
    BY DEF Receive
  <1>2. input \in Input
    BY DEF CaptureAssumption
  <1>3. minute \in Nat /\ limits \in [Actor -> [window : Nat, count : Nat]]
    BY DEF IInv, TypeOK
  <1>0. requests[n] \in RequestRow
    BY Untold
  <1>4. r \in RequestRow /\ r.pc = "received" /\ r.input = input
        /\ r.status = requests[n].status /\ r.capture = requests[n].capture
    BY <1>0, <1>2, <1>3 DEF RequestRow, Pc
  <1>5. periods[n] = None /\ captures[n] = None
    BY <1>1 DEF IInv, MintInv, At
  <1>6. Fits(n, r)
    BY <1>1, <1>2, <1>4, <1>5, Untold DEF Fits, At
  <1> HIDE DEF r
  <1> QED
    BY <1>1, <1>3, <1>4, <1>6, RequestStep DEF tables

LEMMA LimitStep ==
    ASSUME CaptureAssumption, IInv, NEW n \in Request, WithinRateLimit(n)
    PROVE  IInv'
  <1>1. At(n, "received") /\ UNCHANGED <<minute, periods, captures, notes>>
    BY DEF WithinRateLimit
  <1>2. In(n) \in Input /\ In(n).actor \in Actor /\ In(n).kind \in {"capture", "update", "note", "edit"}
    BY <1>1, Untold, Inputs DEF At
  <1>3. limits' \in [Actor -> [window : Nat, count : Nat]]
    <2>1. requests[n].window \in Nat
      BY Untold DEF RequestRow
    <2>2. Counted(n) \in Nat
      BY <1>2 DEF Counted, IInv, TypeOK
    <2> QED
      BY <2>1, <2>2 DEF WithinRateLimit, IInv, TypeOK
  <1>4. periods[n] = None /\ captures[n] = None
    BY <1>1 DEF IInv, MintInv, At
  <1>5. CASE Counted(n) <= Limit
    <2> DEFINE r == [requests[n] EXCEPT !.pc = Entry[In(n).kind]]
    <2>1. requests' = [requests EXCEPT ![n] = r]
      BY <1>5 DEF WithinRateLimit, Go
    <2>2. /\ In(n).kind = "capture" => r.pc = "lookup"
          /\ In(n).kind \in {"update", "note"} => r.pc = "find"
          /\ In(n).kind = "edit" => r.pc = "rewrite"
          /\ r.input = In(n) /\ r.status = requests[n].status /\ r.capture = requests[n].capture
      BY Untold, <1>2 DEF RequestRow, Entry
    <2>3. r \in RequestRow
      BY Untold, <1>2 DEF RequestRow, Entry, Pc
    <2>4. Fits(n, r)
      BY <1>1, <1>2, <1>4, <2>2, Untold DEF Fits, At
    <2> HIDE DEF r
    <2> QED
      BY <1>1, <1>2, <1>3, <2>1, <2>2, <2>3, <2>4, RequestStep
  <1>6. CASE ~(Counted(n) <= Limit)
    <2> DEFINE r == [requests[n] EXCEPT !.pc = "done", !.status = "rate_limited", !.capture = 0]
    <2>1. requests' = [requests EXCEPT ![n] = r]
      BY <1>6 DEF WithinRateLimit, Tell
    <2>0. requests[n] \in RequestRow /\ In(n) = requests[n].input
      BY Untold
    <2>2. r \in RequestRow /\ r.pc = "done" /\ r.input = In(n) /\ r.status = "rate_limited" /\ r.capture = 0
      BY <2>0 DEF RequestRow, Pc, Status
    <2>3. Fits(n, r)
      BY <1>2, <2>2 DEF Fits
    <2> HIDE DEF r
    <2> QED
      BY <1>1, <1>3, <2>1, <2>2, <2>3, RequestStep
  <1> QED
    BY <1>5, <1>6

(* A handler that goes to a place where nothing is owed to it, or tells a status    *)
(* that is about no capture.                                                 *)
LEMMA GoStep ==
    ASSUME IInv, NEW n \in Request, NEW pc \in Pc,
           requests[n].pc \notin {"unsent", "done"}, pc # "unsent",
           Go(n, pc), UNCHANGED <<minute, tables>>,
           Fits(n, [requests[n] EXCEPT !.pc = pc])
    PROVE  IInv'
  <1> DEFINE r == [requests[n] EXCEPT !.pc = pc]
  <1>1. requests' = [requests EXCEPT ![n] = r]
    BY DEF Go
  <1>2. r \in RequestRow /\ r.pc = pc /\ r.input = In(n)
    BY Untold DEF RequestRow
  <1>3. limits' \in [Actor -> [window : Nat, count : Nat]]
    BY DEF IInv, TypeOK, tables
  <1>4. Fits(n, r)
    OBVIOUS
  <1> HIDE DEF r
  <1> QED
    BY <1>1, <1>2, <1>3, <1>4, RequestStep DEF tables

LEMMA TellStep ==
    ASSUME IInv, NEW n \in Request, NEW status \in Status \ {"broken"}, NEW capture \in {0} \cup Request,
           requests[n].pc # "unsent",
           Tell(n, status, capture), UNCHANGED <<minute, tables>>,
           capture # 0 =>
               /\ In(n).kind = "capture"
               /\ captures[capture] # None
               /\ captures[capture].actor = In(n).actor
               /\ captures[capture].key = In(n).key
               /\ status # "replayed" => capture = n
               /\ status = "created" => captures[n].period = n
    PROVE  IInv'
  <1> DEFINE r == [requests[n] EXCEPT !.pc = "done", !.status = status, !.capture = capture]
  <1>1. requests' = [requests EXCEPT ![n] = r]
    BY DEF Tell
  <1>2. r \in RequestRow /\ r.pc = "done" /\ r.input = In(n) /\ r.status = status /\ r.capture = capture
    BY Untold, ZenonT(60) DEF RequestRow, Pc
  <1>3. limits' \in [Actor -> [window : Nat, count : Nat]]
    BY DEF IInv, TypeOK, tables
  <1>4. Fits(n, r)
    BY <1>2, Untold DEF Fits
  <1> HIDE DEF r
  <1> QED
    BY <1>1, <1>2, <1>3, <1>4, RequestStep DEF tables

-----------------------------------------------------------------------------
(* createCapture.                                                           *)
LEMMA LookupStep ==
    ASSUME IInv, NEW n \in Request, Lookup(n)
    PROVE  IInv'
  <1>1. At(n, "lookup") /\ UNCHANGED <<minute, tables>>
    BY DEF Lookup
  <1>2. /\ In(n).kind = "capture" /\ In(n) \in Input /\ requests[n].status # "broken"
        /\ requests[n].capture = 0 /\ periods[n] = None /\ captures[n] = None
    BY <1>1, Untold DEF IInv, InputInv, MintInv, At
  <1>3. CASE CapturesOf(n) = {}
    <2>1. Go(n, "insert")
      BY <1>3 DEF Lookup
    <2>2. Fits(n, [requests[n] EXCEPT !.pc = "insert"])
      <3>1. requests[n] \in RequestRow /\ In(n) = requests[n].input
        BY Untold
      <3> QED
        BY <1>2, <3>1 DEF Fits, RequestRow
    <2> QED
      BY <1>1, <2>1, <2>2, GoStep DEF At, Pc
  <1>4. CASE CapturesOf(n) # {}
    <2>1. PICK c \in CapturesOf(n) : Tell(n, "replayed", c)
      BY <1>4 DEF Lookup
    <2>2. c \in Request /\ captures[c] # None
          /\ captures[c].actor = In(n).actor /\ captures[c].key = In(n).key /\ c # 0
      BY <2>1 DEF CapturesOf, Request
    <2> QED
      BY <1>1, <1>2, <2>1, <2>2, TellStep DEF At, Status
  <1> QED
    BY <1>3, <1>4

LEMMA ResolveStep ==
    ASSUME IInv, NEW n \in Request, Resolve(n)
    PROVE  IInv'
  <1>1. At(n, "resolve") /\ UNCHANGED <<minute, tables>>
    BY DEF Resolve
  <1>2. In(n).kind = "capture" /\ CapturesOf(n) # {}
    BY <1>1 DEF IInv, InputInv, FoundInv, At
  <1>3. PICK c \in CapturesOf(n) :
            Tell(n, IF periods[captures[c].period] = None THEN "broken" ELSE "replayed", c)
    BY <1>2 DEF Resolve
  <1>4. c \in Request /\ captures[c] # None
        /\ captures[c].actor = In(n).actor /\ captures[c].key = In(n).key /\ c # 0
    BY <1>3 DEF CapturesOf, Request
  <1>5. periods[captures[c].period] # None
    BY <1>4 DEF IInv, NoOrphans
  <1>6. Tell(n, "replayed", c)
    BY <1>3, <1>5
  <1> QED
    BY <1>1, <1>2, <1>4, <1>6, TellStep DEF At, Status

LEMMA ReadCaptureStep ==
    ASSUME CaptureAssumption, IInv, NEW n \in Request, ReadCapture(n)
    PROVE  IInv'
  <1>1. At(n, "read") /\ UNCHANGED <<minute, tables>>
    BY DEF ReadCapture
  <1>2. In(n).kind = "capture" /\ captures[n] # None /\ (requests[n].created => captures[n].period = n)
    BY <1>1 DEF IInv, InputInv, FoundInv, At
  <1>3. /\ captures[n].actor = In(n).actor /\ captures[n].key = In(n).key
        /\ captures[n].link = In(n).link
    BY <1>2 DEF IInv, MintInv
  <1>4. PeriodsAt(periods, UrlOf(n)) # {}
    <2>1. periods[captures[n].period] # None
          /\ periods[captures[n].period].url = Normalized[captures[n].link]
      BY <1>2 DEF IInv, NoOrphans
    <2>2. captures[n].period \in Request
      BY <1>2 DEF IInv, TypeOK, CaptureRow
    <2> QED
      BY <1>3, <2>1, <2>2 DEF PeriodsAt, UrlOf
  <1>5. Tell(n, IF requests[n].created THEN "created" ELSE "existing", n)
    BY <1>2, <1>4 DEF ReadCapture
  <1>6. CASE requests[n].created
    <2>1. Tell(n, "created", n)
      BY <1>5, <1>6
    <2> QED
      BY <1>1, <1>2, <1>3, <1>6, <2>1, TellStep DEF At, Status
  <1>7. CASE ~requests[n].created
    <2>1. Tell(n, "existing", n)
      BY <1>5, <1>7
    <2> QED
      BY <1>1, <1>2, <1>3, <2>1, TellStep DEF At, Status
  <1> QED
    BY <1>6, <1>7

(* What the batch does as a whole: either a capture of this key is there and       *)
(* nothing changes, or the capture is new, of the period that has its URL, which   *)
(* is new itself if none had it.                                             *)
InsertNew(n, p) ==
    /\ CapturesOf(n) = {}
    /\ captures' = [captures EXCEPT ![n] = NewCapture(n, p)]
    /\ \/ /\ PeriodsAt(periods, UrlOf(n)) = {} /\ p = n
          /\ periods' = [periods EXCEPT ![n] =
                [url |-> UrlOf(n), title |-> 0, metadata |-> 0, by |-> None]]
       \/ p \in PeriodsAt(periods, UrlOf(n)) /\ periods' = periods
    /\ requests' = [requests EXCEPT ![n].pc = "read",
                                   ![n].created = PeriodsAt(periods, UrlOf(n)) = {}]
InsertNothing(n) ==
    /\ CapturesOf(n) # {}
    /\ captures' = captures /\ periods' = periods
    /\ requests' = [requests EXCEPT ![n].pc = "resolve",
                                   ![n].created = PeriodsAt(periods, UrlOf(n)) = {}]

LEMMA InsertEffect ==
    ASSUME CaptureAssumption, IInv, NEW n \in Request, Insert(n)
    PROVE  InsertNothing(n) \/ \E p \in Request : InsertNew(n, p)
  <1>1. periods[n] = None /\ captures[n] = None /\ In(n).kind = "capture" /\ In(n) \in Input
    BY Untold DEF Insert, IInv, MintInv, InputInv, At
  <1>2. \A c \in Request : captures[c] # None => captures[c].period # n
    BY <1>1 DEF IInv, NoOrphans
  <1>3. captures \in [Request -> CaptureRow \cup {None}] /\ periods \in [Request -> PeriodRow \cup {None}]
    BY DEF IInv, TypeOK
  <1>4. UrlOf(n) \in Url
    BY <1>1, Inputs DEF UrlOf, CaptureAssumption
  <1> DEFINE new == [url |-> UrlOf(n), title |-> 0, metadata |-> 0, by |-> None]
  <1>5. new \in PeriodRow /\ new # None /\ new.url = UrlOf(n)
    BY <1>4, NoneIsNoRow DEF PeriodRow
  <1>6. CASE CapturesOf(n) # {}
    <2>1. captures' = captures
      BY <1>6 DEF Insert
    <2>2. WithoutOrphan(n, WithPeriod(n), captures) = [WithPeriod(n) EXCEPT ![n] = None]
      BY <1>2 DEF WithoutOrphan
    <2>3. [WithPeriod(n) EXCEPT ![n] = None] = periods
      BY <1>1, <1>3 DEF WithPeriod
    <2> QED
      BY <1>6, <2>1, <2>2, <2>3 DEF Insert, InsertNothing
  <1>7. CASE CapturesOf(n) = {}
    <2>1. PICK p \in PeriodsAt(WithPeriod(n), UrlOf(n)) : captures' = [captures EXCEPT ![n] = NewCapture(n, p)]
      BY <1>7 DEF Insert
    <2>2. captures'[n] = NewCapture(n, p) /\ \A c \in Request : c # n => captures'[c] = captures[c]
      BY <2>1, <1>3
    <2>3. p \in Request
      BY <2>1 DEF PeriodsAt
    <2>4. NewCapture(n, p) \in CaptureRow /\ NewCapture(n, p) # None /\ NewCapture(n, p).period = p
      BY <1>1, <2>3, Inputs, NoneIsNoRow DEF NewCapture, CaptureRow
    <2>5. CASE PeriodsAt(periods, UrlOf(n)) = {}
      <3>1. WithPeriod(n) = [periods EXCEPT ![n] = new]
        BY <2>5 DEF WithPeriod
      <3>2. p = n
        BY <1>3, <2>1, <2>3, <2>5, <3>1 DEF PeriodsAt
      <3>3. WithoutOrphan(n, WithPeriod(n), captures') = WithPeriod(n)
        BY <2>2, <2>4, <3>2 DEF WithoutOrphan
      <3>4. requests' = [requests EXCEPT ![n].pc = "read",
                                         ![n].created = PeriodsAt(periods, UrlOf(n)) = {}]
            /\ periods' = [periods EXCEPT ![n] = new]
        BY <1>7, <3>1, <3>3 DEF Insert
      <3> QED
        BY <1>7, <2>1, <2>3, <2>5, <3>2, <3>4 DEF InsertNew
    <2>6. CASE PeriodsAt(periods, UrlOf(n)) # {}
      <3>1. WithPeriod(n) = periods
        BY <2>6 DEF WithPeriod
      <3>2. p \in PeriodsAt(periods, UrlOf(n)) /\ p # n
        BY <1>1, <2>1, <3>1 DEF PeriodsAt
      <3>3. WithoutOrphan(n, periods, captures') = periods
        BY <1>1, <1>2, <1>3, <2>2, <2>4, <3>2 DEF WithoutOrphan
      <3>4. requests' = [requests EXCEPT ![n].pc = "read",
                                         ![n].created = PeriodsAt(periods, UrlOf(n)) = {}]
            /\ periods' = periods
        BY <1>7, <3>1, <3>3 DEF Insert
      <3> QED
        BY <1>7, <2>1, <2>3, <3>2, <3>4 DEF InsertNew
    <2> QED
      BY <2>5, <2>6
  <1> QED
    BY <1>6, <1>7

(* A request that goes to a place and notes whether it created a period.         *)
Placed(n, pc, b) == [requests[n] EXCEPT !.pc = pc, !.created = b]
LEMMA Created ==
    ASSUME NEW n \in Request, requests[n] \in RequestRow, NEW pc \in Pc, NEW b \in BOOLEAN
    PROVE  /\ Placed(n, pc, b) \in RequestRow
           /\ Placed(n, pc, b).pc = pc /\ Placed(n, pc, b).created = b
           /\ Placed(n, pc, b).input = In(n)
           /\ Placed(n, pc, b).status = requests[n].status
           /\ Placed(n, pc, b).capture = requests[n].capture
  BY DEF RequestRow, Placed, In

LEMMA InsertNothingStep ==
    ASSUME CaptureAssumption, IInv, NEW n \in Request, At(n, "insert"), InsertNothing(n),
           UNCHANGED <<minute, limits, notes>>
    PROVE  IInv'
  <1> USE DEF IInv
  <1>0. requests \in [Request -> RequestRow]
    BY DEF TypeOK, RequestRow
  <1>f. PICK fresh \in BOOLEAN : fresh = (PeriodsAt(periods, UrlOf(n)) = {})
    OBVIOUS
  <1> DEFINE r == Placed(n, "resolve", fresh)
  <1>1. /\ r \in RequestRow /\ r.pc = "resolve" /\ r.created = fresh /\ r.input = In(n)
        /\ r.status = requests[n].status /\ r.capture = requests[n].capture
    <2>1. requests[n] \in RequestRow /\ "resolve" \in Pc
      BY <1>0 DEF Pc
    <2> QED
      BY <2>1, Created
  <1>2. In(n).kind = "capture" /\ In(n) \in Input /\ r.capture = 0
    BY <1>1, Untold DEF InputInv, At
  <1>3. requests' = [requests EXCEPT ![n] = r]
    BY <1>f DEF InsertNothing, Placed
  <1> HIDE DEF r
  <1>a. \A m \in Request : requests'[m] = IF m = n THEN r ELSE requests[m]
    BY <1>0, <1>3
  <1>u. UNCHANGED <<minute, limits, periods, captures, notes>> /\ CapturesOf(n) # {}
    BY DEF InsertNothing
  <1>4. TypeOK'
    BY <1>0, <1>1, <1>3, <1>u DEF TypeOK, RequestRow
  <1>5. InputInv' /\ MintInv'
    BY <1>a, <1>1, <1>2, <1>u DEF InputInv, MintInv, At, In
  <1>6. UniqueKey' /\ NoOrphans'
    BY <1>u DEF UniqueKey, NoOrphans
  <1>7. FoundInv'
    BY <1>a, <1>1, <1>u DEF FoundInv, At, In, CapturesOf
  <1>8. ToldInv'
    BY <1>a, <1>1, <1>2, <1>u DEF ToldInv, In
  <1>9. AuthorInv'
    <2>1. \A i \in Request : notes[i] # None => notes[i].body \in Request
      BY DEF TypeOK, NoteRow
    <2>2. \A p \in Request : periods[p] # None => periods[p].metadata \in {0} \cup Request
      BY DEF TypeOK, PeriodRow
    <2> QED
      BY <1>a, <1>1, <1>u, <2>1, <2>2 DEF AuthorInv, At, In
  <1> QED
    BY <1>4, <1>5, <1>6, <1>7, <1>8, <1>9

LEMMA InsertNewStep ==
    ASSUME CaptureAssumption, IInv, NEW n \in Request, NEW p \in Request,
           At(n, "insert"), InsertNew(n, p), UNCHANGED <<minute, limits, notes>>
    PROVE  IInv'
  <1> USE DEF IInv
  <1>0. requests \in [Request -> RequestRow]
    BY DEF TypeOK, RequestRow
  <1>f. PICK fresh \in BOOLEAN : fresh = (PeriodsAt(periods, UrlOf(n)) = {})
    OBVIOUS
  <1> DEFINE r == Placed(n, "read", fresh)
             row == NewCapture(n, p)
             new == [url |-> UrlOf(n), title |-> 0, metadata |-> 0, by |-> None]
  <1>1. /\ r \in RequestRow /\ r.pc = "read" /\ r.created = fresh /\ r.input = In(n)
        /\ r.status = requests[n].status /\ r.capture = requests[n].capture
    <2>1. requests[n] \in RequestRow /\ "read" \in Pc
      BY <1>0 DEF Pc
    <2> QED
      BY <2>1, Created
  <1>2. /\ In(n).kind = "capture" /\ In(n) \in Input /\ r.capture = 0
        /\ periods[n] = None /\ captures[n] = None
    BY <1>1, Untold DEF InputInv, MintInv, At
  <1>3. UrlOf(n) \in Url /\ UrlOf(n) = Normalized[In(n).link]
    BY <1>2, Inputs DEF UrlOf, CaptureAssumption
  <1>4. /\ row \in CaptureRow /\ row # None /\ row.period = p /\ row.actor = In(n).actor
        /\ row.key = In(n).key /\ row.link = In(n).link
    BY <1>2, Inputs, NoneIsNoRow DEF NewCapture, CaptureRow
  <1>5. new \in PeriodRow /\ new # None /\ new.url = UrlOf(n) /\ new.metadata = 0
    BY <1>3, NoneIsNoRow DEF PeriodRow
  <1>6. requests' = [requests EXCEPT ![n] = r]
    BY <1>f DEF InsertNew, Placed
  <1>7. captures' = [captures EXCEPT ![n] = row] /\ CapturesOf(n) = {}
    BY DEF InsertNew
  <1>8. \/ PeriodsAt(periods, UrlOf(n)) = {} /\ p = n /\ periods' = [periods EXCEPT ![n] = new]
        \/ p \in PeriodsAt(periods, UrlOf(n)) /\ periods' = periods
    BY DEF InsertNew
  <1> HIDE DEF r, row, new
  <1>a. \A m \in Request : requests'[m] = IF m = n THEN r ELSE requests[m]
    BY <1>0, <1>6
  <1>c. \A m \in Request : captures'[m] = IF m = n THEN row ELSE captures[m]
    BY <1>7 DEF TypeOK
  <1>p. /\ \A m \in Request : m # n => periods'[m] = periods[m]
        /\ periods'[n] \in {None, new}
        /\ periods'[n] = new => PeriodsAt(periods, UrlOf(n)) = {} /\ p = n
        /\ periods'[p] # None /\ periods'[p].url = UrlOf(n)
        /\ r.created => p = n
    <2>1. CASE PeriodsAt(periods, UrlOf(n)) = {} /\ p = n /\ periods' = [periods EXCEPT ![n] = new]
      BY <1>5, <2>1 DEF TypeOK
    <2>2. CASE p \in PeriodsAt(periods, UrlOf(n)) /\ periods' = periods
      BY <1>1, <1>2, <1>5, <1>f, <2>2 DEF PeriodsAt
    <2> QED
      BY <1>8, <2>1, <2>2
  <1>9. TypeOK'
    <2>1. requests' \in [Request -> RequestRow]
      BY <1>0, <1>1, <1>6
    <2>2. captures' \in [Request -> CaptureRow \cup {None}]
      BY <1>4, <1>7 DEF TypeOK
    <2>3. periods' \in [Request -> PeriodRow \cup {None}]
      BY <1>5, <1>8 DEF TypeOK
    <2> QED
      BY <2>1, <2>2, <2>3 DEF TypeOK, RequestRow
  <1>10. InputInv'
    BY <1>a, <1>1, <1>2 DEF InputInv, At, In
  <1>11. MintInv'
    BY <1>a, <1>1, <1>2, <1>4, <1>c, <1>p DEF MintInv, In
  <1>12. UniqueKey'
    BY <1>4, <1>7, <1>c DEF UniqueKey, CapturesOf
  <1>13. FoundInv'
    <2>1. \A m \in Request : In(m)' = In(m)
      BY <1>a, <1>1 DEF In
    <2>2. ASSUME NEW m \in Request, requests'[m].pc = "resolve" PROVE CapturesOf(m)' # {}
      <3>1. requests[m].pc = "resolve"
        BY <1>a, <1>1, <2>2
      <3>2. PICK c \in Request : captures[c] # None /\ captures[c].actor = In(m).actor
                                /\ captures[c].key = In(m).key
        BY <3>1 DEF FoundInv, CapturesOf
      <3>3. captures'[c] = captures[c]
        BY <1>2, <1>c, <3>2
      <3> QED
        BY <2>1, <3>2, <3>3 DEF CapturesOf
    <2>3. ASSUME NEW m \in Request, requests'[m].pc = "read"
          PROVE  captures'[m] # None /\ (requests'[m].created => captures'[m].period = m)
      BY <1>a, <1>4, <1>c, <1>p, <2>3 DEF FoundInv
    <2>4. ASSUME NEW m \in Request, requests'[m].pc \in {"assign", "detail", "write"}
          PROVE  periods'[In(m)'.period] # None
      <3>1. requests[m].pc \in {"assign", "detail", "write"} /\ In(m)' = In(m)
        BY <1>a, <1>1, <2>1, <2>4
      <3>2. periods[In(m).period] # None /\ In(m).period \in Request
        BY <3>1, Inputs DEF FoundInv, InputInv, At
      <3> QED
        BY <1>2, <1>p, <3>1, <3>2
    <2>5. ASSUME NEW m \in Request
          PROVE  /\ requests'[m].pc = "noted" => notes'[m] # None
                 /\ requests'[m].pc = "rewritten" => notes'[In(m)'.note] # None
      BY <1>a, <1>1, <2>1 DEF FoundInv
    <2> QED
      BY <2>2, <2>3, <2>4, <2>5 DEF FoundInv
  <1>14. ToldInv'
    <2>1. \A m \in Request : requests[m].capture \in {0} \cup Request
      BY <1>0 DEF RequestRow
    <2> QED
      BY <1>a, <1>1, <1>2, <1>c, <2>1 DEF ToldInv, In
  <1>15. NoOrphans'
    <2>1. \A c \in Request : captures[c] # None => captures[c].period \in Request /\ captures[c].period # n
      BY <1>2 DEF NoOrphans, TypeOK, CaptureRow
    <2>2. ASSUME NEW q \in Request, periods'[q] # None
          PROVE  \E c \in Request : captures'[c] # None /\ captures'[c].period = q
      <3>1. CASE q = n
        BY <1>4, <1>c, <1>p, <2>2, <3>1
      <3>2. CASE q # n
        <4>1. PICK c \in Request : captures[c] # None /\ captures[c].period = q
          BY <1>p, <2>2, <3>2 DEF NoOrphans
        <4> QED
          BY <1>2, <1>c, <4>1
      <3> QED
        BY <3>1, <3>2
    <2>3. ASSUME NEW c \in Request, captures'[c] # None
          PROVE  /\ periods'[captures'[c].period] # None
                 /\ periods'[captures'[c].period].url = Normalized[captures'[c].link]
      <3>1. CASE c = n
        BY <1>3, <1>4, <1>c, <1>p, <3>1
      <3>2. CASE c # n
        BY <1>c, <1>p, <2>1, <2>3, <3>2 DEF NoOrphans
      <3> QED
        BY <3>1, <3>2
    <2>4. ASSUME NEW q \in Request, NEW s \in Request,
                 periods'[q] # None, periods'[s] # None, periods'[q].url = periods'[s].url
          PROVE  q = s
      BY <1>5, <1>p, <2>4 DEF NoOrphans, PeriodsAt
    <2> QED
      BY <2>2, <2>3, <2>4 DEF NoOrphans
  <1>16. AuthorInv'
    <2>1. \A i \in Request : notes[i] # None => notes[i].body \in Request
      BY DEF TypeOK, NoteRow
    <2>2. \A q \in Request : periods[q] # None => periods[q].metadata \in {0} \cup Request
      BY DEF TypeOK, PeriodRow
    <2>3. \A m \in Request : In(m)' = In(m) /\ (requests'[m].pc = "unsent" => requests[m].pc = "unsent")
      BY <1>a, <1>1 DEF In
    <2> QED
      BY <1>5, <1>p, <2>1, <2>2, <2>3 DEF AuthorInv, At
  <1> QED
    BY <1>9, <1>10, <1>11, <1>12, <1>13, <1>14, <1>15, <1>16

LEMMA InsertStep ==
    ASSUME CaptureAssumption, IInv, NEW n \in Request, Insert(n)
    PROVE  IInv'
  <1>1. At(n, "insert") /\ UNCHANGED <<minute, limits, notes>>
    BY DEF Insert
  <1> QED
    BY <1>1, InsertEffect, InsertNothingStep, InsertNewStep

-----------------------------------------------------------------------------
(* update, and the notes.                                                    *)
LEMMA FindStep ==
    ASSUME IInv, NEW n \in Request, Find(n)
    PROVE  IInv'
  <1>1. At(n, "find") /\ UNCHANGED <<minute, tables>>
    BY DEF Find
  <1>2. /\ In(n).kind \in {"update", "note"} /\ In(n) \in Input /\ In(n) = requests[n].input
        /\ requests[n].status # "broken" /\ requests[n].capture = 0 /\ requests[n] \in RequestRow
    BY <1>1, Untold DEF IInv, InputInv, At
  <1>3. CASE periods[In(n).period] = None
    <2>1. Tell(n, "not_found", 0)
      BY <1>3 DEF Find
    <2> QED
      BY <1>1, <2>1, TellStep DEF At, Status
  <1>4. CASE periods[In(n).period] # None
    <2> DEFINE pc == IF In(n).kind = "update" THEN "assign" ELSE "write"
    <2>1. Go(n, pc) /\ pc \in Pc /\ pc # "unsent"
      BY <1>4 DEF Find, Pc
    <2>2. Fits(n, [requests[n] EXCEPT !.pc = pc])
      BY <1>2, <1>4 DEF Fits, RequestRow
    <2> HIDE DEF pc
    <2> QED
      BY <1>1, <2>1, <2>2, GoStep DEF At
  <1> QED
    BY <1>3, <1>4

LEMMA DetailStep ==
    ASSUME IInv, NEW n \in Request, Detail(n)
    PROVE  IInv'
  <1>1. At(n, "detail") /\ UNCHANGED <<minute, tables>>
    BY DEF Detail
  <1>2. periods[In(n).period] # None
    BY <1>1 DEF IInv, FoundInv, At
  <1>3. Tell(n, "updated", 0)
    BY <1>2 DEF Detail
  <1> QED
    BY <1>1, <1>3, TellStep DEF At, Status

LEMMA ReadNoteStep ==
    ASSUME IInv, NEW n \in Request, ReadNote(n)
    PROVE  IInv'
  <1>1. (At(n, "noted") \/ At(n, "rewritten")) /\ UNCHANGED <<minute, tables>>
    BY DEF ReadNote
  <1>2. /\ At(n, "noted") => notes[n] # None
        /\ At(n, "rewritten") => notes[In(n).note] # None
    BY DEF IInv, FoundInv, At
  <1>3. Tell(n, "noted", 0)
    BY <1>1, <1>2 DEF ReadNote, At
  <1> QED
    BY <1>1, <1>3, TellStep DEF At, Status

LEMMA DieStep ==
    ASSUME IInv, NEW n \in Request, Die(n)
    PROVE  IInv'
  <1>1. requests[n].pc \notin {"unsent", "done", "lost", "gone"} /\ UNCHANGED <<minute, tables>>
    BY DEF Die
  <1> DEFINE pc == IF At(n, "received") THEN "lost" ELSE "gone"
  <1>2. Go(n, pc) /\ pc \in Pc /\ pc \in {"lost", "gone"}
    BY DEF Die, Pc
  <1>3. /\ requests[n].status # "broken" /\ requests[n].capture = 0 /\ requests[n] \in RequestRow
        /\ In(n) \in Input /\ In(n) = requests[n].input
    BY <1>1, Untold
  <1> HIDE DEF pc
  <1>4. Fits(n, [requests[n] EXCEPT !.pc = pc])
    BY <1>2, <1>3 DEF Fits, RequestRow
  <1> QED
    BY <1>1, <1>2, <1>4, GoStep

(* A request whose place alone changes keeps what it was asked and told.           *)
LEMMA Moved ==
    ASSUME IInv, NEW n \in Request, NEW pc \in Pc, Go(n, pc)
    PROVE  /\ requests' \in [Request -> RequestRow]
           /\ \A m \in Request : m # n => requests'[m] = requests[m]
           /\ requests'[n].pc = pc
           /\ \A m \in Request :
                /\ In(m)' = In(m)
                /\ requests'[m].status = requests[m].status
                /\ requests'[m].capture = requests[m].capture
                /\ requests'[m].created = requests[m].created
  <1>1. requests \in [Request -> RequestRow]
    BY DEF IInv, TypeOK, RequestRow
  <1>2. requests' = [requests EXCEPT ![n] = [requests[n] EXCEPT !.pc = pc]]
    BY DEF Go
  <1>3. requests[n] \in RequestRow
    BY <1>1
  <1> DEFINE r == [requests[n] EXCEPT !.pc = pc]
  <1>4. /\ r \in RequestRow /\ r.pc = pc /\ r.input = requests[n].input
        /\ r.status = requests[n].status /\ r.capture = requests[n].capture
        /\ r.created = requests[n].created
    BY <1>3 DEF RequestRow
  <1> HIDE DEF r
  <1>5. requests' = [requests EXCEPT ![n] = r]
    BY <1>2 DEF r
  <1> QED
    BY <1>1, <1>4, <1>5 DEF In

(* The note or the field written is the request's, and no row appears or goes.     *)
LEMMA UpdateStep ==
    ASSUME CaptureAssumption, IInv, NEW n \in Request, Update(n)
    PROVE  IInv'
  <1>1. At(n, "assign") /\ Go(n, "detail") /\ UNCHANGED <<minute, limits, captures, notes>>
    BY DEF Update
  <1>2. /\ In(n).kind = "update" /\ In(n) \in Input /\ In(n).period \in Request
        /\ In(n).actor \in Actor /\ periods[In(n).period] # None /\ requests[n].capture = 0
    BY <1>1, Untold, Inputs DEF IInv, InputInv, FoundInv, At
  <1> DEFINE p == In(n).period
             row == Assigned(periods[p], n)
  <1>3. periods \in [Request -> PeriodRow \cup {None}]
    BY DEF IInv, TypeOK
  <1>4. periods' = [periods EXCEPT ![p] = row]
    BY <1>2 DEF Update
  <1>5. /\ row \in PeriodRow /\ row # None /\ row.url = periods[p].url
        /\ \/ row.metadata = n /\ row.by = In(n).actor
           \/ row.metadata = periods[p].metadata /\ row.by = periods[p].by
    <2>1. periods[p] \in PeriodRow
      BY <1>2, <1>3
    <2> QED
      BY <1>2, <2>1, NoneIsNoRow, ZenonT(60) DEF Assigned, PeriodRow
  <1>6. p \in Request /\ periods[p] # None
    BY <1>2
  <1> HIDE DEF p, row
  <1>r. /\ requests' \in [Request -> RequestRow]
        /\ \A m \in Request : m # n => requests'[m] = requests[m]
        /\ requests'[n].pc = "detail"
        /\ \A m \in Request :
             /\ In(m)' = In(m)
             /\ requests'[m].status = requests[m].status
             /\ requests'[m].capture = requests[m].capture
             /\ requests'[m].created = requests[m].created
    BY <1>1, Moved DEF Pc
  <1>p. /\ \A q \in Request : q # p => periods'[q] = periods[q]
        /\ periods'[p] = row
        /\ \A q \in Request : periods'[q] # None <=> periods[q] # None
        /\ \A q \in Request : periods[q] # None => periods'[q].url = periods[q].url
    BY <1>3, <1>4, <1>5, <1>6
  <1>7. TypeOK'
    BY <1>1, <1>3, <1>4, <1>5, <1>r DEF IInv, TypeOK, RequestRow
  <1>8. InputInv' /\ MintInv'
    <2>1. \A m \in Request : requests'[m].pc # "detail" => requests'[m] = requests[m]
      BY <1>r
    <2>2. \A m \in Request : m # n => requests'[m].pc = requests[m].pc
      BY <1>r
    <2>3. InputInv'
      BY <1>2, <1>r, <2>2 DEF IInv, InputInv, At
    <2>4. MintInv'
      BY <1>1, <1>p, <1>r, <2>1 DEF IInv, MintInv
    <2> QED
      BY <2>3, <2>4
  <1>9. UniqueKey'
    BY <1>1 DEF IInv, UniqueKey
  <1>10. FoundInv'
    <2>1. \A m \in Request : m # n => requests'[m].pc = requests[m].pc
      BY <1>r
    <2>2. \A m \in Request : CapturesOf(m)' = CapturesOf(m)
      BY <1>1, <1>r DEF CapturesOf
    <2>3. \A m \in Request : requests[m].pc \in {"assign", "detail", "write"} => In(m).period \in Request
      BY Inputs DEF IInv, InputInv, At
    <2> QED
      BY <1>1, <1>2, <1>p, <1>r, <2>1, <2>2, <2>3 DEF IInv, FoundInv, At
  <1>11. ToldInv'
    BY <1>1, <1>2, <1>r DEF IInv, ToldInv
  <1>12. NoOrphans'
    <2>1. \A c \in Request : captures[c] # None => captures[c].period \in Request
      BY DEF IInv, TypeOK, CaptureRow
    <2> QED
      BY <1>1, <1>p, <2>1 DEF IInv, NoOrphans
  <1>13. AuthorInv'
    <2>1. \A i \in Request : notes[i] # None => notes[i].body \in Request
      BY DEF IInv, TypeOK, NoteRow
    <2>2. \A q \in Request : periods[q] # None => periods[q].metadata \in {0} \cup Request
      BY DEF IInv, TypeOK, PeriodRow
    <2>3. \A m \in Request : requests'[m].pc = "unsent" => requests[m].pc = "unsent"
      BY <1>r
    <2> QED
      BY <1>1, <1>5, <1>6, <1>p, <1>r, <2>1, <2>2, <2>3 DEF IInv, AuthorInv, At
  <1> QED
    BY <1>7, <1>8, <1>9, <1>10, <1>11, <1>12, <1>13 DEF IInv

LEMMA NotesStep ==
    ASSUME IInv, NEW n \in Request, NEW i \in Request, NEW note \in NoteRow, NEW pc \in Pc,
           note # None,
           ~At(n, "unsent"), ~At(n, "done"),
           \/ pc = "noted" /\ In(n).kind = "note" /\ i = n
           \/ pc = "rewritten" /\ In(n).kind = "edit" /\ i = In(n).note,
           note.body = n, note.actor = In(n).actor,
           notes' = [notes EXCEPT ![i] = note], Go(n, pc),
           UNCHANGED <<minute, limits, periods, captures>>
    PROVE  IInv'
  <1>r. /\ requests' \in [Request -> RequestRow]
        /\ \A m \in Request : m # n => requests'[m] = requests[m]
        /\ requests'[n].pc = pc
        /\ \A m \in Request :
             /\ In(m)' = In(m)
             /\ requests'[m].status = requests[m].status
             /\ requests'[m].capture = requests[m].capture
             /\ requests'[m].created = requests[m].created
    BY Moved
  <1>n. /\ notes'[i] = note
        /\ \A j \in Request : j # i => notes'[j] = notes[j]
        /\ notes' \in [Request -> NoteRow \cup {None}]
    BY DEF IInv, TypeOK
  <1>1. requests[n].capture = 0 /\ In(n) \in Input
    BY Untold DEF At
  <1>2. TypeOK'
    BY <1>r, <1>n DEF IInv, TypeOK, RequestRow
  <1>3. InputInv'
    BY <1>r, <1>1 DEF IInv, InputInv, At
  <1>4. MintInv'
    BY <1>r DEF IInv, MintInv
  <1>5. UniqueKey' /\ NoOrphans'
    BY DEF IInv, UniqueKey, NoOrphans
  <1>6. FoundInv'
    <2>1. \A m \in Request : m # n => requests'[m].pc = requests[m].pc
      BY <1>r
    <2>2. \A m \in Request : CapturesOf(m)' = CapturesOf(m)
      BY <1>r DEF CapturesOf
    <2>3. \A m \in Request : requests[m].pc = "rewritten" => In(m).note \in Request
      BY Inputs DEF IInv, InputInv, At
    <2>4. \A j \in Request : notes[j] # None => notes'[j] # None
      BY <1>n
    <2> QED
      BY <1>r, <1>n, <2>1, <2>2, <2>3, <2>4 DEF IInv, FoundInv
  <1>7. ToldInv'
    BY <1>r, <1>1 DEF IInv, ToldInv
  <1>8. AuthorInv'
    <2>1. \A j \in Request : notes[j] # None => notes[j].body \in Request
      BY DEF IInv, TypeOK, NoteRow
    <2>2. \A q \in Request : periods[q] # None => periods[q].metadata \in {0} \cup Request
      BY DEF IInv, TypeOK, PeriodRow
    <2>3. \A m \in Request : requests'[m].pc = "unsent" => requests[m].pc = "unsent"
      BY <1>r
    <2>4. \A j \in Request : notes'[j] # None =>
            /\ requests'[notes'[j].body].pc # "unsent"
            /\ requests'[notes'[j].body].input.actor = notes'[j].actor
      <3> SUFFICES ASSUME NEW j \in Request, notes'[j] # None
                   PROVE  /\ requests'[notes'[j].body].pc # "unsent"
                          /\ requests'[notes'[j].body].input.actor = notes'[j].actor
        OBVIOUS
      <3>1. CASE j = i
        BY <1>r, <1>n, <3>1 DEF In
      <3>2. CASE j # i
        <4>1. notes'[j] = notes[j] /\ notes[j].body \in Request
          BY <1>n, <2>1, <3>2
        <4> QED
          BY <1>r, <2>3, <4>1 DEF IInv, AuthorInv, At, In
      <3> QED
        BY <3>1, <3>2
    <2>5. \A q \in Request : periods[q] # None /\ periods[q].metadata # 0 =>
            /\ requests'[periods[q].metadata].pc # "unsent"
            /\ requests'[periods[q].metadata].input.actor = periods[q].by
      BY <1>r, <2>2, <2>3 DEF IInv, AuthorInv, At, In
    <2> QED
      BY <2>4, <2>5 DEF AuthorInv, At, In
  <1> QED
    BY <1>2, <1>3, <1>4, <1>5, <1>6, <1>7, <1>8 DEF IInv

LEMMA CreateNoteStep ==
    ASSUME CaptureAssumption, IInv, NEW n \in Request, CreateNote(n)
    PROVE  IInv'
  <1>1. At(n, "write") /\ Go(n, "noted") /\ UNCHANGED <<minute, limits, periods, captures>>
    BY DEF CreateNote
  <1>2. /\ In(n).kind = "note" /\ In(n).period \in Request /\ In(n).actor \in Actor
        /\ periods[In(n).period] # None
    BY <1>1, Untold, Inputs DEF IInv, InputInv, FoundInv, At
  <1> DEFINE note == [period |-> In(n).period, actor |-> In(n).actor, body |-> n]
  <1>3. note \in NoteRow /\ note # None /\ note.body = n /\ note.actor = In(n).actor
    BY <1>2, NoneIsNoRow DEF NoteRow
  <1>4. notes' = [notes EXCEPT ![n] = note]
    BY <1>2 DEF CreateNote
  <1>5. ~At(n, "unsent") /\ ~At(n, "done") /\ "noted" \in Pc
    BY <1>1 DEF At, Pc
  <1> HIDE DEF note
  <1> QED
    BY <1>1, <1>2, <1>3, <1>4, <1>5, NotesStep

LEMMA UpdateNoteStep ==
    ASSUME CaptureAssumption, IInv, NEW n \in Request, UpdateNote(n)
    PROVE  IInv'
  <1>1. At(n, "rewrite") /\ UNCHANGED <<minute, limits, periods, captures>>
    BY DEF UpdateNote
  <1>2. In(n).kind = "edit" /\ In(n).note \in Request /\ In(n).actor \in Actor
    BY <1>1, Untold, Inputs DEF IInv, InputInv, At
  <1>3. CASE OwnNote(n)
    <2> DEFINE i == In(n).note
               note == [notes[i] EXCEPT !.body = n]
    <2>1. notes[i] \in NoteRow /\ notes[i].actor = In(n).actor
      BY <1>2, <1>3 DEF OwnNote, IInv, TypeOK
    <2>2. note \in NoteRow /\ note # None /\ note.body = n /\ note.actor = In(n).actor
      BY <2>1, NoneIsNoRow DEF NoteRow
    <2>3. notes' = [notes EXCEPT ![i] = note] /\ Go(n, "rewritten")
      BY <1>3 DEF UpdateNote
    <2>4. i \in Request /\ i = In(n).note
      BY <1>2
    <2> HIDE DEF note, i
    <2> QED
      BY <1>1, <1>2, <2>2, <2>3, <2>4, NotesStep DEF At, Pc
  <1>4. CASE ~OwnNote(n)
    <2>1. notes' = notes /\ Tell(n, "not_found", 0)
      BY <1>4 DEF UpdateNote
    <2> QED
      BY <1>1, <2>1, TellStep DEF At, Status, tables
  <1> QED
    BY <1>3, <1>4

-----------------------------------------------------------------------------
LEMMA NextStep ==
    ASSUME CaptureAssumption, IInv, [Next]_vars
    PROVE  IInv'
  <1>1. ASSUME NEW n \in Request, NEW input \in Offered[n], Receive(n, input) PROVE IInv'
    BY <1>1, ReceiveStep
  <1>2. ASSUME NEW n \in Request, Handle(n) PROVE IInv'
    <2>1. CASE WithinRateLimit(n) \/ Lookup(n) \/ Insert(n) \/ Resolve(n) \/ ReadCapture(n)
      BY <2>1, LimitStep, LookupStep, InsertStep, ResolveStep, ReadCaptureStep
    <2>2. CASE Find(n) \/ Update(n) \/ Detail(n)
      BY <2>2, FindStep, UpdateStep, DetailStep
    <2>3. CASE CreateNote(n) \/ UpdateNote(n) \/ ReadNote(n) \/ Die(n)
      BY <2>3, CreateNoteStep, UpdateNoteStep, ReadNoteStep, DieStep
    <2> QED
      BY <1>2, <2>1, <2>2, <2>3 DEF Handle
  <1>3. ASSUME minute' \in Nat, UNCHANGED <<tables, requests>> PROVE IInv'
    BY <1>3 DEF IInv, TypeOK, InputInv, MintInv, UniqueKey, FoundInv, ToldInv, NoOrphans, AuthorInv,
                tables, At, In, CapturesOf
  <1>4. CASE Tick
    <2>1. minute' \in Nat
      BY <1>4 DEF Tick, IInv, TypeOK
    <2> QED
      BY <1>3, <1>4, <2>1 DEF Tick
  <1>5. CASE UNCHANGED vars
    <2>1. minute' \in Nat
      BY <1>5 DEF vars, IInv, TypeOK
    <2> QED
      BY <1>3, <1>5, <2>1 DEF vars, tables
  <1> QED
    BY <1>1, <1>2, <1>4, <1>5 DEF Next

-----------------------------------------------------------------------------
(* The rate limit.  The requests that passed it for an actor in a minute.        *)
Waiting == {"unsent", "received", "lost"}
Admitted(rows, a, w) ==
    {m \in Request :
        /\ rows[m].pc \notin Waiting /\ rows[m].status # "rate_limited"
        /\ rows[m].input.actor = a /\ rows[m].window = w}
(* The count of an actor is that of requests that passed in its minute, until the   *)
(* limit is spent and the refused are counted too.                            *)
CountInv ==
    \A a \in Actor :
        \/ limits[a].count <= Cardinality(Admitted(requests, a, limits[a].window))
        \/ Limit <= Cardinality(Admitted(requests, a, limits[a].window))
RefusedInv ==
    \A n \in Request : requests[n].status = "rate_limited" =>
        /\ requests[n].pc = "done"
        /\ Limit <= Cardinality(Admitted(requests, requests[n].input.actor, requests[n].window))
RateInv == CountInv /\ RefusedInv

LEMMA Refusals ==
    ASSUME CaptureAssumption, RateInv
    PROVE  RefusedWhenSpent
  <1> SUFFICES ASSUME NEW n \in Request, requests[n].status = "rate_limited"
               PROVE  Cardinality(Admitted(requests, requests[n].input.actor, requests[n].window)) >= Limit
    BY DEF RefusedWhenSpent, Admitted, Waiting, In
  <1> QED
    BY DEF RateInv, RefusedInv

LEMMA AdmittedFinite ==
    ASSUME CaptureAssumption, NEW rows, NEW a, NEW w
    PROVE  IsFiniteSet(Admitted(rows, a, w)) /\ Cardinality(Admitted(rows, a, w)) \in Nat
  <1>1. PICK k \in Nat : k = MaxRequests
    BY DEF CaptureAssumption
  <1>2. IsFiniteSet(1..k)
    BY FS_Interval
  <1>3. IsFiniteSet(Request) /\ Admitted(rows, a, w) \subseteq Request
    BY <1>1, <1>2 DEF Request, Admitted
  <1> QED
    BY <1>3, FS_Subset, FS_CardinalityType

LEMMA InitRateInv ==
    ASSUME CaptureAssumption
    PROVE  Init => RateInv
  <1> SUFFICES ASSUME Init PROVE RateInv
    OBVIOUS
  <1>1. \A n \in Request : requests[n].status # "rate_limited"
    BY DEF Init, Unsent
  <1>2. \A a \in Actor : limits[a].count = 0
    BY DEF Init
  <1> QED
    BY <1>1, <1>2, AdmittedFinite DEF RateInv, CountInv, RefusedInv

(* More requests have passed when some more rows say so.                        *)
LEMMA AdmittedGrows ==
    ASSUME CaptureAssumption, NEW rows, NEW later, NEW a, NEW w,
           Admitted(rows, a, w) \subseteq Admitted(later, a, w)
    PROVE  /\ Cardinality(Admitted(rows, a, w)) \in Nat /\ Cardinality(Admitted(later, a, w)) \in Nat
           /\ Cardinality(Admitted(rows, a, w)) <= Cardinality(Admitted(later, a, w))
  BY AdmittedFinite, FS_Subset

(* A handler that counts nothing goes on with its request, or leaves it uncounted.  *)
LEMMA Uncounted ==
    ASSUME CaptureAssumption, IInv, RateInv, NEW n \in Request, requests[n].pc # "done",
           limits' = limits,
           \A m \in Request \ {n} : requests'[m] = requests[m],
           requests'[n].status # "rate_limited",
           requests[n].pc \notin Waiting =>
               /\ requests'[n].pc \notin Waiting
               /\ requests'[n].input = requests[n].input /\ requests'[n].window = requests[n].window
    PROVE  RateInv'
  <1>1. requests[n].status # "rate_limited"
    BY DEF RateInv, RefusedInv
  <1>2. \A a, w : Admitted(requests, a, w) \subseteq Admitted(requests', a, w)
    BY <1>1 DEF Admitted
  <1>3. \A a, w : /\ Cardinality(Admitted(requests, a, w)) \in Nat
                  /\ Cardinality(Admitted(requests', a, w)) \in Nat
                  /\ Cardinality(Admitted(requests, a, w)) <= Cardinality(Admitted(requests', a, w))
    BY <1>2, AdmittedGrows
  <1>4. Limit \in Nat /\ \A a \in Actor : limits[a].count \in Nat
    BY DEF CaptureAssumption, IInv, TypeOK
  <1>5. CountInv'
    <2> SUFFICES ASSUME NEW a \in Actor
                 PROVE  \/ limits[a].count <= Cardinality(Admitted(requests', a, limits[a].window))
                        \/ Limit <= Cardinality(Admitted(requests', a, limits[a].window))
      BY DEF CountInv
    <2> DEFINE before == Cardinality(Admitted(requests, a, limits[a].window))
               after == Cardinality(Admitted(requests', a, limits[a].window))
    <2>1. before \in Nat /\ after \in Nat /\ before <= after
      BY <1>3
    <2>2. limits[a].count <= before \/ Limit <= before
      BY DEF RateInv, CountInv
    <2> HIDE DEF before, after
    <2>3. limits[a].count <= after \/ Limit <= after
      BY <1>4, <2>1, <2>2
    <2> QED
      BY <2>3 DEF after
  <1>6. RefusedInv'
    <2> SUFFICES ASSUME NEW m \in Request, requests'[m].status = "rate_limited"
                 PROVE  /\ requests'[m].pc = "done"
                        /\ Limit <= Cardinality(Admitted(requests', requests'[m].input.actor, requests'[m].window))
      BY DEF RefusedInv
    <2>1. m # n /\ requests'[m] = requests[m]
      OBVIOUS
    <2> DEFINE before == Cardinality(Admitted(requests, requests[m].input.actor, requests[m].window))
               after == Cardinality(Admitted(requests', requests[m].input.actor, requests[m].window))
    <2>2. requests[m].pc = "done" /\ Limit <= before
      BY <2>1 DEF RateInv, RefusedInv
    <2>3. before \in Nat /\ after \in Nat /\ before <= after
      BY <1>3
    <2> HIDE DEF before, after
    <2>4. Limit <= after
      BY <1>4, <2>2, <2>3
    <2> QED
      BY <2>1, <2>2, <2>4 DEF after
  <1> QED
    BY <1>5, <1>6 DEF RateInv

(* The rows a request leaves when it goes on, or tells.                         *)
LEMMA Going ==
    ASSUME IInv, NEW n \in Request, NEW pc, Go(n, pc)
    PROVE  /\ \A m \in Request \ {n} : requests'[m] = requests[m]
           /\ requests'[n].pc = pc /\ requests'[n].status = requests[n].status
           /\ requests'[n].input = requests[n].input /\ requests'[n].window = requests[n].window
  BY DEF IInv, TypeOK, Go
LEMMA Telling ==
    ASSUME IInv, NEW n \in Request, NEW status, NEW capture, Tell(n, status, capture)
    PROVE  /\ \A m \in Request \ {n} : requests'[m] = requests[m]
           /\ requests'[n].pc = "done" /\ requests'[n].status = status
           /\ requests'[n].input = requests[n].input /\ requests'[n].window = requests[n].window
  BY DEF IInv, TypeOK, Tell

LEMMA Inserting ==
    ASSUME IInv, NEW n \in Request, Insert(n)
    PROVE  /\ \A m \in Request \ {n} : requests'[m] = requests[m]
           /\ requests'[n].pc \in {"read", "resolve"} /\ requests'[n].status = requests[n].status
           /\ requests'[n].input = requests[n].input /\ requests'[n].window = requests[n].window
  BY DEF IInv, TypeOK, Insert

(* The count of a request that is let through is one of a request that passed; one    *)
(* that is refused finds the limit spent.                                      *)
LEMMA CountedStep ==
    ASSUME CaptureAssumption, IInv, RateInv, NEW n \in Request, WithinRateLimit(n)
    PROVE  RateInv'
  <1> DEFINE b == In(n).actor
             w == requests[n].window
             count == Counted(n)
             old == Admitted(requests, b, w)
             new == Admitted(requests', b, w)
  <1>1. requests[n].pc = "received" /\ In(n) = requests[n].input
    BY DEF WithinRateLimit, At, In
  <1>2. /\ b \in Actor /\ In(n).kind \in {"capture", "update", "note", "edit"}
        /\ limits \in [Actor -> [window : Nat, count : Nat]] /\ w \in Nat
    BY <1>1, Untold, Inputs DEF IInv, TypeOK, RequestRow
  <1>3. /\ limits' = [limits EXCEPT ![b] = [window |-> w, count |-> count]]
        /\ count = IF limits[b].window = w THEN limits[b].count + 1 ELSE 1
    BY DEF WithinRateLimit, Counted
  <1>4. requests[n].status # "rate_limited"
    BY <1>1 DEF RateInv, RefusedInv
  <1>5. IsFiniteSet(old) /\ Cardinality(old) \in Nat /\ n \notin old
    <2>1. n \notin old
      BY <1>1 DEF Admitted, Waiting
    <2> QED
      BY <2>1, AdmittedFinite
  <1>6. Limit \in Nat /\ \A a \in Actor : limits[a].count \in Nat
    BY DEF CaptureAssumption, IInv, TypeOK
  <1>7. limits[b].window = w => limits[b].count <= Cardinality(old) \/ Limit <= Cardinality(old)
    BY <1>2 DEF RateInv, CountInv
  <1> HIDE DEF count
  <1>8. CASE count <= Limit
    <2>1. Go(n, Entry[In(n).kind]) /\ Entry[In(n).kind] \in {"lookup", "find", "rewrite"}
      BY <1>2, <1>8 DEF WithinRateLimit, Entry, count
    <2>2. /\ \A m \in Request \ {n} : requests'[m] = requests[m]
          /\ requests'[n].pc \notin Waiting /\ requests'[n].status # "rate_limited"
          /\ requests'[n].input = In(n) /\ requests'[n].window = w
      BY <1>1, <1>4, <2>1, Going DEF Waiting
    <2>3. new = old \cup {n}
      BY <1>4, <2>2 DEF Admitted
    <2>4. Cardinality(new) = Cardinality(old) + 1
      BY <1>5, <2>3, FS_AddElement
    <2>5. \A a, v : Admitted(requests, a, v) \subseteq Admitted(requests', a, v)
      BY <1>1, <2>2 DEF Admitted, Waiting
    <2>6. \A a, v : /\ Cardinality(Admitted(requests, a, v)) \in Nat
                    /\ Cardinality(Admitted(requests', a, v)) \in Nat
                    /\ Cardinality(Admitted(requests, a, v)) <= Cardinality(Admitted(requests', a, v))
      BY <2>5, AdmittedGrows
    <2>7. CountInv'
      <3> SUFFICES ASSUME NEW a \in Actor
                   PROVE  \/ limits'[a].count <= Cardinality(Admitted(requests', a, limits'[a].window))
                          \/ Limit <= Cardinality(Admitted(requests', a, limits'[a].window))
        BY DEF CountInv
      <3>1. CASE a = b
        <4>1. limits'[b].count = count /\ limits'[b].window = w
          BY <1>2, <1>3
        <4>2. count <= Cardinality(new) \/ Limit <= Cardinality(new)
          <5> HIDE DEF old, new
          <5> QED
            BY <1>2, <1>3, <1>5, <1>6, <1>7, <2>4
        <4> QED
          BY <3>1, <4>1, <4>2
      <3>2. CASE a # b
        <4> DEFINE before == Cardinality(Admitted(requests, a, limits[a].window))
                   after == Cardinality(Admitted(requests', a, limits[a].window))
        <4>1. limits'[a] = limits[a]
          BY <1>2, <1>3, <3>2
        <4>2. before \in Nat /\ after \in Nat /\ before <= after
          BY <2>6
        <4>3. limits[a].count <= before \/ Limit <= before
          BY DEF RateInv, CountInv
        <4> HIDE DEF before, after
        <4>4. limits[a].count <= after \/ Limit <= after
          BY <1>6, <4>2, <4>3
        <4> QED
          BY <4>1, <4>4 DEF after
      <3> QED
        BY <3>1, <3>2
    <2>8. RefusedInv'
      <3> SUFFICES ASSUME NEW m \in Request, requests'[m].status = "rate_limited"
                   PROVE  /\ requests'[m].pc = "done"
                          /\ Limit <= Cardinality(Admitted(requests', requests'[m].input.actor, requests'[m].window))
        BY DEF RefusedInv
      <3>1. m # n /\ requests'[m] = requests[m]
        BY <2>2
      <3> DEFINE before == Cardinality(Admitted(requests, requests[m].input.actor, requests[m].window))
                 after == Cardinality(Admitted(requests', requests[m].input.actor, requests[m].window))
      <3>2. requests[m].pc = "done" /\ Limit <= before
        BY <3>1 DEF RateInv, RefusedInv
      <3>3. before \in Nat /\ after \in Nat /\ before <= after
        BY <2>6
      <3> HIDE DEF before, after
      <3>4. Limit <= after
        BY <1>6, <3>2, <3>3
      <3> QED
        BY <3>1, <3>2, <3>4 DEF after
    <2> QED
      BY <2>7, <2>8 DEF RateInv
  <1>9. CASE ~(count <= Limit)
    <2>1. Tell(n, "rate_limited", 0)
      BY <1>9 DEF WithinRateLimit, count
    <2>2. /\ \A m \in Request \ {n} : requests'[m] = requests[m]
          /\ requests'[n].pc = "done" /\ requests'[n].status = "rate_limited"
          /\ requests'[n].input = In(n) /\ requests'[n].window = w
      BY <1>1, <2>1, Telling
    <2>3. \A a, v : Admitted(requests', a, v) = Admitted(requests, a, v)
      BY <1>1, <2>2 DEF Admitted, Waiting
    <2>4. Limit <= Cardinality(old)
      <3> HIDE DEF old
      <3> QED
        BY <1>2, <1>3, <1>5, <1>6, <1>7, <1>9
    <2>5. CountInv'
      <3> SUFFICES ASSUME NEW a \in Actor
                   PROVE  \/ limits'[a].count <= Cardinality(Admitted(requests, a, limits'[a].window))
                          \/ Limit <= Cardinality(Admitted(requests, a, limits'[a].window))
        BY <2>3 DEF CountInv
      <3>1. CASE a = b
        BY <1>2, <1>3, <2>4, <3>1
      <3>2. CASE a # b
        BY <1>2, <1>3, <3>2 DEF RateInv, CountInv
      <3> QED
        BY <3>1, <3>2
    <2>6. RefusedInv'
      BY <1>1, <2>2, <2>3, <2>4 DEF RateInv, RefusedInv
    <2> QED
      BY <2>5, <2>6 DEF RateInv
  <1> QED
    BY <1>8, <1>9

LEMMA OthersUncounted ==
    ASSUME CaptureAssumption, IInv, RateInv, NEW n \in Request, Handle(n), ~WithinRateLimit(n)
    PROVE  RateInv'
  <1>1. requests[n].pc # "done" => requests[n].status # "rate_limited"
    BY DEF RateInv, RefusedInv
  <1>2. CASE Insert(n)
    <2>1. requests[n].pc = "insert" /\ limits' = limits
      BY <1>2 DEF Insert, At
    <2> QED
      BY <1>1, <1>2, <2>1, Inserting, Uncounted DEF Waiting
  <1>3. ASSUME limits' = limits, requests[n].pc \notin Waiting \cup {"done"},
               NEW pc \in Pc \ Waiting, Go(n, pc)
        PROVE  RateInv'
    BY <1>1, <1>3, Going, Uncounted
  <1>4. ASSUME limits' = limits, requests[n].pc \notin Waiting \cup {"done"},
               NEW status \in Status \ {"rate_limited"}, NEW capture, Tell(n, status, capture)
        PROVE  RateInv'
    BY <1>4, Telling, Uncounted DEF Waiting
  <1> USE DEF At, Waiting, Pc, Status, tables
  <1>5. CASE Lookup(n)
    BY <1>3, <1>4, <1>5 DEF Lookup
  <1>6. CASE Resolve(n)
    BY <1>4, <1>6 DEF Resolve
  <1>7. CASE ReadCapture(n)
    BY <1>4, <1>7 DEF ReadCapture
  <1>8. CASE Find(n)
    BY <1>3, <1>4, <1>8 DEF Find
  <1>9. CASE Update(n) \/ Detail(n)
    BY <1>3, <1>4, <1>9 DEF Update, Detail
  <1>10. CASE CreateNote(n) \/ UpdateNote(n) \/ ReadNote(n)
    BY <1>3, <1>4, <1>10 DEF CreateNote, UpdateNote, ReadNote
  <1>11. CASE Die(n)
    <2>1. /\ limits' = limits /\ requests[n].pc # "done" /\ Go(n, IF At(n, "received") THEN "lost" ELSE "gone")
      BY <1>11 DEF Die
    <2> QED
      BY <1>1, <2>1, Going, Uncounted
  <1> QED
    BY <1>2, <1>5, <1>6, <1>7, <1>8, <1>9, <1>10, <1>11 DEF Handle

LEMMA RateStep ==
    ASSUME CaptureAssumption, IInv, RateInv, [Next]_vars
    PROVE  RateInv'
  <1>1. ASSUME NEW n \in Request, NEW input \in Offered[n], Receive(n, input) PROVE RateInv'
    <2>1. /\ requests[n].pc = "unsent" /\ limits' = limits
          /\ requests' = [requests EXCEPT ![n].pc = "received", ![n].input = input, ![n].window = minute]
      BY <1>1 DEF Receive, At, tables
    <2>2. /\ \A m \in Request \ {n} : requests'[m] = requests[m]
          /\ requests'[n].status = requests[n].status
      BY <2>1 DEF IInv, TypeOK
    <2>3. requests[n].status # "rate_limited"
      BY <2>1 DEF RateInv, RefusedInv
    <2> QED
      BY <2>1, <2>2, <2>3, Uncounted DEF Waiting
  <1>2. ASSUME NEW n \in Request, Handle(n) PROVE RateInv'
    BY <1>2, CountedStep, OthersUncounted
  <1>3. CASE UNCHANGED <<limits, requests>>
    BY <1>3 DEF RateInv, CountInv, RefusedInv, Admitted
  <1> QED
    BY <1>1, <1>2, <1>3 DEF Next, Tick, vars, tables

(* What IInv and RateInv say of a state.                                       *)
LEMMA OneCaptureHolds == IInv => OneCapture
  <1> SUFFICES ASSUME IInv, NEW m \in Request, NEW n \in Request,
                      Told(m), Told(n), SameKey(m, n)
               PROVE  /\ requests[m].capture = requests[n].capture
                      /\ requests[m].status # "replayed" /\ requests[n].status # "replayed" => m = n
    BY DEF OneCapture
  <1>1. requests[m].capture \in Request /\ requests[n].capture \in Request
    <2>1. requests[m] \in RequestRow /\ requests[n] \in RequestRow
      BY Untold
    <2> QED
      BY <2>1 DEF Told, RequestRow
  <1>2. requests[m].capture = requests[n].capture
    BY <1>1 DEF IInv, ToldInv, UniqueKey, Told, SameKey
  <1> QED
    BY <1>2 DEF IInv, ToldInv, Told
LEMMA OthersHold == IInv => CreatedOnce /\ GuardsUnreachable /\ AuthorsTold
  <1>1. IInv => CreatedOnce
    BY DEF IInv, ToldInv, CreatedOnce, Told
  <1>2. IInv => GuardsUnreachable
    BY DEF IInv, ToldInv, GuardsUnreachable
  <1>3. IInv => AuthorsTold
    BY DEF IInv, AuthorInv, AuthorsTold
  <1> QED
    BY <1>1, <1>2, <1>3

-----------------------------------------------------------------------------
LEMMA Invariance ==
    ASSUME CaptureAssumption
    PROVE  Spec => []IInv
  <1>1. Init => IInv
    BY InitIInv
  <1>2. IInv /\ [Next]_vars => IInv'
    BY NextStep
  <1> QED
    BY <1>1, <1>2, PTL DEF Spec

(* The tables and the requests keep their types.                              *)
THEOREM TypeCorrect ==
    ASSUME CaptureAssumption
    PROVE  Spec => []TypeOK
  <1>1. IInv => TypeOK
    BY DEF IInv
  <1> QED
    BY <1>1, Invariance, PTL

(* No period is there without a capture, no capture without the period of its      *)
(* link's URL, and no URL twice, whatever the batches of createCapture meet.       *)
THEOREM NoOrphan ==
    ASSUME CaptureAssumption
    PROVE  Spec => []NoOrphans
  <1>1. IInv => NoOrphans
    BY DEF IInv
  <1> QED
    BY <1>1, Invariance, PTL

(* All answers to a client request id name one capture, and one of them at most    *)
(* claims to have made it: the ids are unique, and what was told of is there.      *)
THEOREM AnsweredOnce ==
    ASSUME CaptureAssumption
    PROVE  Spec => []OneCapture
  <1>1. IInv => OneCapture
    BY OneCaptureHolds
  <1> QED
    BY <1>1, Invariance, PTL

(* One request at most is told that it created the period.                      *)
THEOREM FirstCapture ==
    ASSUME CaptureAssumption
    PROVE  Spec => []CreatedOnce
  <1>1. IInv => CreatedOnce
    BY OthersHold
  <1> QED
    BY <1>1, Invariance, PTL

(* The handlers never reach the errors the source calls unreachable.             *)
THEOREM Unreachable ==
    ASSUME CaptureAssumption
    PROVE  Spec => []GuardsUnreachable
  <1>1. IInv => GuardsUnreachable
    BY OthersHold
  <1> QED
    BY <1>1, Invariance, PTL

(* Notes and metadata carry the name of who wrote them last.                     *)
THEOREM Attributed ==
    ASSUME CaptureAssumption
    PROVE  Spec => []AuthorsTold
  <1>1. IInv => AuthorsTold
    BY OthersHold
  <1> QED
    BY <1>1, Invariance, PTL

(* Nobody is refused but for the requests of the same minute, however late the      *)
(* count of an earlier minute comes.                                          *)
THEOREM RefusalsFair ==
    ASSUME CaptureAssumption
    PROVE  Spec => []RefusedWhenSpent
  <1>1. Init => IInv /\ RateInv
    BY InitIInv, InitRateInv
  <1>2. IInv /\ RateInv /\ [Next]_vars => (IInv /\ RateInv)'
    BY NextStep, RateStep
  <1>3. RateInv => RefusedWhenSpent
    BY Refusals
  <1> QED
    BY <1>1, <1>2, <1>3, PTL DEF Spec
=============================================================================
