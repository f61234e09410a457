------------------------- MODULE GoalJournalProofs -------------------------
(***************************************************************************)
(* Proofs about GoalJournal for every set of files, values and identifiers *)
(* and every bound: its types, exactly-once recording without gaps, and    *)
(* that the journal implements the indivisible transitions of              *)
(* TransitionLog.                                                          *)
(***************************************************************************)
EXTENDS GoalJournal, SequenceTheorems, TLAPS

(* What the running process has established, by where it is. *)
ProcessInv ==
    /\ journal = NoJournal => at = "idle"
    /\ at = "idle" => left = {} /\ todo = {}
    /\ at \in {"commit", "replay"} => todo = {} /\ left \subseteq DOMAIN journal.writes
    /\ at = "append" => left = {}

(* A file the running loop has passed holds what the journal says. *)
WrittenInv ==
    at # "idle" =>
        \A t \in (DOMAIN journal.writes) \ left : files[t] = journal.writes[t]

(* Identifiers in the history and in the journal have been minted, so a    *)
(* fresh one occurs nowhere.                                               *)
MintedInv ==
    /\ journal # NoJournal => journal.id \in minted
    /\ \A p \in DOMAIN history : history[p].id \in minted \cup {NoId}

(* The events of the journalled transition that are recorded are the first *)
(* k of them, the last of these ends the history, and the running loop has *)
(* exactly the others still to append.                                     *)
Progressed(k) ==
    /\ Recorded(journal) = 1..k
    /\ k >= 1 => /\ Len(history) >= 1
                 /\ history[Len(history)] = [id |-> journal.id, index |-> k]
    /\ at = "append" => todo = (k + 1)..journal.events

PrefixInv == journal # NoJournal => \E k \in 0..journal.events : Progressed(k)

IInv ==
    /\ TypeOK
    /\ ProcessInv
    /\ WrittenInv
    /\ MintedInv
    /\ PrefixInv
    /\ ExactlyOnce
    /\ NoGap

-----------------------------------------------------------------------------
LEMMA WriteSetDomain ==
    ASSUME NEW w \in WriteSet
    PROVE  /\ DOMAIN w \subseteq Target
           /\ \A t \in DOMAIN w : w[t] \in Value
  BY DEF WriteSet

LEMMA TransitionFields ==
    ASSUME NEW j \in Transition
    PROVE  /\ j.id \in Id
           /\ j.writes \in WriteSet
           /\ j.events \in 1..MaxEvents
           /\ j # NoJournal
  BY NoJournalAssumption DEF Transition

LEMMA InitialState == Init => IInv
  BY NoIdAssumption, BoundsAssumption, InitialFilesAssumption
  DEF Init, IInv, TypeOK, ProcessInv, WrittenInv, MintedInv, PrefixInv,
      ExactlyOnce, NoGap

(* Types are preserved by every step. *)
LEMMA TypeStep == TypeOK /\ ProcessInv /\ [Next]_vars => TypeOK'
<1> SUFFICES ASSUME TypeOK, ProcessInv, [Next]_vars PROVE TypeOK'
  OBVIOUS
<1> USE BoundsAssumption, TransitionFields DEF TypeOK, ProcessInv
<1>1. ASSUME NEW id \in Id, NEW w \in WriteSet, NEW n \in 1..MaxEvents, Begin(id, w, n)
      PROVE  TypeOK'
  <2>1. journal' \in Transition
    BY <1>1 DEF Begin, Transition
  <2>2. left' \subseteq Target
    BY <1>1, WriteSetDomain DEF Begin
  <2> QED
    BY <1>1, <2>1, <2>2 DEF Begin
<1>2. CASE Restart
  <2>1. left' \subseteq Target
    BY <1>2, WriteSetDomain DEF Restart
  <2> QED
    BY <1>2, <2>1 DEF Restart
<1>3. ASSUME NEW t \in Target, Write(t) PROVE TypeOK'
  <2>1. journal \in Transition /\ t \in DOMAIN journal.writes
    BY <1>3 DEF Write
  <2>2. journal.writes[t] \in Value
    BY <2>1, WriteSetDomain
  <2> QED
    BY <1>3, <2>2 DEF Write
<1>4. CASE CallReplay
  <2>1. left' \subseteq Target
    BY <1>4, WriteSetDomain DEF CallReplay
  <2> QED
    BY <1>4, <2>1 DEF CallReplay
<1>5. CASE ReadHistory
  <2>1. journal \in Transition
    BY <1>5 DEF ReadHistory
  <2>2. todo' \subseteq 1..MaxEvents
    BY <1>5, <2>1 DEF ReadHistory
  <2> QED
    BY <1>5, <2>2 DEF ReadHistory
<1>6. ASSUME NEW i \in 1..MaxEvents, AppendEvent(i) PROVE TypeOK'
  <2>1. journal \in Transition
    BY <1>6 DEF AppendEvent
  <2>2. [id |-> journal.id, index |-> i] \in Entry
    BY <2>1 DEF Entry
  <2>3. history' \in Seq(Entry)
    BY <1>6, <2>2 DEF AppendEvent
  <2> QED
    BY <1>6, <2>3 DEF AppendEvent
<1>7. CASE RemoveJournal
  BY <1>7 DEF RemoveJournal
<1>8. CASE Note
  <2>1. [id |-> NoId, index |-> 0] \in Entry
    BY DEF Entry
  <2>2. history' \in Seq(Entry)
    BY <1>8, <2>1 DEF Note
  <2> QED
    BY <1>8, <2>2 DEF Note
<1>9. CASE Crash
  BY <1>9 DEF Crash
<1>10. CASE UNCHANGED vars
  BY <1>10 DEF vars
<1> QED
  BY <1>1, <1>2, <1>3, <1>4, <1>5, <1>6, <1>7, <1>8, <1>9, <1>10 DEF Next, Recover

(* What the process knows about itself and what it has written. *)
LEMMA ProcessStep == TypeOK /\ ProcessInv /\ [Next]_vars => ProcessInv'
<1> SUFFICES ASSUME TypeOK, ProcessInv, [Next]_vars PROVE ProcessInv'
  OBVIOUS
<1> USE TransitionFields DEF TypeOK, ProcessInv
<1>1. ASSUME NEW id \in Id, NEW w \in WriteSet, NEW n \in 1..MaxEvents, Begin(id, w, n)
      PROVE  ProcessInv'
  <2>1. journal' \in Transition
    BY <1>1 DEF Begin, Transition
  <2> QED
    BY <1>1, <2>1 DEF Begin
<1>2. CASE Restart
  BY <1>2 DEF Restart
<1>3. ASSUME NEW t \in Target, Write(t) PROVE ProcessInv'
  BY <1>3 DEF Write
<1>4. CASE CallReplay
  BY <1>4 DEF CallReplay
<1>5. CASE ReadHistory
  BY <1>5 DEF ReadHistory
<1>6. ASSUME NEW i \in 1..MaxEvents, AppendEvent(i) PROVE ProcessInv'
  BY <1>6 DEF AppendEvent
<1>7. CASE RemoveJournal
  BY <1>7 DEF RemoveJournal
<1>8. CASE Note
  BY <1>8 DEF Note
<1>9. CASE Crash
  BY <1>9 DEF Crash
<1>10. CASE UNCHANGED vars
  BY <1>10 DEF vars
<1> QED
  BY <1>1, <1>2, <1>3, <1>4, <1>5, <1>6, <1>7, <1>8, <1>9, <1>10 DEF Next, Recover

LEMMA WrittenStep == TypeOK /\ ProcessInv /\ WrittenInv /\ [Next]_vars => WrittenInv'
<1> SUFFICES ASSUME TypeOK, ProcessInv, WrittenInv, [Next]_vars PROVE WrittenInv'
  OBVIOUS
<1> USE TransitionFields DEF TypeOK, ProcessInv, WrittenInv
<1>1. ASSUME NEW id \in Id, NEW w \in WriteSet, NEW n \in 1..MaxEvents, Begin(id, w, n)
      PROVE  WrittenInv'
  BY <1>1 DEF Begin
<1>2. CASE Restart
  BY <1>2 DEF Restart
<1>3. ASSUME NEW t \in Target, Write(t) PROVE WrittenInv'
  <2>1. journal \in Transition
    BY <1>3 DEF Write
  <2>2. DOMAIN journal.writes \subseteq Target
    BY <2>1, WriteSetDomain
  <2> QED
    BY <1>3, <2>1, <2>2 DEF Write
<1>4. CASE CallReplay
  BY <1>4 DEF CallReplay
<1>5. CASE ReadHistory
  BY <1>5 DEF ReadHistory
<1>6. ASSUME NEW i \in 1..MaxEvents, AppendEvent(i) PROVE WrittenInv'
  BY <1>6 DEF AppendEvent
<1>7. CASE RemoveJournal
  BY <1>7 DEF RemoveJournal
<1>8. CASE Note
  BY <1>8 DEF Note
<1>9. CASE Crash
  BY <1>9 DEF Crash
<1>10. CASE UNCHANGED vars
  BY <1>10 DEF vars
<1> QED
  BY <1>1, <1>2, <1>3, <1>4, <1>5, <1>6, <1>7, <1>8, <1>9, <1>10 DEF Next, Recover

LEMMA MintedStep == TypeOK /\ ProcessInv /\ MintedInv /\ [Next]_vars => MintedInv'
<1> SUFFICES ASSUME TypeOK, ProcessInv, MintedInv, [Next]_vars PROVE MintedInv'
  OBVIOUS
<1> USE TransitionFields DEF TypeOK, ProcessInv, MintedInv
<1>1. ASSUME NEW id \in Id, NEW w \in WriteSet, NEW n \in 1..MaxEvents, Begin(id, w, n)
      PROVE  MintedInv'
  BY <1>1 DEF Begin
<1>2. CASE Restart
  BY <1>2 DEF Restart
<1>3. ASSUME NEW t \in Target, Write(t) PROVE MintedInv'
  BY <1>3 DEF Write
<1>4. CASE CallReplay
  BY <1>4 DEF CallReplay
<1>5. CASE ReadHistory
  BY <1>5 DEF ReadHistory
<1>6. ASSUME NEW i \in 1..MaxEvents, AppendEvent(i) PROVE MintedInv'
  BY <1>6 DEF AppendEvent
<1>7. CASE RemoveJournal
  BY <1>7 DEF RemoveJournal
<1>8. CASE Note
  BY <1>8 DEF Note
<1>9. CASE Crash
  BY <1>9 DEF Crash
<1>10. CASE UNCHANGED vars
  BY <1>10 DEF vars
<1> QED
  BY <1>1, <1>2, <1>3, <1>4, <1>5, <1>6, <1>7, <1>8, <1>9, <1>10 DEF Next, Recover

(* Appending the first missing event extends the recorded prefix by one. *)
LEMMA AppendExtends ==
    ASSUME TypeOK, ProcessInv, PrefixInv,
           NEW i \in 1..MaxEvents, AppendEvent(i)
    PROVE  /\ Progressed(i - 1)
           /\ journal' = journal
           /\ journal \in Transition
           /\ i \in 1..journal.events
           /\ Progressed(i)'
<1> USE TransitionFields DEF TypeOK, ProcessInv
<1>1. journal' = journal /\ journal \in Transition
  BY DEF AppendEvent
<1>2. PICK k \in 0..journal.events : Progressed(k)
  BY <1>1 DEF PrefixInv
<1>3. todo = (k + 1)..journal.events
  BY <1>2 DEF Progressed, AppendEvent
<1>4. i = k + 1 /\ i \in 1..journal.events
  BY <1>1, <1>2, <1>3 DEF AppendEvent
<1>5. \A p \in DOMAIN history' :
         history'[p] = IF p = Len(history) + 1
                       THEN [id |-> journal.id, index |-> i] ELSE history[p]
  BY DEF AppendEvent
<1>6. DOMAIN history' = 1..(Len(history) + 1) /\ DOMAIN history = 1..Len(history)
      /\ Len(history) \in Nat /\ Len(history') = Len(history) + 1
  BY DEF AppendEvent
<1>7. Recorded(journal)' = Recorded(journal) \cup {i}
  <2>1. ASSUME NEW m \in Recorded(journal)' PROVE m \in Recorded(journal) \cup {i}
    BY <1>1, <1>5, <1>6, <2>1 DEF Recorded
  <2>2. i \in Recorded(journal)'
    <3>1. history'[Len(history) + 1] = [id |-> journal.id, index |-> i]
      BY <1>5, <1>6
    <3> QED
      BY <1>1, <1>4, <1>6, <3>1 DEF Recorded
  <2>3. ASSUME NEW m \in Recorded(journal) PROVE m \in Recorded(journal)'
    <3>1. PICK p \in DOMAIN history : history[p] = [id |-> journal.id, index |-> m]
      BY <2>3 DEF Recorded
    <3>2. history'[p] = [id |-> journal.id, index |-> m] /\ p \in DOMAIN history'
      BY <1>5, <1>6, <3>1
    <3>3. m \in 1..journal.events
      BY <2>3 DEF Recorded
    <3> QED
      BY <1>1, <3>2, <3>3 DEF Recorded
  <2> QED
    BY <2>1, <2>2, <2>3
<1>8. Recorded(journal)' = 1..i
  BY <1>1, <1>2, <1>4, <1>7 DEF Progressed
<1>9. todo' = (i + 1)..journal.events
  BY <1>1, <1>3, <1>4 DEF AppendEvent
<1>10. Progressed(i)'
  BY <1>1, <1>5, <1>6, <1>8, <1>9 DEF Progressed
<1> QED
  BY <1>1, <1>2, <1>4, <1>10

(* Steps that leave journal and history alone leave the prefix alone. *)
LEMMA SamePrefix ==
    ASSUME PrefixInv, UNCHANGED <<journal, history>>,
           at' = "append" => at = "append" /\ UNCHANGED todo
    PROVE  PrefixInv'
<1> SUFFICES ASSUME journal # NoJournal
             PROVE  \E k \in 0..journal.events : Progressed(k)'
  BY DEF PrefixInv
<1>1. PICK k \in 0..journal.events : Progressed(k)
  BY DEF PrefixInv
<1>2. Recorded(journal)' = Recorded(journal)
  BY DEF Recorded
<1>3. Progressed(k)'
  BY <1>1, <1>2 DEF Progressed
<1> QED
  BY <1>3

LEMMA PrefixStep ==
    TypeOK /\ ProcessInv /\ MintedInv /\ PrefixInv /\ [Next]_vars => PrefixInv'
<1> SUFFICES ASSUME TypeOK, ProcessInv, MintedInv, PrefixInv, [Next]_vars
             PROVE  PrefixInv'
  OBVIOUS
<1>1. ASSUME NEW id \in Id, NEW w \in WriteSet, NEW n \in 1..MaxEvents, Begin(id, w, n)
      PROVE  PrefixInv'
  <2>1. \A p \in DOMAIN history : history[p].id # id
    BY <1>1, NoIdAssumption DEF Begin, MintedInv
  <2>2. Recorded(journal)' = {}
    BY <1>1, <2>1 DEF Begin, Recorded
  <2>3. 0 \in 0..journal'.events /\ Progressed(0)'
    BY <1>1, <2>2 DEF Begin, Progressed
  <2> QED
    BY <2>3 DEF PrefixInv
<1>2. CASE Restart
  BY <1>2, SamePrefix DEF Restart
<1>3. ASSUME NEW t \in Target, Write(t) PROVE PrefixInv'
  BY <1>3, SamePrefix DEF Write
<1>4. CASE CallReplay
  BY <1>4, SamePrefix DEF CallReplay
<1>5. CASE ReadHistory
  <2>1. journal \in Transition /\ journal # NoJournal
    BY <1>5, NoJournalAssumption DEF ReadHistory, TypeOK, ProcessInv
  <2>2. PICK k \in 0..journal.events : Progressed(k)
    BY <2>1 DEF PrefixInv
  <2>3. journal.events \in Nat
    BY <2>1, TransitionFields
  <2>4. todo' = (k + 1)..journal.events
    BY <1>5, <2>2, <2>3 DEF ReadHistory, Progressed
  <2>5. Progressed(k)'
    BY <1>5, <2>2, <2>4 DEF ReadHistory, Progressed, Recorded
  <2> QED
    BY <1>5, <2>2, <2>5 DEF PrefixInv, ReadHistory
<1>6. ASSUME NEW i \in 1..MaxEvents, AppendEvent(i) PROVE PrefixInv'
  <2>1. i \in 0..journal'.events /\ Progressed(i)'
    BY <1>6, AppendExtends
  <2> QED
    BY <2>1 DEF PrefixInv
<1>7. CASE RemoveJournal
  BY <1>7 DEF RemoveJournal, PrefixInv
<1>8. CASE Note
  BY <1>8 DEF Note, PrefixInv
<1>9. CASE Crash
  BY <1>9, SamePrefix DEF Crash
<1>10. CASE UNCHANGED vars
  BY <1>10, SamePrefix DEF vars
<1> QED
  BY <1>1, <1>2, <1>3, <1>4, <1>5, <1>6, <1>7, <1>8, <1>9, <1>10 DEF Next, Recover

(* The only steps that lengthen the history append a new event or a note. *)
LEMMA HistoryStep ==
    ASSUME [Next]_vars
    PROVE  \/ UNCHANGED history
           \/ \E i \in 1..MaxEvents : AppendEvent(i)
           \/ history' = Append(history, [id |-> NoId, index |-> 0])
  BY DEF Next, Recover, vars, Begin, Restart, Write, CallReplay, ReadHistory,
         RemoveJournal, Note, Crash

LEMMA OnceStep ==
    TypeOK /\ ProcessInv /\ PrefixInv /\ ExactlyOnce /\ [Next]_vars => ExactlyOnce'
<1> SUFFICES ASSUME TypeOK, ProcessInv, PrefixInv, ExactlyOnce, [Next]_vars
             PROVE  ExactlyOnce'
  OBVIOUS
<1>0. Len(history) \in Nat /\ DOMAIN history = 1..Len(history)
  BY DEF TypeOK
<1>1. CASE UNCHANGED history
  BY <1>1 DEF ExactlyOnce
<1>2. ASSUME NEW i \in 1..MaxEvents, AppendEvent(i) PROVE ExactlyOnce'
  <2>1. Progressed(i - 1) /\ journal \in Transition /\ i \in 1..journal.events
    BY <1>2, AppendExtends
  <2>2. \A p \in DOMAIN history : history[p] # [id |-> journal.id, index |-> i]
    <3>1. i \notin Recorded(journal)
      BY <2>1 DEF Progressed
    <3> QED
      BY <2>1, <3>1 DEF Recorded
  <2>3. \A p \in DOMAIN history' :
          history'[p] = IF p = Len(history) + 1
                        THEN [id |-> journal.id, index |-> i] ELSE history[p]
    BY <1>2 DEF AppendEvent, TypeOK
  <2>4. DOMAIN history' = 1..(Len(history) + 1)
    BY <1>2 DEF AppendEvent, TypeOK
  <2> QED
    BY <1>0, <2>2, <2>3, <2>4 DEF ExactlyOnce
<1>3. CASE history' = Append(history, [id |-> NoId, index |-> 0])
  <2>1. \A p \in DOMAIN history' :
          history'[p] = IF p = Len(history) + 1
                        THEN [id |-> NoId, index |-> 0] ELSE history[p]
    BY <1>3 DEF TypeOK
  <2>2. DOMAIN history' = 1..(Len(history) + 1)
    BY <1>3 DEF TypeOK
  <2> QED
    BY <1>0, <2>1, <2>2 DEF ExactlyOnce
<1> QED
  BY <1>1, <1>2, <1>3, HistoryStep

LEMMA GapStep ==
    TypeOK /\ ProcessInv /\ PrefixInv /\ NoGap /\ [Next]_vars => NoGap'
<1> SUFFICES ASSUME TypeOK, ProcessInv, PrefixInv, NoGap, [Next]_vars
             PROVE  NoGap'
  OBVIOUS
<1>0. Len(history) \in Nat /\ DOMAIN history = 1..Len(history)
  BY DEF TypeOK
<1>1. CASE UNCHANGED history
  BY <1>1 DEF NoGap
<1>2. ASSUME NEW i \in 1..MaxEvents, AppendEvent(i) PROVE NoGap'
  <2>1. Progressed(i - 1) /\ journal \in Transition
    BY <1>2, AppendExtends
  <2>2. i > 1 => /\ Len(history) >= 1
                 /\ history[Len(history)] = [id |-> journal.id, index |-> i - 1]
    BY <2>1 DEF Progressed
  <2>3. \A p \in DOMAIN history' :
          history'[p] = IF p = Len(history) + 1
                        THEN [id |-> journal.id, index |-> i] ELSE history[p]
    BY <1>2 DEF AppendEvent, TypeOK
  <2>4. DOMAIN history' = 1..(Len(history) + 1)
    BY <1>2 DEF AppendEvent, TypeOK
  <2>5. ASSUME NEW p \in DOMAIN history', history'[p].index > 1
        PROVE  /\ p > 1
               /\ history'[p - 1]
                    = [id |-> history'[p].id, index |-> history'[p].index - 1]
    <3>1. CASE p = Len(history) + 1
      BY <1>0, <2>2, <2>3, <2>4, <2>5, <3>1
    <3>2. CASE p # Len(history) + 1
      BY <1>0, <2>3, <2>4, <2>5, <3>2 DEF NoGap
    <3> QED
      BY <3>1, <3>2
  <2> QED
    BY <2>5 DEF NoGap
<1>3. CASE history' = Append(history, [id |-> NoId, index |-> 0])
  <2>1. \A p \in DOMAIN history' :
          history'[p] = IF p = Len(history) + 1
                        THEN [id |-> NoId, index |-> 0] ELSE history[p]
    BY <1>3 DEF TypeOK
  <2>2. DOMAIN history' = 1..(Len(history) + 1)
    BY <1>3 DEF TypeOK
  <2> QED
    BY <1>0, <2>1, <2>2 DEF NoGap
<1> QED
  BY <1>1, <1>2, <1>3, HistoryStep

LEMMA InductiveStep == IInv /\ [Next]_vars => IInv'
  BY TypeStep, ProcessStep, WrittenStep, MintedStep, PrefixStep, OnceStep, GapStep
  DEF IInv

(* The inductive invariant holds throughout every behaviour. *)
LEMMA Inductive == Spec => []IInv
<1>1. Init => IInv
  BY InitialState
<1>2. IInv /\ [Next]_vars => IInv'
  BY InductiveStep
<1> QED
  BY <1>1, <1>2, PTL DEF Spec

(* The files, the journal and the history stay well formed. *)
THEOREM TypeCorrect == Spec => []TypeOK
<1>1. IInv => TypeOK
  BY DEF IInv
<1> QED
  BY <1>1, Inductive, PTL

(* However often replayTransition runs after crashes, no event of a        *)
(* transition is recorded twice.                                           *)
THEOREM RecordedOnce == Spec => []ExactlyOnce
<1>1. IInv => ExactlyOnce
  BY DEF IInv
<1> QED
  BY <1>1, Inductive, PTL

(* And none is recorded before its predecessor, so that what the history     *)
(* holds of a transition is always a prefix of it.                           *)
THEOREM RecordedInOrder == Spec => []NoGap
<1>1. IInv => NoGap
  BY DEF IInv
<1> QED
  BY <1>1, Inductive, PTL

-----------------------------------------------------------------------------
(* Refinement. *)

(* Landed finds the length of the recorded prefix. *)
LEMMA LandedIs ==
    ASSUME NEW n \in Nat, journal.events = n, NEW k \in 0..n,
           Recorded(journal) = 1..k
    PROVE  Landed(journal) = k
<1>1. \A m \in 0..n : 1..m = 1..k => m = k
  OBVIOUS
<1>2. \E m \in 0..journal.events : Recorded(journal) = 1..m
  OBVIOUS
<1>3. Landed(journal) \in 0..n /\ Recorded(journal) = 1..Landed(journal)
  BY <1>2 DEF Landed
<1> QED
  BY <1>1, <1>3

LEMMA JournalAbsent ==
    ASSUME TypeOK, journal = NoJournal
    PROVE  CommittedFiles = files /\ CommittedHistory = history
  BY DEF TypeOK, CommittedFiles, CommittedHistory, PendingEvents

LEMMA JournalPresent ==
    ASSUME TypeOK, journal # NoJournal, NEW k \in 0..journal.events, Progressed(k)
    PROVE  /\ CommittedFiles = Overlay(files, journal.writes)
           /\ CommittedHistory =
                history \o [m \in 1..(journal.events - k) |->
                              [id |-> journal.id, index |-> k + m]]
<1>1. journal.events \in Nat
  BY TransitionFields DEF TypeOK
<1>2. Landed(journal) = k
  BY <1>1, LandedIs DEF Progressed
<1> QED
  BY <1>2 DEF CommittedFiles, CommittedHistory, PendingEvents

(* Begin is the commit of the whole transition. *)
LEMMA BeginCommits ==
    ASSUME IInv, IInv',
           NEW id \in Id, NEW w \in WriteSet, NEW n \in 1..MaxEvents, Begin(id, w, n)
    PROVE  Log!AbsCommit(id, w, n)
<1>1. journal = NoJournal /\ journal' \in Transition /\ journal' # NoJournal
      /\ journal'.id = id /\ journal'.writes = w /\ journal'.events = n
      /\ UNCHANGED <<files, history>>
  BY NoJournalAssumption DEF Begin, Transition
<1>2. \A p \in DOMAIN history : history[p].id # id
  BY NoIdAssumption DEF Begin, IInv, MintedInv
<1>3. Recorded(journal)' = {}
  BY <1>1, <1>2 DEF Recorded
<1>4. Progressed(0)' /\ 0 \in 0..journal'.events
  BY <1>1, <1>3 DEF Progressed, Begin
<1>5. CommittedFiles = files /\ CommittedHistory = history
  BY <1>1, JournalAbsent DEF IInv
<1>6. Landed(journal)' = 0
  <2>1. \A m \in 0..n : 1..m = {} => m = 0
    OBVIOUS
  <2>2. 0 \in 0..n /\ 1..0 = {}
    BY BoundsAssumption
  <2> QED
    BY <1>1, <1>3, <2>1, <2>2 DEF Landed
<1>7. CommittedFiles' = Overlay(files, w)
  BY <1>1 DEF CommittedFiles, Overlay
<1>8. CommittedHistory' =
        history \o [m \in 1..n |-> [id |-> id, index |-> m]]
  <2>1. PendingEvents' = [m \in 1..n |-> [id |-> id, index |-> m]]
    BY <1>1, <1>6, BoundsAssumption DEF PendingEvents
  <2> QED
    BY <1>1, <2>1 DEF CommittedHistory
<1>9. Log!Stamped(id, 1, n) = [m \in 1..n |-> [id |-> id, index |-> m]]
  BY BoundsAssumption DEF Log!Stamped
<1>10. Log!Overlay(files, w) = Overlay(files, w)
  BY DEF Log!Overlay, Overlay
<1> QED
  BY <1>2, <1>5, <1>7, <1>8, <1>9, <1>10 DEF Log!AbsCommit

(* Writing a journalled file again changes nothing a later command sees. *)
LEMMA WriteStutters ==
    ASSUME IInv, NEW t \in Target, Write(t)
    PROVE  UNCHANGED Log!absVars
<1>1. journal \in Transition /\ journal # NoJournal
      /\ UNCHANGED <<journal, history>>
  BY NoJournalAssumption DEF Write, IInv, TypeOK, ProcessInv
<1>2. t \in DOMAIN journal.writes
  BY DEF Write, IInv, ProcessInv
<1>3. Overlay(files', journal.writes) = Overlay(files, journal.writes)
  BY <1>2 DEF Write, Overlay, IInv, TypeOK
<1>4. CommittedFiles' = CommittedFiles
  BY <1>1, <1>3 DEF CommittedFiles
<1>5. CommittedHistory' = CommittedHistory
  BY <1>1 DEF CommittedHistory, PendingEvents, Landed, Recorded
<1> QED
  BY <1>4, <1>5 DEF Log!absVars

(* The first element of a tail may as well end the sequence before it. *)
LEMMA ShiftOne ==
    ASSUME NEW S, NEW s \in Seq(S), NEW x \in S, NEW t \in Seq(S), NEW u \in Seq(S),
           Len(u) = Len(t) + 1,
           u[1] = x,
           \A m \in 1..Len(t) : u[m + 1] = t[m]
    PROVE  Append(s, x) \o t = s \o u
<1>1. <<x>> \in Seq(S) /\ Len(<<x>>) = 1 /\ <<x>>[1] = x
  OBVIOUS
<1>2. Len(t) \in Nat
  OBVIOUS
<1>3. <<x>> \o t \in Seq(S) /\ Len(<<x>> \o t) = Len(t) + 1
  BY <1>1, <1>2, ConcatProperties
<1>4. ASSUME NEW p \in 1..(Len(t) + 1) PROVE (<<x>> \o t)[p] = u[p]
  <2>1. (<<x>> \o t)[p] = IF p <= 1 THEN <<x>>[p] ELSE t[p - 1]
    BY <1>1, <1>2, ConcatProperties
  <2>2. CASE p = 1
    BY <1>1, <2>1, <2>2
  <2>3. CASE p # 1
    <3>1. p - 1 \in 1..Len(t) /\ (p - 1) + 1 = p
      BY <1>2, <2>3
    <3> QED
      BY <1>2, <2>1, <2>3, <3>1, SMTT(60)
  <2> QED
    BY <2>2, <2>3
<1>5. u = <<x>> \o t
  BY <1>3, <1>4, SeqEqual
<1>6. Append(s, x) = s \o <<x>>
  BY AppendIsConcat
<1> QED
  BY <1>1, <1>5, <1>6, ConcatAssociative

(* Appending a journalled event moves it from pending to recorded. *)
LEMMA AppendStutters ==
    ASSUME IInv, IInv', NEW i \in 1..MaxEvents, AppendEvent(i)
    PROVE  UNCHANGED Log!absVars
<1> DEFINE n == journal.events
           e(m) == [id |-> journal.id, index |-> m]
<1>1. /\ Progressed(i - 1) /\ Progressed(i)'
      /\ journal' = journal /\ journal \in Transition /\ i \in 1..n
  BY AppendExtends DEF IInv
<1>2. journal # NoJournal /\ n \in Nat
  BY <1>1, TransitionFields
<1>3. CommittedHistory = history \o [m \in 1..(n - (i - 1)) |-> e(i - 1 + m)]
  <2>1. i - 1 \in 0..journal.events
    BY <1>1, <1>2
  <2> QED
    BY <1>1, <1>2, <2>1, JournalPresent DEF IInv
<1>4. Landed(journal)' = i
  <2>1. \A m \in 0..n : 1..m = 1..i => m = i
    BY <1>1
  <2>2. Recorded(journal)' = 1..i
    BY <1>1 DEF Progressed
  <2> QED
    BY <1>1, <2>1, <2>2 DEF Landed
<1>5. CommittedHistory' =
        Append(history, e(i)) \o [m \in 1..(n - i) |-> e(i + m)]
  BY <1>1, <1>2, <1>4 DEF CommittedHistory, PendingEvents, AppendEvent
<1>6. Append(history, e(i)) \o [m \in 1..(n - i) |-> e(i + m)]
        = history \o [m \in 1..(n - (i - 1)) |-> e(i - 1 + m)]
  <2> DEFINE t == [m \in 1..(n - i) |-> e(i + m)]
             u == [m \in 1..(n - (i - 1)) |-> e(i - 1 + m)]
  <2>1. history \in Seq(Entry)
    BY DEF IInv, TypeOK
  <2>2. ASSUME NEW m \in 1..n PROVE e(m) \in Entry
    <3>1. journal.id \in Id /\ n \in 1..MaxEvents
      BY <1>1, TransitionFields
    <3>2. m \in 0..MaxEvents
      BY <3>1, BoundsAssumption
    <3> QED
      BY <3>1, <3>2 DEF Entry
  <2>3. i \in 1..n /\ n \in Nat
    BY <1>1, <1>2
  <2> HIDE DEF n, e
  <2>4. t \in Seq(Entry) /\ Len(t) = n - i
    BY <2>2, <2>3, IsASeq
  <2>5. u \in Seq(Entry) /\ Len(u) = n - i + 1
    BY <2>2, <2>3, IsASeq
  <2>6. u[1] = e(i) /\ \A m \in 1..(n - i) : u[m + 1] = t[m]
    BY <2>3
  <2> HIDE DEF t, u
  <2>7. Append(history, e(i)) \o t = history \o u
    <3> DEFINE x == e(i)
    <3>1. x \in Entry
      BY <2>2, <2>3
    <3>2. Len(u) = Len(t) + 1 /\ u[1] = x /\ \A m \in 1..Len(t) : u[m + 1] = t[m]
      BY <2>3, <2>4, <2>5, <2>6
    <3>3. t \in Seq(Entry) /\ u \in Seq(Entry)
      BY <2>4, <2>5
    <3> HIDE DEF x
    <3>4. Append(history, x) \o t = history \o u
      BY <2>1, <3>1, <3>2, <3>3, ShiftOne
    <3> QED
      BY <3>4 DEF x
  <2> QED
    BY <2>7 DEF t, u
<1>7. CommittedFiles' = CommittedFiles
  BY <1>1 DEF CommittedFiles, AppendEvent
<1> QED
  BY <1>3, <1>5, <1>6, <1>7 DEF Log!absVars

(* Removing a journal none of whose events is missing changes nothing. *)
LEMMA RemoveStutters ==
    ASSUME IInv, RemoveJournal
    PROVE  UNCHANGED Log!absVars
<1>1. /\ journal \in Transition /\ journal # NoJournal /\ journal' = NoJournal
      /\ UNCHANGED <<files, history>>
  BY NoJournalAssumption DEF RemoveJournal, IInv, TypeOK, ProcessInv
<1>2. PICK k \in 0..journal.events : Progressed(k)
  BY <1>1 DEF IInv, PrefixInv
<1>3. journal.events \in Nat
  BY <1>1, TransitionFields
<1>4. k = journal.events
  <2>1. (k + 1)..journal.events = {}
    BY <1>2 DEF RemoveJournal, Progressed
  <2> QED
    BY <1>2, <1>3, <2>1
<1>5. CommittedHistory = history \o << >>
  <2>1. Landed(journal) = k
    BY <1>2, <1>3, LandedIs DEF Progressed
  <2>2. PendingEvents = << >>
    BY <1>1, <1>3, <1>4, <2>1 DEF PendingEvents
  <2> QED
    BY <2>2 DEF CommittedHistory
<1>6. CommittedHistory = history
  BY <1>5, ConcatEmptySeq DEF IInv, TypeOK
<1>7. CommittedHistory' = history
  <2>1. CommittedHistory' = history \o << >>
    BY <1>1 DEF CommittedHistory, PendingEvents
  <2> QED
    BY <2>1, ConcatEmptySeq DEF IInv, TypeOK
<1>8. CommittedFiles = files
  <2>1. \A t \in DOMAIN journal.writes : files[t] = journal.writes[t]
    BY DEF RemoveJournal, IInv, WrittenInv, ProcessInv
  <2> QED
    BY <1>1, <2>1 DEF CommittedFiles, Overlay, IInv, TypeOK
<1>9. CommittedFiles' = files
  BY <1>1 DEF CommittedFiles
<1> QED
  BY <1>6, <1>7, <1>8, <1>9 DEF Log!absVars

(* Steps that leave the files, the journal and the history alone. *)
LEMMA SameDisk ==
    ASSUME UNCHANGED disk
    PROVE  UNCHANGED Log!absVars
  BY DEF disk, Log!absVars, CommittedFiles, CommittedHistory, PendingEvents,
         Landed, Recorded

LEMMA NoteNotes ==
    ASSUME IInv, IInv', Note
    PROVE  Log!AbsNote
<1>1. /\ journal = NoJournal /\ journal' = NoJournal /\ UNCHANGED files
      /\ history' = Append(history, [id |-> NoId, index |-> 0])
  BY DEF Note
<1>2. CommittedFiles = files /\ CommittedHistory = history
  BY <1>1, JournalAbsent DEF IInv
<1>3. CommittedFiles' = files
  BY <1>1 DEF CommittedFiles
<1>4. CommittedHistory' = history'
  <2>1. history' \in Seq(Entry)
    BY DEF IInv, TypeOK
  <2>2. CommittedHistory' = history' \o << >>
    BY <1>1 DEF CommittedHistory, PendingEvents
  <2> QED
    BY <2>1, <2>2, ConcatEmptySeq
<1> QED
  BY <1>1, <1>2, <1>3, <1>4 DEF Log!AbsNote

LEMMA Simulation ==
    ASSUME IInv, IInv', [Next]_vars
    PROVE  [Log!AbsNext]_(Log!absVars)
<1>1. ASSUME NEW id \in Id, NEW w \in WriteSet, NEW n \in 1..MaxEvents, Begin(id, w, n)
      PROVE  Log!AbsNext
  <2>1. w \in Log!WriteSet
    BY DEF WriteSet, Log!WriteSet
  <2> QED
    BY <1>1, <2>1, BeginCommits DEF Log!AbsNext
<1>2. CASE Restart
  BY <1>2, SameDisk DEF Restart, disk
<1>3. ASSUME NEW t \in Target, Write(t) PROVE UNCHANGED Log!absVars
  BY <1>3, WriteStutters
<1>4. CASE CallReplay
  BY <1>4, SameDisk DEF CallReplay, disk
<1>5. CASE ReadHistory
  BY <1>5, SameDisk DEF ReadHistory, disk
<1>6. ASSUME NEW i \in 1..MaxEvents, AppendEvent(i) PROVE UNCHANGED Log!absVars
  BY <1>6, AppendStutters
<1>7. CASE RemoveJournal
  BY <1>7, RemoveStutters
<1>8. CASE Note
  BY <1>8, NoteNotes DEF Log!AbsNext
<1>9. CASE Crash
  BY <1>9, SameDisk DEF Crash, disk
<1>10. CASE UNCHANGED vars
  BY <1>10, SameDisk DEF vars, disk
<1> QED
  BY <1>1, <1>2, <1>3, <1>4, <1>5, <1>6, <1>7, <1>8, <1>9, <1>10 DEF Next, Recover

LEMMA InitialSimulation == Init => Log!AbsInit
<1> SUFFICES ASSUME Init PROVE Log!AbsInit
  OBVIOUS
<1>1. TypeOK
  BY InitialState DEF IInv
<1> QED
  BY <1>1, JournalAbsent DEF Init, Log!AbsInit

(* commitTransition and replayTransition, with a crash possible between    *)
(* any two file operations, implement the indivisible transitions of       *)
(* TransitionLog.                                                          *)
THEOREM JournalImplementsLog == Spec => ImplementsTransitionLog
<1>1. Init => Log!AbsInit
  BY InitialSimulation
<1>2. IInv /\ IInv' /\ [Next]_vars => [Log!AbsNext]_(Log!absVars)
  BY Simulation
<1>3. Spec => []IInv
  BY Inductive
<1> QED
  BY <1>1, <1>2, <1>3, PTL DEF Spec, ImplementsTransitionLog, Log!AbsSpec

=============================================================================
