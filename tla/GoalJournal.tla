---------------------------- MODULE GoalJournal ----------------------------
(***************************************************************************)
(* The durability protocol of scripts/symphony-controller.mjs:             *)
(* commitTransition and replayTransition over .transaction.json, the files *)
(* a transition replaces (active.json, .lease/renewal.json) and            *)
(* history.jsonl.                                                          *)
(*                                                                         *)
(* Every controller process holds one OS-wide flock from its first         *)
(* instruction to its exit (scripts/mutation-lock.py), so one process runs *)
(* at a time and the only interference is a crash: a crash releases the    *)
(* lock, loses the process's memory and keeps the files.  An atomicJson    *)
(* call (temporary file, fsync, rename) is one step; so is the append and  *)
(* fsync of one line of history.                                           *)
(***************************************************************************)
EXTENDS Integers, Sequences

CONSTANTS Target,       \* the files a transition may replace
          Value,        \* what such a file may hold
          Id,           \* transaction identifiers (random UUIDs)
          NoId,         \* the identifier of an event no transition carries
          NoJournal,    \* .transaction.json does not exist
          MaxEvents,    \* most events one transition carries
          MaxNotes,     \* bound: events appended outside any transition
          MaxCrashes,   \* bound: crashes
          InitialFiles

ASSUME NoIdAssumption == NoId \notin Id
ASSUME BoundsAssumption == /\ MaxEvents \in Nat
                           /\ MaxNotes \in Nat
                           /\ MaxCrashes \in Nat
ASSUME InitialFilesAssumption == InitialFiles \in [Target -> Value]

VARIABLES
    files,      \* contents of the files transitions replace
    journal,    \* .transaction.json, or NoJournal
    history,    \* history.jsonl: stamped events in file order
    minted,     \* identifiers handed out by randomUUID so far
    at,         \* where the running process is; "idle" when there is none
    left,       \* files the running loop over transaction.writes has still to write
    todo,       \* indices the running loop over transaction.events has still to append
    notes,      \* events appended outside any transition so far
    crashes     \* crashes so far

disk == <<files, journal, history>>
vars == <<files, journal, history, minted, at, left, todo, notes, crashes>>

WriteSet == UNION {[S -> Value] : S \in SUBSET Target \ {{}}}
Transition == [id : Id, writes : WriteSet, events : 1..MaxEvents]
Entry == [id : Id \cup {NoId}, index : 0..MaxEvents]

ASSUME NoJournalAssumption == NoJournal \notin Transition

(* Indices of the journalled events the history already holds: the set     *)
(* replayTransition calls existing.                                        *)
Recorded(transition) ==
    {i \in 1..transition.events :
        \E p \in DOMAIN history :
            history[p] = [id |-> transition.id, index |-> i]}

Init ==
    /\ files = InitialFiles
    /\ journal = NoJournal
    /\ history = << >>
    /\ minted = {}
    /\ at = "idle"
    /\ left = {}
    /\ todo = {}
    /\ notes = 0
    /\ crashes = 0

(* commitTransition begins: the journal reaches the disk under a fresh     *)
(* identifier.  withMutationLock has replayed any earlier journal first.   *)
Begin(id, writes, events) ==
    /\ at = "idle"
    /\ journal = NoJournal
    /\ id \notin minted
    /\ journal' = [id |-> id, writes |-> writes, events |-> events]
    /\ minted' = minted \cup {id}
    /\ at' = "commit"
    /\ left' = DOMAIN writes
    /\ UNCHANGED <<files, history, todo, notes, crashes>>

(* Faulty variant: a journal whose files are all in place is not replayed. *)
RestartForFiles ==
    /\ at = "idle"
    /\ journal # NoJournal
    /\ \E t \in DOMAIN journal.writes : files[t] # journal.writes[t]
    /\ at' = "replay"
    /\ left' = DOMAIN journal.writes
    /\ UNCHANGED <<files, journal, history, minted, todo, notes, crashes>>

(* A new process runs withMutationLock and finds a journal left behind. *)
Restart ==
    /\ at = "idle"
    /\ journal # NoJournal
    /\ at' = "replay"
    /\ left' = DOMAIN journal.writes
    /\ UNCHANGED <<files, journal, history, minted, todo, notes, crashes>>

(* One iteration of the loop over transaction.writes, in commitTransition  *)
(* or in replayTransition.  Any order: no two writes name the same file.   *)
Write(t) ==
    /\ at \in {"commit", "replay"}
    /\ t \in left
    /\ files' = [files EXCEPT ![t] = journal.writes[t]]
    /\ left' = left \ {t}
    /\ UNCHANGED <<journal, history, minted, at, todo, notes, crashes>>

(* commitTransition has written every file and calls replayTransition,     *)
(* which writes them all again.                                            *)
CallReplay ==
    /\ at = "commit"
    /\ left = {}
    /\ at' = "replay"
    /\ left' = DOMAIN journal.writes
    /\ UNCHANGED <<files, journal, history, minted, todo, notes, crashes>>

(* Faulty variant: the history is not read. *)
ReadNothing ==
    /\ at = "replay"
    /\ left = {}
    /\ at' = "append"
    /\ todo' = 1..journal.events
    /\ UNCHANGED <<files, journal, history, minted, left, notes, crashes>>

(* replayTransition reads the history to learn which events are there. *)
ReadHistory ==
    /\ at = "replay"
    /\ left = {}
    /\ at' = "append"
    /\ todo' = (1..journal.events) \ Recorded(journal)
    /\ UNCHANGED <<files, journal, history, minted, left, notes, crashes>>

(* Faulty variants: the missing events are appended in any order; they are *)
(* numbered one too high.                                                  *)
AppendAnyEvent(i) ==
    /\ at = "append"
    /\ i \in todo
    /\ history' = Append(history, [id |-> journal.id, index |-> i])
    /\ todo' = todo \ {i}
    /\ UNCHANGED <<files, journal, minted, at, left, notes, crashes>>

AppendNextIndex(i) ==
    /\ at = "append"
    /\ i \in todo
    /\ \A j \in todo : i <= j
    /\ history' = Append(history, [id |-> journal.id, index |-> i + 1])
    /\ todo' = todo \ {i}
    /\ UNCHANGED <<files, journal, minted, at, left, notes, crashes>>

(* The loop over transaction.events appends the next missing one. *)
AppendEvent(i) ==
    /\ at = "append"
    /\ i \in todo
    /\ \A j \in todo : i <= j
    /\ history' = Append(history, [id |-> journal.id, index |-> i])
    /\ todo' = todo \ {i}
    /\ UNCHANGED <<files, journal, minted, at, left, notes, crashes>>

(* Faulty variant: the journal is removed before the events are appended.  *)
RemoveJournalEarly ==
    /\ at = "append"
    /\ todo' = {}
    /\ journal' = NoJournal
    /\ at' = "idle"
    /\ UNCHANGED <<files, history, minted, left, notes, crashes>>

(* Nothing is missing: the journal is removed and the command is over. *)
RemoveJournal ==
    /\ at = "append"
    /\ todo = {}
    /\ journal' = NoJournal
    /\ at' = "idle"
    /\ UNCHANGED <<files, history, minted, left, todo, notes, crashes>>

(* An event no transition carries: reconcileLocked's lease-residue event   *)
(* and the events of a checkpoint, which its own journal protects.         *)
Note ==
    /\ at = "idle"
    /\ journal = NoJournal
    /\ notes < MaxNotes
    /\ notes' = notes + 1
    /\ history' = Append(history, [id |-> NoId, index |-> 0])
    /\ UNCHANGED <<files, journal, minted, at, left, todo, crashes>>

Crash ==
    /\ at # "idle"
    /\ crashes < MaxCrashes
    /\ crashes' = crashes + 1
    /\ at' = "idle"
    /\ left' = {}
    /\ todo' = {}
    /\ UNCHANGED <<files, journal, history, minted, notes>>

Recover ==
    \/ Restart
    \/ \E t \in Target : Write(t)
    \/ CallReplay
    \/ ReadHistory
    \/ \E i \in 1..MaxEvents : AppendEvent(i)
    \/ RemoveJournal

Next ==
    \/ \E id \in Id, writes \in WriteSet, events \in 1..MaxEvents :
            Begin(id, writes, events)
    \/ Recover
    \/ Note
    \/ Crash

Spec == Init /\ [][Next]_vars

(* A process that runs keeps running, and some command is eventually       *)
(* started after a crash (the ten-minute heartbeat of CONTINUATION.md).    *)
FairSpec == Spec /\ WF_vars(Recover)

-----------------------------------------------------------------------------
(* Refinement: the commit point is the rename that creates the journal.    *)

(* How many of the journalled events are in the history.  They arrive in   *)
(* order, so they are 1..Landed.                                           *)
Landed(transition) ==
    CHOOSE k \in 0..transition.events : Recorded(transition) = 1..k

Overlay(base, writes) ==
    [t \in Target |-> IF t \in DOMAIN writes THEN writes[t] ELSE base[t]]

PendingEvents ==
    IF journal = NoJournal
    THEN << >>
    ELSE [i \in 1..(journal.events - Landed(journal)) |->
            [id |-> journal.id, index |-> Landed(journal) + i]]

CommittedFiles ==
    IF journal = NoJournal THEN files ELSE Overlay(files, journal.writes)

CommittedHistory == history \o PendingEvents

Log == INSTANCE TransitionLog WITH state <- CommittedFiles, log <- CommittedHistory

-----------------------------------------------------------------------------
TypeOK ==
    /\ files \in [Target -> Value]
    /\ journal \in Transition \cup {NoJournal}
    /\ history \in Seq(Entry)
    /\ minted \subseteq Id
    /\ at \in {"idle", "commit", "replay", "append"}
    /\ left \subseteq Target
    /\ todo \subseteq 1..MaxEvents
    /\ notes \in 0..MaxNotes
    /\ crashes \in 0..MaxCrashes

(* No event of a transition is ever recorded twice, however often the      *)
(* journal is replayed (tests: "replays a crashed ... transition once").   *)
ExactlyOnce ==
    \A p, q \in DOMAIN history :
        history[p].id # NoId /\ history[p] = history[q] => p = q

(* A transition's events are recorded without a gap: an event is never in  *)
(* the history before the event that precedes it in its transition.        *)
NoGap ==
    \A p \in DOMAIN history :
        history[p].index > 1 =>
            /\ p > 1
            /\ history[p - 1] = [id |-> history[p].id, index |-> history[p].index - 1]

(* The code's journal implements indivisible transitions: whatever crashes *)
(* happen, every later command sees all of a transition or none of it.     *)
ImplementsTransitionLog == Log!AbsSpec

(* A transition left half done by a crash is eventually completed. *)
EventuallyReplayed == []<>(journal = NoJournal)
=============================================================================
