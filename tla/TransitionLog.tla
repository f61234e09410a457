--------------------------- MODULE TransitionLog ---------------------------
(***************************************************************************)
(* What commitTransition of scripts/symphony-controller.mjs promises to    *)
(* the rest of the goal controller: a transition replaces the files it     *)
(* names and adds all its events to the history, in order, in one          *)
(* indivisible step.  GoalJournal shows how the code gets there with a     *)
(* journal file, several separate file operations and crashes in between.  *)
(***************************************************************************)
EXTENDS Integers, Sequences

CONSTANTS Target,       \* the files a transition may replace
          Value,        \* what such a file may hold
          Id,           \* transaction identifiers (random UUIDs)
          NoId,         \* the identifier of an event no transition carries
          MaxEvents,    \* most events one transition carries
          InitialFiles

VARIABLES state,        \* the files, as every later command sees them
          log           \* the history, as every later command sees it

absVars == <<state, log>>

(* The writes of a transition: a nonempty set of files with new contents. *)
WriteSet == UNION {[S -> Value] : S \in SUBSET Target \ {{}}}

Overlay(files, writes) ==
    [t \in Target |-> IF t \in DOMAIN writes THEN writes[t] ELSE files[t]]

(* Events first..last of a transition, stamped the way the history keeps them. *)
Stamped(id, first, last) ==
    [i \in 1..(last - first + 1) |-> [id |-> id, index |-> first + i - 1]]

AbsInit ==
    /\ state = InitialFiles
    /\ log = << >>

AbsCommit(id, writes, events) ==
    /\ \A p \in DOMAIN log : log[p].id # id
    /\ state' = Overlay(state, writes)
    /\ log' = log \o Stamped(id, 1, events)

AbsNote ==
    /\ log' = Append(log, [id |-> NoId, index |-> 0])
    /\ UNCHANGED state

AbsNext ==
    \/ \E id \in Id, writes \in WriteSet, events \in 1..MaxEvents :
            AbsCommit(id, writes, events)
    \/ AbsNote

AbsSpec == AbsInit /\ [][AbsNext]_absVars
=============================================================================
