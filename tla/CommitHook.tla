----------------------------- MODULE CommitHook -----------------------------
(***************************************************************************)
(* The controller next to .codex/hooks/pre_tool_policy.py, which decides   *)
(* whether a commit of an agent goes through.  The hook takes no lock and  *)
(* replays no journal: it reads active.json, then owner.json, then         *)
(* renewal.json and git, between any two steps of the controller.          *)
(*                                                                         *)
(* goal and lease stay what every command of the controller sees, which    *)
(* replays an unfinished transition first.  On disk a renewal lags behind: *)
(* commitTransition renames .transaction.json into place, from where on    *)
(* the renewal counts, and replaces renewal.json later; when it crashes in *)
(* between, the next command does.  active.json lags in the same way.  A   *)
(* hook that reads it then knows no more than one that read it before the  *)
(* transition, so the model has the early read alone.  owner.json is no    *)
(* part of a transition.                                                   *)
(***************************************************************************)
EXTENDS GoalController

VARIABLES
    hook,       \* what the hook has read: of active.json whether the goal is complete and
                \* the run of a running goal, and owner.json
    onDisk      \* renewal.json
hookVars == <<vars, hook, onDisk>>

RenewalIn(l) == IF l = None THEN None ELSE l.renewal
Replayed == onDisk = RenewalIn(lease)

ActiveJson == [complete |-> goal.state = "complete", owner |-> None,
               run |-> IF goal.state = "running" /\ goal.run # None
                       THEN [epoch |-> goal.epoch, token |-> goal.run.token]
                       ELSE None]

HookInit == Init /\ hook = ActiveJson /\ onDisk = None

(* What the hook reads, one file after the other. *)
ReadActive == hook' = ActiveJson /\ UNCHANGED <<vars, onDisk>>
ReadOwner ==
    /\ hook.owner = None
    /\ lease # None /\ lease.owner # None
    /\ hook' = [hook EXCEPT !.owner = lease.owner]
    /\ UNCHANGED <<vars, onDisk>>

(* The rest of the transition of a renew, or its replay by the next command. *)
ReplaceRenewal ==
    /\ ~Replayed
    /\ onDisk' = RenewalIn(lease)
    /\ UNCHANGED <<vars, hook>>

JournalRenewal == Replayed /\ Renewing /\ UNCHANGED <<hook, onDisk>>
Command == Replayed /\ Controller /\ onDisk' = RenewalIn(lease') /\ UNCHANGED hook
RepositoryMoves == MoveRepository /\ UNCHANGED <<hook, onDisk>>
ClockMoves == Tick /\ onDisk' = Ran(onDisk) /\ hook' = [hook EXCEPT !.owner = Ran(@)]

HookNext ==
    \/ ReadActive \/ ReadOwner
    \/ ReplaceRenewal \/ JournalRenewal \/ Command
    \/ RepositoryMoves \/ ClockMoves
HookSpec == HookInit /\ [][HookNext]_hookVars

-----------------------------------------------------------------------------
(* The run and the lease that were read belong together, here and now. *)
Granted ==
    /\ hook.owner # None /\ hook.run # None
    /\ hook.run.epoch = hook.owner.epoch /\ hook.run.token = hook.owner.token
    /\ hook.owner.rev.branch = repo.branch /\ hook.owner.head = Head

(* Faulty variant: the renewal is not read. *)
CommitAdmittedUnrenewed ==
    \/ hook.complete
    \/ Granted /\ hook.owner.left > 0

(* active_goal_commit_denial: the hook lets an agent commit source.  A      *)
(* renewal that is not the owner's own makes it refuse.                    *)
CommitAdmitted ==
    \/ hook.complete
    \/ /\ Granted
       /\ IF onDisk = None
          THEN hook.owner.left > 0
          ELSE /\ onDisk.token = hook.owner.token /\ onDisk.epoch = hook.owner.epoch
               /\ onDisk.left > 0

(* assertLease and the commit hook judge by rules of their own: one        *)
(* compares the lease with the revision and the deadline, after a replay,  *)
(* the other with the run that active.json recorded when it was read.  A   *)
(* hook that has read the run and the lease of an agent the controller     *)
(* admits lets it commit, unless its renewal has not yet reached           *)
(* renewal.json.  And as long as the lease that the hook has read is       *)
(* there, whatever else has happened since it read the run, it lets        *)
(* nobody commit whom the controller would turn away, but for a run that   *)
(* is just being checkpointed and what it does not look at: the deadline   *)
(* and the revision.                                                       *)
OneAuthority ==
    /\ \A token \in 1..minted : AssertLease(token) =>
        /\ token = minted
        /\ hook.run # None /\ hook.run.token = token /\ hook.owner = lease.owner /\ Replayed
            => CommitAdmitted
    /\ CommitAdmitted /\ ~hook.complete /\ lease # None /\ hook.owner = lease.owner =>
        \/ AssertLease(minted)
        \/ goal.checkpoint = minted
        \/ goal.run.left = 0
        \/ lease.owner.rev # Current
=============================================================================
