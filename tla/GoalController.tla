--------------------------- MODULE GoalController ---------------------------
(***************************************************************************)
(* The goal controller, scripts/symphony-controller.mjs: who may work on   *)
(* the active goal, and how that authority is granted, kept, fenced and    *)
(* given up across crashes of the controller and changes of the            *)
(* repository.                                                             *)
(*                                                                         *)
(* One action is one durable step of one controller process.  Processes    *)
(* are serialized by an OS lock they hold from start to exit               *)
(* (scripts/mutation-lock.py), so proc is the one process that runs; a     *)
(* crash ends it between any two steps.  Agents call the commands in any   *)
(* order, with any owner token the controller ever printed.  The           *)
(* repository moves at any time, also while a process runs.                *)
(*                                                                         *)
(* commitTransition is one step here: GoalJournal shows that every later   *)
(* command sees all of a transition or none of it.  The commit hook reads  *)
(* the files without a replay; CommitHook adds what it sees.  A checkpoint *)
(* has its own journal inside the lease and is modelled step by step.      *)
(*                                                                         *)
(* Branches no process can take are left out: a lease found by the mkdir   *)
(* of acquire, a question without its text, an emission found already made.*)
(*                                                                         *)
(* A process reads the clock once, when it holds the lock, so the clock    *)
(* moves only between processes.  Instants are kept as the time left until *)
(* them, or elapsed since them, and stop counting once every comparison    *)
(* the code makes is decided.                                              *)
(***************************************************************************)
EXTENDS Integers, FiniteSets

CONSTANTS
    Commit,        \* material commits: what authorityHead may return
    Bump,          \* state-only commits on top of one: they move HEAD alone
    Content,       \* contents of the owned inputs: what manifest may return
    Branch,        \* branches
    TreeState,     \* whether other files may be modified: a subset of BOOLEAN
    Input,         \* files adopt-input may add
    Research,      \* research evidence bind-research may link
    WakeToken,     \* tokens the scheduler wakes the controller with
    Question,      \* fingerprints of operator questions
    Failure,       \* fingerprints of failures
    Task,          \* task references of child claims
    RoleOf,        \* the role a task is claimed for
    Ttl,           \* policy.ttlMs
    MaxRuntime,    \* policy.maxRuntimeMs
    MaxRetries,    \* policy.maxRetries
    MaxRepairs,    \* policy.maxRepairCycles
    MaxChildren,   \* policy.maxDirectChildren
    MaxBackoff,    \* the cap on the retry delay
    MaxWait,       \* bound: longest wait a checkpoint asks for
    MaxTokens,     \* bound: runs started
    MaxGoals,      \* bound: goals initialized
    MaxCrashes,    \* bound: crashes
    None,          \* a missing file or a null field
    Torn           \* an emission.json that exists but is still empty

ASSUME PolicyAssumption ==
    /\ Ttl \in Nat \ {0} /\ MaxRuntime \in Nat \ {0}
    /\ MaxRetries \in Nat /\ MaxRepairs \in Nat /\ MaxChildren \in Nat
    /\ MaxBackoff \in Nat \ {0} /\ MaxWait \in Nat \ {0}
ASSUME BoundAssumption ==
    MaxTokens \in Nat /\ MaxGoals \in Nat \ {0} /\ MaxCrashes \in Nat

ASSUME TreeAssumption == TreeState \subseteq BOOLEAN

VARIABLES
    goal,       \* active.json
    lease,      \* the .lease directory, or None
    residues,   \* how many .lease.stale-* and .lease.released-* directories exist
    claim,      \* per question, emission.json: None, Torn, or its age
    texts,      \* questions whose question.json exists
    history,    \* history.jsonl: revisions with a run-started event, checkpoints recorded
    repo,       \* what git reports: commit, bump, content, branch, dirty
    proc,       \* the running controller process
    minted,     \* owner tokens generated so far (token n is the n-th)
    owners,     \* owner tokens printed to an agent
    children,   \* child claims printed to an agent: <<owner token, task>>,
                \* those of the newest token
    heard,      \* per question, the time since it was last printed to the operator,
                \* or None: not since it was opened
    crashes     \* crashes so far

agents == <<owners, children, heard>>
vars == <<goal, lease, residues, claim, texts, history, repo, proc,
          minted, owners, children, heard, crashes>>

Roles == {"implementation", "research", "review",
          "standards-review", "validator", "verifier"}
ASSUME RoleAssumption == RoleOf \in [Task -> Roles]

FinalRoles == {"standards-review", "verifier", "validator"}
Endings == [state : {"waiting"}, wait : 1..MaxWait]
           \cup [state : {"failed"}, failure : Failure]
           \cup [state : {"blocked"}, question : Question]
           \cup [state : {"complete"}]

Least(m, n) == IF m <= n THEN m ELSE n
Countdown(n) == IF n = 0 THEN 0 ELSE n - 1
Age(n) == Least(n + 1, Ttl + 1)

(* The process that does nothing: no controller runs. *)
Idle == [at |-> "idle", for |-> None, wake |-> None, token |-> None,
         result |-> None, item |-> None, timedOut |-> FALSE, unlink |-> FALSE]

At(step) == proc.at = step /\ ~proc.unlink
Go(step) == proc' = [proc EXCEPT !.at = step]
Exit == proc' = Idle

-----------------------------------------------------------------------------
(* The repository as the code reads it. *)

Head == [commit |-> repo.commit, bump |-> repo.bump]

(* revision(): everything the fingerprint of a goal's revision depends on. *)
RevisionOf(inputs, research) ==
    [commit |-> repo.commit, content |-> repo.content, branch |-> repo.branch,
     inputs |-> inputs, research |-> research]

Current == RevisionOf(goal.rev.inputs, goal.rev.research)

(* initialize: a new goal on the branch that is checked out. *)
NewGoal(id) ==
    [id |-> id, authority |-> repo.branch, state |-> "ready", reason |-> None,
     rev |-> RevisionOf({}, None), epoch |-> 0, wake |-> None,
     question |-> None, run |-> None, evidence |-> FALSE, learned |-> {},
     retries |-> 0, repairs |-> 0, waitLeft |-> 0, retryLeft |-> 0,
     failure |-> None, checkpoint |-> None]

Init ==
    /\ repo \in [commit : Commit, bump : Bump, content : Content,
                 branch : Branch, dirty : {FALSE}]
    /\ goal = NewGoal(1)
    /\ lease = None
    /\ residues = 0
    /\ claim = [q \in Question |-> None]
    /\ texts = {}
    /\ history = [started |-> {}, recorded |-> {}]
    /\ proc = Idle
    /\ minted = 0
    /\ owners = {}
    /\ children = {}
    /\ heard = [q \in Question |-> None]
    /\ crashes = 0

-----------------------------------------------------------------------------
(* The lease. *)

(* leaseExpiry: a renewal counts when it is the owner's own. *)
LeaseLeft ==
    IF lease.renewal # None
        /\ lease.renewal.token = lease.owner.token
        /\ lease.renewal.epoch = lease.owner.epoch
    THEN lease.renewal.left
    ELSE lease.owner.left

(* Faulty variant: the deadline of the run is not checked. *)
AssertLeaseWithoutDeadline(token) ==
    /\ lease # None
    /\ lease.owner # None
    /\ lease.owner.token = token
    /\ lease.owner.epoch = goal.epoch
    /\ LeaseLeft > 0
    /\ lease.owner.head = Head
    /\ lease.owner.rev = Current

(* assertLease: the command of the agent that holds token is admitted. *)
AssertLease(token) ==
    /\ lease # None
    /\ lease.owner # None
    /\ lease.owner.token = token
    /\ lease.owner.epoch = goal.epoch
    /\ LeaseLeft > 0
    /\ lease.owner.head = Head
    /\ lease.owner.rev = Current
    /\ goal.run # None
    /\ goal.run.left > 0

(* The rename that takes the lease away, in fenceLease and in release. *)
RenameLease(next) ==
    /\ lease' = None
    /\ residues' = residues + 1
    /\ proc' = [next EXCEPT !.unlink = TRUE]
    /\ UNCHANGED <<goal, claim, texts, history, repo, minted, agents, crashes>>

(* The removal of the renamed directory, in fenceLease and in release. *)
Unlink ==
    /\ proc.unlink
    /\ residues' = residues - 1
    /\ proc' = [proc EXCEPT !.unlink = FALSE]
    /\ UNCHANGED <<goal, lease, claim, texts, history, repo, minted, agents, crashes>>

(* commitTransition replaces active.json; the process goes on at step. *)
CommitGoal(g, step) ==
    /\ goal' = g
    /\ Go(step)
    /\ UNCHANGED <<lease, residues, claim, texts, history, repo, minted, agents, crashes>>

Proceed(step) ==
    /\ Go(step)
    /\ UNCHANGED <<goal, lease, residues, claim, texts, history, repo, minted, agents, crashes>>

Stop ==
    /\ Exit
    /\ UNCHANGED <<goal, lease, residues, claim, texts, history, repo, minted, agents, crashes>>

-----------------------------------------------------------------------------
(* reconcileLocked.  It runs for reconcile and twice in wake: before the   *)
(* decision, and again before a question is marked as emitted.             *)

(* Where reconcileLocked returns to. *)
Return(result) ==
    CASE proc.for = "reconcile" -> Idle
      [] proc.for = "wake" -> [proc EXCEPT !.at = "decide", !.result = result]
      [] proc.for = "emit" -> [proc EXCEPT !.at = "deliver"]

ReturnWith(g, result) ==
    /\ goal' = g
    /\ proc' = Return(result)
    /\ UNCHANGED <<lease, residues, claim, texts, history, repo, minted, agents, crashes>>

StartReconcile ==
    /\ At("idle")
    /\ proc' = [Idle EXCEPT !.at = "sweep", !.for = "reconcile"]
    /\ UNCHANGED <<goal, lease, residues, claim, texts, history, repo, minted, agents, crashes>>

StartWake(w) ==
    /\ At("idle")
    /\ proc' = [Idle EXCEPT !.at = "sweep", !.for = "wake", !.wake = w]
    /\ UNCHANGED <<goal, lease, residues, claim, texts, history, repo, minted, agents, crashes>>

(* Faulty variant: the names are read and nothing is removed. *)
SweepNothing ==
    /\ At("sweep")
    /\ Proceed("branch")

(* Directories an earlier process renamed but did not live to remove. *)
Sweep ==
    /\ At("sweep")
    /\ residues' = 0
    /\ Go("branch")
    /\ UNCHANGED <<goal, lease, claim, texts, history, repo, minted, agents, crashes>>

(* Another branch is checked out: the lease goes, the goal is blocked. *)
FenceForBranch ==
    /\ At("branch")
    /\ repo.branch # goal.authority
    /\ lease # None
    /\ RenameLease([proc EXCEPT !.at = "mismatch"])

BranchDiffers ==
    /\ At("branch")
    /\ repo.branch # goal.authority
    /\ lease = None
    /\ Proceed("mismatch")

BlockForBranch ==
    /\ At("mismatch")
    /\ ReturnWith([goal EXCEPT !.state = "blocked",
                               !.reason = "authority-branch-mismatch",
                               !.run = None],
                  "authority-branch-mismatch")

BranchAgrees ==
    /\ At("branch")
    /\ repo.branch = goal.authority
    /\ Proceed("journal")

(* Faulty variant: only a running goal's journal is replayed. *)
CheckpointCommittedWhileRunning ==
    /\ goal.state = "running"
    /\ lease # None
    /\ lease.journal # None
    /\ lease.journal.id = goal.checkpoint

(* reconcileCheckpointJournal: the lease holds the journal of the          *)
(* checkpoint that active.json says was the last.                          *)
CheckpointCommitted ==
    /\ lease # None
    /\ lease.journal # None
    /\ lease.journal.id = goal.checkpoint
    /\ lease.journal.token = lease.owner.token
    /\ lease.journal.epoch = lease.owner.epoch

ReplayCheckpoint ==
    /\ At("journal")
    /\ CheckpointCommitted
    /\ history' = [history EXCEPT !.recorded = @ \cup {lease.journal.id}]
    /\ Go("replayed")
    /\ UNCHANGED <<goal, lease, residues, claim, texts, repo, minted, agents, crashes>>

ReleaseReplayed ==
    /\ At("replayed")
    /\ RenameLease([proc EXCEPT !.at = "lease"])

NothingToReplay ==
    /\ At("journal")
    /\ ~CheckpointCommitted
    /\ Proceed("lease")

LeaseMissing ==
    /\ At("lease")
    /\ lease = None
    /\ goal.state = "running"
    /\ CommitGoal([goal EXCEPT !.state = "ready",
                               !.reason = "lease-missing-after-restart",
                               !.run = None],
                  "tree")

LeaseAbsent ==
    /\ At("lease")
    /\ lease = None
    /\ goal.state # "running"
    /\ Proceed("tree")

(* Faulty variant: the age of the directory is not looked at. *)
LeaseInitializingForever ==
    /\ At("lease")
    /\ lease # None
    /\ lease.owner = None
    /\ ReturnWith(goal, "lease-initializing")

LeaseInitializing ==
    /\ At("lease")
    /\ lease # None
    /\ lease.owner = None
    /\ lease.age <= Ttl
    /\ ReturnWith(goal, "lease-initializing")

FenceIncomplete ==
    /\ At("lease")
    /\ lease # None
    /\ lease.owner = None
    /\ lease.age > Ttl
    /\ RenameLease([proc EXCEPT !.at = "fenced", !.timedOut = FALSE])

(* Faulty variant: a renewal does not count. *)
ExpiredDespiteRenewal == lease.owner.left = 0

Expired == LeaseLeft = 0
TimedOut == goal.run # None /\ goal.run.left = 0
Foreign == \/ lease.owner.rev.branch # goal.rev.branch
           \/ lease.owner.head # Head
           \/ lease.owner.rev.content # repo.content
           \/ lease.owner.rev # goal.rev
AuthorityLost == \/ goal.state # "running"
                 \/ lease.owner.epoch # goal.epoch
                 \/ goal.run = None
                 \/ goal.run # None /\ goal.run.token # lease.owner.token

LeaseHeld ==
    /\ At("lease")
    /\ lease # None
    /\ lease.owner # None
    /\ ~(Expired \/ TimedOut \/ Foreign \/ AuthorityLost)
    /\ ReturnWith(goal, "lease-held")

FenceLost ==
    /\ At("lease")
    /\ lease # None
    /\ lease.owner # None
    /\ Expired \/ TimedOut \/ Foreign \/ AuthorityLost
    /\ RenameLease([proc EXCEPT !.at = "fenced", !.timedOut = TimedOut])

(* The transition committed after a lease was fenced. *)
Fenced ==
    IF proc.timedOut
    THEN [goal EXCEPT !.state = "failed", !.reason = "time-budget-exhausted", !.run = None]
    ELSE IF goal.state = "running"
         THEN [goal EXCEPT !.state = "ready", !.run = None]
         ELSE goal

CommitFenced ==
    /\ At("fenced")
    /\ CommitGoal(Fenced, "tree")

BlockForDirtyTree ==
    /\ At("tree")
    /\ repo.dirty
    /\ ReturnWith([goal EXCEPT !.state = "blocked", !.reason = "dirty-tree-conflict",
                               !.question = None],
                  "dirty-tree-conflict")

TreeClean ==
    /\ At("tree")
    /\ ~repo.dirty
    /\ Proceed("revision")

(* A run started on the goal's revision and nobody reviewed it.            *)
(* enforceFromRevision equals the goal's revision: every assignment to the *)
(* one assigns the other.                                                  *)
ReviewOwed ==
    /\ goal.rev \in history.started
    /\ goal.rev \notin goal.learned
    /\ ~goal.evidence

RevisionSame ==
    /\ At("revision")
    /\ goal.rev = Current
    /\ ReturnWith(goal, "reconciled")

BlockForReview ==
    /\ At("revision")
    /\ goal.rev # Current
    /\ ReviewOwed
    /\ ReturnWith([goal EXCEPT !.state = "blocked",
                               !.reason = "iteration-review-required",
                               !.question = None],
                  "iteration-review-required")

(* Faulty variants: the evidence stays, the question stays, nobody looks   *)
(* for the review of the revision that is left.                            *)
RevisionChangedKeepingEvidence ==
    /\ At("revision")
    /\ goal.rev # Current
    /\ ~ReviewOwed
    /\ ReturnWith([goal EXCEPT !.rev = Current, !.question = None, !.run = None,
                               !.state = "ready", !.reason = "revision-changed"],
                  "reconciled")

RevisionChangedKeepingQuestion ==
    /\ At("revision")
    /\ goal.rev # Current
    /\ ~ReviewOwed
    /\ ReturnWith([goal EXCEPT !.rev = Current, !.evidence = FALSE, !.run = None,
                               !.state = "ready", !.reason = "revision-changed"],
                  "reconciled")

RevisionChangedUnreviewed ==
    /\ At("revision")
    /\ goal.rev # Current
    /\ ReturnWith([goal EXCEPT !.rev = Current, !.evidence = FALSE, !.question = None,
                               !.run = None, !.state = "ready",
                               !.reason = "revision-changed"],
                  "reconciled")

RevisionChanged ==
    /\ At("revision")
    /\ goal.rev # Current
    /\ ~ReviewOwed
    /\ ReturnWith([goal EXCEPT !.rev = Current, !.evidence = FALSE, !.question = None,
                               !.run = None, !.state = "ready",
                               !.reason = "revision-changed"],
                  "reconciled")

Reconcile ==
    \/ Sweep \/ FenceForBranch \/ BranchDiffers \/ BlockForBranch \/ BranchAgrees
    \/ ReplayCheckpoint \/ ReleaseReplayed \/ NothingToReplay
    \/ LeaseMissing \/ LeaseAbsent \/ LeaseInitializing \/ FenceIncomplete
    \/ LeaseHeld \/ FenceLost \/ CommitFenced
    \/ BlockForDirtyTree \/ TreeClean
    \/ RevisionSame \/ BlockForReview \/ RevisionChanged

-----------------------------------------------------------------------------
(* wake, after its reconcile. *)

(* wake's early returns have been passed. *)
WakeGoesOn ==
    /\ At("decide")
    /\ proc.result \notin {"dirty-tree-conflict", "lease-initializing"}
    /\ goal.wake # proc.wake

QuestionOpen == goal.state = "blocked" /\ goal.question # None

(* Faulty variant: the question is asked again when the TTL is just over.  *)
EmissionAgedEarly == QuestionOpen /\ goal.question.emitted /\ goal.question.age >= Ttl

(* The question was emitted longer than the TTL ago: it is emitted again.  *)
EmissionAged == QuestionOpen /\ goal.question.emitted /\ goal.question.age > Ttl

RetryEmission ==
    /\ WakeGoesOn
    /\ EmissionAged
    /\ goal' = [goal EXCEPT !.question.emitted = FALSE, !.question.age = 0]
    /\ proc' = [proc EXCEPT !.at = "unclaim", !.item = goal.question.fingerprint]
    /\ UNCHANGED <<lease, residues, claim, texts, history, repo, minted, agents, crashes>>

(* Removing emission.json and calling wake again. *)
Unclaim ==
    /\ At("unclaim")
    /\ claim' = [claim EXCEPT ![proc.item] = None]
    /\ proc' = [proc EXCEPT !.at = "sweep", !.item = None, !.result = None]
    /\ UNCHANGED <<goal, lease, residues, texts, history, repo, minted, agents, crashes>>

Claimable == QuestionOpen /\ ~goal.question.emitted
OpenClaim == claim[goal.question.fingerprint]

(* openSync(emission.json, "wx") creates the file, still empty. *)
CreateClaim ==
    /\ WakeGoesOn
    /\ Claimable
    /\ OpenClaim = None
    /\ claim' = [claim EXCEPT ![goal.question.fingerprint] = Torn]
    /\ proc' = [proc EXCEPT !.at = "claim", !.item = goal.question.fingerprint]
    /\ UNCHANGED <<goal, lease, residues, texts, history, repo, minted, agents, crashes>>

(* The write that gives the claim its time; then reconcileLocked again. *)
WriteClaim ==
    /\ At("claim")
    /\ claim' = [claim EXCEPT ![proc.item] = 0]
    /\ proc' = [proc EXCEPT !.at = "sweep", !.for = "emit"]
    /\ UNCHANGED <<goal, lease, residues, texts, history, repo, minted, agents, crashes>>

(* Faulty variant: only the claim of an emitted question grows old. *)
ClaimAgedOnceEmitted == EmissionAged /\ OpenClaim \in Nat /\ OpenClaim > Ttl

(* A claim older than the TTL is removed and wake starts over. *)
ClaimAged == Claimable /\ OpenClaim \notin {None, Torn} /\ OpenClaim > Ttl

DropAgedClaim ==
    /\ WakeGoesOn
    /\ ClaimAged
    /\ claim' = [claim EXCEPT ![goal.question.fingerprint] = None]
    /\ proc' = [proc EXCEPT !.at = "sweep", !.result = None]
    /\ UNCHANGED <<goal, lease, residues, texts, history, repo, minted, agents, crashes>>

(* The question is still the one that was claimed: it becomes emitted. *)
StillOpen == QuestionOpen /\ goal.question.fingerprint = proc.item

EmitQuestion ==
    /\ At("deliver")
    /\ StillOpen
    /\ CommitGoal([goal EXCEPT !.question.emitted = TRUE, !.question.age = 0], "ask")

WithdrawClaim ==
    /\ At("deliver")
    /\ ~StillOpen
    /\ claim' = [claim EXCEPT ![proc.item] = None]
    /\ Exit
    /\ UNCHANGED <<goal, lease, residues, texts, history, repo, minted, agents, crashes>>

(* The result reaches the operator. *)
Ask ==
    /\ At("ask")
    /\ heard' = [heard EXCEPT ![proc.item] = 0]
    /\ Exit
    /\ UNCHANGED <<goal, lease, residues, claim, texts, history, repo, minted,
                   owners, children, crashes>>

(* acquireLocked admits the goal. *)
Retryable == goal.reason \notin {"unchanged-failure", "repair-budget-exhausted"}

Admissible ==
    \/ goal.state = "ready"
    \/ goal.state = "waiting" /\ goal.waitLeft = 0
    \/ /\ goal.state = "failed"
       /\ Retryable
       /\ goal.retries < MaxRetries
       /\ goal.retryLeft = 0

RetriesExhausted == goal.state = "failed" /\ Retryable /\ goal.retries >= MaxRetries

NoteRetriesExhausted ==
    /\ WakeGoesOn
    /\ RetriesExhausted
    /\ goal' = [goal EXCEPT !.reason = "retry-budget-exhausted"]
    /\ Exit
    /\ UNCHANGED <<lease, residues, claim, texts, history, repo, minted, agents, crashes>>

CreateLease ==
    /\ WakeGoesOn
    /\ Admissible
    /\ minted < MaxTokens
    /\ lease' = [age |-> 0, owner |-> None, renewal |-> None, journal |-> None]
    /\ Go("own")
    /\ UNCHANGED <<goal, residues, claim, texts, history, repo, minted, agents, crashes>>

(* Faulty variant: the lease is bound to the repository as it is now. *)
WriteOwnerRebound ==
    /\ At("own")
    /\ minted' = minted + 1
    /\ children' = {}
    /\ lease' = [lease EXCEPT !.owner = [token |-> minted', epoch |-> goal.epoch + 1,
                                         left |-> Ttl, head |-> Head, rev |-> Current]]
    /\ proc' = [proc EXCEPT !.at = "start", !.token = minted']
    /\ UNCHANGED <<goal, residues, claim, texts, history, repo, owners, heard, crashes>>

(* The claims of earlier runs are forgotten here: the owner token each one *)
(* goes with is never admitted again (OnlyRunningOwner).                   *)
WriteOwner ==
    /\ At("own")
    /\ minted' = minted + 1
    /\ children' = {}
    /\ lease' = [lease EXCEPT !.owner = [token |-> minted', epoch |-> goal.epoch + 1,
                                         left |-> Ttl, head |-> Head, rev |-> goal.rev]]
    /\ proc' = [proc EXCEPT !.at = "start", !.token = minted']
    /\ UNCHANGED <<goal, residues, claim, texts, history, repo, owners, heard, crashes>>

StartRun ==
    /\ At("start")
    /\ goal' = [goal EXCEPT
            !.epoch = @ + 1, !.state = "running", !.reason = None, !.wake = proc.wake,
            !.retries = IF goal.state = "failed" THEN @ + 1 ELSE @,
            !.run = [token |-> proc.token, left |-> MaxRuntime,
                     claims |-> [k \in Task |-> "none"]]]
    /\ history' = [history EXCEPT !.started = @ \cup {goal.rev}]
    /\ Go("grant")
    /\ UNCHANGED <<lease, residues, claim, texts, repo, minted, agents, crashes>>

(* The result, with the owner token, reaches the agent. *)
Grant ==
    /\ At("grant")
    /\ owners' = owners \cup {proc.token}
    /\ Exit
    /\ UNCHANGED <<goal, lease, residues, claim, texts, history, repo, minted,
                   children, heard, crashes>>

(* Every other wake is a noop; so is one that would exceed the bound on    *)
(* tokens.                                                                 *)
WakeNoop ==
    /\ At("decide")
    /\ ~(/\ WakeGoesOn
         /\ \/ EmissionAged
            \/ Claimable /\ OpenClaim = None
            \/ ClaimAged
            \/ RetriesExhausted
            \/ Admissible /\ minted < MaxTokens)
    /\ Stop

Wake ==
    \/ RetryEmission \/ Unclaim \/ CreateClaim \/ WriteClaim \/ DropAgedClaim
    \/ EmitQuestion \/ WithdrawClaim \/ Ask
    \/ NoteRetriesExhausted \/ CreateLease \/ WriteOwner \/ StartRun \/ Grant
    \/ WakeNoop

-----------------------------------------------------------------------------
(* The agent's commands.  Each asserts the lease first. *)

ActiveTasks == {k \in Task : goal.run.claims[k] = "active"}
CompletedRoles == {RoleOf[k] : k \in {j \in Task : goal.run.claims[j] = "completed"}}

(* Faulty variant: a renewal moves the deadline of the run as well. *)
RenewRun(token) ==
    /\ At("idle")
    /\ AssertLease(token)
    /\ lease' = [lease EXCEPT !.renewal = [token |-> token, epoch |-> goal.epoch, left |-> Ttl]]
    /\ goal' = [goal EXCEPT !.run.left = MaxRuntime]
    /\ UNCHANGED <<residues, claim, texts, history, repo, proc, minted, agents, crashes>>

Renew(token) ==
    /\ At("idle")
    /\ AssertLease(token)
    /\ lease' = [lease EXCEPT !.renewal = [token |-> token, epoch |-> goal.epoch, left |-> Ttl]]
    /\ UNCHANGED <<goal, residues, claim, texts, history, repo, proc, minted, agents, crashes>>

ClaimChild(token, k) ==
    /\ At("idle")
    /\ AssertLease(token)
    /\ goal.run.claims[k] = "none"
    /\ Cardinality(ActiveTasks) < MaxChildren
    /\ goal' = [goal EXCEPT !.run.claims[k] = "active"]
    /\ proc' = [Idle EXCEPT !.at = "tell", !.token = token, !.item = k]
    /\ UNCHANGED <<lease, residues, claim, texts, history, repo, minted, agents, crashes>>

(* The result, with the child's claim token, reaches the agent. *)
Tell ==
    /\ At("tell")
    /\ children' = children \cup {<<proc.token, proc.item>>}
    /\ Exit
    /\ UNCHANGED <<goal, lease, residues, claim, texts, history, repo, minted,
                   owners, heard, crashes>>

SettleChild(token, k, outcome) ==
    /\ At("idle")
    /\ AssertLease(token)
    /\ <<token, k>> \in children
    /\ goal.run.claims[k] = "active"
    /\ goal' = [goal EXCEPT !.run.claims[k] = outcome]
    /\ UNCHANGED <<lease, residues, claim, texts, history, repo, proc, minted, agents, crashes>>

(* A reviewer the run claimed has completed the standards review. *)
RecordIteration(token) ==
    /\ At("idle")
    /\ AssertLease(token)
    /\ "standards-review" \in CompletedRoles
    /\ goal.rev \notin goal.learned
    /\ goal' = [goal EXCEPT !.learned = @ \cup {goal.rev}]
    /\ UNCHANGED <<lease, residues, claim, texts, history, repo, proc, minted, agents, crashes>>

(* checkpointLocked: the run ends.  A run is checkpointed at most once, so *)
(* its token stands for the identifier of its checkpoint.                  *)
NewQuestion(end) ==
    /\ end.state = "blocked"
    /\ \/ goal.question = None
       \/ goal.question # None /\ goal.question.fingerprint # end.question

StartCheckpoint(token, end) ==
    /\ At("idle")
    /\ AssertLease(token)
    /\ ActiveTasks = {}
    /\ end.state = "complete" => FinalRoles \subseteq CompletedRoles
    /\ proc' = [Idle EXCEPT !.at = IF NewQuestion(end) THEN "text" ELSE "recheck",
                            !.token = token, !.item = end]
    /\ UNCHANGED <<goal, lease, residues, claim, texts, history, repo, minted, agents, crashes>>

WriteQuestion ==
    /\ At("text")
    /\ texts' = texts \cup {proc.item.question}
    /\ Go("recheck")
    /\ UNCHANGED <<goal, lease, residues, claim, history, repo, minted, agents, crashes>>

WriteCheckpointJournal ==
    /\ At("recheck")
    /\ AssertLease(proc.token)
    /\ lease' = [lease EXCEPT !.journal = [id |-> proc.token, token |-> proc.token,
                                           epoch |-> lease.owner.epoch]]
    /\ Go("active")
    /\ UNCHANGED <<goal, residues, claim, texts, history, repo, minted, agents, crashes>>

(* The repository moved since the first assertLease. *)
AbortCheckpoint ==
    /\ At("recheck")
    /\ ~AssertLease(proc.token)
    /\ Stop

(* What each ending does to the goal. *)
EndedAs(state, reason) ==
    [goal EXCEPT !.state = state, !.reason = reason, !.run = None, !.question = None,
                 !.waitLeft = 0, !.checkpoint = proc.token]

Ended(end) ==
    CASE end.state = "waiting" -> [EndedAs("waiting", None) EXCEPT !.waitLeft = end.wait]
      [] end.state = "complete" ->
            [EndedAs("complete", None) EXCEPT !.evidence = TRUE,
                                              !.learned = @ \cup {goal.rev}]
      [] end.state = "blocked" ->
            [EndedAs("blocked", None) EXCEPT
                !.question = IF NewQuestion(end)
                             THEN [fingerprint |-> end.question, emitted |-> FALSE, age |-> 0]
                             ELSE goal.question]
      [] end.state = "failed" /\ goal.failure = end.failure ->
            [EndedAs("failed", "unchanged-failure") EXCEPT !.retryLeft = 0]
      [] end.state = "failed" /\ goal.failure # end.failure /\ goal.repairs + 1 > MaxRepairs ->
            [EndedAs("failed", "repair-budget-exhausted") EXCEPT
                !.retryLeft = 0, !.failure = end.failure]
      [] end.state = "failed" /\ goal.failure # end.failure /\ goal.repairs + 1 <= MaxRepairs ->
            [EndedAs("failed", None) EXCEPT
                !.repairs = @ + 1, !.failure = end.failure,
                !.retryLeft = Least(2 ^ goal.retries, MaxBackoff)]

WriteCheckpointActive ==
    /\ At("active")
    /\ goal' = Ended(proc.item)
    /\ heard' = IF NewQuestion(proc.item)
                THEN [heard EXCEPT ![proc.item.question] = None]
                ELSE heard
    /\ Go("record")
    /\ UNCHANGED <<lease, residues, claim, texts, history, repo, minted,
                   owners, children, crashes>>

RecordCheckpoint ==
    /\ At("record")
    /\ history' = [history EXCEPT !.recorded = @ \cup {proc.token}]
    /\ Go("release")
    /\ UNCHANGED <<goal, lease, residues, claim, texts, repo, minted, agents, crashes>>

Release ==
    /\ At("release")
    /\ RenameLease(Idle)

Renewing == \E token \in owners : Renew(token)

Agent ==
    \/ \E token \in owners :
        \/ RecordIteration(token)
        \/ \E k \in Task :
            \/ ClaimChild(token, k)
            \/ \E outcome \in {"completed", "cancelled"} : SettleChild(token, k, outcome)
        \/ \E end \in Endings : StartCheckpoint(token, end)
    \/ Tell
    \/ WriteQuestion \/ WriteCheckpointJournal \/ AbortCheckpoint
    \/ WriteCheckpointActive \/ RecordCheckpoint \/ Release

-----------------------------------------------------------------------------
(* The operator's commands.  None of them asserts a lease. *)

ResolveQuestion(q) ==
    /\ At("idle")
    /\ QuestionOpen
    /\ goal.question.fingerprint = q
    /\ goal' = [goal EXCEPT !.question = None, !.state = "ready",
                            !.reason = "operator-input-received"]
    /\ proc' = [Idle EXCEPT !.at = "forget", !.item = q]
    /\ UNCHANGED <<lease, residues, claim, texts, history, repo, minted, agents, crashes>>

(* The question's directory is removed. *)
ForgetQuestion ==
    /\ At("forget")
    /\ texts' = texts \ {proc.item}
    /\ claim' = [claim EXCEPT ![proc.item] = None]
    /\ Exit
    /\ UNCHANGED <<goal, lease, residues, history, repo, minted, agents, crashes>>

(* adopt-input and bind-research take the repository as it is now for the  *)
(* goal's revision.                                                        *)
Rebase(inputs, research) ==
    /\ At("idle")
    /\ goal.state = "ready"
    /\ lease = None
    /\ goal' = [goal EXCEPT !.rev = RevisionOf(inputs, research), !.evidence = FALSE]
    /\ UNCHANGED <<lease, residues, claim, texts, history, repo, proc, minted, agents, crashes>>

AdoptInput(i) == i \notin goal.rev.inputs /\ Rebase(goal.rev.inputs \cup {i}, goal.rev.research)
BindResearch(r) == Rebase(goal.rev.inputs, r)

(* init --replace-terminal true *)
Initialize ==
    /\ At("idle")
    /\ \/ goal.state = "complete"
       \/ goal.state = "failed" /\ goal.rev \in goal.learned
    /\ lease = None
    /\ goal.id < MaxGoals
    /\ goal' = NewGoal(goal.id + 1)
    /\ UNCHANGED <<lease, residues, claim, texts, history, repo, proc, minted, agents, crashes>>

Operator ==
    \/ \E q \in Question : ResolveQuestion(q)
    \/ ForgetQuestion
    \/ \E i \in Input : AdoptInput(i)
    \/ \E r \in Research : BindResearch(r)
    \/ Initialize

-----------------------------------------------------------------------------
(* What happens around the controller. *)

(* A commit, a state-only commit, an edit of an owned input, a checkout,   *)
(* and an edit of any other file or its removal.                           *)
MoveRepository ==
    /\ \/ \E c \in Commit \ {repo.commit} : repo' = [repo EXCEPT !.commit = c]
       \/ \E b \in Bump \ {repo.bump} : repo' = [repo EXCEPT !.bump = b]
       \/ \E c \in Content \ {repo.content} : repo' = [repo EXCEPT !.content = c]
       \/ \E b \in Branch \ {repo.branch} : repo' = [repo EXCEPT !.branch = b]
       \/ \E d \in TreeState \ {repo.dirty} : repo' = [repo EXCEPT !.dirty = d]
    /\ UNCHANGED <<goal, lease, residues, claim, texts, history, proc, minted, agents, crashes>>

ElapsedSince(age) == IF age \in {None, Torn} THEN age ELSE Age(age)

(* A run, an owner or a renewal once the clock has moved. *)
Ran(r) == IF r = None THEN None ELSE [r EXCEPT !.left = Countdown(@)]
Waited == IF QuestionOpen /\ goal.question.emitted
          THEN [goal.question EXCEPT !.age = Age(@)] ELSE goal.question

Tick ==
    /\ proc = Idle
    /\ goal' = [goal EXCEPT !.run = Ran(@), !.waitLeft = Countdown(@),
                            !.retryLeft = Countdown(@), !.question = Waited]
    /\ lease' = IF lease = None
                THEN None
                ELSE [lease EXCEPT !.age = IF lease.owner = None THEN Age(@) ELSE @,
                                   !.owner = Ran(@), !.renewal = Ran(@)]
    /\ claim' = [q \in Question |-> ElapsedSince(claim[q])]
    /\ heard' = [q \in Question |-> ElapsedSince(heard[q])]
    /\ UNCHANGED <<residues, texts, history, repo, proc, minted, owners, children, crashes>>

Crash ==
    /\ proc # Idle
    /\ crashes < MaxCrashes
    /\ crashes' = crashes + 1
    /\ Exit
    /\ UNCHANGED <<goal, lease, residues, claim, texts, history, repo, minted, agents>>

(* A write or a git call fails while a run is granted: acquireLocked       *)
(* removes the lease again, which is one step here, and throws.  The       *)
(* failures are counted with the crashes.                                  *)
AcquireFails ==
    /\ At("own") \/ At("start") \/ At("grant")
    /\ crashes < MaxCrashes
    /\ crashes' = crashes + 1
    /\ lease' = None
    /\ Exit
    /\ UNCHANGED <<goal, residues, claim, texts, history, repo, minted, agents>>

(* The steps of a process that is already running. *)
Running ==
    \/ Unlink \/ Reconcile \/ Wake
    \/ Tell \/ WriteQuestion \/ WriteCheckpointJournal \/ AbortCheckpoint
    \/ WriteCheckpointActive \/ RecordCheckpoint \/ Release
    \/ ForgetQuestion

(* The steps of the controller but renew.                                  *)
Controller ==
    \/ StartReconcile
    \/ \E w \in WakeToken : StartWake(w)
    \/ Unlink \/ Reconcile \/ Wake
    \/ Agent \/ Operator
    \/ Crash \/ AcquireFails

Next == Controller \/ Renewing \/ MoveRepository \/ Tick

Spec == Init /\ [][Next]_vars

(* A process that runs goes on, the clock does not stop, and the scheduler *)
(* wakes the controller again and again, with fresh tokens.                *)
FairSpec ==
    /\ Spec
    /\ WF_vars(Running)
    /\ SF_vars(Tick)
    /\ \A w \in WakeToken : SF_vars(StartWake(w))

-----------------------------------------------------------------------------
(* Properties. *)

Revision == [commit : Commit, content : Content, branch : Branch,
             inputs : SUBSET Input, research : Research \cup {None}]
HeadType == [commit : Commit, bump : Bump]
Token == 1..MaxTokens
Ages == 0..Ttl + 1
Reason == {"authority-branch-mismatch", "lease-missing-after-restart",
           "time-budget-exhausted", "dirty-tree-conflict",
           "iteration-review-required", "revision-changed",
           "operator-input-received", "unchanged-failure",
           "repair-budget-exhausted", "retry-budget-exhausted"}
Steps == {"idle", "sweep", "branch", "mismatch", "journal", "replayed", "lease",
          "fenced", "tree", "revision", "decide", "unclaim", "claim", "deliver",
          "ask", "own", "start", "grant", "tell", "text", "recheck", "active",
          "record", "release", "forget"}

RunType ==
    [token : Token, left : 0..MaxRuntime,
     claims : [Task -> {"none", "active", "completed", "cancelled"}]]
QuestionType == [fingerprint : Question, emitted : BOOLEAN, age : Ages]
GoalType ==
    [id : 1..MaxGoals, authority : Branch,
     state : {"ready", "running", "waiting", "blocked", "failed", "complete"},
     reason : Reason \cup {None}, rev : Revision, epoch : 0..MaxTokens,
     wake : WakeToken \cup {None},
     question : QuestionType \cup {None}, run : RunType \cup {None},
     evidence : BOOLEAN, learned : SUBSET Revision,
     retries : 0..MaxRetries, repairs : 0..MaxRepairs,
     waitLeft : 0..MaxWait, retryLeft : 0..MaxBackoff,
     failure : Failure \cup {None}, checkpoint : Token \cup {None}]
OwnerType == [token : Token, epoch : 1..MaxTokens, left : 0..Ttl, head : HeadType, rev : Revision]
RenewalType == [token : Token, epoch : 1..MaxTokens, left : 0..Ttl]
JournalType == [id : Token, token : Token, epoch : 1..MaxTokens]
LeaseType ==
    [age : Ages, owner : OwnerType \cup {None}, renewal : RenewalType \cup {None},
     journal : JournalType \cup {None}]
ProcType ==
    [at : Steps, for : {"reconcile", "wake", "emit", None},
     wake : WakeToken \cup {None}, token : Token \cup {None},
     result : {"authority-branch-mismatch", "lease-initializing", "lease-held",
               "dirty-tree-conflict", "iteration-review-required", "reconciled", None},
     item : Question \cup Task \cup Endings \cup {None},
     timedOut : BOOLEAN, unlink : BOOLEAN]
ASSUME NullAssumption ==
    /\ None \notin Nat /\ Torn \notin Nat
    /\ None \notin RunType \cup QuestionType \cup OwnerType \cup RenewalType \cup JournalType
    /\ None \notin LeaseType
(* The delays before a retry are numbers.                                  *)
ASSUME BackoffAssumption == \A n \in 0..MaxRetries : 2 ^ n \in Nat

(* Every file holds what the controller writes there, no budget of retries *)
(* or repairs is overrun, and no more than one renamed lease is ever left. *)
TypeOK ==
    /\ goal \in GoalType
    /\ lease \in LeaseType \cup {None}
    /\ residues \in 0..1
    /\ claim \in [Question -> Ages \cup {None, Torn}]
    /\ texts \subseteq Question
    /\ history \in [started : SUBSET Revision, recorded : SUBSET Token]
    /\ repo \in [commit : Commit, bump : Bump, content : Content,
                 branch : Branch, dirty : BOOLEAN]
    /\ proc \in ProcType
    /\ minted \in 0..MaxTokens
    /\ owners \subseteq Token
    /\ children \subseteq Token \X Task
    /\ heard \in [Question -> Ages \cup {None}]
    /\ crashes \in 0..MaxCrashes

(* assertLease compares the token with the lease and never with the run    *)
(* that active.json records.  All the same, an admitted token is the       *)
(* newest one generated and that of the running run: no earlier owner is   *)
(* admitted again, whatever was fenced, crashed or moved in between.       *)
OnlyRunningOwner ==
    \A token \in 1..minted :
        AssertLease(token) =>
            /\ goal.state = "running"
            /\ goal.run.token = token
            /\ token = minted

(* No reconcile takes the lease from an agent whose commands are still     *)
(* admitted, while the goal's branch is checked out: only its own          *)
(* checkpoint ends such a run, and a wake that fails before it has told    *)
(* the agent its token.                                                    *)
FencesNoLiveOwner ==
    [][lease # None /\ lease' = None /\ proc.at \notin {"release", "grant"}
            /\ repo.branch = goal.authority
        => \A token \in 1..minted : ~AssertLease(token)]_vars

(* The last checkpoint active.json names is in history.jsonl, or the lease *)
(* still holds the journal it will be replayed from.                       *)
CheckpointRecorded ==
    \/ goal.checkpoint = None
    \/ goal.checkpoint \in history.recorded
    \/ lease # None /\ lease.journal # None /\ lease.journal.id = goal.checkpoint

(* A goal is complete only at a revision that a run started on and that    *)
(* was reviewed, and it leaves with its evidence: evidence.current is      *)
(* never that of a revision the goal has left.                             *)
CompleteByReview ==
    /\ goal.state = "complete" => goal.evidence
    /\ goal.evidence => /\ goal.state \in {"complete", "blocked"}
                        /\ goal.rev \in goal.learned \cap history.started

(* A goal leaves a revision that a run started on only when the iteration  *)
(* was reviewed.                                                           *)
ReviewedBeforeLeaving ==
    [][goal'.id = goal.id /\ goal'.rev # goal.rev => ~ReviewOwed]_vars

(* An open question is that of a blocked goal, its text is on disk, and    *)
(* once it is marked as emitted its claim is there and complete.           *)
QuestionIsWhole ==
    goal.question # None =>
        /\ goal.state = "blocked"
        /\ goal.question.fingerprint \in texts
        /\ goal.question.emitted => claim[goal.question.fingerprint] \in Ages

(* The operator is not asked the same open question twice within one TTL.  *)
NotAskedTwice ==
    At("ask") => heard[proc.item] \notin 0..Ttl

(* Every lease is given up: by a checkpoint, by expiry, by the deadline of *)
(* the run, or because its owner was never written.                        *)
LeaseEnds == lease # None ~> lease = None

(* Every run ends: renewals do not carry it past its deadline.             *)
RunEnds == goal.state = "running" ~> goal.state # "running"

Asked(q) == heard[q] # None
Open(q) == goal.question # None /\ goal.question.fingerprint = q

(* Every open question reaches the operator, or is withdrawn.              *)
QuestionReachesOperator ==
    \A q \in Question : Open(q) ~> Asked(q) \/ ~Open(q)

(* The same, but for a claim that a crash left without its time.           *)
QuestionReachesOperatorUnlessTorn ==
    \A q \in Question : Open(q) ~> Asked(q) \/ ~Open(q) \/ claim[q] = Torn
=============================================================================
