------------------------ MODULE GoalControllerProofs ------------------------
(***************************************************************************)
(* The authority over a goal, for any policy, repository and number of     *)
(* runs: the controller and the commit hook admit the newest owner alone,  *)
(* a lease that still admits its owner is not fenced, no checkpoint is     *)
(* lost, and no question is asked twice within its TTL.                    *)
(***************************************************************************)
EXTENDS CommitHook, TLAPS

Reconciling == {"sweep", "branch", "mismatch", "journal", "replayed", "lease", "fenced", "tree",
                "revision"}
Waking == {"decide", "unclaim", "claim", "deliver", "ask", "own", "start", "grant"}
Checkpointing == {"text", "recheck", "active", "record", "release"}

(* active.json: its run is the newest one, started on the revision it      *)
(* names and not yet checkpointed.                                         *)
GoalInv ==
    /\ goal.run # None => /\ goal.state = "running" /\ goal.run.token = minted
                          /\ goal.rev \in history.started /\ goal.checkpoint # minted
    /\ goal.checkpoint # None => goal.checkpoint <= minted
    /\ goal.epoch <= minted
    /\ goal.question # None => ~goal.evidence
(* .lease: its owner is the newest token, its renewal and its journal are  *)
(* the owner's own, and its revision is the goal's.                        *)
LeaseInv ==
    lease # None =>
        /\ residues = 0
        /\ lease.owner # None => lease.owner.token = minted /\ lease.owner.rev = goal.rev
        /\ lease.renewal # None => /\ lease.owner # None
                                   /\ lease.renewal.token = lease.owner.token
                                   /\ lease.renewal.epoch = lease.owner.epoch
        /\ lease.journal # None => lease.owner # None /\ lease.journal.id = minted
(* What the step a process is at stands for.                               *)
SweptInv ==
    /\ proc.unlink => /\ residues = 1 /\ lease = None
                      /\ proc.at \in {"mismatch", "lease", "fenced", "idle"}
    /\ ~proc.unlink /\ proc.at \in (Reconciling \ {"sweep"}) \cup Waking => residues = 0
    /\ proc.at \in {"fenced", "tree", "revision"} => lease = None
    /\ proc.at \in {"tree", "revision", "replayed", "own", "start"} => goal.run = None
    /\ proc.at = "fenced" /\ proc.timedOut => goal.run # None
    /\ proc.at = "replayed" => lease # None
ItemInv ==
    /\ proc.at \in Reconciling => proc.for \in {"reconcile", "wake", "emit"}
    /\ proc.at \in {"decide", "unclaim"} => proc.for = "wake"
    /\ proc.at \in {"unclaim", "claim", "deliver", "ask", "forget"} => proc.item \in Question
    /\ (proc.at \in Reconciling /\ proc.for = "emit") \/ proc.at = "deliver" =>
        proc.item \in Question /\ claim[proc.item] \in Ages
    /\ proc.at = "unclaim" /\ goal.question # None => ~goal.question.emitted
    /\ proc.at = "forget" => goal.question = None
    /\ proc.at = "grant" => proc.token \in Token
    /\ proc.at = "tell" => proc.token \in Token /\ proc.item \in Task
    /\ proc.at \in Checkpointing => proc.item \in Endings /\ proc.token \in Token
AdmittedInv ==
    /\ proc.at \in {"own", "start"} =>
        /\ goal.state \in {"ready", "waiting", "failed"}
        /\ goal.state = "failed" => goal.retries < MaxRetries
    /\ proc.at = "own" =>
        /\ minted < MaxTokens
        /\ lease # None /\ lease.owner = None /\ lease.renewal = None /\ lease.journal = None
    /\ proc.at = "start" =>
        /\ proc.token = minted /\ minted \in Token
        /\ goal.epoch < minted /\ goal.checkpoint # minted
    /\ proc.at \in {"text", "recheck", "active"} => goal.run # None /\ proc.token = minted
    /\ proc.at \in Checkpointing => lease # None /\ lease.owner # None
    /\ proc.at = "text" => proc.item.state = "blocked"
    /\ proc.at \in {"recheck", "active"} /\ proc.item.state = "blocked" => proc.item.question \in texts
IInv ==
    /\ TypeOK /\ GoalInv /\ LeaseInv /\ SweptInv /\ ItemInv /\ AdmittedInv
    /\ CompleteByReview /\ QuestionIsWhole

Results == {"authority-branch-mismatch", "lease-initializing", "lease-held",
            "dirty-tree-conflict", "iteration-review-required", "reconciled"}
StepInv == SweptInv /\ ItemInv /\ AdmittedInv
files == <<lease, residues, claim, texts, history, repo, minted, agents>>

LEMMA InitIInv == Init => IInv
  <1> SUFFICES ASSUME Init PROVE IInv
    OBVIOUS
  <1>1. goal \in GoalType
    BY BoundAssumption, PolicyAssumption
    DEF Init, NewGoal, RevisionOf, GoalType, Revision
  <1>2. proc \in ProcType
    BY DEF Init, Idle, ProcType, Steps
  <1>3. TypeOK
    <2>1. repo \in [commit : Commit, bump : Bump, content : Content, branch : Branch, dirty : BOOLEAN]
      BY DEF Init
    <2>2. /\ lease \in LeaseType \cup {None} /\ residues \in 0..1 /\ texts \subseteq Question
          /\ claim \in [Question -> Ages \cup {None, Torn}]
          /\ heard \in [Question -> Ages \cup {None}]
      BY DEF Init
    <2>3. /\ history \in [started : SUBSET Revision, recorded : SUBSET Token]
          /\ minted \in 0..MaxTokens /\ owners \subseteq Token /\ children \subseteq Token \X Task
          /\ crashes \in 0..MaxCrashes
      BY BoundAssumption DEF Init
    <2> QED
      BY <1>1, <1>2, <2>1, <2>2, <2>3 DEF TypeOK
  <1>4. GoalInv /\ LeaseInv /\ CompleteByReview /\ QuestionIsWhole
    BY DEF Init, NewGoal, GoalInv, LeaseInv, CompleteByReview, QuestionIsWhole
  <1>5. SweptInv /\ ItemInv /\ AdmittedInv
    BY DEF Init, Idle, SweptInv, ItemInv, AdmittedInv, Reconciling, Waking, Checkpointing
  <1> QED
    BY <1>3, <1>4, <1>5 DEF IInv

-----------------------------------------------------------------------------
(* Steps that change where the process is and nothing else.                *)
LEMMA ProcStep ==
    ASSUME IInv, UNCHANGED <<goal, files>>, crashes' \in 0..MaxCrashes, proc' \in ProcType, StepInv'
    PROVE  IInv'
  BY DEF IInv, TypeOK, GoalInv, LeaseInv, CompleteByReview, QuestionIsWhole, StepInv, files, agents

LEMMA Moved ==
    ASSUME IInv, NEW step \in Steps, Go(step)
    PROVE  /\ proc' \in ProcType
           /\ proc'.at = step /\ proc'.for = proc.for /\ proc'.token = proc.token
           /\ proc'.item = proc.item /\ proc'.timedOut = proc.timedOut
           /\ proc'.unlink = proc.unlink
  BY DEF IInv, TypeOK, ProcType, Go

LEMMA Exited ==
    ASSUME IInv, Exit
    PROVE  proc' \in ProcType /\ StepInv'
  <1>1. /\ proc' \in ProcType /\ proc'.at = "idle" /\ ~proc'.unlink
    BY DEF Exit, Idle, ProcType, Steps
  <1> QED
    BY <1>1 DEF StepInv, SweptInv, ItemInv, AdmittedInv, Reconciling, Waking, Checkpointing

(* reconcileLocked returns to the command that called it.                  *)
LEMMA Returned ==
    ASSUME IInv, ~proc.unlink, proc.at \in Reconciling \ {"sweep"}, NEW result \in Results,
           proc' = Return(result), UNCHANGED files
    PROVE  proc' \in ProcType /\ StepInv'
  <1>1. /\ proc \in ProcType /\ residues = 0 /\ proc.for \in {"reconcile", "wake", "emit"}
        /\ proc.for = "emit" => proc.item \in Question /\ claim[proc.item] \in Ages
    BY DEF IInv, TypeOK, SweptInv, ItemInv
  <1>2. CASE proc.for = "reconcile"
    BY <1>2, Exited DEF Return, Exit
  <1>3. CASE proc.for = "wake"
    <2>0. proc' = [proc EXCEPT !.at = "decide", !.result = result]
      BY <1>3 DEF Return
    <2>1. proc' \in ProcType /\ proc'.at = "decide" /\ proc'.for = "wake" /\ ~proc'.unlink
      BY <1>1, <1>3, <2>0, ZenonT(60) DEF ProcType, Steps, Results
    <2> QED
      BY <1>1, <2>1 DEF StepInv, SweptInv, ItemInv, AdmittedInv, Reconciling, Waking, Checkpointing,
                        files
  <1>4. CASE proc.for = "emit"
    <2>1. proc' \in ProcType /\ proc'.at = "deliver" /\ proc'.item = proc.item /\ ~proc'.unlink
      BY <1>1, <1>4 DEF Return, ProcType, Steps
    <2> QED
      BY <1>1, <1>4, <2>1 DEF StepInv, SweptInv, ItemInv, AdmittedInv, Reconciling, Waking,
                              Checkpointing, files
  <1> QED
    BY <1>1, <1>2, <1>3, <1>4

(* A lease is renamed away.                                                *)
LEMMA RenameStep ==
    ASSUME IInv, lease # None, NEW next \in ProcType, RenameLease(next),
           next.at \in {"mismatch", "lease", "fenced", "idle"},
           next.at # "idle" => next.for \in {"reconcile", "wake", "emit"},
           next.at # "idle" /\ next.for = "emit" => next.item \in Question /\ claim[next.item] \in Ages,
           next.at = "fenced" /\ next.timedOut => goal.run # None
    PROVE  IInv'
  <1>1. /\ lease' = None /\ residues' = 1
        /\ UNCHANGED <<goal, claim, texts, history, repo, minted, agents, crashes>>
    BY DEF RenameLease, IInv, LeaseInv
  <1>2. /\ proc' \in ProcType /\ proc'.at = next.at /\ proc'.unlink /\ proc'.for = next.for
        /\ proc'.item = next.item /\ proc'.timedOut = next.timedOut
    BY DEF RenameLease, ProcType
  <1>3. TypeOK'
    BY <1>1, <1>2 DEF IInv, TypeOK, agents
  <1>4. GoalInv' /\ LeaseInv' /\ CompleteByReview' /\ QuestionIsWhole'
    BY <1>1 DEF IInv, GoalInv, LeaseInv, CompleteByReview, QuestionIsWhole
  <1>5. SweptInv' /\ ItemInv' /\ AdmittedInv'
    BY <1>1, <1>2 DEF SweptInv, ItemInv, AdmittedInv, Reconciling, Waking, Checkpointing
  <1> QED
    BY <1>3, <1>4, <1>5 DEF IInv

(* active.json is replaced, and the process moves.                         *)
LEMMA GoalStep ==
    ASSUME IInv, goal' \in GoalType, UNCHANGED <<files, crashes>>, proc' \in ProcType,
           goal'.rev = goal.rev \/ lease = None,
           GoalInv', StepInv', CompleteByReview', QuestionIsWhole'
    PROVE  IInv'
  <1>1. TypeOK'
    BY DEF IInv, TypeOK, files, agents
  <1>2. LeaseInv'
    BY DEF IInv, LeaseInv, files
  <1> QED
    BY <1>1, <1>2 DEF IInv, StepInv

-----------------------------------------------------------------------------
(* The controller's own steps that change nothing but where it is.         *)
LEMMA StartStep ==
    ASSUME IInv, StartReconcile \/ \E w \in WakeToken : StartWake(w)
    PROVE  IInv'
  <1>1. /\ proc' \in ProcType /\ proc'.at = "sweep" /\ ~proc'.unlink
        /\ proc'.for \in {"reconcile", "wake"} /\ UNCHANGED <<goal, files, crashes>>
    BY DEF StartReconcile, StartWake, Idle, ProcType, Steps, files
  <1>2. StepInv'
    BY <1>1 DEF StepInv, SweptInv, ItemInv, AdmittedInv, Reconciling, Waking, Checkpointing
  <1> QED
    BY <1>1, <1>2, ProcStep DEF IInv, TypeOK

LEMMA UnlinkStep ==
    ASSUME IInv, Unlink
    PROVE  IInv'
  <1>1. /\ proc.unlink /\ residues = 1 /\ lease = None
        /\ proc.at \in {"mismatch", "lease", "fenced", "idle"} /\ proc \in ProcType
    BY DEF Unlink, IInv, TypeOK, SweptInv
  <1>p. /\ proc' \in ProcType /\ proc'.at = proc.at /\ proc'.for = proc.for /\ proc'.item = proc.item
        /\ proc'.timedOut = proc.timedOut /\ ~proc'.unlink
    <2>1. proc' = [proc EXCEPT !.unlink = FALSE]
      BY DEF Unlink
    <2> QED
      BY <1>1, <2>1 DEF ProcType
  <1>t. /\ residues' = 0 /\ lease' = None
        /\ UNCHANGED <<goal, claim, texts, history, repo, minted, agents, crashes>>
    BY <1>1 DEF Unlink
  <1>2. /\ proc' \in ProcType /\ proc'.at = proc.at /\ proc'.for = proc.for /\ proc'.item = proc.item
        /\ proc'.timedOut = proc.timedOut /\ ~proc'.unlink
        /\ residues' = 0 /\ lease' = None
        /\ UNCHANGED <<goal, claim, texts, history, repo, minted, agents, crashes>>
    BY <1>p, <1>t
  <1>3. TypeOK'
    BY <1>2 DEF IInv, TypeOK, agents
  <1>4. GoalInv' /\ LeaseInv' /\ CompleteByReview' /\ QuestionIsWhole'
    BY <1>2 DEF IInv, GoalInv, LeaseInv, CompleteByReview, QuestionIsWhole
  <1>5. SweptInv' /\ ItemInv' /\ AdmittedInv'
    BY <1>1, <1>2 DEF IInv, SweptInv, ItemInv, AdmittedInv, Reconciling, Waking, Checkpointing
  <1> QED
    BY <1>3, <1>4, <1>5 DEF IInv

LEMMA SweepStep ==
    ASSUME IInv, Sweep
    PROVE  IInv'
  <1>1. proc.at = "sweep" /\ ~proc.unlink /\ "branch" \in Steps
    BY DEF Sweep, At, Steps
  <1>2. /\ proc' \in ProcType /\ proc'.at = "branch" /\ proc'.for = proc.for /\ proc'.item = proc.item
        /\ ~proc'.unlink
    BY <1>1, Moved DEF Sweep
  <1>3. residues' = 0 /\ UNCHANGED <<goal, lease, claim, texts, history, repo, minted, agents, crashes>>
    BY DEF Sweep
  <1>4. TypeOK'
    BY <1>2, <1>3 DEF IInv, TypeOK, agents
  <1>5. GoalInv' /\ LeaseInv' /\ CompleteByReview' /\ QuestionIsWhole'
    BY <1>3 DEF IInv, GoalInv, LeaseInv, CompleteByReview, QuestionIsWhole
  <1>6. SweptInv' /\ ItemInv' /\ AdmittedInv'
    BY <1>1, <1>2, <1>3 DEF IInv, SweptInv, ItemInv, AdmittedInv, Reconciling, Waking, Checkpointing
  <1> QED
    BY <1>4, <1>5, <1>6 DEF IInv

LEMMA PassStep ==
    ASSUME IInv, BranchDiffers \/ BranchAgrees \/ NothingToReplay \/ LeaseAbsent \/ TreeClean
    PROVE  IInv'
  <1>1. PICK step \in {"mismatch", "journal", "lease", "tree", "revision"} :
            Proceed(step) /\ ~proc.unlink /\ proc.at \in Reconciling \ {"sweep"}
            /\ (step = "tree" => lease = None /\ goal.state # "running")
            /\ (step = "revision" => proc.at = "tree")
    BY DEF BranchDiffers, BranchAgrees, NothingToReplay, LeaseAbsent, TreeClean, At, Reconciling
  <1>2. /\ proc' \in ProcType /\ proc'.at = step /\ proc'.for = proc.for /\ proc'.item = proc.item
        /\ ~proc'.unlink /\ UNCHANGED <<goal, files, crashes>>
    BY <1>1, Moved DEF Proceed, Steps, files
  <1>3. step = "tree" => goal.run = None
    BY <1>1 DEF IInv, GoalInv
  <1>4. SweptInv'
    BY <1>1, <1>2, <1>3 DEF IInv, SweptInv, Reconciling, Waking, files
  <1>5. ItemInv' /\ AdmittedInv'
    BY <1>1, <1>2 DEF IInv, ItemInv, AdmittedInv, Reconciling, Waking, Checkpointing, files
  <1> QED
    BY <1>2, <1>4, <1>5, ProcStep DEF IInv, TypeOK, StepInv

LEMMA HeldStep ==
    ASSUME IInv, LeaseInitializing \/ LeaseHeld \/ RevisionSame
    PROVE  IInv'
  <1>1. PICK result \in Results :
            /\ ReturnWith(goal, result) /\ ~proc.unlink /\ proc.at \in Reconciling \ {"sweep"}
    BY DEF LeaseInitializing, LeaseHeld, RevisionSame, At, Reconciling, Results
  <1>2. UNCHANGED <<goal, files, crashes>> /\ proc' = Return(result)
    BY <1>1 DEF ReturnWith, files
  <1>3. proc' \in ProcType /\ StepInv'
    BY <1>1, <1>2, Returned
  <1> QED
    BY <1>2, <1>3, ProcStep DEF IInv, TypeOK

(* A lease goes: before it is known to be lost, or because it is.          *)
LEMMA FenceStep ==
    ASSUME IInv, FenceForBranch \/ ReleaseReplayed \/ FenceIncomplete \/ FenceLost
    PROVE  IInv'
  <1>1. PICK step \in {"mismatch", "lease", "fenced"}, b \in BOOLEAN :
            /\ lease # None /\ ~proc.unlink /\ proc.at \in Reconciling
            /\ step = "fenced" /\ b => goal.run # None
            /\ \/ RenameLease([proc EXCEPT !.at = step]) /\ step # "fenced"
               \/ RenameLease([proc EXCEPT !.at = step, !.timedOut = b])
    <2>1. CASE FenceForBranch
      BY <2>1 DEF FenceForBranch, At, Reconciling
    <2>2. CASE ReleaseReplayed
      BY <2>2 DEF ReleaseReplayed, At, Reconciling, IInv, SweptInv
    <2>3. CASE FenceIncomplete
      BY <2>3 DEF FenceIncomplete, At, Reconciling
    <2>4. CASE FenceLost
      <3>1. PICK b \in BOOLEAN : b = TimedOut
        BY DEF TimedOut
      <3>2. lease # None /\ ~proc.unlink /\ proc.at \in Reconciling
            /\ RenameLease([proc EXCEPT !.at = "fenced", !.timedOut = b])
        BY <2>4, <3>1 DEF FenceLost, At, Reconciling
      <3>3. b => goal.run # None
        BY <3>1 DEF TimedOut
      <3> QED
        BY <3>2, <3>3
    <2> QED
      BY <2>1, <2>2, <2>3, <2>4
  <1>2. /\ proc \in ProcType /\ proc.for \in {"reconcile", "wake", "emit"}
        /\ proc.for = "emit" => proc.item \in Question /\ claim[proc.item] \in Ages
    BY <1>1 DEF IInv, TypeOK, ItemInv
  <1>3. CASE RenameLease([proc EXCEPT !.at = step]) /\ step # "fenced"
    <2> DEFINE next == [proc EXCEPT !.at = step]
    <2>1. next \in ProcType /\ next.at = step /\ next.for = proc.for /\ next.item = proc.item
      BY <1>2 DEF ProcType, Steps
    <2>2. RenameLease(next)
      BY <1>3
    <2> HIDE DEF next
    <2> QED
      BY <1>1, <1>2, <1>3, <2>1, <2>2, RenameStep
  <1>4. CASE RenameLease([proc EXCEPT !.at = step, !.timedOut = b])
    <2> DEFINE next == [proc EXCEPT !.at = step, !.timedOut = b]
    <2>1. next \in ProcType /\ next.at = step /\ next.for = proc.for /\ next.item = proc.item
      BY <1>2, ZenonT(60) DEF ProcType, Steps
    <2>2. next.timedOut = b
      BY <1>2 DEF ProcType
    <2>3. RenameLease(next)
      BY <1>4
    <2> HIDE DEF next
    <2> QED
      BY <1>1, <1>2, <2>1, <2>2, <2>3, RenameStep
  <1> QED
    BY <1>1, <1>3, <1>4

LEMMA ReleaseStep ==
    ASSUME IInv, Release
    PROVE  IInv'
  <1>1. Idle \in ProcType /\ Idle.at = "idle"
    BY DEF Idle, ProcType, Steps
  <1>2. lease # None
    BY DEF Release, At, IInv, AdmittedInv, Checkpointing
  <1> QED
    BY <1>1, <1>2, RenameStep DEF Release

LEMMA ReplayStep ==
    ASSUME IInv, ReplayCheckpoint
    PROVE  IInv'
  <1>1. proc.at = "journal" /\ ~proc.unlink /\ CheckpointCommitted /\ "replayed" \in Steps
    BY DEF ReplayCheckpoint, At, Steps
  <1>2. lease # None /\ lease.journal # None /\ lease.journal.id \in Token /\ goal.run = None
    <2>1. lease # None /\ lease.journal # None /\ lease.journal.id = goal.checkpoint
      BY <1>1 DEF CheckpointCommitted
    <2>2. lease.journal.id = minted
      BY <2>1 DEF IInv, LeaseInv
    <2>3. lease.journal.id \in Token
      BY <2>1 DEF IInv, TypeOK, LeaseType, JournalType
    <2> QED
      BY <2>1, <2>2, <2>3 DEF IInv, GoalInv
  <1>3. /\ proc' \in ProcType /\ proc'.at = "replayed" /\ proc'.for = proc.for /\ proc'.item = proc.item
        /\ ~proc'.unlink
    BY <1>1, Moved DEF ReplayCheckpoint
  <1>4. /\ history' = [history EXCEPT !.recorded = @ \cup {lease.journal.id}]
        /\ UNCHANGED <<goal, lease, residues, claim, texts, repo, minted, agents, crashes>>
    BY DEF ReplayCheckpoint
  <1>5. /\ history' \in [started : SUBSET Revision, recorded : SUBSET Token]
        /\ history'.started = history.started
    BY <1>2, <1>4 DEF IInv, TypeOK
  <1>6. TypeOK'
    BY <1>3, <1>4, <1>5 DEF IInv, TypeOK, agents
  <1>7. GoalInv' /\ LeaseInv' /\ CompleteByReview' /\ QuestionIsWhole'
    BY <1>4, <1>5 DEF IInv, GoalInv, LeaseInv, CompleteByReview, QuestionIsWhole
  <1>8. SweptInv' /\ ItemInv' /\ AdmittedInv'
    BY <1>1, <1>2, <1>3, <1>4
    DEF IInv, SweptInv, ItemInv, AdmittedInv, Reconciling, Waking, Checkpointing
  <1> QED
    BY <1>6, <1>7, <1>8 DEF IInv

-----------------------------------------------------------------------------
(* The goal's state changes, and no run is on.                             *)
Runless(g) ==
    /\ g \in GoalType /\ g.run = None
    /\ g.rev = goal.rev /\ g.epoch = goal.epoch /\ g.checkpoint = goal.checkpoint
    /\ g.evidence = goal.evidence /\ g.learned = goal.learned
    /\ g.question \in {goal.question, None}
    /\ g.question # None => g.state = "blocked"
    /\ g.evidence => g.state \in {"complete", "blocked"}
    /\ g.state = "complete" => g.evidence

LEMMA RunlessStep ==
    ASSUME IInv, NEW g, goal' = g, Runless(g), UNCHANGED <<files, crashes>>,
           proc' \in ProcType, StepInv'
    PROVE  IInv'
  <1>1. GoalInv'
    BY DEF IInv, GoalInv, Runless, files
  <1>2. CompleteByReview' /\ QuestionIsWhole'
    BY DEF IInv, CompleteByReview, QuestionIsWhole, Runless, files
  <1> QED
    BY <1>1, <1>2, GoalStep DEF Runless

LEMMA BlockForBranchStep ==
    ASSUME IInv, BlockForBranch
    PROVE  IInv'
  <1> DEFINE g == [goal EXCEPT !.state = "blocked", !.reason = "authority-branch-mismatch", !.run = None]
  <1>1. /\ proc.at = "mismatch" /\ ~proc.unlink /\ goal' = g /\ UNCHANGED <<files, crashes>>
        /\ proc' = Return("authority-branch-mismatch")
    BY DEF BlockForBranch, At, ReturnWith, files
  <1>2. Runless(g)
    BY ZenonT(60) DEF Runless, IInv, TypeOK, GoalType, Reason, QuestionIsWhole, CompleteByReview
  <1>3. proc' \in ProcType /\ StepInv'
    BY <1>1, Returned DEF Reconciling, Results
  <1> HIDE DEF g
  <1> QED
    BY <1>1, <1>2, <1>3, RunlessStep

LEMMA LeaseMissingStep ==
    ASSUME IInv, LeaseMissing
    PROVE  IInv'
  <1> DEFINE g == [goal EXCEPT !.state = "ready", !.reason = "lease-missing-after-restart", !.run = None]
  <1>1. /\ proc.at = "lease" /\ ~proc.unlink /\ goal' = g /\ UNCHANGED <<files, crashes>>
        /\ Go("tree") /\ goal.state = "running" /\ lease = None
    BY DEF LeaseMissing, At, CommitGoal, files
  <1>2. Runless(g) /\ g.run = None
    BY <1>1 DEF Runless, IInv, TypeOK, GoalType, Reason, QuestionIsWhole, CompleteByReview
  <1>3. /\ proc' \in ProcType /\ proc'.at = "tree" /\ proc'.for = proc.for /\ proc'.item = proc.item
        /\ ~proc'.unlink
    BY <1>1, Moved DEF Steps
  <1> HIDE DEF g
  <1>4. StepInv'
    BY <1>1, <1>2, <1>3
    DEF IInv, StepInv, SweptInv, ItemInv, AdmittedInv, Reconciling, Waking, Checkpointing, files
  <1> QED
    BY <1>1, <1>2, <1>3, <1>4, RunlessStep

LEMMA CommitFencedStep ==
    ASSUME IInv, CommitFenced
    PROVE  IInv'
  <1>1. /\ proc.at = "fenced" /\ ~proc.unlink /\ goal' = Fenced /\ UNCHANGED <<files, crashes>>
        /\ Go("tree") /\ lease = None /\ (proc.timedOut => goal.state = "running")
    BY DEF CommitFenced, At, CommitGoal, files, IInv, SweptInv, GoalInv
  <1>2. Runless(Fenced)
    <2>1. CASE goal.state = "running"
      BY <2>1, ZenonT(60)
      DEF Fenced, Runless, IInv, TypeOK, GoalType, Reason, QuestionIsWhole, CompleteByReview
    <2>2. CASE goal.state # "running"
      <3>1. Fenced = goal /\ goal.run = None
        BY <1>1, <2>2 DEF Fenced, IInv, GoalInv
      <3> QED
        BY <3>1 DEF Runless, IInv, TypeOK, QuestionIsWhole, CompleteByReview
    <2> QED
      BY <2>1, <2>2
  <1>3. /\ proc' \in ProcType /\ proc'.at = "tree" /\ proc'.for = proc.for /\ proc'.item = proc.item
        /\ ~proc'.unlink
    BY <1>1, Moved DEF Steps
  <1>4. StepInv'
    BY <1>1, <1>2, <1>3
    DEF IInv, StepInv, SweptInv, ItemInv, AdmittedInv, Reconciling, Waking, Checkpointing, files, Runless
  <1> QED
    BY <1>1, <1>2, <1>3, <1>4, RunlessStep

LEMMA BlockStep ==
    ASSUME IInv, BlockForDirtyTree \/ BlockForReview
    PROVE  IInv'
  <1>1. PICK reason \in {"dirty-tree-conflict", "iteration-review-required"} :
            /\ proc.at \in {"tree", "revision"} /\ ~proc.unlink
            /\ ReturnWith([goal EXCEPT !.state = "blocked", !.reason = reason, !.question = None], reason)
    BY DEF BlockForDirtyTree, BlockForReview, At
  <1> DEFINE g == [goal EXCEPT !.state = "blocked", !.reason = reason, !.question = None]
  <1>2. goal' = g /\ UNCHANGED <<files, crashes>> /\ proc' = Return(reason)
    BY <1>1 DEF ReturnWith, files
  <1>3. Runless(g)
    BY <1>1, ZenonT(60) DEF Runless, IInv, TypeOK, GoalType, Reason, SweptInv, CompleteByReview
  <1>4. proc' \in ProcType /\ StepInv'
    BY <1>1, <1>2, Returned DEF Reconciling, Results
  <1> HIDE DEF g
  <1> QED
    BY <1>2, <1>3, <1>4, RunlessStep

LEMMA RevisionTypes ==
    ASSUME IInv, NEW inputs \in SUBSET Input, NEW research \in Research \cup {None}
    PROVE  RevisionOf(inputs, research) \in Revision /\ Head \in HeadType
  BY DEF IInv, TypeOK, RevisionOf, Revision, Head, HeadType

LEMMA RevisionChangedStep ==
    ASSUME IInv, RevisionChanged
    PROVE  IInv'
  <1> DEFINE g == [goal EXCEPT !.rev = Current, !.evidence = FALSE, !.question = None,
                               !.run = None, !.state = "ready", !.reason = "revision-changed"]
  <1>1. /\ proc.at = "revision" /\ ~proc.unlink /\ goal' = g /\ UNCHANGED <<files, crashes>>
        /\ proc' = Return("reconciled") /\ lease = None
    BY DEF RevisionChanged, At, ReturnWith, files, IInv, SweptInv
  <1>2. Current \in Revision
    <2>1. goal.rev.inputs \in SUBSET Input /\ goal.rev.research \in Research \cup {None}
      BY DEF IInv, TypeOK, GoalType, Revision
    <2> QED
      BY <2>1, RevisionTypes DEF Current
  <1>3. /\ g \in GoalType /\ g.run = None /\ g.state = "ready" /\ g.evidence = FALSE
        /\ g.question = None /\ g.epoch = goal.epoch /\ g.checkpoint = goal.checkpoint
    BY <1>2 DEF IInv, TypeOK, GoalType, Reason
  <1>4. proc' \in ProcType /\ StepInv'
    BY <1>1, Returned DEF Reconciling, Results
  <1> HIDE DEF g
  <1>5. GoalInv' /\ CompleteByReview' /\ QuestionIsWhole'
    BY <1>1, <1>3 DEF IInv, GoalInv, CompleteByReview, QuestionIsWhole, files
  <1> QED
    BY <1>1, <1>3, <1>4, <1>5, GoalStep

LEMMA ReconcileStep ==
    ASSUME IInv, Reconcile
    PROVE  IInv'
  <1>1. CASE Sweep \/ BranchDiffers \/ BranchAgrees \/ NothingToReplay \/ LeaseAbsent \/ TreeClean
    BY <1>1, SweepStep, PassStep
  <1>2. CASE FenceForBranch \/ ReleaseReplayed \/ FenceIncomplete \/ FenceLost
    BY <1>2, FenceStep
  <1>3. CASE LeaseInitializing \/ LeaseHeld \/ RevisionSame
    BY <1>3, HeldStep
  <1>4. CASE ReplayCheckpoint \/ BlockForBranch \/ LeaseMissing \/ CommitFenced
    BY <1>4, ReplayStep, BlockForBranchStep, LeaseMissingStep, CommitFencedStep
  <1>5. CASE BlockForDirtyTree \/ BlockForReview \/ RevisionChanged
    BY <1>5, BlockStep, RevisionChangedStep
  <1> QED
    BY <1>1, <1>2, <1>3, <1>4, <1>5 DEF Reconcile

-----------------------------------------------------------------------------
(* wake, after its reconcile.                                              *)
LEMMA ZeroAge == 0 \in Ages
  BY PolicyAssumption DEF Ages

(* The open question is marked.                                            *)
LEMMA QuestionStep ==
    ASSUME IInv, goal.question # None, NEW emitted \in BOOLEAN,
           goal' = [goal EXCEPT !.question.emitted = emitted, !.question.age = 0],
           emitted => claim[goal.question.fingerprint] \in Ages,
           UNCHANGED <<files, crashes>>, proc' \in ProcType, StepInv'
    PROVE  IInv'
  <1> DEFINE q == [goal.question EXCEPT !.emitted = emitted, !.age = 0]
             g == [goal EXCEPT !.question = q]
  <1>1. goal \in GoalType /\ goal.question \in QuestionType
    BY DEF IInv, TypeOK, GoalType
  <1>2. q \in QuestionType /\ q # None /\ q.fingerprint = goal.question.fingerprint /\ q.emitted = emitted
    <2>1. /\ q \in QuestionType /\ q.fingerprint = goal.question.fingerprint
          /\ q.emitted = emitted
      BY <1>1, ZeroAge DEF QuestionType
    <2> QED
      BY <2>1, NullAssumption
  <1>3. goal' = g
    BY <1>1 DEF GoalType
  <1> HIDE DEF q
  <1>4. /\ g \in GoalType /\ g.question = q /\ g.rev = goal.rev /\ g.run = goal.run
        /\ g.state = goal.state /\ g.epoch = goal.epoch /\ g.checkpoint = goal.checkpoint
        /\ g.evidence = goal.evidence /\ g.learned = goal.learned
    BY <1>1, <1>2 DEF GoalType
  <1> HIDE DEF g
  <1>5. GoalInv' /\ CompleteByReview' /\ QuestionIsWhole'
    BY <1>2, <1>3, <1>4 DEF IInv, GoalInv, CompleteByReview, QuestionIsWhole, files
  <1> QED
    BY <1>3, <1>4, <1>5, GoalStep

(* The claim of a question that is not marked as emitted changes.          *)
LEMMA ClaimStep ==
    ASSUME IInv, NEW q \in Question, NEW age \in Ages \cup {None, Torn},
           claim' = [claim EXCEPT ![q] = age],
           goal.question # None /\ goal.question.emitted /\ goal.question.fingerprint = q => age \in Ages,
           UNCHANGED <<goal, lease, residues, texts, history, repo, minted, agents, crashes>>,
           proc' \in ProcType, StepInv'
    PROVE  IInv'
  <1>1. /\ claim' \in [Question -> Ages \cup {None, Torn}]
        /\ \A r \in Question : claim'[r] = IF r = q THEN age ELSE claim[r]
    BY DEF IInv, TypeOK
  <1>2. TypeOK'
    BY <1>1 DEF IInv, TypeOK, agents
  <1>3. GoalInv' /\ LeaseInv' /\ CompleteByReview'
    BY DEF IInv, GoalInv, LeaseInv, CompleteByReview
  <1>4. QuestionIsWhole'
    <2>1. goal.question # None => goal.question.fingerprint \in Question
      BY DEF IInv, TypeOK, GoalType, QuestionType
    <2> QED
      BY <1>1, <2>1 DEF IInv, QuestionIsWhole
  <1> QED
    BY <1>2, <1>3, <1>4 DEF IInv, StepInv

LEMMA OpenTypes ==
    ASSUME IInv, QuestionOpen
    PROVE  goal.question \in QuestionType /\ goal.question.fingerprint \in Question
  BY DEF IInv, TypeOK, GoalType, QuestionOpen, QuestionType

LEMMA RetryEmissionStep ==
    ASSUME IInv, RetryEmission
    PROVE  IInv'
  <1>1. /\ proc.at = "decide" /\ ~proc.unlink /\ proc.for = "wake" /\ residues = 0 /\ QuestionOpen
        /\ proc \in ProcType /\ UNCHANGED <<files, crashes>>
        /\ goal' = [goal EXCEPT !.question.emitted = FALSE, !.question.age = 0]
        /\ proc' = [proc EXCEPT !.at = "unclaim", !.item = goal.question.fingerprint]
    BY DEF RetryEmission, WakeGoesOn, EmissionAged, At, files, IInv, TypeOK, SweptInv, ItemInv, Waking
  <1>2. goal.question \in QuestionType /\ goal.question.fingerprint \in Question
    BY <1>1, OpenTypes
  <1>3. /\ proc' \in ProcType /\ proc'.at = "unclaim" /\ proc'.for = "wake" /\ ~proc'.unlink
        /\ proc'.item = goal.question.fingerprint
    BY <1>1, <1>2 DEF ProcType, Steps
  <1>4. goal'.question.emitted = FALSE
    <2>1. goal \in GoalType
      BY DEF IInv, TypeOK
    <2> QED
      BY <1>1, <1>2, <2>1 DEF GoalType, QuestionType
  <1>5. StepInv'
    BY <1>1, <1>2, <1>3, <1>4
    DEF StepInv, SweptInv, ItemInv, AdmittedInv, Reconciling, Waking, Checkpointing, files
  <1> QED
    BY <1>1, <1>3, <1>5, QuestionStep DEF QuestionOpen

LEMMA EmitQuestionStep ==
    ASSUME IInv, EmitQuestion
    PROVE  IInv'
  <1>1. /\ proc.at = "deliver" /\ ~proc.unlink /\ residues = 0 /\ QuestionOpen
        /\ goal.question.fingerprint = proc.item /\ claim[proc.item] \in Ages /\ proc.item \in Question
        /\ UNCHANGED <<files, crashes>> /\ Go("ask")
        /\ goal' = [goal EXCEPT !.question.emitted = TRUE, !.question.age = 0]
    BY DEF EmitQuestion, StillOpen, CommitGoal, At, files, IInv, SweptInv, ItemInv, Waking
  <1>2. proc' \in ProcType /\ proc'.at = "ask" /\ ~proc'.unlink /\ proc'.item = proc.item
    BY <1>1, Moved DEF Steps
  <1>3. StepInv'
    BY <1>1, <1>2
    DEF StepInv, SweptInv, ItemInv, AdmittedInv, Reconciling, Waking, Checkpointing, files
  <1> QED
    BY <1>1, <1>2, <1>3, QuestionStep DEF QuestionOpen

LEMMA ClaimsStep ==
    ASSUME IInv, CreateClaim \/ WriteClaim \/ DropAgedClaim \/ Unclaim \/ WithdrawClaim
    PROVE  IInv'
  <1>1. CASE CreateClaim
    <2>1. /\ proc.at = "decide" /\ ~proc.unlink /\ residues = 0 /\ QuestionOpen /\ ~goal.question.emitted
          /\ proc \in ProcType
          /\ UNCHANGED <<goal, lease, residues, texts, history, repo, minted, agents, crashes>>
          /\ claim' = [claim EXCEPT ![goal.question.fingerprint] = Torn]
          /\ proc' = [proc EXCEPT !.at = "claim", !.item = goal.question.fingerprint]
      BY <1>1 DEF CreateClaim, WakeGoesOn, Claimable, At, IInv, TypeOK, SweptInv, Waking
    <2>2. goal.question.fingerprint \in Question
      BY <2>1, OpenTypes
    <2>3. /\ proc' \in ProcType /\ proc'.at = "claim" /\ ~proc'.unlink
          /\ proc'.item = goal.question.fingerprint
      BY <2>1, <2>2 DEF ProcType, Steps
    <2>4. StepInv'
      BY <2>1, <2>2, <2>3
      DEF StepInv, SweptInv, ItemInv, AdmittedInv, Reconciling, Waking, Checkpointing
    <2> QED
      BY <2>1, <2>2, <2>3, <2>4, ClaimStep
  <1>2. CASE WriteClaim
    <2>1. /\ proc.at = "claim" /\ ~proc.unlink /\ proc.item \in Question /\ proc \in ProcType
          /\ UNCHANGED <<goal, lease, residues, texts, history, repo, minted, agents, crashes>>
          /\ claim' = [claim EXCEPT ![proc.item] = 0]
          /\ proc' = [proc EXCEPT !.at = "sweep", !.for = "emit"]
      BY <1>2 DEF WriteClaim, At, IInv, TypeOK, ItemInv
    <2>2. /\ proc' \in ProcType /\ proc'.at = "sweep" /\ proc'.for = "emit" /\ ~proc'.unlink
          /\ proc'.item = proc.item
      BY <2>1 DEF ProcType, Steps
    <2>3. claim'[proc.item] \in Ages
      BY <2>1, ZeroAge DEF IInv, TypeOK
    <2>4. StepInv'
      BY <2>1, <2>2, <2>3
      DEF StepInv, SweptInv, ItemInv, AdmittedInv, Reconciling, Waking, Checkpointing
    <2> QED
      BY <2>1, <2>2, <2>4, ClaimStep, ZeroAge
  <1>3. CASE DropAgedClaim
    <2>1. /\ proc.at = "decide" /\ ~proc.unlink /\ proc.for = "wake" /\ QuestionOpen
          /\ ~goal.question.emitted /\ proc \in ProcType
          /\ UNCHANGED <<goal, lease, residues, texts, history, repo, minted, agents, crashes>>
          /\ claim' = [claim EXCEPT ![goal.question.fingerprint] = None]
          /\ proc' = [proc EXCEPT !.at = "sweep", !.result = None]
      BY <1>3 DEF DropAgedClaim, WakeGoesOn, ClaimAged, Claimable, At, IInv, TypeOK, ItemInv
    <2>2. proc' \in ProcType /\ proc'.at = "sweep" /\ proc'.for = "wake" /\ ~proc'.unlink
      BY <2>1 DEF ProcType, Steps
    <2>3. StepInv'
      BY <2>1, <2>2 DEF StepInv, SweptInv, ItemInv, AdmittedInv, Reconciling, Waking, Checkpointing
    <2> QED
      BY <2>1, <2>2, <2>3, ClaimStep, OpenTypes
  <1>4. CASE Unclaim
    <2>1. /\ proc.at = "unclaim" /\ ~proc.unlink /\ proc.for = "wake" /\ proc.item \in Question
          /\ (goal.question # None => ~goal.question.emitted) /\ proc \in ProcType
          /\ UNCHANGED <<goal, lease, residues, texts, history, repo, minted, agents, crashes>>
          /\ claim' = [claim EXCEPT ![proc.item] = None]
          /\ proc' = [proc EXCEPT !.at = "sweep", !.item = None, !.result = None]
      BY <1>4 DEF Unclaim, At, IInv, TypeOK, ItemInv
    <2>2. proc' \in ProcType /\ proc'.at = "sweep" /\ proc'.for = "wake" /\ ~proc'.unlink
      BY <2>1 DEF ProcType, Steps
    <2>3. StepInv'
      BY <2>1, <2>2 DEF StepInv, SweptInv, ItemInv, AdmittedInv, Reconciling, Waking, Checkpointing
    <2> QED
      BY <2>1, <2>2, <2>3, ClaimStep
  <1>5. CASE WithdrawClaim
    <2>1. /\ proc.item \in Question /\ ~StillOpen /\ Exit
          /\ UNCHANGED <<goal, lease, residues, texts, history, repo, minted, agents, crashes>>
          /\ claim' = [claim EXCEPT ![proc.item] = None]
      BY <1>5 DEF WithdrawClaim, At, IInv, ItemInv
    <2>2. goal.question # None => goal.question.fingerprint # proc.item
      BY <2>1 DEF StillOpen, QuestionOpen, IInv, QuestionIsWhole
    <2> QED
      BY <2>1, <2>2, ClaimStep, Exited
  <1> QED
    BY <1>1, <1>2, <1>3, <1>4, <1>5

LEMMA NoteRetriesStep ==
    ASSUME IInv, NoteRetriesExhausted
    PROVE  IInv'
  <1> DEFINE g == [goal EXCEPT !.reason = "retry-budget-exhausted"]
  <1>1. goal.state = "failed" /\ goal' = g /\ UNCHANGED <<files, crashes>> /\ Exit
    BY DEF NoteRetriesExhausted, RetriesExhausted, files
  <1>2. Runless(g)
    BY <1>1 DEF Runless, IInv, TypeOK, GoalType, Reason, GoalInv, CompleteByReview, QuestionIsWhole
  <1> HIDE DEF g
  <1> QED
    BY <1>1, <1>2, Exited, RunlessStep

LEMMA NoopStep ==
    ASSUME IInv, WakeNoop \/ AbortCheckpoint
    PROVE  IInv'
  <1>1. Exit /\ UNCHANGED <<goal, files, crashes>>
    BY DEF WakeNoop, AbortCheckpoint, Stop, files
  <1> QED
    BY <1>1, Exited, ProcStep DEF IInv, TypeOK

(* A lease is created, owned, and its run started.                         *)
LEMMA LeaseStep ==
    ASSUME IInv, lease' \in LeaseType, LeaseInv', UNCHANGED <<goal, residues, claim, texts, history, repo,
               owners, heard, crashes>>,
           minted' \in 0..MaxTokens, children' \subseteq Token \X Task, GoalInv',
           proc' \in ProcType, StepInv'
    PROVE  IInv' /\ lease' # None
  <1>1. TypeOK'
    BY DEF IInv, TypeOK
  <1>2. CompleteByReview' /\ QuestionIsWhole'
    BY DEF IInv, CompleteByReview, QuestionIsWhole
  <1>3. lease' # None
    BY NullAssumption
  <1> QED
    BY <1>1, <1>2, <1>3 DEF IInv, StepInv

LEMMA CreateLeaseStep ==
    ASSUME IInv, CreateLease
    PROVE  IInv' /\ lease' # None
  <1> DEFINE l == [age |-> 0, owner |-> None, renewal |-> None, journal |-> None]
  <1>1. /\ proc.at = "decide" /\ ~proc.unlink /\ residues = 0 /\ Admissible /\ minted < MaxTokens
        /\ lease' = l /\ Go("own") /\ goal \in GoalType
        /\ UNCHANGED <<goal, residues, claim, texts, history, repo, minted, agents, crashes>>
    BY DEF CreateLease, WakeGoesOn, At, IInv, TypeOK, SweptInv, Waking
  <1>2. /\ goal.state \in {"ready", "waiting", "failed"} /\ goal.run = None
        /\ goal.state = "failed" => goal.retries < MaxRetries
    BY <1>1 DEF Admissible, IInv, GoalInv
  <1>3. /\ l \in LeaseType /\ l # None /\ l.owner = None /\ l.renewal = None /\ l.journal = None
    <2>1. l \in LeaseType /\ l.owner = None /\ l.renewal = None /\ l.journal = None
      BY ZeroAge DEF LeaseType
    <2> QED
      BY <2>1, NullAssumption
  <1>4. proc' \in ProcType /\ proc'.at = "own" /\ ~proc'.unlink
    BY <1>1, Moved DEF Steps
  <1> HIDE DEF l
  <1>5. StepInv'
    BY <1>1, <1>2, <1>3, <1>4
    DEF StepInv, SweptInv, ItemInv, AdmittedInv, Reconciling, Waking, Checkpointing
  <1>6. LeaseInv' /\ GoalInv'
    BY <1>1, <1>3 DEF IInv, LeaseInv, GoalInv
  <1> QED
    BY <1>1, <1>3, <1>4, <1>5, <1>6, LeaseStep DEF IInv, TypeOK, agents

LEMMA WriteOwnerStep ==
    ASSUME IInv, WriteOwner
    PROVE  IInv' /\ lease' # None
  <1> DEFINE t == minted + 1
             owner == [token |-> t, epoch |-> goal.epoch + 1, left |-> Ttl, head |-> Head, rev |-> goal.rev]
             l == [lease EXCEPT !.owner = owner]
  <1>1. /\ proc.at = "own" /\ ~proc.unlink /\ residues = 0 /\ goal.run = None
        /\ goal.state \in {"ready", "waiting", "failed"}
        /\ goal.state = "failed" => goal.retries < MaxRetries
        /\ minted < MaxTokens /\ lease # None /\ lease.renewal = None /\ lease.journal = None
        /\ goal \in GoalType /\ proc \in ProcType /\ minted \in Nat
    BY BoundAssumption DEF WriteOwner, At, IInv, TypeOK, SweptInv, AdmittedInv, Waking
  <1>2. /\ minted' = t /\ children' = {} /\ lease' = l /\ proc' = [proc EXCEPT !.at = "start", !.token = t]
        /\ UNCHANGED <<goal, residues, claim, texts, history, repo, owners, heard, crashes>>
    BY DEF WriteOwner
  <1>3. t \in Token /\ t \in 0..MaxTokens /\ goal.epoch \in Nat /\ goal.epoch <= minted
    BY <1>1, BoundAssumption DEF Token, GoalType, IInv, GoalInv
  <1>4. owner \in OwnerType
    <2>1. Head \in HeadType /\ goal.rev \in Revision
      BY <1>1 DEF IInv, TypeOK, GoalType, Head, HeadType
    <2>2. goal.epoch + 1 \in 1..MaxTokens
      BY <1>1, <1>3, BoundAssumption
    <2>3. Ttl \in 0..Ttl
      BY PolicyAssumption
    <2> QED
      BY <1>3, <2>1, <2>2, <2>3 DEF OwnerType
  <1>5. owner # None /\ owner.token = t /\ owner.rev = goal.rev
    BY <1>4, NullAssumption
  <1> HIDE DEF owner
  <1>6. /\ l \in LeaseType /\ l # None /\ l.owner = owner /\ l.renewal = None /\ l.journal = None
    <2>1. /\ l \in LeaseType /\ l.owner = owner /\ l.renewal = None /\ l.journal = None
      BY <1>1, <1>4 DEF IInv, TypeOK, LeaseType
    <2> QED
      BY <2>1, NullAssumption
  <1>7. proc' \in ProcType /\ proc'.at = "start" /\ proc'.token = t /\ ~proc'.unlink
    BY <1>1, <1>2, <1>3 DEF ProcType, Steps
  <1>8. goal.epoch < t /\ goal.checkpoint # t /\ (goal.checkpoint # None => goal.checkpoint <= t)
    <2>1. goal.checkpoint # None => goal.checkpoint \in Nat
      BY <1>1 DEF GoalType, Token
    <2> QED
      BY <1>1, <1>3, <2>1, NullAssumption DEF IInv, GoalInv
  <1> HIDE DEF l, t
  <1>9. StepInv'
    BY <1>1, <1>2, <1>3, <1>6, <1>7, <1>8
    DEF StepInv, SweptInv, ItemInv, AdmittedInv, Reconciling, Waking, Checkpointing
  <1>10. LeaseInv' /\ GoalInv'
    <2>1. goal.epoch <= t
      BY <1>3, <1>8 DEF Token
    <2> QED
      BY <1>1, <1>2, <1>5, <1>6, <1>8, <2>1 DEF IInv, LeaseInv, GoalInv
  <1> QED
    BY <1>2, <1>3, <1>6, <1>7, <1>9, <1>10, LeaseStep

LEMMA StartRunStep ==
    ASSUME IInv, StartRun
    PROVE  IInv'
  <1> DEFINE claims == [k \in Task |-> "none"]
             run == [token |-> proc.token, left |-> MaxRuntime, claims |-> claims]
             retries == IF goal.state = "failed" THEN goal.retries + 1 ELSE goal.retries
             g == [goal EXCEPT !.epoch = @ + 1, !.state = "running", !.reason = None, !.wake = proc.wake,
                               !.retries = retries, !.run = run]
  <1>1. /\ proc.at = "start" /\ ~proc.unlink /\ residues = 0 /\ proc.token = minted /\ minted \in Token
        /\ goal.state \in {"ready", "waiting", "failed"}
        /\ goal.state = "failed" => goal.retries < MaxRetries
        /\ goal.epoch < minted /\ goal.checkpoint # minted
        /\ goal \in GoalType /\ proc \in ProcType
    BY DEF StartRun, At, IInv, TypeOK, SweptInv, AdmittedInv, Waking
  <1>2. /\ goal' = g /\ Go("grant") /\ history' = [history EXCEPT !.started = @ \cup {goal.rev}]
        /\ UNCHANGED <<lease, residues, claim, texts, repo, minted, agents, crashes>>
    BY DEF StartRun
  <1>3. run \in RunType
    <2>1. MaxRuntime \in 0..MaxRuntime
      BY PolicyAssumption
    <2> QED
      BY <1>1, <2>1 DEF RunType
  <1>4. run # None /\ run.token = minted
    BY <1>1, <1>3, NullAssumption
  <1>5. retries \in 0..MaxRetries
    BY <1>1, PolicyAssumption DEF GoalType
  <1>6. goal.epoch + 1 \in 0..MaxTokens /\ goal.epoch + 1 <= minted
    BY <1>1, BoundAssumption DEF GoalType, Token
  <1> HIDE DEF run, retries
  <1>7. /\ g \in GoalType /\ g.run = run /\ g.state = "running" /\ g.rev = goal.rev
        /\ g.epoch = goal.epoch + 1 /\ g.checkpoint = goal.checkpoint /\ g.evidence = goal.evidence
        /\ g.question = goal.question /\ g.learned = goal.learned
    BY <1>1, <1>3, <1>5, <1>6, ZenonT(60) DEF GoalType, ProcType
  <1>8. proc' \in ProcType /\ proc'.at = "grant" /\ proc'.token = minted /\ ~proc'.unlink
    BY <1>1, <1>2, Moved DEF Steps
  <1>9. /\ history' \in [started : SUBSET Revision, recorded : SUBSET Token]
        /\ history'.started = history.started \cup {goal.rev}
    BY <1>1, <1>2 DEF IInv, TypeOK, GoalType
  <1>10. goal.question = None /\ ~goal.evidence
    BY <1>1 DEF IInv, QuestionIsWhole, CompleteByReview
  <1> HIDE DEF g
  <1>11. TypeOK'
    BY <1>2, <1>7, <1>8, <1>9 DEF IInv, TypeOK, agents
  <1>12. GoalInv' /\ LeaseInv'
    BY <1>1, <1>2, <1>4, <1>6, <1>7, <1>9 DEF IInv, GoalInv, LeaseInv
  <1>13. SweptInv' /\ ItemInv' /\ AdmittedInv'
    BY <1>1, <1>2, <1>8 DEF SweptInv, ItemInv, AdmittedInv, Reconciling, Waking, Checkpointing
  <1>14. CompleteByReview' /\ QuestionIsWhole'
    BY <1>2, <1>7, <1>10 DEF CompleteByReview, QuestionIsWhole
  <1> QED
    BY <1>11, <1>12, <1>13, <1>14 DEF IInv

(* Something reaches an agent or the operator.                             *)
LEMMA HeardStep ==
    ASSUME IInv, Ask \/ Grant \/ Tell
    PROVE  IInv'
  <1>1. /\ UNCHANGED <<goal, lease, residues, claim, texts, history, repo, minted, crashes>> /\ Exit
    BY DEF Ask, Grant, Tell
  <1>2. proc' \in ProcType /\ StepInv'
    BY <1>1, Exited
  <1>3. /\ owners' \subseteq Token /\ children' \subseteq Token \X Task
        /\ heard' \in [Question -> Ages \cup {None}]
    <2>1. CASE Ask
      BY <2>1, ZeroAge DEF Ask, At, IInv, TypeOK, ItemInv
    <2>2. CASE Grant
      BY <2>2 DEF Grant, At, IInv, TypeOK, ItemInv
    <2>3. CASE Tell
      BY <2>3 DEF Tell, At, IInv, TypeOK, ItemInv
    <2> QED
      BY <2>1, <2>2, <2>3
  <1>4. TypeOK'
    BY <1>1, <1>2, <1>3 DEF IInv, TypeOK
  <1>5. GoalInv' /\ LeaseInv' /\ CompleteByReview' /\ QuestionIsWhole'
    BY <1>1 DEF IInv, GoalInv, LeaseInv, CompleteByReview, QuestionIsWhole
  <1> QED
    BY <1>2, <1>4, <1>5 DEF IInv, StepInv

LEMMA WakeStep ==
    ASSUME IInv, Wake
    PROVE  IInv'
  <1>1. CASE RetryEmission \/ EmitQuestion \/ NoteRetriesExhausted \/ WakeNoop
    BY <1>1, RetryEmissionStep, EmitQuestionStep, NoteRetriesStep, NoopStep
  <1>2. CASE CreateClaim \/ WriteClaim \/ DropAgedClaim \/ Unclaim \/ WithdrawClaim
    BY <1>2, ClaimsStep
  <1>3. CASE CreateLease \/ WriteOwner \/ StartRun
    BY <1>3, CreateLeaseStep, WriteOwnerStep, StartRunStep
  <1>4. CASE Ask \/ Grant
    BY <1>4, HeardStep
  <1> QED
    BY <1>1, <1>2, <1>3, <1>4 DEF Wake

-----------------------------------------------------------------------------
(* The agent's commands.                                                   *)
LEMMA Admitted ==
    ASSUME IInv, NEW token, AssertLease(token)
    PROVE  /\ lease \in LeaseType /\ lease # None /\ lease.owner \in OwnerType /\ lease.owner # None
           /\ token = minted /\ token \in Token /\ lease.owner.token = token
           /\ lease.owner.epoch = goal.epoch /\ lease.owner.epoch \in 1..MaxTokens
           /\ goal \in GoalType /\ goal.run \in RunType /\ goal.run # None /\ goal.state = "running"
           /\ goal.run.token = token /\ goal.question = None /\ ~goal.evidence
  <1>1. /\ lease \in LeaseType /\ lease # None /\ lease.owner \in OwnerType /\ lease.owner # None
        /\ lease.owner.token = token /\ lease.owner.epoch = goal.epoch
        /\ goal \in GoalType /\ goal.run # None
    BY DEF AssertLease, IInv, TypeOK, LeaseType
  <1>2. goal.run \in RunType /\ goal.state = "running" /\ goal.run.token = minted
    BY <1>1 DEF GoalType, IInv, GoalInv
  <1>3. token = minted /\ token \in Token /\ lease.owner.epoch \in 1..MaxTokens
    BY <1>1 DEF OwnerType, IInv, LeaseInv
  <1>4. goal.question = None /\ ~goal.evidence
    BY <1>2 DEF IInv, QuestionIsWhole, CompleteByReview
  <1> QED
    BY <1>1, <1>2, <1>3, <1>4

LEMMA RenewStep ==
    ASSUME IInv, NEW token \in owners, Renew(token)
    PROVE  IInv' /\ lease' # None
  <1> DEFINE r == [token |-> token, epoch |-> goal.epoch, left |-> Ttl]
             l == [lease EXCEPT !.renewal = r]
  <1>1. /\ AssertLease(token) /\ lease' = l /\ proc.at = "idle" /\ ~proc.unlink
        /\ UNCHANGED <<goal, residues, claim, texts, history, repo, proc, minted, agents, crashes>>
    BY DEF Renew, At
  <1>2. /\ lease \in LeaseType /\ lease # None /\ token \in Token /\ lease.owner.token = token
        /\ lease.owner.epoch = goal.epoch /\ lease.owner.epoch \in 1..MaxTokens /\ lease.owner # None
    BY <1>1, Admitted
  <1>3. r \in RenewalType /\ r.token = lease.owner.token /\ r.epoch = lease.owner.epoch
    BY <1>2, PolicyAssumption DEF RenewalType
  <1> HIDE DEF r
  <1>4. /\ l \in LeaseType /\ l.renewal = r /\ l.owner = lease.owner /\ l.journal = lease.journal
    BY <1>2, <1>3 DEF LeaseType
  <1> HIDE DEF l
  <1>5. LeaseInv' /\ GoalInv'
    BY <1>1, <1>2, <1>3, <1>4 DEF IInv, LeaseInv, GoalInv
  <1>6. StepInv'
    BY <1>1 DEF StepInv, SweptInv, ItemInv, AdmittedInv, Reconciling, Waking, Checkpointing, IInv
  <1> QED
    BY <1>1, <1>4, <1>5, <1>6, LeaseStep DEF IInv, TypeOK, agents

(* A claim of the run changes.                                             *)
LEMMA ChildStep ==
    ASSUME IInv, NEW token, AssertLease(token), NEW k \in Task,
           NEW outcome \in {"active", "completed", "cancelled"},
           goal' = [goal EXCEPT !.run.claims[k] = outcome],
           UNCHANGED <<files, crashes>>, proc' \in ProcType, StepInv'
    PROVE  IInv'
  <1> DEFINE run == [goal.run EXCEPT !.claims[k] = outcome]
             g == [goal EXCEPT !.run = run]
  <1>1. /\ goal \in GoalType /\ goal.run \in RunType /\ goal.run.token = token /\ goal.run # None
    BY Admitted
  <1>2. run \in RunType /\ run.token = goal.run.token
    BY <1>1 DEF RunType
  <1>3. goal' = g
    BY <1>1 DEF GoalType
  <1> HIDE DEF run
  <1>4. run # None
    BY <1>2, NullAssumption
  <1>5. /\ g \in GoalType /\ g.run = run /\ g.state = goal.state /\ g.rev = goal.rev
        /\ g.epoch = goal.epoch /\ g.checkpoint = goal.checkpoint /\ g.evidence = goal.evidence
        /\ g.question = goal.question /\ g.learned = goal.learned
    BY <1>1, <1>2 DEF GoalType
  <1> HIDE DEF g
  <1>6. GoalInv' /\ CompleteByReview' /\ QuestionIsWhole'
    BY <1>1, <1>2, <1>3, <1>5 DEF IInv, GoalInv, CompleteByReview, QuestionIsWhole, files
  <1> QED
    BY <1>3, <1>5, <1>6, GoalStep

LEMMA ClaimChildStep ==
    ASSUME IInv, NEW token \in owners, NEW k \in Task, ClaimChild(token, k)
    PROVE  IInv'
  <1>1. /\ AssertLease(token) /\ proc' = [Idle EXCEPT !.at = "tell", !.token = token, !.item = k]
        /\ goal' = [goal EXCEPT !.run.claims[k] = "active"] /\ UNCHANGED <<files, crashes>>
    BY DEF ClaimChild, files
  <1>2. token \in Token
    BY <1>1, Admitted
  <1>3. /\ proc' \in ProcType /\ proc'.at = "tell" /\ proc'.token = token /\ proc'.item = k
        /\ ~proc'.unlink
    BY <1>1, <1>2 DEF Idle, ProcType, Steps
  <1>4. StepInv'
    BY <1>2, <1>3 DEF StepInv, SweptInv, ItemInv, AdmittedInv, Reconciling, Waking, Checkpointing
  <1> QED
    BY <1>1, <1>3, <1>4, ChildStep

LEMMA SettleChildStep ==
    ASSUME IInv, NEW token \in owners, NEW k \in Task, NEW outcome \in {"completed", "cancelled"},
           SettleChild(token, k, outcome)
    PROVE  IInv'
  <1>1. /\ AssertLease(token) /\ proc' = proc /\ proc.at = "idle" /\ ~proc.unlink
        /\ goal' = [goal EXCEPT !.run.claims[k] = outcome] /\ UNCHANGED <<files, crashes>>
    BY DEF SettleChild, files, At
  <1>2. StepInv' /\ proc' \in ProcType
    BY <1>1 DEF StepInv, SweptInv, ItemInv, AdmittedInv, Reconciling, Waking, Checkpointing, IInv, TypeOK
  <1> QED
    BY <1>1, <1>2, ChildStep

LEMMA RecordIterationStep ==
    ASSUME IInv, NEW token \in owners, RecordIteration(token)
    PROVE  IInv'
  <1> DEFINE g == [goal EXCEPT !.learned = @ \cup {goal.rev}]
  <1>1. /\ AssertLease(token) /\ proc' = proc /\ proc.at = "idle" /\ ~proc.unlink
        /\ goal' = g /\ UNCHANGED <<files, crashes>>
    BY DEF RecordIteration, files, At
  <1>2. goal \in GoalType /\ ~goal.evidence /\ goal.question = None /\ goal.state = "running"
    BY <1>1, Admitted
  <1>3. /\ g \in GoalType /\ g.run = goal.run /\ g.state = goal.state /\ g.rev = goal.rev
        /\ g.epoch = goal.epoch /\ g.checkpoint = goal.checkpoint /\ g.evidence = goal.evidence
        /\ g.question = goal.question
    BY <1>2 DEF GoalType
  <1> HIDE DEF g
  <1>4. GoalInv' /\ CompleteByReview' /\ QuestionIsWhole'
    BY <1>1, <1>2, <1>3 DEF IInv, GoalInv, CompleteByReview, QuestionIsWhole, files
  <1>5. StepInv' /\ proc' \in ProcType
    BY <1>1 DEF StepInv, SweptInv, ItemInv, AdmittedInv, Reconciling, Waking, Checkpointing, IInv, TypeOK
  <1> QED
    BY <1>1, <1>3, <1>4, <1>5, GoalStep

(* What each ending consists of.                                           *)
LEMMA EndingTypes ==
    ASSUME NEW end \in Endings
    PROVE  /\ end.state \in {"waiting", "failed", "blocked", "complete"}
           /\ end.state = "waiting" => end.wait \in 1..MaxWait
           /\ end.state = "failed" => end.failure \in Failure
           /\ end.state = "blocked" => end.question \in Question
  BY DEF Endings

LEMMA StartCheckpointStep ==
    ASSUME IInv, NEW token \in owners, NEW end \in Endings, StartCheckpoint(token, end)
    PROVE  IInv'
  <1>1. PICK step \in {"text", "recheck"} :
            /\ AssertLease(token) /\ proc' = [Idle EXCEPT !.at = step, !.token = token, !.item = end]
            /\ UNCHANGED <<goal, files, crashes>>
            /\ step = "text" <=> NewQuestion(end)
    BY DEF StartCheckpoint, files
  <1>2. /\ token \in Token /\ token = minted /\ goal.run # None /\ lease # None /\ lease.owner # None
        /\ goal.question = None
    BY <1>1, Admitted
  <1>3. /\ step = "text" => end.state = "blocked"
        /\ step = "recheck" => end.state # "blocked"
    BY <1>1, <1>2 DEF NewQuestion
  <1>4. /\ proc' \in ProcType /\ proc'.at = step /\ proc'.token = token /\ proc'.item = end
        /\ ~proc'.unlink
    BY <1>1, <1>2 DEF Idle, ProcType, Steps
  <1>5. StepInv'
    BY <1>1, <1>2, <1>3, <1>4
    DEF StepInv, SweptInv, ItemInv, AdmittedInv, Reconciling, Waking, Checkpointing, files
  <1> QED
    BY <1>1, <1>4, <1>5, ProcStep DEF IInv, TypeOK

LEMMA WriteQuestionStep ==
    ASSUME IInv, WriteQuestion
    PROVE  IInv'
  <1>1. /\ proc.at = "text" /\ ~proc.unlink /\ proc.item \in Endings /\ proc.item.state = "blocked"
        /\ proc.token \in Token /\ proc.token = minted
        /\ goal.run # None /\ lease # None /\ lease.owner # None
    BY DEF WriteQuestion, At, IInv, ItemInv, AdmittedInv, Checkpointing
  <1>2. /\ texts' = texts \cup {proc.item.question} /\ Go("recheck")
        /\ UNCHANGED <<goal, lease, residues, claim, history, repo, minted, agents, crashes>>
    BY DEF WriteQuestion
  <1>3. proc.item.question \in Question
    BY <1>1, EndingTypes
  <1>4. /\ proc' \in ProcType /\ proc'.at = "recheck" /\ proc'.token = proc.token
        /\ proc'.item = proc.item /\ ~proc'.unlink
    BY <1>1, <1>2, Moved DEF Steps
  <1>5. TypeOK'
    BY <1>2, <1>3, <1>4 DEF IInv, TypeOK, agents
  <1>6. GoalInv' /\ LeaseInv' /\ CompleteByReview' /\ QuestionIsWhole'
    BY <1>2 DEF IInv, GoalInv, LeaseInv, CompleteByReview, QuestionIsWhole
  <1>7. SweptInv' /\ ItemInv' /\ AdmittedInv'
    BY <1>1, <1>2, <1>4 DEF SweptInv, ItemInv, AdmittedInv, Reconciling, Waking, Checkpointing
  <1> QED
    BY <1>5, <1>6, <1>7 DEF IInv

LEMMA WriteCheckpointJournalStep ==
    ASSUME IInv, WriteCheckpointJournal
    PROVE  IInv' /\ lease' # None
  <1> DEFINE j == [id |-> proc.token, token |-> proc.token, epoch |-> lease.owner.epoch]
             l == [lease EXCEPT !.journal = j]
  <1>1. /\ proc.at = "recheck" /\ ~proc.unlink /\ proc.item \in Endings
        /\ proc.token \in Token /\ proc.token = minted /\ AssertLease(proc.token)
        /\ proc.item.state = "blocked" => proc.item.question \in texts
    BY DEF WriteCheckpointJournal, At, IInv, ItemInv, AdmittedInv, Checkpointing
  <1>2. /\ lease' = l /\ Go("active")
        /\ UNCHANGED <<goal, residues, claim, texts, history, repo, minted, agents, crashes>>
    BY DEF WriteCheckpointJournal
  <1>3. /\ lease \in LeaseType /\ lease # None /\ lease.owner # None /\ goal.run # None
        /\ lease.owner.epoch \in 1..MaxTokens
    BY <1>1, Admitted
  <1>4. j \in JournalType /\ j.id = minted
    BY <1>1, <1>3 DEF JournalType
  <1> HIDE DEF j
  <1>5. /\ l \in LeaseType /\ l.journal = j /\ l.owner = lease.owner /\ l.renewal = lease.renewal
    BY <1>3, <1>4 DEF LeaseType
  <1>6. l # None
    BY <1>5, NullAssumption
  <1>7. /\ proc' \in ProcType /\ proc'.at = "active" /\ proc'.token = proc.token
        /\ proc'.item = proc.item /\ ~proc'.unlink
    BY <1>1, <1>2, Moved DEF Steps
  <1> HIDE DEF l
  <1>8. LeaseInv' /\ GoalInv'
    BY <1>2, <1>3, <1>4, <1>5 DEF IInv, LeaseInv, GoalInv
  <1>9. StepInv'
    BY <1>1, <1>2, <1>3, <1>5, <1>6, <1>7
    DEF StepInv, SweptInv, ItemInv, AdmittedInv, Reconciling, Waking, Checkpointing
  <1> QED
    BY <1>2, <1>5, <1>7, <1>8, <1>9, LeaseStep DEF IInv, TypeOK, agents

(* What every ending makes of a running goal.                              *)
EndsWell(g, end) ==
    /\ g \in GoalType /\ g.run = None /\ g.rev = goal.rev /\ g.epoch = goal.epoch
    /\ g.checkpoint = minted
    /\ g.evidence => g.state = "complete" /\ goal.rev \in g.learned
    /\ g.state = "complete" => g.evidence
    /\ g.question # None => /\ end.state = "blocked" /\ g.state = "blocked"
                            /\ g.question.fingerprint = end.question /\ ~g.question.emitted
Quiet(g, state) ==
    /\ g \in GoalType /\ g.run = None /\ g.rev = goal.rev /\ g.epoch = goal.epoch
    /\ g.checkpoint = minted /\ g.state = state /\ ~g.evidence /\ g.question = None
    /\ g.repairs = goal.repairs

LEMMA EndedStep ==
    ASSUME IInv, proc.at = "active", ~proc.unlink
    PROVE  EndsWell(Ended(proc.item), proc.item)
  <1>0. /\ proc.item \in Endings /\ proc.token = minted /\ minted \in Token
        /\ goal \in GoalType /\ goal.run # None
    BY DEF IInv, TypeOK, ItemInv, AdmittedInv, Checkpointing
  <1>1. PICK end \in Endings : end = proc.item
    BY <1>0
  <1>2. /\ goal.state = "running" /\ ~goal.evidence /\ goal.question = None
    BY <1>0 DEF IInv, GoalInv, QuestionIsWhole, CompleteByReview
  <1>3. /\ end.state \in {"waiting", "failed", "blocked", "complete"}
        /\ end.state = "waiting" => end.wait \in 1..MaxWait
        /\ end.state = "failed" => end.failure \in Failure
        /\ end.state = "blocked" => end.question \in Question
    BY <1>1, EndingTypes
  <1>4. ASSUME NEW state \in {"waiting", "failed", "blocked", "complete"},
               NEW reason \in {None, "unchanged-failure", "repair-budget-exhausted"}
        PROVE  Quiet(EndedAs(state, reason), state)
    <2>1. /\ reason \in Reason \cup {None} /\ 0 \in 0..MaxWait
          /\ state \in {"ready", "running", "waiting", "blocked", "failed", "complete"}
          /\ None \in RunType \cup {None} /\ None \in QuestionType \cup {None}
          /\ minted \in Token \cup {None}
      BY <1>0, PolicyAssumption DEF Reason
    <2>2. PICK e : e = [goal EXCEPT !.state = state, !.reason = reason, !.run = None, !.question = None,
                                    !.waitLeft = 0, !.checkpoint = minted]
      OBVIOUS
    <2>3. e \in GoalType
      <3>1. PICK d : d = [goal EXCEPT !.state = state, !.reason = reason, !.run = None]
        OBVIOUS
      <3>2. d \in GoalType
        BY <1>0, <2>1, <3>1, ZenonT(60) DEF GoalType
      <3>3. e = [d EXCEPT !.question = None, !.waitLeft = 0, !.checkpoint = minted]
        BY <2>2, <3>1
      <3> QED
        BY <2>1, <3>2, <3>3 DEF GoalType
    <2>4. /\ e.run = None /\ e.rev = goal.rev /\ e.epoch = goal.epoch /\ e.checkpoint = minted
          /\ e.state = state /\ e.question = None /\ e.repairs = goal.repairs
          /\ e.evidence = goal.evidence
      BY <1>0, <2>2 DEF GoalType
    <2>5. EndedAs(state, reason) = e
      BY <1>0, <2>2 DEF EndedAs
    <2> QED
      BY <1>2, <2>3, <2>4, <2>5 DEF Quiet
  <1>5. CASE end.state = "waiting"
    <2>1. Ended(end) = [EndedAs("waiting", None) EXCEPT !.waitLeft = end.wait]
      BY <1>5 DEF Ended
    <2>2. end.wait \in 0..MaxWait
      BY <1>3, <1>5, PolicyAssumption
    <2>3. PICK e : e = EndedAs("waiting", None) /\ Quiet(e, "waiting")
      BY <1>4
    <2>4. EndsWell([e EXCEPT !.waitLeft = end.wait], end)
      BY <2>2, <2>3 DEF EndsWell, Quiet, GoalType
    <2> QED
      BY <1>1, <2>1, <2>3, <2>4
  <1>6. CASE end.state = "complete"
    <2>1. Ended(end) = [EndedAs("complete", None) EXCEPT !.evidence = TRUE, !.learned = @ \cup {goal.rev}]
      BY <1>6 DEF Ended
    <2>2. goal.rev \in Revision
      BY <1>0 DEF GoalType
    <2>3. PICK e : e = EndedAs("complete", None) /\ Quiet(e, "complete")
      BY <1>4
    <2>4. EndsWell([e EXCEPT !.evidence = TRUE, !.learned = @ \cup {goal.rev}], end)
      BY <2>2, <2>3, ZenonT(60) DEF EndsWell, Quiet, GoalType
    <2> QED
      BY <1>1, <2>1, <2>3, <2>4
  <1>7. CASE end.state = "blocked"
    <2>1. PICK q : q = [fingerprint |-> end.question, emitted |-> FALSE, age |-> 0]
      OBVIOUS
    <2>2. Ended(end) = [EndedAs("blocked", None) EXCEPT !.question = q]
      BY <1>2, <1>7, <2>1 DEF Ended, NewQuestion
    <2>3. q \in QuestionType /\ q.fingerprint = end.question /\ ~q.emitted
      BY <1>3, <1>7, <2>1, ZeroAge DEF QuestionType
    <2>4. PICK e : e = EndedAs("blocked", None) /\ Quiet(e, "blocked")
      BY <1>4
    <2>5. EndsWell([e EXCEPT !.question = q], end)
      BY <1>7, <2>3, <2>4 DEF EndsWell, Quiet, GoalType
    <2> QED
      BY <1>1, <2>2, <2>4, <2>5
  <1>8. CASE end.state = "failed"
    <2>1. end.failure \in Failure /\ 0 \in 0..MaxBackoff
      BY <1>3, <1>8, PolicyAssumption
    <2>r. goal.repairs \in Nat /\ MaxRepairs \in Nat
      BY <1>0, PolicyAssumption DEF GoalType
    <2>2. CASE goal.failure = end.failure
      <3>1. Ended(end) = [EndedAs("failed", "unchanged-failure") EXCEPT !.retryLeft = 0]
        BY <1>8, <2>2 DEF Ended
      <3>2. PICK e : e = EndedAs("failed", "unchanged-failure") /\ Quiet(e, "failed")
        BY <1>4
      <3>3. EndsWell([e EXCEPT !.retryLeft = 0], end)
        BY <2>1, <3>2 DEF EndsWell, Quiet, GoalType
      <3> QED
        BY <1>1, <3>1, <3>2, <3>3
    <2>3. CASE goal.failure # end.failure /\ goal.repairs + 1 > MaxRepairs
      <3>1. Ended(end) = [EndedAs("failed", "repair-budget-exhausted") EXCEPT
                            !.retryLeft = 0, !.failure = end.failure]
        BY <1>8, <2>3, <2>r DEF Ended
      <3>2. PICK e : e = EndedAs("failed", "repair-budget-exhausted") /\ Quiet(e, "failed")
        BY <1>4
      <3>3. EndsWell([e EXCEPT !.retryLeft = 0, !.failure = end.failure], end)
        BY <2>1, <3>2, ZenonT(60) DEF EndsWell, Quiet, GoalType
      <3> QED
        BY <1>1, <3>1, <3>2, <3>3
    <2>4. CASE goal.failure # end.failure /\ goal.repairs + 1 <= MaxRepairs
      <3>1. PICK delay : delay = Least(2 ^ goal.retries, MaxBackoff)
        OBVIOUS
      <3>2. Ended(end) = [EndedAs("failed", None) EXCEPT
                            !.repairs = @ + 1, !.failure = end.failure, !.retryLeft = delay]
        <4>1. ~(goal.repairs + 1 > MaxRepairs)
          BY <2>4, <2>r
        <4> QED
          BY <1>8, <2>4, <3>1, <4>1 DEF Ended
      <3>3. delay \in 0..MaxBackoff
        <4>1. PICK power \in Nat : power = 2 ^ goal.retries
          BY <1>0, BackoffAssumption DEF GoalType
        <4>2. delay = Least(power, MaxBackoff)
          BY <3>1, <4>1
        <4> QED
          BY <4>2, PolicyAssumption DEF Least
      <3>4. goal.repairs + 1 \in 0..MaxRepairs
        BY <2>4, <2>r
      <3>5. PICK e : e = EndedAs("failed", None) /\ Quiet(e, "failed")
        BY <1>4
      <3>6. EndsWell([e EXCEPT !.repairs = @ + 1, !.failure = end.failure, !.retryLeft = delay], end)
        BY <2>1, <3>3, <3>4, <3>5, ZenonT(60) DEF EndsWell, Quiet, GoalType
      <3> QED
        BY <1>1, <3>2, <3>5, <3>6
    <2>5. goal.repairs + 1 > MaxRepairs \/ goal.repairs + 1 <= MaxRepairs
      BY <2>r
    <2> QED
      BY <2>2, <2>3, <2>4, <2>5
  <1> QED
    BY <1>3, <1>5, <1>6, <1>7, <1>8

LEMMA WriteCheckpointActiveStep ==
    ASSUME IInv, WriteCheckpointActive
    PROVE  IInv'
  <1> DEFINE end == proc.item
             g == Ended(end)
  <1>1. /\ proc.at = "active" /\ ~proc.unlink /\ end \in Endings /\ proc.token \in Token
        /\ minted \in Nat /\ lease # None /\ lease.owner # None /\ goal.run # None
        /\ end.state = "blocked" => end.question \in texts
    BY DEF WriteCheckpointActive, At, IInv, TypeOK, ItemInv, AdmittedInv, Checkpointing
  <1>2. /\ goal' = g /\ Go("record")
        /\ heard' = IF NewQuestion(end) THEN [heard EXCEPT ![end.question] = None] ELSE heard
        /\ UNCHANGED <<lease, residues, claim, texts, history, repo, minted, owners, children, crashes>>
    BY DEF WriteCheckpointActive
  <1>3. EndsWell(g, end)
    BY <1>1, EndedStep
  <1>4. heard' \in [Question -> Ages \cup {None}]
    BY <1>2 DEF IInv, TypeOK
  <1>5. /\ proc' \in ProcType /\ proc'.at = "record" /\ proc'.token = proc.token
        /\ proc'.item = proc.item /\ ~proc'.unlink
    BY <1>1, <1>2, Moved DEF Steps
  <1>6. goal.rev \in history.started /\ goal.epoch <= minted
    BY <1>1 DEF IInv, GoalInv
  <1> HIDE DEF g
  <1>7. TypeOK'
    BY <1>2, <1>3, <1>4, <1>5 DEF IInv, TypeOK, EndsWell
  <1>8. GoalInv' /\ LeaseInv'
    <2>1. GoalInv'
      <3>1. g.question # None => ~g.evidence
        BY <1>3 DEF EndsWell
      <3> QED
        BY <1>1, <1>2, <1>3, <1>6, <3>1 DEF GoalInv, EndsWell
    <2>2. LeaseInv'
      BY <1>2, <1>3 DEF IInv, LeaseInv, EndsWell
    <2> QED
      BY <2>1, <2>2
  <1>9. SweptInv' /\ ItemInv' /\ AdmittedInv'
    BY <1>1, <1>2, <1>5 DEF SweptInv, ItemInv, AdmittedInv, Reconciling, Waking, Checkpointing
  <1>10. CompleteByReview' /\ QuestionIsWhole'
    BY <1>1, <1>2, <1>3, <1>6 DEF CompleteByReview, QuestionIsWhole, EndsWell
  <1> QED
    BY <1>7, <1>8, <1>9, <1>10 DEF IInv

LEMMA RecordCheckpointStep ==
    ASSUME IInv, RecordCheckpoint
    PROVE  IInv'
  <1>1. /\ proc.at = "record" /\ ~proc.unlink /\ proc.item \in Endings /\ proc.token \in Token
        /\ lease # None /\ lease.owner # None
    BY DEF RecordCheckpoint, At, IInv, ItemInv, AdmittedInv, Checkpointing
  <1>2. /\ history' = [history EXCEPT !.recorded = @ \cup {proc.token}] /\ Go("release")
        /\ UNCHANGED <<goal, lease, residues, claim, texts, repo, minted, agents, crashes>>
    BY DEF RecordCheckpoint
  <1>3. /\ history' \in [started : SUBSET Revision, recorded : SUBSET Token]
        /\ history'.started = history.started
    BY <1>1, <1>2 DEF IInv, TypeOK
  <1>4. /\ proc' \in ProcType /\ proc'.at = "release" /\ proc'.token = proc.token
        /\ proc'.item = proc.item /\ ~proc'.unlink
    BY <1>1, <1>2, Moved DEF Steps
  <1>5. TypeOK'
    BY <1>2, <1>3, <1>4 DEF IInv, TypeOK, agents
  <1>6. GoalInv' /\ LeaseInv' /\ CompleteByReview' /\ QuestionIsWhole'
    BY <1>2, <1>3 DEF IInv, GoalInv, LeaseInv, CompleteByReview, QuestionIsWhole
  <1>7. SweptInv' /\ ItemInv' /\ AdmittedInv'
    BY <1>1, <1>2, <1>4 DEF SweptInv, ItemInv, AdmittedInv, Reconciling, Waking, Checkpointing
  <1> QED
    BY <1>5, <1>6, <1>7 DEF IInv

LEMMA AgentStep ==
    ASSUME IInv, Agent \/ Renewing
    PROVE  IInv'
  <1>1. ASSUME NEW token \in owners, Renew(token) \/ RecordIteration(token)
        PROVE  IInv'
    BY <1>1, RenewStep, RecordIterationStep
  <1>2. ASSUME NEW token \in owners, NEW k \in Task,
               ClaimChild(token, k) \/ \E outcome \in {"completed", "cancelled"} : SettleChild(token, k, outcome)
        PROVE  IInv'
    BY <1>2, ClaimChildStep, SettleChildStep
  <1>3. ASSUME NEW token \in owners, NEW end \in Endings, StartCheckpoint(token, end)
        PROVE  IInv'
    BY <1>3, StartCheckpointStep
  <1>4. CASE Tell \/ WriteQuestion \/ WriteCheckpointJournal \/ AbortCheckpoint
    BY <1>4, HeardStep, WriteQuestionStep, WriteCheckpointJournalStep, NoopStep
  <1>5. CASE WriteCheckpointActive \/ RecordCheckpoint \/ Release
    BY <1>5, WriteCheckpointActiveStep, RecordCheckpointStep, ReleaseStep
  <1> QED
    BY <1>1, <1>2, <1>3, <1>4, <1>5 DEF Agent, Renewing

-----------------------------------------------------------------------------
(* The operator's commands.                                                *)
LEMMA ResolveQuestionStep ==
    ASSUME IInv, NEW q \in Question, ResolveQuestion(q)
    PROVE  IInv'
  <1> DEFINE g == [goal EXCEPT !.question = None, !.state = "ready", !.reason = "operator-input-received"]
  <1>1. /\ QuestionOpen /\ goal' = g /\ UNCHANGED <<files, crashes>>
        /\ proc' = [Idle EXCEPT !.at = "forget", !.item = q]
    BY DEF ResolveQuestion, files
  <1>2. Runless(g) /\ g.question = None
    <2>1. goal.run = None /\ ~goal.evidence /\ goal \in GoalType
      BY <1>1 DEF QuestionOpen, IInv, TypeOK, GoalInv
    <2>2. PICK a : a = [goal EXCEPT !.question = None]
      OBVIOUS
    <2>3. PICK b : b = [a EXCEPT !.state = "ready"]
      OBVIOUS
    <2>4. g = [b EXCEPT !.reason = "operator-input-received"]
      BY <2>2, <2>3
    <2>5. /\ a \in GoalType /\ a.run = goal.run /\ a.rev = goal.rev /\ a.epoch = goal.epoch
          /\ a.checkpoint = goal.checkpoint /\ a.learned = goal.learned
          /\ a.evidence = goal.evidence /\ a.question = None
      BY <2>1, <2>2 DEF GoalType
    <2>6. /\ b \in GoalType /\ b.run = a.run /\ b.rev = a.rev /\ b.epoch = a.epoch
          /\ b.checkpoint = a.checkpoint /\ b.learned = a.learned
          /\ b.evidence = a.evidence /\ b.question = a.question /\ b.state = "ready"
      BY <2>3, <2>5 DEF GoalType
    <2> HIDE DEF g
    <2>7. /\ g \in GoalType /\ g.run = b.run /\ g.rev = b.rev /\ g.epoch = b.epoch
          /\ g.checkpoint = b.checkpoint /\ g.learned = b.learned
          /\ g.evidence = b.evidence /\ g.question = b.question /\ g.state = b.state
      BY <2>4, <2>6 DEF GoalType, Reason
    <2>8. ~g.evidence /\ g.run = None
      BY <2>1, <2>5, <2>6, <2>7
    <2> QED
      BY <2>5, <2>6, <2>7, <2>8 DEF Runless
  <1>3. /\ proc' \in ProcType /\ proc'.at = "forget" /\ proc'.item = q /\ ~proc'.unlink
    BY <1>1 DEF Idle, ProcType, Steps
  <1> HIDE DEF g
  <1>4. StepInv'
    BY <1>1, <1>2, <1>3 DEF StepInv, SweptInv, ItemInv, AdmittedInv, Reconciling, Waking, Checkpointing
  <1> QED
    BY <1>1, <1>2, <1>3, <1>4, RunlessStep

LEMMA ForgetQuestionStep ==
    ASSUME IInv, ForgetQuestion
    PROVE  IInv'
  <1>1. /\ proc.item \in Question /\ goal.question = None /\ Exit
        /\ texts' = texts \ {proc.item} /\ claim' = [claim EXCEPT ![proc.item] = None]
        /\ UNCHANGED <<goal, lease, residues, history, repo, minted, agents, crashes>>
    BY DEF ForgetQuestion, At, IInv, ItemInv
  <1>2. proc' \in ProcType /\ StepInv'
    BY <1>1, Exited
  <1>3. TypeOK'
    BY <1>1, <1>2 DEF IInv, TypeOK, agents
  <1>4. GoalInv' /\ LeaseInv' /\ CompleteByReview' /\ QuestionIsWhole'
    BY <1>1 DEF IInv, GoalInv, LeaseInv, CompleteByReview, QuestionIsWhole
  <1> QED
    BY <1>2, <1>3, <1>4 DEF IInv, StepInv

LEMMA RebaseStep ==
    ASSUME IInv, NEW inputs \in SUBSET Input, NEW research \in Research \cup {None},
           Rebase(inputs, research)
    PROVE  IInv'
  <1>1. PICK rev \in Revision : rev = RevisionOf(inputs, research)
    BY RevisionTypes
  <1> DEFINE g == [goal EXCEPT !.rev = rev, !.evidence = FALSE]
  <1>2. /\ proc.at = "idle" /\ ~proc.unlink /\ goal.state = "ready" /\ lease = None /\ goal' = g
        /\ proc' = proc /\ UNCHANGED <<files, crashes>> /\ goal \in GoalType /\ proc \in ProcType
    BY <1>1 DEF Rebase, At, files, IInv, TypeOK
  <1>3. goal.run = None /\ goal.question = None
    BY <1>2 DEF IInv, GoalInv, QuestionIsWhole
  <1>4. /\ g \in GoalType /\ g.run = None /\ g.question = None /\ g.evidence = FALSE
        /\ g.state = "ready" /\ g.epoch = goal.epoch /\ g.checkpoint = goal.checkpoint
    BY <1>2, <1>3 DEF GoalType
  <1> HIDE DEF g
  <1>5. GoalInv' /\ CompleteByReview' /\ QuestionIsWhole'
    BY <1>2, <1>4 DEF IInv, GoalInv, CompleteByReview, QuestionIsWhole, files
  <1>6. StepInv'
    BY <1>2 DEF StepInv, SweptInv, ItemInv, AdmittedInv, Reconciling, Waking, Checkpointing, IInv
  <1> QED
    BY <1>2, <1>4, <1>5, <1>6, GoalStep

LEMMA InitializeStep ==
    ASSUME IInv, Initialize
    PROVE  IInv'
  <1>1. PICK g : g = NewGoal(goal.id + 1)
    OBVIOUS
  <1>2. /\ proc.at = "idle" /\ ~proc.unlink /\ lease = None /\ goal' = g /\ goal.id < MaxGoals
        /\ proc' = proc /\ UNCHANGED <<files, crashes>> /\ goal \in GoalType /\ proc \in ProcType
    BY <1>1 DEF Initialize, At, files, IInv, TypeOK
  <1>3. g \in GoalType
    <2>1. RevisionOf({}, None) \in Revision
      BY RevisionTypes
    <2>2. goal.id + 1 \in 1..MaxGoals
      BY <1>2, BoundAssumption DEF GoalType
    <2>3. repo.branch \in Branch
      BY DEF IInv, TypeOK
    <2> QED
      BY <1>1, <2>1, <2>2, <2>3, BoundAssumption, PolicyAssumption DEF NewGoal, GoalType
  <1>4. /\ g.run = None /\ g.question = None /\ ~g.evidence /\ g.state = "ready" /\ g.epoch = 0
        /\ g.checkpoint = None
    BY <1>1 DEF NewGoal
  <1>5. minted \in Nat
    BY BoundAssumption DEF IInv, TypeOK
  <1>6. GoalInv' /\ CompleteByReview' /\ QuestionIsWhole'
    BY <1>2, <1>4, <1>5 DEF GoalInv, CompleteByReview, QuestionIsWhole, files
  <1>7. StepInv'
    BY <1>2 DEF StepInv, SweptInv, ItemInv, AdmittedInv, Reconciling, Waking, Checkpointing, IInv
  <1> QED
    BY <1>2, <1>3, <1>6, <1>7, GoalStep

LEMMA OperatorStep ==
    ASSUME IInv, Operator
    PROVE  IInv'
  <1>1. goal.rev.inputs \in SUBSET Input /\ goal.rev.research \in Research \cup {None}
    BY DEF IInv, TypeOK, GoalType, Revision
  <1>2. ASSUME NEW i \in Input, AdoptInput(i) PROVE IInv'
    <2>1. goal.rev.inputs \cup {i} \in SUBSET Input
      BY <1>1
    <2> QED
      BY <1>1, <1>2, <2>1, RebaseStep DEF AdoptInput
  <1>3. ASSUME NEW r \in Research, BindResearch(r) PROVE IInv'
    BY <1>1, <1>3, RebaseStep DEF BindResearch
  <1>4. ASSUME NEW q \in Question, ResolveQuestion(q) PROVE IInv'
    BY <1>4, ResolveQuestionStep
  <1> QED
    BY <1>2, <1>3, <1>4, ForgetQuestionStep, InitializeStep DEF Operator

-----------------------------------------------------------------------------
(* What happens around the controller.                                     *)
LEMMA MoveRepositoryStep ==
    ASSUME IInv, MoveRepository
    PROVE  IInv'
  <1>1. UNCHANGED <<goal, lease, residues, claim, texts, history, proc, minted, agents, crashes>>
    BY DEF MoveRepository
  <1>2. repo' \in [commit : Commit, bump : Bump, content : Content, branch : Branch, dirty : BOOLEAN]
    <2>1. repo \in [commit : Commit, bump : Bump, content : Content, branch : Branch, dirty : BOOLEAN]
      BY DEF IInv, TypeOK
    <2>2. CASE \E c \in Commit \ {repo.commit} : repo' = [repo EXCEPT !.commit = c]
      BY <2>1, <2>2
    <2>3. CASE \E b \in Bump \ {repo.bump} : repo' = [repo EXCEPT !.bump = b]
      BY <2>1, <2>3
    <2>4. CASE \E c \in Content \ {repo.content} : repo' = [repo EXCEPT !.content = c]
      BY <2>1, <2>4
    <2>5. CASE \E b \in Branch \ {repo.branch} : repo' = [repo EXCEPT !.branch = b]
      BY <2>1, <2>5
    <2>6. CASE \E d \in TreeState \ {repo.dirty} : repo' = [repo EXCEPT !.dirty = d]
      <3>1. PICK d \in BOOLEAN : repo' = [repo EXCEPT !.dirty = d]
        BY <2>6, TreeAssumption
      <3> QED
        BY <2>1, <3>1
    <2> QED
      BY <2>2, <2>3, <2>4, <2>5, <2>6 DEF MoveRepository
  <1>3. TypeOK'
    BY <1>1, <1>2 DEF IInv, TypeOK, agents
  <1>4. GoalInv' /\ LeaseInv' /\ CompleteByReview' /\ QuestionIsWhole'
    BY <1>1 DEF IInv, GoalInv, LeaseInv, CompleteByReview, QuestionIsWhole
  <1>5. SweptInv' /\ ItemInv' /\ AdmittedInv'
    BY <1>1 DEF IInv, SweptInv, ItemInv, AdmittedInv
  <1> QED
    BY <1>3, <1>4, <1>5 DEF IInv

LEMMA CrashStep ==
    ASSUME IInv, Crash
    PROVE  IInv'
  <1>1. /\ crashes < MaxCrashes /\ crashes' = crashes + 1 /\ Exit /\ UNCHANGED <<goal, files>>
    BY DEF Crash, files
  <1>2. crashes' \in 0..MaxCrashes
    BY <1>1, BoundAssumption DEF IInv, TypeOK
  <1> QED
    BY <1>1, <1>2, Exited, ProcStep

(* A run is not granted after all, and its lease goes.                     *)
LEMMA AcquireFailsStep ==
    ASSUME IInv, AcquireFails
    PROVE  IInv'
  <1>1. /\ crashes < MaxCrashes /\ crashes' = crashes + 1 /\ Exit /\ lease' = None
        /\ UNCHANGED <<goal, residues, claim, texts, history, repo, minted, agents>>
    BY DEF AcquireFails
  <1>2. crashes' \in 0..MaxCrashes
    BY <1>1, BoundAssumption DEF IInv, TypeOK
  <1>3. proc' \in ProcType /\ StepInv'
    BY <1>1, Exited
  <1>4. TypeOK'
    BY <1>1, <1>2, <1>3 DEF IInv, TypeOK, agents
  <1>5. GoalInv' /\ LeaseInv' /\ CompleteByReview' /\ QuestionIsWhole'
    BY <1>1 DEF IInv, GoalInv, LeaseInv, CompleteByReview, QuestionIsWhole
  <1> QED
    BY <1>3, <1>4, <1>5 DEF IInv, StepInv

(* The clock moves.                                                        *)
LEMMA Clock ==
    /\ \A m \in Nat : \A n \in 0..m : Countdown(n) \in 0..m
    /\ \A a \in Ages : Age(a) \in Ages
    /\ \A a \in Ages \cup {None} : ElapsedSince(a) \in Ages \cup {None}
    /\ \A a \in Ages \cup {None, Torn} : ElapsedSince(a) \in Ages \cup {None, Torn}
    /\ \A a \in Ages : ElapsedSince(a) \in Ages
  <1>1. \A m \in Nat : \A n \in 0..m : Countdown(n) \in 0..m
    BY DEF Countdown
  <1>2. \A a \in Ages : Age(a) \in Ages
    BY PolicyAssumption DEF Age, Least, Ages
  <1>3. \A a \in Ages : a \notin {None, Torn}
    BY PolicyAssumption, NullAssumption DEF Ages
  <1> QED
    BY <1>1, <1>2, <1>3 DEF ElapsedSince

TickedGoal(g, run, wait, retry, question) ==
    [g EXCEPT !.run = run, !.waitLeft = wait, !.retryLeft = retry, !.question = question]
TickedLease(l, age, owner, renewal) ==
    [l EXCEPT !.age = age, !.owner = owner, !.renewal = renewal]

LEMMA GoalTicked ==
    ASSUME NEW g \in GoalType, NEW run \in RunType \cup {None}, NEW wait \in 0..MaxWait,
           NEW retry \in 0..MaxBackoff, NEW question \in QuestionType \cup {None}, NEW h,
           h = TickedGoal(g, run, wait, retry, question)
    PROVE  /\ h \in GoalType /\ h.run = run /\ h.question = question
           /\ h.state = g.state /\ h.rev = g.rev /\ h.epoch = g.epoch
           /\ h.checkpoint = g.checkpoint /\ h.evidence = g.evidence /\ h.learned = g.learned
  <1>1. PICK a : a = [g EXCEPT !.run = run]
    OBVIOUS
  <1>2. /\ a \in GoalType /\ a.run = run /\ a.question = g.question
        /\ a.state = g.state /\ a.rev = g.rev /\ a.epoch = g.epoch
        /\ a.checkpoint = g.checkpoint /\ a.evidence = g.evidence /\ a.learned = g.learned
    BY <1>1 DEF GoalType
  <1>3. PICK b : b = [a EXCEPT !.waitLeft = wait]
    OBVIOUS
  <1>4. /\ b \in GoalType /\ b.run = a.run /\ b.question = a.question
        /\ b.state = a.state /\ b.rev = a.rev /\ b.epoch = a.epoch
        /\ b.checkpoint = a.checkpoint /\ b.evidence = a.evidence /\ b.learned = a.learned
    BY <1>2, <1>3 DEF GoalType
  <1>5. PICK c : c = [b EXCEPT !.retryLeft = retry]
    OBVIOUS
  <1>6. /\ c \in GoalType /\ c.run = b.run /\ c.question = b.question
        /\ c.state = b.state /\ c.rev = b.rev /\ c.epoch = b.epoch
        /\ c.checkpoint = b.checkpoint /\ c.evidence = b.evidence /\ c.learned = b.learned
    BY <1>4, <1>5 DEF GoalType
  <1>7. h = [c EXCEPT !.question = question]
    BY <1>1, <1>3, <1>5 DEF TickedGoal
  <1>8. /\ h \in GoalType /\ h.run = c.run /\ h.question = question
        /\ h.state = c.state /\ h.rev = c.rev /\ h.epoch = c.epoch
        /\ h.checkpoint = c.checkpoint /\ h.evidence = c.evidence /\ h.learned = c.learned
    BY <1>6, <1>7 DEF GoalType
  <1> QED
    BY <1>2, <1>4, <1>6, <1>8

LEMMA LeaseTicked ==
    ASSUME NEW l \in LeaseType, NEW age \in Ages, NEW owner \in OwnerType \cup {None},
           NEW renewal \in RenewalType \cup {None}, NEW h,
           h = TickedLease(l, age, owner, renewal)
    PROVE  h \in LeaseType /\ h.owner = owner /\ h.renewal = renewal /\ h.journal = l.journal
  <1>1. PICK a : a = [l EXCEPT !.age = age]
    OBVIOUS
  <1>2. a \in LeaseType /\ a.journal = l.journal
    BY <1>1 DEF LeaseType
  <1>3. PICK b : b = [a EXCEPT !.owner = owner]
    OBVIOUS
  <1>4. b \in LeaseType /\ b.owner = owner /\ b.journal = a.journal
    BY <1>2, <1>3 DEF LeaseType
  <1>5. h = [b EXCEPT !.renewal = renewal]
    BY <1>1, <1>3 DEF TickedLease
  <1>6. h \in LeaseType /\ h.owner = b.owner /\ h.renewal = renewal /\ h.journal = b.journal
    BY <1>4, <1>5 DEF LeaseType
  <1> QED
    BY <1>2, <1>4, <1>6

LEMMA TickStep ==
    ASSUME IInv, Tick
    PROVE  IInv' /\ (lease # None => lease' # None)
  <1>1. /\ proc.at = "idle" /\ ~proc.unlink /\ goal \in GoalType
        /\ claim' = [q \in Question |-> ElapsedSince(claim[q])]
        /\ heard' = [q \in Question |-> ElapsedSince(heard[q])]
        /\ UNCHANGED <<residues, texts, history, repo, proc, minted, owners, children, crashes>>
    BY DEF Tick, Idle, IInv, TypeOK
  <1>2. PICK run : run = Ran(goal.run)
    OBVIOUS
  <1>3. /\ run \in RunType \cup {None} /\ (run = None <=> goal.run = None)
        /\ run # None => run.token = goal.run.token
    <2>1. CASE goal.run = None
      BY <1>2, <2>1 DEF Ran
    <2>2. CASE goal.run # None
      <3>1. goal.run \in RunType
        BY <1>1, <2>2 DEF GoalType
      <3>2. PICK n \in 0..MaxRuntime : n = Countdown(goal.run.left)
        BY <3>1, Clock, PolicyAssumption DEF RunType
      <3>3. run = [goal.run EXCEPT !.left = n]
        BY <1>2, <2>2, <3>2 DEF Ran
      <3>4. run \in RunType /\ run.token = goal.run.token
        BY <3>1, <3>3 DEF RunType
      <3> QED
        BY <2>2, <3>4, NullAssumption
    <2> QED
      BY <2>1, <2>2
  <1>4. PICK question : question = Waited
    OBVIOUS
  <1>5. /\ question \in QuestionType \cup {None} /\ (question = None <=> goal.question = None)
        /\ question # None => /\ question.fingerprint = goal.question.fingerprint
                             /\ question.emitted = goal.question.emitted
    <2>1. CASE QuestionOpen /\ goal.question.emitted
      <3>1. goal.question \in QuestionType /\ goal.question # None
        BY <2>1, OpenTypes DEF QuestionOpen
      <3>2. PICK n \in Ages : n = Age(goal.question.age)
        BY <3>1, Clock DEF QuestionType
      <3>3. question = [goal.question EXCEPT !.age = n]
        BY <1>4, <2>1, <3>2 DEF Waited
      <3>4. /\ question \in QuestionType /\ question.fingerprint = goal.question.fingerprint
            /\ question.emitted = goal.question.emitted
        BY <3>1, <3>3 DEF QuestionType
      <3> QED
        BY <3>1, <3>4, NullAssumption
    <2>2. CASE ~(QuestionOpen /\ goal.question.emitted)
      BY <1>1, <1>4, <2>2 DEF GoalType, Waited
    <2> QED
      BY <2>1, <2>2
  <1>6. PICK wait \in 0..MaxWait, retry \in 0..MaxBackoff :
            wait = Countdown(goal.waitLeft) /\ retry = Countdown(goal.retryLeft)
    <2>1. MaxWait \in Nat /\ MaxBackoff \in Nat /\ goal.waitLeft \in 0..MaxWait
          /\ goal.retryLeft \in 0..MaxBackoff
      BY <1>1, PolicyAssumption DEF GoalType
    <2> QED
      BY <2>1, Clock
  <1>7. goal' = [goal EXCEPT !.run = run, !.waitLeft = wait, !.retryLeft = retry, !.question = question]
    BY <1>2, <1>4, <1>6 DEF Tick
  <1>9. /\ goal' \in GoalType /\ goal'.run = run /\ goal'.question = question
        /\ goal'.state = goal.state /\ goal'.rev = goal.rev /\ goal'.epoch = goal.epoch
        /\ goal'.checkpoint = goal.checkpoint /\ goal'.evidence = goal.evidence
        /\ goal'.learned = goal.learned
    <2>1. PICK h : h = TickedGoal(goal, run, wait, retry, question)
      OBVIOUS
    <2>2. run \in RunType \cup {None} /\ question \in QuestionType \cup {None} /\ goal \in GoalType
      BY <1>1, <1>3, <1>5
    <2>3. /\ h \in GoalType /\ h.run = run /\ h.question = question
          /\ h.state = goal.state /\ h.rev = goal.rev /\ h.epoch = goal.epoch
          /\ h.checkpoint = goal.checkpoint /\ h.evidence = goal.evidence
          /\ h.learned = goal.learned
      BY <1>6, <2>1, <2>2, GoalTicked
    <2>4. goal' = h
      BY <1>7, <2>1 DEF TickedGoal
    <2> QED
      BY <2>3, <2>4
  <1>10. /\ lease' \in LeaseType \cup {None} /\ (lease' = None <=> lease = None)
         /\ lease # None => /\ lease'.journal = lease.journal
                            /\ lease'.owner = None <=> lease.owner = None
                            /\ lease.owner # None => /\ lease'.owner.token = lease.owner.token
                                                     /\ lease'.owner.rev = lease.owner.rev
                                                     /\ lease'.owner.epoch = lease.owner.epoch
                            /\ lease'.renewal = None <=> lease.renewal = None
                            /\ lease.renewal # None => /\ lease'.renewal.token = lease.renewal.token
                                                       /\ lease'.renewal.epoch = lease.renewal.epoch
    <2>1. CASE lease = None
      BY <2>1 DEF Tick
    <2>2. CASE lease # None
      <3>1. lease \in LeaseType /\ Ttl \in Nat
        BY <2>2, PolicyAssumption DEF IInv, TypeOK
      <3>2. PICK age \in Ages : age = IF lease.owner = None THEN Age(lease.age) ELSE lease.age
        BY <3>1, Clock DEF LeaseType
      <3>3. PICK owner : owner = Ran(lease.owner)
        OBVIOUS
      <3>4. PICK renewal : renewal = Ran(lease.renewal)
        OBVIOUS
      <3>6. /\ owner \in OwnerType \cup {None} /\ (owner = None <=> lease.owner = None)
            /\ lease.owner # None => /\ owner.token = lease.owner.token /\ owner.rev = lease.owner.rev
                                     /\ owner.epoch = lease.owner.epoch
        <4>1. CASE lease.owner # None
          <5>1. lease.owner \in OwnerType
            BY <3>1, <4>1 DEF LeaseType
          <5>2. PICK n \in 0..Ttl : n = Countdown(lease.owner.left)
            BY <3>1, <5>1, Clock DEF OwnerType
          <5>3. owner = [lease.owner EXCEPT !.left = n]
            BY <3>3, <4>1, <5>2 DEF Ran
          <5>4. /\ owner \in OwnerType /\ owner.token = lease.owner.token
                /\ owner.rev = lease.owner.rev /\ owner.epoch = lease.owner.epoch
            BY <5>1, <5>3 DEF OwnerType
          <5> QED
            BY <4>1, <5>4, NullAssumption
        <4> QED
          BY <3>3, <4>1 DEF Ran
      <3>7. /\ renewal \in RenewalType \cup {None} /\ (renewal = None <=> lease.renewal = None)
            /\ lease.renewal # None => /\ renewal.token = lease.renewal.token
                                       /\ renewal.epoch = lease.renewal.epoch
        <4>1. CASE lease.renewal # None
          <5>1. lease.renewal \in RenewalType
            BY <3>1, <4>1 DEF LeaseType
          <5>2. PICK n \in 0..Ttl : n = Countdown(lease.renewal.left)
            BY <3>1, <5>1, Clock DEF RenewalType
          <5>3. renewal = [lease.renewal EXCEPT !.left = n]
            BY <3>4, <4>1, <5>2 DEF Ran
          <5>4. /\ renewal \in RenewalType /\ renewal.token = lease.renewal.token
                /\ renewal.epoch = lease.renewal.epoch
            BY <5>1, <5>3 DEF RenewalType
          <5> QED
            BY <4>1, <5>4, NullAssumption
        <4> QED
          BY <3>4, <4>1 DEF Ran
      <3>8. lease' = [lease EXCEPT !.age = age, !.owner = owner, !.renewal = renewal]
        BY <2>2, <3>2, <3>3, <3>4 DEF Tick
      <3>9. /\ lease' \in LeaseType /\ lease'.owner = owner /\ lease'.renewal = renewal
            /\ lease'.journal = lease.journal
        <4>1. PICK h : h = TickedLease(lease, age, owner, renewal)
          OBVIOUS
        <4>2. owner \in OwnerType \cup {None} /\ renewal \in RenewalType \cup {None}
          BY <3>6, <3>7
        <4>3. h \in LeaseType /\ h.owner = owner /\ h.renewal = renewal /\ h.journal = lease.journal
          BY <3>1, <3>2, <4>1, <4>2, LeaseTicked
        <4>4. lease' = h
          BY <3>8, <4>1 DEF TickedLease
        <4> QED
          BY <4>3, <4>4
      <3> QED
        BY <2>2, <3>6, <3>7, <3>9, NullAssumption
    <2> QED
      BY <2>1, <2>2
  <1>11. /\ claim' \in [Question -> Ages \cup {None, Torn}] /\ heard' \in [Question -> Ages \cup {None}]
         /\ \A q \in Question : claim[q] \in Ages => claim'[q] \in Ages
    BY <1>1, Clock DEF IInv, TypeOK
  <1>12. TypeOK'
    <2>1. /\ residues' \in 0..1 /\ texts' \subseteq Question
          /\ history' \in [started : SUBSET Revision, recorded : SUBSET Token]
          /\ minted' \in 0..MaxTokens /\ owners' \subseteq Token /\ children' \subseteq Token \X Task
          /\ crashes' \in 0..MaxCrashes
      BY <1>1 DEF IInv, TypeOK
    <2>2. /\ proc' \in ProcType
          /\ repo' \in [commit : Commit, bump : Bump, content : Content, branch : Branch, dirty : BOOLEAN]
      BY <1>1 DEF IInv, TypeOK
    <2> QED
      BY <1>9, <1>10, <1>11, <2>1, <2>2 DEF TypeOK
  <1>13. GoalInv' /\ LeaseInv'
    BY <1>1, <1>3, <1>5, <1>9, <1>10 DEF IInv, GoalInv, LeaseInv
  <1>14. SweptInv' /\ ItemInv' /\ AdmittedInv'
    BY <1>1 DEF SweptInv, ItemInv, AdmittedInv, Reconciling, Waking, Checkpointing
  <1>15. CompleteByReview' /\ QuestionIsWhole'
    <2>1. goal.question # None => goal.question.fingerprint \in Question
      BY <1>1 DEF GoalType, QuestionType
    <2> QED
      BY <1>1, <1>5, <1>9, <1>11, <2>1 DEF IInv, CompleteByReview, QuestionIsWhole
  <1> QED
    BY <1>10, <1>12, <1>13, <1>14, <1>15 DEF IInv

-----------------------------------------------------------------------------
(* The invariant.                                                          *)
LEMMA NextStep == IInv /\ [Next]_vars => IInv'
  <1> SUFFICES ASSUME IInv, [Next]_vars PROVE IInv'
    OBVIOUS
  <1>1. CASE StartReconcile \/ \E w \in WakeToken : StartWake(w)
    BY <1>1, StartStep
  <1>2. CASE Unlink
    BY <1>2, UnlinkStep
  <1>3. CASE Reconcile
    BY <1>3, ReconcileStep
  <1>4. CASE Wake
    BY <1>4, WakeStep
  <1>5. CASE Agent \/ Renewing
    BY <1>5, AgentStep
  <1>6. CASE Operator
    BY <1>6, OperatorStep
  <1>7. CASE MoveRepository
    BY <1>7, MoveRepositoryStep
  <1>8. CASE Tick
    BY <1>8, TickStep
  <1>9. CASE Crash \/ AcquireFails
    BY <1>9, CrashStep, AcquireFailsStep
  <1>10. CASE UNCHANGED vars
    <2>1. UNCHANGED <<goal, files, crashes>> /\ proc' = proc
      BY <1>10 DEF vars, files, agents
    <2>2. StepInv'
      BY <2>1 DEF IInv, StepInv, SweptInv, ItemInv, AdmittedInv, files
    <2> QED
      BY <2>1, <2>2, ProcStep DEF IInv, TypeOK
  <1> QED
    BY <1>1, <1>2, <1>3, <1>4, <1>5, <1>6, <1>7, <1>8, <1>9, <1>10 DEF Next, Controller

LEMMA Invariance == Spec => []IInv
  BY InitIInv, NextStep, PTL DEF Spec

-----------------------------------------------------------------------------
(* Every file holds what the controller writes there, whatever the policy, *)
(* and a crash leaves no more than one renamed lease behind.               *)
THEOREM TypeCorrect == Spec => []TypeOK
  <1>1. IInv => TypeOK
    BY DEF IInv
  <1> QED
    BY <1>1, Invariance, PTL

(* An admitted token is the newest one generated and that of the run       *)
(* active.json records, although assertLease compares it with neither.     *)
THEOREM NewestOwner == Spec => []OnlyRunningOwner
  <1>1. IInv => OnlyRunningOwner
    BY Admitted DEF OnlyRunningOwner
  <1> QED
    BY <1>1, Invariance, PTL

(* Evidence goes with the revision a run started on and a reviewer saw.    *)
THEOREM Reviewed == Spec => []CompleteByReview
  <1>1. IInv => CompleteByReview
    BY DEF IInv
  <1> QED
    BY <1>1, Invariance, PTL

(* An open question has its text, and its claim once it was emitted.       *)
THEOREM Whole == Spec => []QuestionIsWhole
  <1>1. IInv => QuestionIsWhole
    BY DEF IInv
  <1> QED
    BY <1>1, Invariance, PTL

(* Of the steps that take a lease away only the release of a checkpoint,   *)
(* the fence for another branch and a wake that fails at the last moment   *)
(* meet an owner still admitted.                                           *)
LEMMA LeaseKept ==
    ASSUME IInv, Next, lease # None, lease' = None
    PROVE  \/ FenceForBranch \/ ReleaseReplayed \/ FenceIncomplete \/ FenceLost \/ Release
           \/ AcquireFails
  <1>1. CASE StartReconcile \/ (\E w \in WakeToken : StartWake(w)) \/ Unlink \/ MoveRepository \/ Crash
    BY <1>1 DEF StartReconcile, StartWake, Unlink, MoveRepository, Crash
  <1>2. CASE Reconcile
    BY <1>2 DEF Reconcile, Sweep, BranchDiffers, BlockForBranch, BranchAgrees, ReplayCheckpoint,
                NothingToReplay, LeaseMissing, LeaseAbsent, LeaseInitializing, LeaseHeld,
                CommitFenced, BlockForDirtyTree, TreeClean, RevisionSame, BlockForReview,
                RevisionChanged, Proceed, ReturnWith, CommitGoal
  <1>3. CASE Wake
    <2>1. ~CreateLease /\ ~WriteOwner
      BY CreateLeaseStep, WriteOwnerStep
    <2> QED
      BY <1>3, <2>1 DEF Wake, RetryEmission, Unclaim, CreateClaim, WriteClaim, DropAgedClaim,
                        EmitQuestion, WithdrawClaim, Ask, NoteRetriesExhausted, StartRun, Grant,
                        WakeNoop, CommitGoal, Stop
  <1>4. CASE Agent \/ Renewing
    <2>1. ~WriteCheckpointJournal /\ \A token \in owners : ~Renew(token)
      BY RenewStep, WriteCheckpointJournalStep
    <2> QED
      BY <1>4, <2>1 DEF Agent, Renewing, RecordIteration, ClaimChild, SettleChild, StartCheckpoint, Tell,
                        WriteQuestion, AbortCheckpoint, WriteCheckpointActive, RecordCheckpoint, Stop
  <1>5. CASE Operator
    BY <1>5 DEF Operator, ResolveQuestion, ForgetQuestion, AdoptInput, BindResearch, Rebase, Initialize
  <1>6. CASE Tick
    BY <1>6, TickStep
  <1> QED
    BY <1>1, <1>2, <1>3, <1>4, <1>5, <1>6 DEF Next, Controller

LEMMA FencedOwner ==
    ASSUME IInv, ReleaseReplayed \/ FenceIncomplete \/ FenceLost \/ (AcquireFails /\ proc.at # "grant"),
           NEW token, AssertLease(token)
    PROVE  FALSE
  <1>1. /\ lease # None /\ lease.owner # None /\ lease.owner.token = token
        /\ lease.owner.epoch = goal.epoch /\ goal.run # None /\ goal.state = "running"
        /\ goal.run.token = token /\ goal.run \in RunType
    BY Admitted
  <1>2. /\ LeaseLeft > 0 /\ lease.owner.head = Head /\ lease.owner.rev = Current /\ goal.run.left > 0
    BY DEF AssertLease
  <1>3. ~ReleaseReplayed
    BY <1>1 DEF ReleaseReplayed, At, IInv, SweptInv
  <1>4. ~FenceIncomplete
    BY <1>1 DEF FenceIncomplete
  <1>5. ~Expired /\ ~TimedOut
    BY <1>2 DEF Expired, TimedOut
  <1>6. ~Foreign
    <2>1. lease.owner.rev = goal.rev
      BY <1>1 DEF IInv, LeaseInv
    <2>2. lease.owner.rev.content = repo.content
      BY <1>2 DEF Current, RevisionOf
    <2> QED
      BY <1>2, <2>1, <2>2 DEF Foreign
  <1>7. ~AuthorityLost
    BY <1>1 DEF AuthorityLost
  <1>8. ~(AcquireFails /\ proc.at # "grant")
    BY <1>1 DEF AcquireFails, At, IInv, SweptInv, AdmittedInv
  <1> QED
    BY <1>3, <1>4, <1>5, <1>6, <1>7, <1>8 DEF FenceLost

(* A reconcile fences the lease of an admitted owner for another branch    *)
(* alone: expiry, the deadline, a moved repository and lost authority each *)
(* make assertLease refuse before they make the controller fence.  A wake   *)
(* that fails takes its lease along before any agent knows the token.      *)
THEOREM LiveOwnerKept == Spec => FencesNoLiveOwner
  <1>1. ASSUME IInv, [Next]_vars, lease # None, lease' = None, proc.at \notin {"release", "grant"},
               repo.branch = goal.authority, NEW token \in 1..minted
        PROVE  ~AssertLease(token)
    <2>1. Next
      BY <1>1 DEF vars
    <2>2. ~FenceForBranch /\ ~Release
      BY <1>1 DEF FenceForBranch, Release, At
    <2>3. ReleaseReplayed \/ FenceIncomplete \/ FenceLost \/ AcquireFails
      BY <1>1, <2>1, <2>2, LeaseKept
    <2> QED
      BY <1>1, <2>3, FencedOwner
  <1>2. IInv /\ [Next]_vars =>
            [lease # None /\ lease' = None /\ proc.at \notin {"release", "grant"}
                  /\ repo.branch = goal.authority
             => \A token \in 1..minted : ~AssertLease(token)]_vars
    BY <1>1
  <1> QED
    BY <1>2, Invariance, PTL DEF Spec, FencesNoLiveOwner

(* The journal of a lease is its owner's own, and where the process is     *)
(* tells what became of the last checkpoint.                               *)
JournalInv ==
    lease # None /\ lease.journal # None =>
        lease.journal.token = lease.owner.token /\ lease.journal.epoch = lease.owner.epoch
PlaceInv ==
    /\ proc.at # "mismatch"
    /\ proc.at = "lease" /\ lease # None /\ lease.journal # None => lease.journal.id # goal.checkpoint
    /\ proc.at = "decide" /\ proc.result # "lease-initializing" => lease = None \/ goal.state = "running"
    /\ proc.at = "active" => lease.journal # None
    /\ proc.at = "record" => goal.checkpoint = proc.token
    /\ proc.at \in {"replayed", "release"} => goal.checkpoint \in history.recorded
    /\ proc.at \in {"own", "start", "grant"} /\ lease # None => lease.journal = None
KeptInv == JournalInv /\ PlaceInv /\ CheckpointRecorded
Places == {"mismatch", "lease", "decide", "own", "start", "grant", "active", "record", "replayed",
           "release"}

LEMMA Elsewhere ==
    ASSUME KeptInv, UNCHANGED lease, goal'.checkpoint = goal.checkpoint,
           history.recorded \subseteq history'.recorded, proc'.at \notin Places
    PROVE  KeptInv'
  BY DEF KeptInv, JournalInv, PlaceInv, CheckpointRecorded, Places

LEMMA InPlace ==
    ASSUME KeptInv, UNCHANGED <<lease, goal, history>>, UNCHANGED <<proc>> \/ proc'.at \notin Places
    PROVE  KeptInv'
  BY DEF KeptInv, JournalInv, PlaceInv, CheckpointRecorded, Places

LEMMA Departed ==
    ASSUME IInv, Exit \/ proc' = Idle
    PROVE  proc'.at \notin Places
  BY DEF Exit, Idle, Places

(* A reconcile goes back to the command itself, to a wake, or to the       *)
(* question.                                                               *)
LEMMA ReturnsTo ==
    ASSUME IInv, proc.at \in Reconciling, NEW result \in Results, proc' = Return(result)
    PROVE  \/ proc'.at = "idle"
           \/ proc'.at = "deliver" /\ proc.for = "emit"
           \/ proc'.at = "decide" /\ proc'.result = result
  <1>1. proc \in ProcType /\ proc.for \in {"reconcile", "wake", "emit"}
    BY DEF IInv, TypeOK, ItemInv
  <1>2. CASE proc.for = "reconcile"
    <2>1. proc' = Idle
      BY <1>2 DEF Return
    <2> QED
      BY <2>1 DEF Idle
  <1>3. CASE proc.for = "wake"
    <2>1. proc' = [proc EXCEPT !.at = "decide", !.result = result]
      BY <1>3 DEF Return
    <2> QED
      BY <1>1, <2>1 DEF ProcType
  <1>4. CASE proc.for = "emit"
    <2>1. proc' = [proc EXCEPT !.at = "deliver"]
      BY <1>4 DEF Return
    <2> QED
      BY <1>1, <1>4, <2>1 DEF ProcType
  <1> QED
    BY <1>1, <1>2, <1>3, <1>4

(* Only a lease still being made or a running goal's outlives a reconcile. *)
LEMMA KeptByReturn ==
    ASSUME IInv, KeptInv, NEW g, NEW result \in Results, ReturnWith(g, result),
           proc.at \in Reconciling, g.checkpoint = goal.checkpoint,
           lease = None \/ g.state = "running" \/ result = "lease-initializing"
    PROVE  KeptInv'
  <1>1. UNCHANGED <<lease, history>> /\ goal' = g /\ proc' = Return(result)
    BY DEF ReturnWith
  <1>2. proc'.at \in {"idle", "deliver"} \/ (proc'.at = "decide" /\ proc'.result = result)
    BY <1>1, ReturnsTo
  <1> QED
    BY <1>1, <1>2 DEF KeptInv, JournalInv, PlaceInv, CheckpointRecorded

LEMMA KeptByReconcile ==
    ASSUME IInv, KeptInv, repo.branch = goal.authority, Reconcile
    PROVE  KeptInv'
  <1>1. proc \in ProcType /\ goal \in GoalType
    BY DEF IInv, TypeOK
  <1>2. CASE Sweep \/ BranchAgrees \/ LeaseAbsent \/ TreeClean
    <2>1. UNCHANGED <<lease, goal, history>> /\ proc'.at \in {"branch", "journal", "tree", "revision"}
      BY <1>1, <1>2 DEF Sweep, BranchAgrees, LeaseAbsent, TreeClean, Proceed, Go, ProcType, agents
    <2> QED
      BY <2>1, InPlace DEF Places
  <1>3. ~FenceForBranch /\ ~BranchDiffers /\ ~BlockForBranch
    BY DEF FenceForBranch, BranchDiffers, BlockForBranch, KeptInv, PlaceInv, At
  <1>4. CASE ReplayCheckpoint
    <2>1. /\ UNCHANGED <<lease, goal>> /\ proc'.at = "replayed"
          /\ lease.journal.id = goal.checkpoint
          /\ history'.recorded = history.recorded \cup {lease.journal.id}
      BY <1>1, <1>4 DEF ReplayCheckpoint, CheckpointCommitted, Go, ProcType, IInv, TypeOK
    <2> QED
      BY <2>1 DEF KeptInv, JournalInv, PlaceInv, CheckpointRecorded
  <1>5. CASE ReleaseReplayed
    <2>1. lease' = None /\ UNCHANGED <<goal, history>> /\ proc.at = "replayed" /\ proc'.at = "lease"
      BY <1>1, <1>5 DEF ReleaseReplayed, RenameLease, At, ProcType
    <2> QED
      BY <2>1 DEF KeptInv, JournalInv, PlaceInv, CheckpointRecorded
  <1>6. CASE NothingToReplay
    <2>1. UNCHANGED <<lease, goal, history>> /\ proc'.at = "lease" /\ ~CheckpointCommitted
      BY <1>1, <1>6 DEF NothingToReplay, Proceed, Go, ProcType
    <2>2. lease # None /\ lease.journal # None => lease.journal.id # goal.checkpoint
      BY <2>1 DEF CheckpointCommitted, KeptInv, JournalInv
    <2> QED
      BY <2>1, <2>2 DEF KeptInv, JournalInv, PlaceInv, CheckpointRecorded
  <1>7. CASE LeaseMissing
    <2>1. UNCHANGED <<lease, history>> /\ goal'.checkpoint = goal.checkpoint /\ proc'.at = "tree"
      BY <1>1, <1>7 DEF LeaseMissing, CommitGoal, Go, ProcType, GoalType
    <2> QED
      BY <2>1, Elsewhere DEF Places
  <1>8. CASE LeaseInitializing
    BY <1>8, KeptByReturn DEF LeaseInitializing, At, Reconciling, Results
  <1>9. CASE LeaseHeld
    BY <1>9, KeptByReturn DEF LeaseHeld, AuthorityLost, At, Reconciling, Results
  <1>10. CASE FenceIncomplete \/ FenceLost
    <2>1. /\ lease # None /\ lease' = None /\ UNCHANGED <<goal, history>>
          /\ proc.at = "lease" /\ proc'.at = "fenced"
      BY <1>1, <1>10 DEF FenceIncomplete, FenceLost, RenameLease, At, ProcType
    <2> QED
      BY <2>1 DEF KeptInv, JournalInv, PlaceInv, CheckpointRecorded
  <1>11. CASE CommitFenced
    <2>1. UNCHANGED <<lease, history>> /\ goal'.checkpoint = goal.checkpoint /\ proc'.at = "tree"
      BY <1>1, <1>11 DEF CommitFenced, Fenced, CommitGoal, Go, ProcType, GoalType
    <2> QED
      BY <2>1, Elsewhere DEF Places
  <1>12. CASE BlockForDirtyTree \/ RevisionSame \/ BlockForReview \/ RevisionChanged
    <2>1. proc.at \in Reconciling /\ lease = None
      BY <1>12 DEF BlockForDirtyTree, RevisionSame, BlockForReview, RevisionChanged, At,
                   IInv, SweptInv, Reconciling
    <2>2. \E result \in Results : ReturnWith(goal', result)
      BY <1>12 DEF BlockForDirtyTree, RevisionSame, BlockForReview, RevisionChanged, ReturnWith, Results
    <2>3. goal'.checkpoint = goal.checkpoint
      BY <1>1, <1>12 DEF BlockForDirtyTree, RevisionSame, BlockForReview, RevisionChanged, ReturnWith,
                         GoalType
    <2> QED
      BY <2>1, <2>2, <2>3, KeptByReturn
  <1> QED
    BY <1>2, <1>3, <1>4, <1>5, <1>6, <1>7, <1>8, <1>9, <1>10, <1>11, <1>12 DEF Reconcile

LEMMA KeptByWake ==
    ASSUME IInv, KeptInv, Wake
    PROVE  KeptInv'
  <1>1. proc \in ProcType /\ goal \in GoalType
    BY DEF IInv, TypeOK
  <1>2. CASE RetryEmission
    <2>1. UNCHANGED <<lease, history>> /\ proc'.at = "unclaim" /\ goal'.checkpoint = goal.checkpoint
      BY <1>1, <1>2 DEF RetryEmission, ProcType, GoalType
    <2> QED
      BY <2>1, Elsewhere DEF Places
  <1>3. CASE Unclaim \/ CreateClaim \/ WriteClaim \/ DropAgedClaim
    <2>1. UNCHANGED <<lease, goal, history>> /\ proc'.at \in {"sweep", "claim"}
      BY <1>1, <1>3 DEF Unclaim, CreateClaim, WriteClaim, DropAgedClaim, ProcType
    <2> QED
      BY <2>1, InPlace DEF Places
  <1>4. CASE EmitQuestion
    <2>1. UNCHANGED <<lease, history>> /\ proc'.at = "ask" /\ goal'.checkpoint = goal.checkpoint
      BY <1>1, <1>4 DEF EmitQuestion, CommitGoal, Go, ProcType, GoalType
    <2> QED
      BY <2>1, Elsewhere DEF Places
  <1>5. CASE WithdrawClaim \/ Ask \/ Grant \/ WakeNoop
    <2>1. UNCHANGED <<lease, goal, history>> /\ Exit
      BY <1>5 DEF WithdrawClaim, Ask, Grant, WakeNoop, Stop
    <2> QED
      BY <2>1, InPlace, Departed
  <1>6. CASE NoteRetriesExhausted
    <2>1. UNCHANGED <<lease, history>> /\ Exit /\ goal'.checkpoint = goal.checkpoint
      BY <1>1, <1>6 DEF NoteRetriesExhausted, GoalType
    <2> QED
      BY <2>1, Elsewhere, Departed
  <1>7. CASE CreateLease
    <2>1. /\ proc.at = "decide" /\ proc.result # "lease-initializing" /\ goal.state # "running"
          /\ UNCHANGED <<goal, history>> /\ proc'.at = "own" /\ lease'.journal = None
      BY <1>1, <1>7 DEF CreateLease, WakeGoesOn, Admissible, At, Go, ProcType
    <2> QED
      BY <2>1 DEF KeptInv, JournalInv, PlaceInv, CheckpointRecorded
  <1>8. CASE WriteOwner
    <2>1. lease # None /\ lease.journal = None /\ lease \in LeaseType
      BY <1>8 DEF WriteOwner, At, IInv, AdmittedInv, TypeOK
    <2>2. UNCHANGED <<goal, history>> /\ proc'.at = "start" /\ lease'.journal = None
      BY <1>1, <1>8, <2>1 DEF WriteOwner, ProcType, LeaseType
    <2> QED
      BY <2>1, <2>2 DEF KeptInv, JournalInv, PlaceInv, CheckpointRecorded
  <1>9. CASE StartRun
    <2>1. /\ UNCHANGED lease /\ proc'.at = "grant" /\ goal'.checkpoint = goal.checkpoint
          /\ history'.recorded = history.recorded /\ proc.at = "start"
      BY <1>1, <1>9 DEF StartRun, Go, At, ProcType, GoalType, IInv, TypeOK
    <2> QED
      BY <2>1 DEF KeptInv, JournalInv, PlaceInv, CheckpointRecorded
  <1> QED
    BY <1>2, <1>3, <1>4, <1>5, <1>6, <1>7, <1>8, <1>9 DEF Wake

LEMMA KeptByAgent ==
    ASSUME IInv, KeptInv, Agent \/ Renewing
    PROVE  KeptInv'
  <1>1. proc \in ProcType /\ goal \in GoalType
    BY DEF IInv, TypeOK
  <1>2. ASSUME NEW token \in owners, Renew(token) PROVE KeptInv'
    <2>1. lease # None /\ lease \in LeaseType
      BY <1>2 DEF Renew, AssertLease, IInv, TypeOK
    <2>2. /\ UNCHANGED <<goal, history, proc>> /\ lease' # None
          /\ lease'.journal = lease.journal /\ lease'.owner = lease.owner /\ proc.at = "idle"
      BY <1>2, <2>1, RenewStep DEF Renew, LeaseType, At
    <2> QED
      BY <2>1, <2>2 DEF KeptInv, JournalInv, PlaceInv, CheckpointRecorded
  <1>3. ASSUME NEW token \in owners, RecordIteration(token) PROVE KeptInv'
    <2>1. UNCHANGED <<lease, history, proc>> /\ proc.at = "idle" /\ goal'.checkpoint = goal.checkpoint
      BY <1>1, <1>3 DEF RecordIteration, GoalType, At
    <2> QED
      BY <2>1, Elsewhere DEF Places
  <1>4. ASSUME NEW token \in owners, NEW k \in Task, ClaimChild(token, k) PROVE KeptInv'
    <2>1. UNCHANGED <<lease, history>> /\ proc'.at = "tell" /\ goal'.checkpoint = goal.checkpoint
      BY <1>1, <1>4 DEF ClaimChild, GoalType, Idle
    <2> QED
      BY <2>1, Elsewhere DEF Places
  <1>5. ASSUME NEW token \in owners, NEW k \in Task, NEW outcome \in {"completed", "cancelled"},
               SettleChild(token, k, outcome) PROVE KeptInv'
    <2>1. UNCHANGED <<lease, history, proc>> /\ proc.at = "idle" /\ goal'.checkpoint = goal.checkpoint
      BY <1>1, <1>5 DEF SettleChild, GoalType, At
    <2> QED
      BY <2>1, Elsewhere DEF Places
  <1>6. ASSUME NEW token \in owners, NEW end \in Endings, StartCheckpoint(token, end) PROVE KeptInv'
    <2>1. UNCHANGED <<lease, goal, history>> /\ proc'.at \in {"text", "recheck"}
      BY <1>6 DEF StartCheckpoint, Idle
    <2> QED
      BY <2>1, InPlace DEF Places
  <1>7. CASE Tell \/ AbortCheckpoint
    <2>1. UNCHANGED <<lease, goal, history>> /\ Exit
      BY <1>7 DEF Tell, AbortCheckpoint, Stop
    <2> QED
      BY <2>1, InPlace, Departed
  <1>8. CASE WriteQuestion
    <2>1. UNCHANGED <<lease, goal, history>> /\ proc'.at = "recheck"
      BY <1>1, <1>8 DEF WriteQuestion, Go, ProcType
    <2> QED
      BY <2>1, InPlace DEF Places
  <1>9. CASE WriteCheckpointJournal
    <2>1. /\ lease # None /\ lease \in LeaseType /\ lease.owner # None
          /\ lease.owner.token = proc.token /\ proc.token \in Token /\ proc.token = minted
          /\ goal.checkpoint # minted /\ (lease.journal # None => lease.journal.id = minted)
      BY <1>9 DEF WriteCheckpointJournal, AssertLease, At, IInv, TypeOK, ItemInv, AdmittedInv,
                  Checkpointing, GoalInv, LeaseInv
    <2> DEFINE j == [id |-> proc.token, token |-> proc.token, epoch |-> lease.owner.epoch]
    <2>2. j \in JournalType /\ j # None
      BY <2>1, NullAssumption DEF JournalType, LeaseType, OwnerType
    <2>3. /\ UNCHANGED <<goal, history>> /\ proc'.at = "active" /\ lease'.owner = lease.owner
          /\ lease'.journal = j
      BY <1>1, <1>9, <2>1 DEF WriteCheckpointJournal, Go, ProcType, LeaseType
    <2> QED
      BY <2>1, <2>2, <2>3 DEF KeptInv, JournalInv, PlaceInv, CheckpointRecorded
  <1>10. CASE WriteCheckpointActive
    <2>1. /\ proc.at = "active" /\ lease # None /\ lease.journal # None
          /\ lease.journal.id = minted /\ proc.token = minted /\ ~proc.unlink
      BY <1>10 DEF WriteCheckpointActive, At, IInv, AdmittedInv, Checkpointing, LeaseInv, KeptInv, PlaceInv
    <2>2. /\ UNCHANGED <<lease, history>> /\ goal'.checkpoint = proc.token
          /\ proc'.at = "record" /\ proc'.token = proc.token
      BY <1>1, <1>10, <2>1, EndedStep DEF WriteCheckpointActive, EndsWell, Go, ProcType
    <2> QED
      BY <2>1, <2>2 DEF KeptInv, JournalInv, PlaceInv, CheckpointRecorded
  <1>11. CASE RecordCheckpoint
    <2>1. /\ UNCHANGED <<lease, goal>> /\ proc.at = "record" /\ proc'.at = "release"
          /\ history'.recorded = history.recorded \cup {proc.token}
      BY <1>1, <1>11 DEF RecordCheckpoint, At, Go, ProcType, IInv, TypeOK
    <2> QED
      BY <2>1 DEF KeptInv, JournalInv, PlaceInv, CheckpointRecorded
  <1>12. CASE Release
    <2>1. /\ lease' = None /\ UNCHANGED <<goal, history>> /\ proc.at = "release" /\ proc'.at = "idle"
      BY <1>12 DEF Release, RenameLease, At, Idle
    <2> QED
      BY <2>1 DEF KeptInv, JournalInv, PlaceInv, CheckpointRecorded
  <1> QED
    BY <1>2, <1>3, <1>4, <1>5, <1>6, <1>7, <1>8, <1>9, <1>10, <1>11, <1>12 DEF Agent, Renewing

LEMMA KeptByOperator ==
    ASSUME IInv, KeptInv, Operator
    PROVE  KeptInv'
  <1>1. goal \in GoalType
    BY DEF IInv, TypeOK
  <1>2. CASE (\E q \in Question : ResolveQuestion(q))
             \/ (\E i \in Input : AdoptInput(i)) \/ (\E r \in Research : BindResearch(r))
    <2>1. UNCHANGED <<lease, history>> /\ proc'.at \in {"idle", "forget"}
      BY <1>2 DEF ResolveQuestion, AdoptInput, BindResearch, Rebase, Idle, At
    <2>2. CASE \E q \in Question : ResolveQuestion(q)
      <3>1. goal'.checkpoint = goal.checkpoint
        BY <1>1, <2>2 DEF ResolveQuestion, GoalType
      <3> QED
        BY <2>1, <3>1, Elsewhere DEF Places
    <2>3. ASSUME NEW inputs, NEW research, Rebase(inputs, research) PROVE KeptInv'
      <3>1. goal'.checkpoint = goal.checkpoint
        BY <1>1, <2>3 DEF Rebase, GoalType
      <3> QED
        BY <2>1, <3>1, Elsewhere DEF Places
    <2> QED
      BY <1>2, <2>2, <2>3 DEF AdoptInput, BindResearch
  <1>3. CASE ForgetQuestion
    BY <1>3, InPlace, Departed DEF ForgetQuestion
  <1>4. CASE Initialize
    <2>1. goal'.checkpoint = None /\ UNCHANGED <<lease, history, proc>> /\ proc.at = "idle"
      BY <1>4 DEF Initialize, NewGoal, At
    <2> QED
      BY <2>1 DEF KeptInv, JournalInv, PlaceInv, CheckpointRecorded
  <1> QED
    BY <1>2, <1>3, <1>4 DEF Operator

LEMMA KeptByTick ==
    ASSUME IInv, KeptInv, Tick
    PROVE  KeptInv'
  <1>1. /\ UNCHANGED <<history, proc>> /\ proc.at = "idle" /\ goal'.checkpoint = goal.checkpoint
    BY DEF Tick, Idle, IInv, TypeOK, GoalType
  <1>2. CASE lease = None
    <2>1. lease' = None
      BY <1>2 DEF Tick
    <2> QED
      BY <1>1, <1>2, <2>1 DEF KeptInv, JournalInv, PlaceInv, CheckpointRecorded
  <1>3. CASE lease # None
    <2>1. /\ lease \in LeaseType /\ lease' # None /\ lease'.journal = lease.journal
          /\ lease'.owner = Ran(lease.owner)
      BY <1>3, TickStep DEF Tick, IInv, TypeOK, LeaseType
    <2>2. lease.journal # None => lease.owner # None
      BY <1>3 DEF IInv, LeaseInv
    <2>3. lease.owner # None => /\ Ran(lease.owner).token = lease.owner.token
                                /\ Ran(lease.owner).epoch = lease.owner.epoch
      BY <2>1 DEF Ran, LeaseType, OwnerType
    <2> QED
      BY <1>1, <1>3, <2>1, <2>2, <2>3 DEF KeptInv, JournalInv, PlaceInv, CheckpointRecorded
  <1> QED
    BY <1>2, <1>3

LEMMA KeptStep ==
    ASSUME IInv, KeptInv, repo.branch = goal.authority, [Next]_vars
    PROVE  KeptInv'
  <1>1. CASE StartReconcile \/ \E w \in WakeToken : StartWake(w)
    <2>1. UNCHANGED <<lease, goal, history>> /\ proc'.at = "sweep"
      BY <1>1 DEF StartReconcile, StartWake, Idle
    <2> QED
      BY <2>1, InPlace DEF Places
  <1>2. CASE Unlink
    <2>1. /\ UNCHANGED <<lease, goal, history>> /\ proc'.at = proc.at
          /\ proc'.token = proc.token /\ proc'.result = proc.result
      BY <1>2 DEF Unlink, IInv, TypeOK, ProcType
    <2> QED
      BY <2>1 DEF KeptInv, JournalInv, PlaceInv, CheckpointRecorded
  <1>3. CASE MoveRepository \/ UNCHANGED vars
    BY <1>3, InPlace DEF MoveRepository, vars
  <1>4. CASE Crash
    BY <1>4, InPlace, Departed DEF Crash
  <1>5. CASE AcquireFails
    <2>1. /\ lease' = None /\ UNCHANGED <<goal, history>> /\ proc'.at = "idle"
          /\ proc.at \in {"own", "start", "grant"}
      BY <1>5 DEF AcquireFails, Exit, Idle, At
    <2> QED
      BY <2>1 DEF KeptInv, JournalInv, PlaceInv, CheckpointRecorded
  <1> QED
    BY <1>1, <1>2, <1>3, <1>4, <1>5, KeptByReconcile, KeptByWake, KeptByAgent, KeptByOperator, KeptByTick
       DEF Next, Controller

(* As long as the goal's branch stays checked out, no crash and no fence   *)
(* loses the last checkpoint: it is in the history, or the lease still     *)
(* holds what it will be recorded from.                                    *)
THEOREM CheckpointKept ==
    Spec /\ [](repo.branch = goal.authority) => []CheckpointRecorded
  <1>1. Init => KeptInv
    BY DEF Init, NewGoal, Idle, KeptInv, JournalInv, PlaceInv, CheckpointRecorded
  <1>2. IInv /\ KeptInv /\ repo.branch = goal.authority /\ [Next]_vars => KeptInv'
    BY KeptStep
  <1>3. KeptInv => CheckpointRecorded
    BY DEF KeptInv
  <1> QED
    BY <1>1, <1>2, <1>3, Invariance, PTL DEF Spec

(* What was heard of the open question is no younger than its mark, and    *)
(* what was not marked since was not heard for a TTL.                      *)
OpenInv ==
    goal.question # None =>
        LET told == heard[goal.question.fingerprint] IN
        IF goal.question.emitted
        THEN told # None => told >= goal.question.age
        ELSE told \notin 0..Ttl
AskInv ==
    proc.at = "ask" =>
        /\ goal.question # None /\ goal.question.fingerprint = proc.item
        /\ goal.question.emitted /\ goal.question.age = 0
        /\ heard[proc.item] \notin 0..Ttl
(* A question on its way to the operator was not marked before.            *)
Delivering(p) == p.at \in {"claim", "deliver"} \/ (p.at \in Reconciling /\ p.for = "emit")
DeliverInv == Delivering(proc) /\ goal.question # None => ~goal.question.emitted
AskedInv == OpenInv /\ AskInv /\ DeliverInv

LEMMA Unasked ==
    ASSUME AskedInv, UNCHANGED heard, goal'.question \in {None, goal.question},
           UNCHANGED <<goal, proc>>
           \/ (proc'.at # "ask" /\ (Delivering(proc)' => Delivering(proc)))
    PROVE  AskedInv'
  <1>1. OpenInv'
    BY DEF AskedInv, OpenInv
  <1>2. AskInv'
    BY DEF AskedInv, AskInv
  <1>3. DeliverInv'
    BY DEF AskedInv, DeliverInv, Delivering
  <1> QED
    BY <1>1, <1>2, <1>3 DEF AskedInv

LEMMA Settled ==
    ASSUME AskedInv, UNCHANGED heard, goal'.question \in {None, goal.question},
           proc'.at \in {"idle", "decide", "own", "start", "grant", "tell", "text", "recheck", "active",
                        "record", "release", "forget"}
    PROVE  AskedInv'
  BY Unasked DEF Delivering, Reconciling

LEMMA ReconcileMoves ==
    ASSUME IInv, Reconcile
    PROVE  /\ proc.at \in Reconciling
           /\ \/ proc'.at \in Reconciling /\ proc'.for = proc.for
              \/ proc'.at = "deliver" /\ proc.for = "emit"
              \/ proc'.at \in {"idle", "decide"}
  <1>1. proc \in ProcType
    BY DEF IInv, TypeOK
  <1>2. CASE Sweep \/ BranchDiffers \/ BranchAgrees \/ ReplayCheckpoint \/ NothingToReplay
             \/ LeaseMissing \/ LeaseAbsent \/ CommitFenced \/ TreeClean
    BY <1>1, <1>2 DEF Sweep, BranchDiffers, BranchAgrees, ReplayCheckpoint, NothingToReplay, LeaseMissing,
                      LeaseAbsent, CommitFenced, TreeClean, Proceed, CommitGoal, Go, ProcType, At,
                      Reconciling
  <1>3. CASE FenceForBranch \/ ReleaseReplayed \/ FenceIncomplete \/ FenceLost
    BY <1>1, <1>3 DEF FenceForBranch, ReleaseReplayed, FenceIncomplete, FenceLost, RenameLease, ProcType,
                      At, Reconciling
  <1>4. CASE BlockForBranch \/ LeaseInitializing \/ LeaseHeld \/ BlockForDirtyTree
             \/ RevisionSame \/ BlockForReview \/ RevisionChanged
    <2>1. proc.at \in Reconciling
      BY <1>4 DEF BlockForBranch, LeaseInitializing, LeaseHeld, BlockForDirtyTree, RevisionSame,
                  BlockForReview, RevisionChanged, At, Reconciling
    <2>2. \E result \in Results : proc' = Return(result)
      BY <1>4 DEF BlockForBranch, LeaseInitializing, LeaseHeld, BlockForDirtyTree, RevisionSame,
                  BlockForReview, RevisionChanged, ReturnWith, Results
    <2>3. PICK result \in Results : proc' = Return(result)
      BY <2>2
    <2> QED
      BY <2>1, <2>3, ReturnsTo
  <1> QED
    BY <1>2, <1>3, <1>4 DEF Reconcile

LEMMA AskedInReconcile ==
    ASSUME IInv, AskedInv, Reconcile
    PROVE  AskedInv'
  <1>1. UNCHANGED heard
    BY DEF Reconcile, Sweep, FenceForBranch, BranchDiffers, BlockForBranch, BranchAgrees, ReplayCheckpoint,
           ReleaseReplayed, NothingToReplay, LeaseMissing, LeaseAbsent, LeaseInitializing,
           FenceIncomplete, LeaseHeld, FenceLost, CommitFenced, BlockForDirtyTree, TreeClean,
           RevisionSame, BlockForReview, RevisionChanged, Proceed, ReturnWith, CommitGoal,
           RenameLease, agents
  <1>2. goal'.question \in {None, goal.question}
    <2>1. goal \in GoalType
      BY DEF IInv, TypeOK
    <2>2. CASE UNCHANGED goal
      BY <2>2
    <2>3. CASE LeaseMissing \/ CommitFenced \/ BlockForBranch
      BY <2>1, <2>3 DEF LeaseMissing, CommitFenced, Fenced, BlockForBranch, CommitGoal, ReturnWith, GoalType
    <2>4. CASE BlockForDirtyTree \/ BlockForReview \/ RevisionChanged
      BY <2>1, <2>4 DEF BlockForDirtyTree, BlockForReview, RevisionChanged, ReturnWith, GoalType
    <2> QED
      BY <2>2, <2>3, <2>4
         DEF Reconcile, Sweep, FenceForBranch, BranchDiffers, BranchAgrees, ReplayCheckpoint,
             ReleaseReplayed, NothingToReplay, LeaseAbsent, LeaseInitializing, FenceIncomplete,
             LeaseHeld, FenceLost, TreeClean, RevisionSame, Proceed, ReturnWith, RenameLease
  <1>3. proc'.at # "ask" /\ (Delivering(proc)' => Delivering(proc))
    BY ReconcileMoves DEF Delivering, Reconciling
  <1> QED
    BY <1>1, <1>2, <1>3, Unasked

LEMMA AskedInWake ==
    ASSUME IInv, AskedInv, Wake
    PROVE  AskedInv'
  <1>1. /\ proc \in ProcType /\ goal \in GoalType /\ Ttl \in Nat
        /\ heard \in [Question -> Ages \cup {None}]
    BY PolicyAssumption DEF IInv, TypeOK
  <1>2. CASE RetryEmission
    <2>1. /\ goal.question # None /\ goal.question.emitted /\ goal.question.age > Ttl
          /\ goal.question \in QuestionType /\ UNCHANGED heard
      BY <1>1, <1>2 DEF RetryEmission, EmissionAged, QuestionOpen, GoalType, agents
    <2>2. /\ goal'.question.fingerprint = goal.question.fingerprint /\ ~goal'.question.emitted
          /\ proc'.at = "unclaim"
      BY <1>1, <1>2, <2>1 DEF RetryEmission, GoalType, QuestionType, ProcType
    <2>3. heard[goal.question.fingerprint] \notin 0..Ttl
      BY <1>1, <2>1, NullAssumption DEF AskedInv, OpenInv, QuestionType, Ages
    <2> QED
      BY <2>1, <2>2, <2>3 DEF AskedInv, OpenInv, AskInv, DeliverInv, Delivering, Reconciling
  <1>3. CASE EmitQuestion
    <2>1. /\ goal.question # None /\ goal.question.fingerprint = proc.item
          /\ goal.question \in QuestionType /\ proc.at = "deliver" /\ UNCHANGED heard
      BY <1>1, <1>3 DEF EmitQuestion, StillOpen, QuestionOpen, At, CommitGoal, GoalType, agents
    <2>2. heard[proc.item] \notin 0..Ttl
      BY <2>1 DEF AskedInv, DeliverInv, Delivering, OpenInv
    <2>3. /\ goal'.question.fingerprint = proc.item /\ goal'.question.emitted
          /\ goal'.question.age = 0 /\ goal'.question # None
      <3>1. goal' = [goal EXCEPT !.question.emitted = TRUE, !.question.age = 0]
        BY <1>3 DEF EmitQuestion, CommitGoal
      <3>2. PICK q : q = [goal.question EXCEPT !.emitted = TRUE, !.age = 0]
        OBVIOUS
      <3>3. q \in QuestionType /\ q.fingerprint = proc.item /\ q.emitted /\ q.age = 0
        BY <2>1, <3>2, ZeroAge DEF QuestionType
      <3>4. goal'.question = q
        BY <1>1, <3>1, <3>2 DEF GoalType
      <3> QED
        BY <3>3, <3>4, NullAssumption
    <2>4. proc'.at = "ask" /\ proc'.item = proc.item
      BY <1>1, <1>3 DEF EmitQuestion, CommitGoal, Go, ProcType
    <2>5. heard[proc.item] # None => heard[proc.item] >= 0
      BY <1>1, <2>1 DEF QuestionType, Ages
    <2>6. OpenInv'
      BY <2>1, <2>3, <2>5 DEF OpenInv
    <2>7. AskInv'
      BY <2>1, <2>2, <2>3, <2>4 DEF AskInv
    <2> QED
      BY <2>4, <2>6, <2>7 DEF AskedInv, DeliverInv, Delivering, Reconciling
  <1>4. CASE Ask
    <2>1. /\ proc.at = "ask" /\ UNCHANGED goal /\ proc'.at = "idle"
          /\ heard' = [heard EXCEPT ![proc.item] = 0]
      BY <1>4 DEF Ask, At, Exit, Idle
    <2>2. /\ goal.question # None /\ goal.question \in QuestionType
          /\ goal.question.fingerprint = proc.item /\ goal.question.emitted /\ goal.question.age = 0
      BY <1>1, <2>1 DEF AskedInv, AskInv, GoalType
    <2>3. heard'[proc.item] = 0
      BY <1>1, <2>1, <2>2 DEF QuestionType
    <2> QED
      BY <2>1, <2>2, <2>3 DEF AskedInv, OpenInv, AskInv, DeliverInv, Delivering, Reconciling
  <1>5. CASE Unclaim
    <2>1. /\ UNCHANGED <<heard, goal>> /\ proc'.at = "sweep" /\ proc'.for = "wake"
      BY <1>1, <1>5 DEF Unclaim, At, IInv, ItemInv, ProcType, agents
    <2> QED
      BY <2>1, Unasked DEF Delivering
  <1>6. CASE DropAgedClaim
    <2>1. /\ UNCHANGED <<heard, goal>> /\ proc'.at = "sweep" /\ proc'.for = "wake"
      BY <1>1, <1>6 DEF DropAgedClaim, WakeGoesOn, At, IInv, ItemInv, ProcType, agents
    <2> QED
      BY <2>1, Unasked DEF Delivering
  <1>7. CASE CreateClaim
    <2>1. /\ UNCHANGED <<heard, goal>> /\ proc'.at = "claim" /\ ~goal.question.emitted
      BY <1>1, <1>7 DEF CreateClaim, Claimable, ProcType, agents
    <2> QED
      BY <2>1 DEF AskedInv, OpenInv, AskInv, DeliverInv
  <1>8. CASE WriteClaim
    <2>1. /\ UNCHANGED <<heard, goal>> /\ proc.at = "claim" /\ proc'.at = "sweep"
      BY <1>1, <1>8 DEF WriteClaim, At, ProcType, agents
    <2> QED
      BY <2>1, Unasked DEF Delivering
  <1>9. CASE WithdrawClaim \/ Grant \/ WakeNoop \/ NoteRetriesExhausted
    <2>1. UNCHANGED heard /\ Exit /\ goal'.question = goal.question
      BY <1>1, <1>9 DEF WithdrawClaim, Grant, WakeNoop, NoteRetriesExhausted, Stop, GoalType, agents
    <2> QED
      BY <2>1, Settled DEF Exit, Idle
  <1>10. CASE CreateLease \/ WriteOwner
    <2>1. UNCHANGED <<heard, goal>> /\ proc'.at \in {"own", "start"}
      BY <1>1, <1>10 DEF CreateLease, WriteOwner, Go, ProcType, agents
    <2> QED
      BY <2>1, Settled
  <1>11. CASE StartRun
    <2>1. UNCHANGED heard /\ proc'.at = "grant" /\ goal'.question = goal.question
      BY <1>1, <1>11 DEF StartRun, Go, ProcType, GoalType, agents
    <2> QED
      BY <2>1, Settled
  <1> QED
    BY <1>2, <1>3, <1>4, <1>5, <1>6, <1>7, <1>8, <1>9, <1>10, <1>11 DEF Wake

LEMMA AskedInAgent ==
    ASSUME IInv, AskedInv, Agent \/ Renewing
    PROVE  AskedInv'
  <1>1. proc \in ProcType /\ goal \in GoalType /\ heard \in [Question -> Ages \cup {None}]
    BY DEF IInv, TypeOK
  <1>2. ASSUME NEW token \in owners, Renew(token) \/ RecordIteration(token) PROVE AskedInv'
    <2>1. UNCHANGED <<heard, proc>> /\ proc.at = "idle" /\ goal'.question = goal.question
      BY <1>1, <1>2 DEF Renew, RecordIteration, GoalType, At, agents
    <2> QED
      BY <2>1, Settled
  <1>3. ASSUME NEW token \in owners, NEW k \in Task, ClaimChild(token, k) PROVE AskedInv'
    <2>1. UNCHANGED heard /\ proc'.at = "tell" /\ goal'.question = goal.question
      BY <1>1, <1>3 DEF ClaimChild, GoalType, Idle, agents
    <2> QED
      BY <2>1, Settled
  <1>4. ASSUME NEW token \in owners, NEW k \in Task, NEW outcome \in {"completed", "cancelled"},
               SettleChild(token, k, outcome) PROVE AskedInv'
    <2>1. UNCHANGED <<heard, proc>> /\ proc.at = "idle" /\ goal'.question = goal.question
      BY <1>1, <1>4 DEF SettleChild, GoalType, At, agents
    <2> QED
      BY <2>1, Settled
  <1>5. ASSUME NEW token \in owners, NEW end \in Endings, StartCheckpoint(token, end) PROVE AskedInv'
    <2>1. UNCHANGED <<heard, goal>> /\ proc'.at \in {"text", "recheck"}
      BY <1>5 DEF StartCheckpoint, Idle, agents
    <2> QED
      BY <2>1, Settled
  <1>6. CASE Tell \/ AbortCheckpoint
    <2>1. UNCHANGED <<heard, goal>> /\ Exit
      BY <1>6 DEF Tell, AbortCheckpoint, Stop, agents
    <2> QED
      BY <2>1, Settled DEF Exit, Idle
  <1>7. CASE WriteQuestion \/ WriteCheckpointJournal \/ RecordCheckpoint
    <2>1. UNCHANGED <<heard, goal>> /\ proc'.at \in {"recheck", "active", "release"}
      BY <1>1, <1>7 DEF WriteQuestion, WriteCheckpointJournal, RecordCheckpoint, Go, ProcType, agents
    <2> QED
      BY <2>1, Settled
  <1>8. CASE WriteCheckpointActive
    <2>1. /\ goal.run # None /\ proc.at = "active" /\ ~proc.unlink /\ proc.item \in Endings
      BY <1>8 DEF WriteCheckpointActive, At, IInv, AdmittedInv, ItemInv, Checkpointing
    <2>2. goal.question = None
      BY <2>1 DEF IInv, GoalInv, QuestionIsWhole
    <2>3. EndsWell(goal', proc.item)
      BY <1>8, <2>1, EndedStep DEF WriteCheckpointActive
    <2>4. proc'.at = "record"
      BY <1>1, <1>8 DEF WriteCheckpointActive, Go, ProcType
    <2>5. CASE goal'.question = None
      BY <2>4, <2>5 DEF AskedInv, OpenInv, AskInv, DeliverInv, Delivering, Reconciling
    <2>6. CASE goal'.question # None
      <3>1. /\ proc.item.state = "blocked" /\ goal'.question.fingerprint = proc.item.question
            /\ ~goal'.question.emitted /\ goal'.question \in QuestionType
        BY <2>3, <2>6 DEF EndsWell, GoalType
      <3>2. heard' = [heard EXCEPT ![proc.item.question] = None]
        BY <1>8, <2>2, <3>1 DEF WriteCheckpointActive, NewQuestion
      <3>3. heard'[goal'.question.fingerprint] = None
        BY <1>1, <3>1, <3>2 DEF QuestionType
      <3>4. None \notin 0..Ttl
        BY NullAssumption, PolicyAssumption
      <3> QED
        BY <2>4, <3>1, <3>3, <3>4 DEF AskedInv, OpenInv, AskInv, DeliverInv, Delivering, Reconciling
    <2> QED
      BY <2>5, <2>6
  <1>9. CASE Release
    <2>1. UNCHANGED <<heard, goal>> /\ proc'.at = "idle"
      BY <1>9 DEF Release, RenameLease, Idle, agents
    <2> QED
      BY <2>1, Settled
  <1> QED
    BY <1>2, <1>3, <1>4, <1>5, <1>6, <1>7, <1>8, <1>9 DEF Agent, Renewing

LEMMA AskedInOperator ==
    ASSUME IInv, AskedInv, Operator
    PROVE  AskedInv'
  <1>1. goal \in GoalType
    BY DEF IInv, TypeOK
  <1>2. ASSUME NEW q \in Question, ResolveQuestion(q) PROVE AskedInv'
    <2>1. UNCHANGED heard /\ proc'.at = "forget" /\ goal'.question = None
      BY <1>1, <1>2 DEF ResolveQuestion, Idle, GoalType, agents
    <2> QED
      BY <2>1, Settled
  <1>3. CASE ForgetQuestion
    <2>1. UNCHANGED <<heard, goal>> /\ proc'.at = "idle"
      BY <1>3 DEF ForgetQuestion, Exit, Idle, agents
    <2> QED
      BY <2>1, Settled
  <1>4. ASSUME NEW inputs, NEW research, Rebase(inputs, research) PROVE AskedInv'
    <2>1. UNCHANGED <<heard, proc>> /\ proc.at = "idle" /\ goal'.question = goal.question
      BY <1>1, <1>4 DEF Rebase, At, GoalType, agents
    <2> QED
      BY <2>1, Settled
  <1>5. CASE Initialize
    <2>1. UNCHANGED <<heard, proc>> /\ proc.at = "idle" /\ goal'.question = None
      BY <1>5 DEF Initialize, NewGoal, At, agents
    <2> QED
      BY <2>1, Settled
  <1> QED
    BY <1>2, <1>3, <1>4, <1>5 DEF Operator, AdoptInput, BindResearch

LEMMA AskedInTick ==
    ASSUME IInv, AskedInv, Tick
    PROVE  AskedInv'
  <1>1. /\ goal \in GoalType /\ Ttl \in Nat /\ heard \in [Question -> Ages \cup {None}]
        /\ proc.at = "idle" /\ UNCHANGED proc
        /\ heard' = [q \in Question |-> ElapsedSince(heard[q])]
    BY PolicyAssumption DEF Tick, Idle, IInv, TypeOK
  <1>2. goal'.question = Waited
    BY <1>1 DEF Tick, GoalType
  <1>3. OpenInv'
    <2> SUFFICES ASSUME goal'.question # None PROVE OpenInv'
      BY DEF OpenInv
    <2>1. goal.question # None /\ goal.question \in QuestionType /\ goal.state = "blocked"
      BY <1>1, <1>2 DEF Waited, QuestionOpen, GoalType, IInv, QuestionIsWhole
    <2>2. PICK f \in Question : f = goal.question.fingerprint
      BY <2>1 DEF QuestionType
    <2>3. PICK h \in Ages \cup {None} : h = heard[f]
      BY <1>1
    <2>4. heard'[f] = ElapsedSince(h)
      BY <1>1, <2>3
    <2>5. CASE goal.question.emitted
      <3>1. goal'.question = [goal.question EXCEPT !.age = Age(@)]
        BY <1>2, <2>1, <2>5 DEF Waited, QuestionOpen
      <3>2. /\ goal'.question.fingerprint = f /\ goal'.question.emitted
            /\ goal'.question.age = Age(goal.question.age)
        BY <2>1, <2>2, <2>5, <3>1 DEF QuestionType
      <3>3. h # None => h >= goal.question.age
        BY <2>1, <2>2, <2>3, <2>5 DEF AskedInv, OpenInv
      <3>4. goal.question.age \in Ages
        BY <2>1 DEF QuestionType
      <3>5. ElapsedSince(h) # None => ElapsedSince(h) >= Age(goal.question.age)
        <4>1. CASE h = None
          BY <4>1 DEF ElapsedSince
        <4>2. CASE h # None
          <5>1. h \in Ages /\ h \in Nat /\ h # Torn
            BY <1>1, <4>2, NullAssumption DEF Ages
          <5>2. ElapsedSince(h) = Age(h)
            BY <4>2, <5>1 DEF ElapsedSince
          <5> QED
            BY <1>1, <3>3, <3>4, <4>2, <5>1, <5>2 DEF Age, Least, Ages
        <4> QED
          BY <4>1, <4>2
      <3> QED
        BY <2>4, <3>2, <3>5 DEF OpenInv
    <2>6. CASE ~goal.question.emitted
      <3>1. goal'.question = goal.question
        BY <1>2, <2>6 DEF Waited
      <3>2. h \notin 0..Ttl
        BY <2>1, <2>2, <2>3, <2>6 DEF AskedInv, OpenInv
      <3>3. ElapsedSince(h) \notin 0..Ttl
        <4>1. CASE h = None
          BY <3>2, <4>1 DEF ElapsedSince
        <4>2. CASE h # None
          <5>1. h = Ttl + 1 /\ h \in Nat /\ h # Torn
            BY <1>1, <3>2, <4>2, NullAssumption DEF Ages
          <5>2. ElapsedSince(h) = Age(h)
            BY <4>2, <5>1 DEF ElapsedSince
          <5> QED
            BY <1>1, <5>1, <5>2 DEF Age, Least
        <4> QED
          BY <4>1, <4>2
      <3> QED
        BY <2>2, <2>4, <2>6, <3>1, <3>3 DEF OpenInv
    <2> QED
      BY <2>5, <2>6
  <1> QED
    BY <1>1, <1>3 DEF AskedInv, AskInv, DeliverInv, Delivering, Reconciling

LEMMA AskedStep ==
    ASSUME IInv, AskedInv, [Next]_vars
    PROVE  AskedInv'
  <1>1. CASE StartReconcile \/ \E w \in WakeToken : StartWake(w)
    <2>1. /\ UNCHANGED <<heard, goal>> /\ proc'.at = "sweep" /\ proc'.for \in {"reconcile", "wake"}
      BY <1>1 DEF StartReconcile, StartWake, Idle, agents
    <2> QED
      BY <2>1, Unasked DEF Delivering
  <1>2. CASE Unlink
    <2>1. /\ UNCHANGED <<heard, goal>> /\ proc'.at = proc.at /\ proc'.for = proc.for /\ proc.at # "ask"
      BY <1>2 DEF Unlink, IInv, TypeOK, SweptInv, ProcType, agents
    <2> QED
      BY <2>1, Unasked DEF Delivering
  <1>3. CASE MoveRepository \/ UNCHANGED vars
    BY <1>3, Unasked DEF MoveRepository, vars, agents
  <1>4. CASE Crash \/ AcquireFails
    BY <1>4, Settled DEF Crash, AcquireFails, Exit, Idle, agents
  <1> QED
    BY <1>1, <1>2, <1>3, <1>4, AskedInReconcile, AskedInWake, AskedInAgent, AskedInOperator, AskedInTick
       DEF Next, Controller

(* The operator is not asked an open question again before its TTL is      *)
(* over, whatever was claimed, lost in a crash, retried or resolved since. *)
THEOREM AskedOncePerTtl == Spec => []NotAskedTwice
  <1>1. Init => AskedInv
    BY DEF Init, NewGoal, Idle, AskedInv, OpenInv, AskInv, DeliverInv
  <1>2. IInv /\ AskedInv /\ [Next]_vars => AskedInv'
    BY AskedStep
  <1>3. AskedInv => NotAskedTwice
    BY DEF AskedInv, AskInv, NotAskedTwice, At
  <1> QED
    BY <1>1, <1>2, <1>3, Invariance, PTL DEF Spec
(* Who moves the goal's revision: the reconcile that finds another one, the *)
(* operator who adopts an input or binds research, and a new goal.         *)
Adopting == (\E i \in Input : AdoptInput(i)) \/ (\E r \in Research : BindResearch(r))

LEMMA RevisionMoves ==
    ASSUME IInv, Next, goal'.rev # goal.rev
    PROVE  RevisionChanged \/ Adopting \/ Initialize
  <1>1. goal \in GoalType
    BY DEF IInv, TypeOK
  <1>2. CASE \/ StartReconcile \/ (\E w \in WakeToken : StartWake(w)) \/ Unlink \/ MoveRepository
             \/ Crash \/ AcquireFails
    <2>1. StartReconcile \/ Unlink \/ MoveRepository \/ Crash \/ AcquireFails => goal' = goal
      BY DEF StartReconcile, Unlink, MoveRepository, Crash, AcquireFails
    <2>2. ASSUME NEW w \in WakeToken, StartWake(w) PROVE goal' = goal
      BY <2>2 DEF StartWake
    <2> QED
      BY <1>2, <2>1, <2>2
  <1>3. CASE Reconcile
    <2>1. CASE \/ Sweep \/ FenceForBranch \/ BranchDiffers \/ BranchAgrees \/ ReplayCheckpoint
               \/ ReleaseReplayed \/ NothingToReplay \/ LeaseAbsent \/ LeaseInitializing
               \/ FenceIncomplete \/ LeaseHeld \/ FenceLost \/ TreeClean \/ RevisionSame
      BY <2>1 DEF Sweep, FenceForBranch, BranchDiffers, BranchAgrees, ReplayCheckpoint,
                  ReleaseReplayed, NothingToReplay, LeaseAbsent, LeaseInitializing,
                  FenceIncomplete, LeaseHeld, FenceLost, TreeClean, RevisionSame,
                  RenameLease, Proceed, ReturnWith
    <2>2. CASE BlockForBranch \/ LeaseMissing \/ CommitFenced \/ BlockForDirtyTree \/ BlockForReview
      BY <1>1, <2>2 DEF BlockForBranch, LeaseMissing, CommitFenced, Fenced, BlockForDirtyTree,
                        BlockForReview, ReturnWith, CommitGoal, GoalType
    <2> QED
      BY <1>3, <2>1, <2>2 DEF Reconcile
  <1>4. CASE Wake
    <2>1. CASE \/ Unclaim \/ CreateClaim \/ WriteClaim \/ DropAgedClaim \/ WithdrawClaim \/ Ask
               \/ CreateLease \/ WriteOwner \/ Grant \/ WakeNoop
      BY <2>1 DEF Unclaim, CreateClaim, WriteClaim, DropAgedClaim, WithdrawClaim, Ask,
                  CreateLease, WriteOwner, Grant, WakeNoop, Stop
    <2>2. CASE RetryEmission \/ EmitQuestion \/ NoteRetriesExhausted \/ StartRun
      BY <1>1, <2>2 DEF RetryEmission, EmitQuestion, NoteRetriesExhausted, StartRun, CommitGoal, GoalType
    <2> QED
      BY <1>4, <2>1, <2>2 DEF Wake
  <1>5. CASE Agent \/ Renewing
    <2>1. ASSUME NEW token \in owners, Renew(token) \/ RecordIteration(token) PROVE FALSE
      BY <1>1, <2>1 DEF Renew, RecordIteration, GoalType
    <2>2. ASSUME NEW token \in owners, NEW k \in Task, ClaimChild(token, k) PROVE FALSE
      BY <1>1, <2>2 DEF ClaimChild, GoalType
    <2>3. ASSUME NEW token \in owners, NEW k \in Task, NEW outcome \in {"completed", "cancelled"},
                 SettleChild(token, k, outcome)
          PROVE  FALSE
      BY <1>1, <2>3 DEF SettleChild, GoalType
    <2>4. ASSUME NEW token \in owners, NEW end \in Endings, StartCheckpoint(token, end) PROVE FALSE
      BY <2>4 DEF StartCheckpoint
    <2>5. CASE Tell \/ WriteQuestion \/ WriteCheckpointJournal \/ AbortCheckpoint \/ RecordCheckpoint \/ Release
      BY <2>5 DEF Tell, WriteQuestion, WriteCheckpointJournal, AbortCheckpoint, RecordCheckpoint,
                  Release, RenameLease, Stop
    <2>6. CASE WriteCheckpointActive
      <3>1. proc.at = "active" /\ ~proc.unlink /\ goal' = Ended(proc.item)
        BY <2>6 DEF WriteCheckpointActive, At
      <3> QED
        BY <3>1, EndedStep DEF EndsWell
    <2> QED
      BY <1>5, <2>1, <2>2, <2>3, <2>4, <2>5, <2>6 DEF Agent, Renewing
  <1>6. CASE Operator
    <2>1. ASSUME NEW q \in Question, ResolveQuestion(q) PROVE FALSE
      BY <1>1, <2>1 DEF ResolveQuestion, GoalType
    <2>2. ~ForgetQuestion
      BY DEF ForgetQuestion
    <2> QED
      BY <1>6, <2>1, <2>2 DEF Operator, Adopting
  <1>7. CASE Tick
    <2>1. PICK run : run = Ran(goal.run)
      OBVIOUS
    <2>2. PICK wait : wait = Countdown(goal.waitLeft)
      OBVIOUS
    <2>3. PICK retry : retry = Countdown(goal.retryLeft)
      OBVIOUS
    <2>4. PICK question : question = Waited
      OBVIOUS
    <2>5. goal' = [goal EXCEPT !.run = run, !.waitLeft = wait, !.retryLeft = retry, !.question = question]
      BY <1>7, <2>1, <2>2, <2>3, <2>4 DEF Tick
    <2> QED
      BY <1>1, <2>5 DEF GoalType
  <1> QED
    BY <1>2, <1>3, <1>4, <1>5, <1>6, <1>7 DEF Next, Controller

(* No command takes a goal from a revision a run started on before that was *)
(* reviewed, as long as the operator adopts no input and binds no research:  *)
(* those two look for no review.                                           *)
THEOREM LeftReviewed ==
    Spec /\ [][~Adopting]_vars => ReviewedBeforeLeaving
  <1>1. ASSUME IInv, [Next]_vars, [~Adopting]_vars, goal'.id = goal.id, goal'.rev # goal.rev
        PROVE  ~ReviewOwed
    <2>1. goal # goal'
      BY <1>1
    <2>2. Next /\ ~Adopting
      BY <1>1, <2>1 DEF vars
    <2>3. ~Initialize
      <3>1. SUFFICES ASSUME Initialize PROVE FALSE
        OBVIOUS
      <3>2. goal'.id = goal.id + 1 /\ goal.id \in Nat
        BY <3>1, <1>1 DEF Initialize, NewGoal, IInv, TypeOK, GoalType
      <3> QED
        BY <1>1, <3>2
    <2>4. RevisionChanged
      BY <1>1, <2>2, <2>3, RevisionMoves
    <2> QED
      BY <2>4 DEF RevisionChanged
  <1>2. IInv /\ [Next]_vars /\ [~Adopting]_vars
          => (goal'.id = goal.id /\ goal'.rev # goal.rev => ~ReviewOwed)
    BY <1>1
  <1> QED
    BY <1>2, Invariance, PTL DEF Spec, ReviewedBeforeLeaving

-----------------------------------------------------------------------------
(* The commit hook, which reads without lock and replay.                   *)
LEMMA Projected == HookSpec => Spec
  <1>1. HookInit => Init
    BY DEF HookInit
  <1>2. [HookNext]_hookVars => [Next]_vars
    BY DEF HookNext, ReadActive, ReadOwner, ReplaceRenewal, JournalRenewal, Command, RepositoryMoves,
           ClockMoves, Next, hookVars
  <1> QED
    BY <1>1, <1>2, PTL DEF HookSpec, Spec

(* renewal.json is the owner's own or an earlier one of its: a renewal     *)
(* never shortens a lease.                                                 *)
RenewalInv ==
    /\ onDisk \in RenewalType \cup {None}
    /\ onDisk # None => /\ lease # None /\ lease.renewal # None
                        /\ onDisk.left <= lease.renewal.left
    /\ lease # None /\ lease.renewal # None => lease.renewal.left >= lease.owner.left
(* The run that was read is over, or is the goal's run still, or its       *)
(* checkpoint has not yet given up its lease.                              *)
Standing == goal.run # None \/ goal.checkpoint = minted
ReadInv ==
    /\ DOMAIN hook = {"complete", "owner", "run"}
    /\ hook.run # None => hook.run.token \in Nat /\ hook.run.token <= minted
    /\ proc.at = "start" /\ hook.run # None => hook.run.token # minted
    /\ proc.at = "mismatch" => lease = None
    /\ hook.run # None /\ hook.run.token = minted /\ lease # None /\ lease.owner # None =>
        hook.run.epoch = goal.epoch /\ Standing
HookInv == RenewalInv /\ ReadInv

(* Who changes a lease that stays.                                         *)
LEMMA LeaseMoves ==
    ASSUME IInv, Controller, lease' # None
    PROVE  UNCHANGED lease \/ CreateLease \/ WriteOwner \/ WriteCheckpointJournal
  <1>1. CASE StartReconcile \/ (\E w \in WakeToken : StartWake(w)) \/ Unlink \/ Crash
    BY <1>1 DEF StartReconcile, StartWake, Unlink, Crash
  <1>2. CASE Reconcile
    BY <1>2 DEF Reconcile, Sweep, FenceForBranch, BranchDiffers, BlockForBranch, BranchAgrees,
                ReplayCheckpoint, ReleaseReplayed, NothingToReplay, LeaseMissing, LeaseAbsent,
                LeaseInitializing, FenceIncomplete, LeaseHeld, FenceLost, CommitFenced,
                BlockForDirtyTree, TreeClean, RevisionSame, BlockForReview, RevisionChanged,
                Proceed, ReturnWith, CommitGoal, RenameLease
  <1>3. CASE Wake
    BY <1>3 DEF Wake, RetryEmission, Unclaim, CreateClaim, WriteClaim, DropAgedClaim, EmitQuestion,
                WithdrawClaim, Ask, NoteRetriesExhausted, StartRun, Grant, WakeNoop, CommitGoal, Stop
  <1>4. CASE Agent
    BY <1>4 DEF Agent, RecordIteration, ClaimChild, SettleChild, StartCheckpoint, Tell, WriteQuestion,
                AbortCheckpoint, WriteCheckpointActive, RecordCheckpoint, Release, RenameLease, Stop
  <1>5. CASE Operator
    BY <1>5 DEF Operator, ResolveQuestion, ForgetQuestion, AdoptInput, BindResearch, Rebase, Initialize
  <1>6. CASE AcquireFails
    BY <1>6 DEF AcquireFails
  <1> QED
    BY <1>1, <1>2, <1>3, <1>4, <1>5, <1>6 DEF Controller

(* Where a step of the controller leaves its process.                      *)
Apart == {"start", "mismatch"}
LEMMA Settles ==
    ASSUME IInv, \/ StartReconcile \/ (\E w \in WakeToken : StartWake(w)) \/ Crash \/ AcquireFails
                 \/ Agent \/ Operator
    PROVE  proc'.at \notin Apart \/ proc' = proc
  <1>1. proc \in ProcType /\ Idle.at = "idle"
    BY DEF IInv, TypeOK, Idle
  <1>2. Exit => proc'.at = "idle"
    BY <1>1 DEF Exit
  <1>3. \A step : Go(step) => proc'.at = step
    BY <1>1 DEF Go, ProcType
  <1>4. CASE StartReconcile
    BY <1>4 DEF StartReconcile, Idle, Apart
  <1>5. ASSUME NEW w \in WakeToken, StartWake(w) PROVE proc'.at \notin Apart
    BY <1>5 DEF StartWake, Idle, Apart
  <1>6. CASE Crash \/ AcquireFails
    BY <1>2, <1>6 DEF Crash, AcquireFails, Apart
  <1>7. CASE Agent
    <2>1. ASSUME NEW token \in owners, RecordIteration(token) PROVE proc' = proc
      BY <2>1 DEF RecordIteration
    <2>2. ASSUME NEW token \in owners, NEW k \in Task, ClaimChild(token, k) PROVE proc'.at \notin Apart
      BY <2>2 DEF ClaimChild, Idle, Apart
    <2>3. ASSUME NEW token \in owners, NEW k \in Task, NEW outcome \in {"completed", "cancelled"},
                 SettleChild(token, k, outcome)
          PROVE  proc' = proc
      BY <2>3 DEF SettleChild
    <2>4. ASSUME NEW token \in owners, NEW end \in Endings, StartCheckpoint(token, end)
          PROVE  proc'.at \notin Apart
      <3>1. proc' = [Idle EXCEPT !.at = IF NewQuestion(end) THEN "text" ELSE "recheck",
                                 !.token = token, !.item = end]
        BY <2>4 DEF StartCheckpoint
      <3>2. CASE NewQuestion(end)
        BY <3>1, <3>2 DEF Idle, Apart
      <3>3. CASE ~NewQuestion(end)
        BY <3>1, <3>3 DEF Idle, Apart
      <3> QED
        BY <3>2, <3>3
    <2>5. CASE Tell \/ AbortCheckpoint
      BY <1>2, <2>5 DEF Tell, AbortCheckpoint, Stop, Apart
    <2>6. CASE WriteQuestion \/ WriteCheckpointJournal \/ WriteCheckpointActive \/ RecordCheckpoint
      BY <1>3, <2>6 DEF WriteQuestion, WriteCheckpointJournal, WriteCheckpointActive, RecordCheckpoint, Apart
    <2>7. CASE Release
      BY <2>7 DEF Release, RenameLease, Idle, Apart
    <2> QED
      BY <1>7, <2>1, <2>2, <2>3, <2>4, <2>5, <2>6, <2>7 DEF Agent
  <1>8. CASE Operator
    <2>1. ASSUME NEW q \in Question, ResolveQuestion(q) PROVE proc'.at \notin Apart
      BY <2>1 DEF ResolveQuestion, Idle, Apart
    <2>2. CASE ForgetQuestion
      BY <1>2, <2>2 DEF ForgetQuestion, Apart
    <2>3. CASE (\E i \in Input : AdoptInput(i)) \/ (\E r \in Research : BindResearch(r)) \/ Initialize
      BY <2>3 DEF AdoptInput, BindResearch, Rebase, Initialize
    <2> QED
      BY <1>8, <2>1, <2>2, <2>3 DEF Operator
  <1> QED
    BY <1>4, <1>5, <1>6, <1>7, <1>8

LEMMA SettlesInWake ==
    ASSUME IInv, Wake, ~WriteOwner
    PROVE  proc'.at \notin Apart
  <1>1. proc \in ProcType /\ Idle.at = "idle"
    BY DEF IInv, TypeOK, Idle
  <1>2. Exit => proc'.at = "idle"
    BY <1>1 DEF Exit
  <1>3. \A step : Go(step) => proc'.at = step
    BY <1>1 DEF Go, ProcType
  <1>4. CASE RetryEmission \/ Unclaim \/ CreateClaim \/ WriteClaim \/ DropAgedClaim
    BY <1>1, <1>4 DEF RetryEmission, Unclaim, CreateClaim, WriteClaim, DropAgedClaim, ProcType, Apart
  <1>5. CASE EmitQuestion \/ CreateLease \/ StartRun
    BY <1>3, <1>5 DEF EmitQuestion, CreateLease, StartRun, CommitGoal, Apart
  <1>6. CASE WithdrawClaim \/ Ask \/ NoteRetriesExhausted \/ Grant \/ WakeNoop
    BY <1>2, <1>6 DEF WithdrawClaim, Ask, NoteRetriesExhausted, Grant, WakeNoop, Stop, Apart
  <1> QED
    BY <1>4, <1>5, <1>6 DEF Wake

(* Who generates a token, and who goes on to start its run.                *)
LEMMA TokenMoves ==
    ASSUME IInv, Controller, ~WriteOwner
    PROVE  minted' = minted /\ (proc'.at = "start" => proc.at = "start")
  <1>1. proc \in ProcType
    BY DEF IInv, TypeOK
  <1>2. CASE StartReconcile \/ (\E w \in WakeToken : StartWake(w)) \/ Crash \/ AcquireFails
    BY <1>2, Settles DEF StartReconcile, StartWake, Crash, AcquireFails, Apart
  <1>3. CASE Reconcile
    <2>1. proc'.at # "start"
      BY <1>3, ReconcileMoves DEF Reconciling
    <2>2. UNCHANGED minted
      BY <1>3 DEF Reconcile, Sweep, FenceForBranch, BranchDiffers, BlockForBranch, BranchAgrees,
                  ReplayCheckpoint, ReleaseReplayed, NothingToReplay, LeaseMissing, LeaseAbsent,
                  LeaseInitializing, FenceIncomplete, LeaseHeld, FenceLost, CommitFenced,
                  BlockForDirtyTree, TreeClean, RevisionSame, BlockForReview, RevisionChanged,
                  Proceed, ReturnWith, CommitGoal, RenameLease
    <2> QED
      BY <2>1, <2>2
  <1>4. CASE Wake
    <2>1. UNCHANGED minted
      BY <1>4 DEF Wake, RetryEmission, Unclaim, CreateClaim, WriteClaim, DropAgedClaim, EmitQuestion,
                  WithdrawClaim, Ask, NoteRetriesExhausted, CreateLease, StartRun, Grant, WakeNoop,
                  CommitGoal, Stop
    <2> QED
      BY <1>4, <2>1, SettlesInWake DEF Apart
  <1>5. CASE Agent
    <2>1. UNCHANGED minted
      BY <1>5 DEF Agent, RecordIteration, ClaimChild, SettleChild, StartCheckpoint, Tell, WriteQuestion,
                  WriteCheckpointJournal, AbortCheckpoint, WriteCheckpointActive, RecordCheckpoint,
                  Release, RenameLease, Stop
    <2> QED
      BY <1>5, <2>1, Settles DEF Apart
  <1>6. CASE Operator
    <2>1. UNCHANGED minted
      BY <1>6 DEF Operator, ResolveQuestion, ForgetQuestion, AdoptInput, BindResearch, Rebase, Initialize
    <2> QED
      BY <1>6, <2>1, Settles DEF Apart
  <1>7. CASE Unlink
    BY <1>1, <1>7 DEF Unlink, ProcType
  <1> QED
    BY <1>2, <1>3, <1>4, <1>5, <1>6, <1>7 DEF Controller

(* Whoever finds another branch checked out has no lease any more.         *)
LEMMA MismatchMoves ==
    ASSUME IInv, Controller, proc.at = "mismatch" => lease = None, proc'.at = "mismatch"
    PROVE  lease' = None
  <1>1. proc \in ProcType
    BY DEF IInv, TypeOK
  <1>2. CASE StartReconcile \/ (\E w \in WakeToken : StartWake(w)) \/ Crash \/ AcquireFails \/ Agent \/ Operator
    <2>1. proc' = proc
      BY <1>2, Settles DEF Apart
    <2> QED
      BY <2>1, LeaseMoves DEF CreateLease, WriteOwner, WriteCheckpointJournal, WakeGoesOn, At
  <1>3. CASE Reconcile
    <2>1. CASE FenceForBranch \/ BranchDiffers \/ ReleaseReplayed \/ FenceIncomplete \/ FenceLost
      BY <2>1 DEF FenceForBranch, BranchDiffers, ReleaseReplayed, FenceIncomplete, FenceLost, Proceed,
                  RenameLease
    <2>2. CASE Sweep \/ BranchAgrees \/ ReplayCheckpoint \/ NothingToReplay \/ LeaseMissing
               \/ LeaseAbsent \/ CommitFenced \/ TreeClean
      BY <1>1, <2>2 DEF Sweep, BranchAgrees, ReplayCheckpoint, NothingToReplay, LeaseMissing,
                        LeaseAbsent, CommitFenced, TreeClean, Proceed, CommitGoal, Go, ProcType
    <2>3. CASE BlockForBranch \/ LeaseInitializing \/ LeaseHeld \/ BlockForDirtyTree
               \/ RevisionSame \/ BlockForReview \/ RevisionChanged
      <3>1. proc.at \in Reconciling
        BY <2>3 DEF BlockForBranch, LeaseInitializing, LeaseHeld, BlockForDirtyTree, RevisionSame,
                    BlockForReview, RevisionChanged, At, Reconciling
      <3>2. \E result \in Results : proc' = Return(result)
        BY <2>3 DEF BlockForBranch, LeaseInitializing, LeaseHeld, BlockForDirtyTree, RevisionSame,
                    BlockForReview, RevisionChanged, ReturnWith, Results
      <3> QED
        BY <3>1, <3>2, ReturnsTo
    <2> QED
      BY <1>3, <2>1, <2>2, <2>3 DEF Reconcile
  <1>4. CASE Wake
    <2>1. CASE WriteOwner
      BY <1>1, <2>1 DEF WriteOwner, ProcType
    <2>2. CASE ~WriteOwner
      BY <1>4, <2>2, SettlesInWake DEF Apart
    <2> QED
      BY <2>1, <2>2
  <1>5. CASE Unlink
    BY <1>1, <1>5 DEF Unlink, ProcType
  <1> QED
    BY <1>2, <1>3, <1>4, <1>5 DEF Controller

(* A goal whose lease stays keeps its epoch, and its run unless that is     *)
(* checkpointed or the next one starts.                                    *)
Staying == goal'.epoch = goal.epoch /\ (Standing => Standing')

LEMMA GoalMoves ==
    ASSUME IInv, Controller, proc.at = "mismatch" => lease = None, lease # None, lease.owner # None,
           minted' = minted, ~StartRun
    PROVE  Staying
  <1>1. goal \in GoalType
    BY DEF IInv, TypeOK
  <1>2. goal' = goal => Staying
    BY DEF Staying, Standing
  <1>3. \A g : /\ g = goal'
               /\ g.epoch = goal.epoch /\ g.checkpoint = goal.checkpoint /\ (goal.run # None => g.run # None)
               => Staying
    BY DEF Staying, Standing
  <1>4. CASE StartReconcile \/ (\E w \in WakeToken : StartWake(w)) \/ Unlink \/ Crash \/ AcquireFails
    <2>1. goal' = goal
      BY <1>4 DEF StartReconcile, StartWake, Unlink, Crash, AcquireFails
    <2> QED
      BY <1>2, <2>1
  <1>5. CASE Reconcile
    <2>1. goal' = goal
      <3>1. CASE \/ Sweep \/ FenceForBranch \/ BranchDiffers \/ BranchAgrees \/ ReplayCheckpoint
                 \/ ReleaseReplayed \/ NothingToReplay \/ LeaseAbsent \/ LeaseInitializing
                 \/ FenceIncomplete \/ LeaseHeld \/ FenceLost \/ TreeClean \/ RevisionSame
        BY <3>1 DEF Sweep, FenceForBranch, BranchDiffers, BranchAgrees, ReplayCheckpoint,
                    ReleaseReplayed, NothingToReplay, LeaseAbsent, LeaseInitializing,
                    FenceIncomplete, LeaseHeld, FenceLost, TreeClean, RevisionSame,
                    RenameLease, Proceed, ReturnWith
      <3>2. CASE BlockForBranch \/ LeaseMissing \/ CommitFenced \/ BlockForDirtyTree \/ BlockForReview
                 \/ RevisionChanged
        BY <3>2 DEF BlockForBranch, LeaseMissing, CommitFenced, BlockForDirtyTree, BlockForReview,
                    RevisionChanged, At, IInv, SweptInv
      <3> QED
        BY <1>5, <3>1, <3>2 DEF Reconcile
    <2> QED
      BY <1>2, <2>1
  <1>6. CASE Wake
    <2>1. CASE \/ Unclaim \/ CreateClaim \/ WriteClaim \/ DropAgedClaim \/ WithdrawClaim \/ Ask
               \/ CreateLease \/ WriteOwner \/ Grant \/ WakeNoop
      <3>1. goal' = goal
        BY <2>1 DEF Unclaim, CreateClaim, WriteClaim, DropAgedClaim, WithdrawClaim, Ask,
                    CreateLease, WriteOwner, Grant, WakeNoop, Stop
      <3> QED
        BY <1>2, <3>1
    <2>2. CASE RetryEmission \/ EmitQuestion \/ NoteRetriesExhausted
      <3>1. goal'.epoch = goal.epoch /\ goal'.checkpoint = goal.checkpoint /\ goal'.run = goal.run
        BY <1>1, <2>2 DEF RetryEmission, EmitQuestion, NoteRetriesExhausted, CommitGoal, GoalType
      <3> QED
        BY <1>3, <3>1
    <2> QED
      BY <1>6, <2>1, <2>2 DEF Wake
  <1>7. CASE Agent
    <2>1. ASSUME NEW token \in owners, RecordIteration(token) PROVE Staying
      <3>1. goal'.epoch = goal.epoch /\ goal'.checkpoint = goal.checkpoint /\ goal'.run = goal.run
        BY <1>1, <2>1 DEF RecordIteration, GoalType
      <3> QED
        BY <1>3, <3>1
    <2>2. ASSUME NEW token \in owners, NEW k \in Task,
                 NEW outcome \in {"active", "completed", "cancelled"},
                 AssertLease(token), goal' = [goal EXCEPT !.run.claims[k] = outcome]
          PROVE  Staying
      <3> DEFINE run == [goal.run EXCEPT !.claims[k] = outcome]
      <3>1. goal.run \in RunType
        BY <2>2, Admitted
      <3>2. run \in RunType
        BY <3>1 DEF RunType
      <3> HIDE DEF run
      <3>3. goal' = [goal EXCEPT !.run = run]
        BY <1>1, <2>2 DEF GoalType, run
      <3>4. goal'.run = run /\ goal'.epoch = goal.epoch /\ goal'.checkpoint = goal.checkpoint
        BY <1>1, <3>3 DEF GoalType
      <3> QED
        BY <1>3, <3>2, <3>4, NullAssumption
    <2>3. ASSUME NEW token \in owners, NEW k \in Task, ClaimChild(token, k) PROVE Staying
      BY <2>2, <2>3 DEF ClaimChild
    <2>4. ASSUME NEW token \in owners, NEW k \in Task, NEW outcome \in {"completed", "cancelled"},
                 SettleChild(token, k, outcome)
          PROVE  Staying
      BY <2>2, <2>4 DEF SettleChild
    <2>5. ASSUME NEW token \in owners, NEW end \in Endings, StartCheckpoint(token, end) PROVE Staying
      BY <1>2, <2>5 DEF StartCheckpoint
    <2>6. CASE Tell \/ WriteQuestion \/ WriteCheckpointJournal \/ AbortCheckpoint \/ RecordCheckpoint \/ Release
      <3>1. goal' = goal
        BY <2>6 DEF Tell, WriteQuestion, WriteCheckpointJournal, AbortCheckpoint, RecordCheckpoint,
                    Release, RenameLease, Stop
      <3> QED
        BY <1>2, <3>1
    <2>7. CASE WriteCheckpointActive
      <3>1. proc.at = "active" /\ ~proc.unlink /\ goal' = Ended(proc.item)
        BY <2>7 DEF WriteCheckpointActive, At
      <3>2. EndsWell(goal', proc.item)
        BY <3>1, EndedStep
      <3>3. goal'.epoch = goal.epoch /\ goal'.checkpoint = minted'
        BY <3>2 DEF EndsWell
      <3> QED
        BY <3>3 DEF Staying, Standing
    <2> QED
      BY <1>7, <2>1, <2>3, <2>4, <2>5, <2>6, <2>7 DEF Agent
  <1>8. CASE Operator
    <2>1. ASSUME NEW q \in Question, ResolveQuestion(q) PROVE Staying
      <3>1. goal'.epoch = goal.epoch /\ goal'.checkpoint = goal.checkpoint /\ goal'.run = goal.run
        BY <1>1, <2>1 DEF ResolveQuestion, GoalType
      <3> QED
        BY <1>3, <3>1
    <2>2. ForgetQuestion => goal' = goal
      BY DEF ForgetQuestion
    <2>3. ~(\E i \in Input : AdoptInput(i)) /\ ~(\E r \in Research : BindResearch(r)) /\ ~Initialize
      BY DEF AdoptInput, BindResearch, Rebase, Initialize
    <2> QED
      BY <1>2, <1>8, <2>1, <2>2, <2>3 DEF Operator
  <1> QED
    BY <1>4, <1>5, <1>6, <1>7, <1>8 DEF Controller

LEMMA RenewalMoves ==
    ASSUME IInv, RenewalInv, Controller, onDisk' = RenewalIn(lease')
    PROVE  RenewalInv'
  <1>1. IInv' /\ lease' \in LeaseType \cup {None}
    BY NextStep DEF Next, IInv, TypeOK
  <1>2. CASE lease' = None
    BY <1>2 DEF RenewalInv, RenewalIn
  <1>3. CASE lease' # None
    <2>1. lease' \in LeaseType /\ Ttl \in Nat /\ onDisk' = lease'.renewal
      BY <1>1, <1>3, PolicyAssumption DEF RenewalIn
    <2>2. lease'.renewal \in RenewalType \cup {None}
      BY <2>1 DEF LeaseType
    <2>3. lease'.renewal # None => lease'.renewal.left \in 0..Ttl
      BY <2>2 DEF RenewalType
    <2>4. lease'.renewal # None => lease'.renewal.left >= lease'.owner.left
      <3>1. CASE UNCHANGED lease
        BY <1>3, <3>1 DEF RenewalInv
      <3>2. CASE CreateLease
        BY <3>2 DEF CreateLease
      <3>3. CASE WriteOwner
        <4>1. lease \in LeaseType /\ lease.renewal = None
          BY <3>3 DEF WriteOwner, At, IInv, TypeOK, AdmittedInv
        <4> QED
          BY <3>3, <4>1 DEF WriteOwner, LeaseType
      <3>4. CASE WriteCheckpointJournal
        <4>1. lease \in LeaseType /\ lease # None
          BY <3>4 DEF WriteCheckpointJournal, AssertLease, IInv, TypeOK
        <4>2. lease'.renewal = lease.renewal /\ lease'.owner = lease.owner
          BY <3>4, <4>1 DEF WriteCheckpointJournal, LeaseType
        <4> QED
          BY <4>1, <4>2 DEF RenewalInv
      <3> QED
        BY <1>3, <3>1, <3>2, <3>3, <3>4, LeaseMoves
    <2> QED
      BY <1>3, <2>1, <2>2, <2>3, <2>4 DEF RenewalInv
  <1> QED
    BY <1>2, <1>3

LEMMA ReadMoves ==
    ASSUME IInv, ReadInv, Controller, hook' = hook
    PROVE  ReadInv'
  <1>1. CASE WriteOwner
    <2>1. /\ minted' = minted + 1 /\ minted \in Nat /\ lease # None
          /\ proc \in ProcType /\ proc' = [proc EXCEPT !.at = "start", !.token = minted']
      BY <1>1 DEF WriteOwner, At, IInv, TypeOK, AdmittedInv
    <2>2. proc'.at = "start"
      BY <2>1 DEF ProcType
    <2>3. hook.run # None => hook.run.token \in Nat /\ hook.run.token <= minted
      BY DEF ReadInv
    <2>4. hook'.run # None => hook'.run.token \in Nat /\ hook'.run.token <= minted' /\ hook'.run.token # minted'
      BY <2>1, <2>3
    <2> QED
      BY <2>2, <2>4 DEF ReadInv
  <1>2. CASE ~WriteOwner
    <2>1. minted' = minted /\ (proc'.at = "start" => proc.at = "start")
      BY <1>2, TokenMoves
    <2>2. proc.at = "mismatch" => lease = None
      BY DEF ReadInv
    <2>3. proc'.at = "mismatch" => lease' = None
      BY <2>2, MismatchMoves
    <2>4. ASSUME hook.run # None, hook.run.token = minted, lease' # None, lease'.owner # None
          PROVE  hook.run.epoch = goal'.epoch /\ Standing'
      <3>1. ~StartRun
        BY <2>4 DEF StartRun, At, ReadInv
      <3>2. lease # None /\ lease.owner # None
        <4>1. CASE UNCHANGED lease
          BY <2>4, <4>1
        <4>2. CASE CreateLease
          BY <2>4, <4>2 DEF CreateLease
        <4>3. CASE WriteCheckpointJournal
          BY <4>3 DEF WriteCheckpointJournal, AssertLease
        <4> QED
          BY <1>2, <2>4, <4>1, <4>2, <4>3, LeaseMoves
      <3>3. hook.run.epoch = goal.epoch /\ Standing
        BY <2>4, <3>2 DEF ReadInv
      <3> QED
        BY <2>1, <2>2, <3>1, <3>2, <3>3, GoalMoves DEF Staying
    <2> QED
      BY <2>1, <2>3, <2>4 DEF ReadInv
  <1> QED
    BY <1>1, <1>2

(* The clock takes from a renewal and from an owner alike.                 *)
LEMMA RanRenewal ==
    ASSUME NEW r \in RenewalType
    PROVE  Ran(r) \in RenewalType /\ Ran(r) # None /\ Ran(r).left = Countdown(r.left)
  <1>1. r # None /\ r.left \in 0..Ttl /\ Ttl \in Nat
    BY PolicyAssumption, NullAssumption DEF RenewalType
  <1>2. PICK n \in 0..Ttl : n = Countdown(r.left)
    BY <1>1, Clock
  <1>3. Ran(r) = [r EXCEPT !.left = n]
    BY <1>1, <1>2 DEF Ran
  <1>4. Ran(r) \in RenewalType /\ Ran(r).left = n
    BY <1>3 DEF RenewalType
  <1> QED
    BY <1>2, <1>4, NullAssumption

LEMMA RanOwner ==
    ASSUME NEW r \in OwnerType
    PROVE  Ran(r) # None /\ Ran(r).left = Countdown(r.left)
  <1>1. r # None /\ r.left \in 0..Ttl /\ Ttl \in Nat
    BY PolicyAssumption, NullAssumption DEF OwnerType
  <1>2. PICK n \in 0..Ttl : n = Countdown(r.left)
    BY <1>1, Clock
  <1>3. Ran(r) = [r EXCEPT !.left = n]
    BY <1>1, <1>2 DEF Ran
  <1>4. Ran(r) \in OwnerType /\ Ran(r).left = n
    BY <1>3 DEF OwnerType
  <1> QED
    BY <1>2, <1>4, NullAssumption

(* What the clock leaves of a goal.                                        *)
LEMMA TickKeeps ==
    ASSUME IInv, Tick
    PROVE  goal'.epoch = goal.epoch /\ goal'.checkpoint = goal.checkpoint /\ minted' = minted
           /\ (goal.run # None => goal'.run # None)
  <1>1. goal \in GoalType /\ IInv'
    BY TickStep DEF IInv, TypeOK
  <1>2. PICK run : run = Ran(goal.run)
    OBVIOUS
  <1>3. goal.run # None => run # None
    <2>1. SUFFICES ASSUME goal.run # None PROVE run # None
      OBVIOUS
    <2>2. goal.run \in RunType
      BY <1>1, <2>1 DEF GoalType
    <2>3. PICK n \in 0..MaxRuntime : n = Countdown(goal.run.left)
      BY <2>2, Clock, PolicyAssumption DEF RunType
    <2>4. run = [goal.run EXCEPT !.left = n]
      BY <1>2, <2>1, <2>3 DEF Ran
    <2>5. run \in RunType
      BY <2>2, <2>4 DEF RunType
    <2> QED
      BY <2>5, NullAssumption
  <1>4. PICK wait : wait = Countdown(goal.waitLeft)
    OBVIOUS
  <1>5. PICK retry : retry = Countdown(goal.retryLeft)
    OBVIOUS
  <1>6. PICK question : question = Waited
    OBVIOUS
  <1>7. goal' = [goal EXCEPT !.run = run, !.waitLeft = wait, !.retryLeft = retry, !.question = question]
    BY <1>2, <1>4, <1>5, <1>6 DEF Tick
  <1>8. goal'.epoch = goal.epoch /\ goal'.checkpoint = goal.checkpoint /\ goal'.run = run
    BY <1>1, <1>7 DEF GoalType
  <1> QED
    BY <1>3, <1>8 DEF Tick

LEMMA HookTick ==
    ASSUME IInv, HookInv, ClockMoves
    PROVE  HookInv'
  <1>1. /\ Tick /\ onDisk' = Ran(onDisk) /\ hook' = [hook EXCEPT !.owner = Ran(@)]
        /\ proc' = proc /\ minted' = minted /\ proc.at = "idle" /\ IInv'
    BY TickStep DEF ClockMoves, Tick, Idle
  <1>2. DOMAIN hook = {"complete", "owner", "run"} /\ hook'.run = hook.run /\ DOMAIN hook' = DOMAIN hook
    BY <1>1 DEF HookInv, ReadInv
  <1>3. \A m, n \in Nat : m <= n => Countdown(m) <= Countdown(n)
    BY DEF Countdown
  <1>4. lease = None <=> lease' = None
    BY <1>1, TickStep DEF Tick
  <1>5. lease # None =>
           /\ lease \in LeaseType
           /\ lease'.owner = Ran(lease.owner) /\ lease'.renewal = Ran(lease.renewal)
    <2>1. SUFFICES ASSUME lease # None PROVE lease \in LeaseType /\ lease'.owner = Ran(lease.owner)
                                               /\ lease'.renewal = Ran(lease.renewal)
      OBVIOUS
    <2>2. lease \in LeaseType
      BY <2>1 DEF IInv, TypeOK
    <2>3. PICK age : age = IF lease.owner = None THEN Age(lease.age) ELSE lease.age
      OBVIOUS
    <2>4. PICK owner : owner = Ran(lease.owner)
      OBVIOUS
    <2>5. PICK renewal : renewal = Ran(lease.renewal)
      OBVIOUS
    <2>6. lease' = [lease EXCEPT !.age = age, !.owner = owner, !.renewal = renewal]
      BY <1>1, <2>1, <2>3, <2>4, <2>5 DEF Tick
    <2>7. lease'.owner = owner /\ lease'.renewal = renewal
      BY <2>2, <2>6 DEF LeaseType
    <2> QED
      BY <2>2, <2>4, <2>5, <2>7
  <1>6. lease # None => /\ lease.owner \in OwnerType \cup {None}
                        /\ lease.renewal \in RenewalType \cup {None}
                        /\ lease.owner # None => lease.owner.left \in Nat
                        /\ lease.renewal # None => lease.owner # None /\ lease.renewal.left \in Nat
    BY <1>5, PolicyAssumption DEF LeaseType, OwnerType, RenewalType, IInv, LeaseInv
  <1>7. RenewalInv'
    <2>1. onDisk' \in RenewalType \cup {None}
      BY <1>1, RanRenewal DEF HookInv, RenewalInv, Ran
    <2>2. ASSUME onDisk' # None
          PROVE  lease' # None /\ lease'.renewal # None /\ onDisk'.left <= lease'.renewal.left
      <3>1. onDisk # None
        BY <1>1, <2>2 DEF Ran
      <3>2. /\ onDisk \in RenewalType /\ lease # None /\ lease.renewal # None
            /\ onDisk.left <= lease.renewal.left
        BY <3>1 DEF HookInv, RenewalInv
      <3>3. lease.renewal \in RenewalType /\ lease.renewal.left \in Nat /\ onDisk.left \in Nat
        BY <1>6, <3>2, PolicyAssumption DEF RenewalType
      <3>4. /\ lease'.renewal # None /\ lease'.renewal.left = Countdown(lease.renewal.left)
            /\ onDisk'.left = Countdown(onDisk.left)
        BY <1>1, <1>5, <3>2, <3>3, RanRenewal
      <3> QED
        BY <1>3, <1>4, <3>2, <3>3, <3>4
    <2>3. ASSUME lease' # None, lease'.renewal # None
          PROVE  lease'.renewal.left >= lease'.owner.left
      <3>1. lease # None /\ lease.renewal # None
        BY <1>4, <1>5, <2>3 DEF Ran
      <3>2. /\ lease.renewal \in RenewalType /\ lease.owner \in OwnerType
            /\ lease.renewal.left \in Nat /\ lease.owner.left \in Nat
        BY <1>6, <3>1
      <3>3. lease.owner.left <= lease.renewal.left
        BY <3>1, <3>2 DEF HookInv, RenewalInv
      <3>4. lease'.renewal.left = Countdown(lease.renewal.left) /\ lease'.owner.left = Countdown(lease.owner.left)
        BY <1>5, <3>1, <3>2, RanRenewal, RanOwner
      <3>5. Countdown(lease.owner.left) <= Countdown(lease.renewal.left)
        BY <1>3, <3>2, <3>3
      <3>6. Countdown(lease.owner.left) \in Nat /\ Countdown(lease.renewal.left) \in Nat
        BY <3>2 DEF Countdown
      <3> QED
        BY <3>4, <3>5, <3>6
    <2> QED
      BY <2>1, <2>2, <2>3 DEF RenewalInv
  <1>8. ReadInv'
    <2>1. ReadInv
      BY DEF HookInv
    <2>2. goal'.epoch = goal.epoch /\ (Standing => Standing')
      BY <1>1, TickKeeps DEF Standing
    <2>3. lease' # None /\ lease'.owner # None => lease # None /\ lease.owner # None
      BY <1>4, <1>5 DEF Ran
    <2> QED
      BY <1>1, <1>2, <2>1, <2>2, <2>3 DEF ReadInv
  <1> QED
    BY <1>7, <1>8 DEF HookInv

LEMMA HookStep ==
    ASSUME IInv, HookInv, [HookNext]_hookVars
    PROVE  HookInv'
  <1>1. CASE ReadActive
    <2>1. hook' = ActiveJson /\ UNCHANGED <<goal, lease, proc, minted, onDisk>>
      BY <1>1 DEF ReadActive, vars
    <2>2. DOMAIN hook' = {"complete", "owner", "run"} /\ hook'.run = ActiveJson.run
      BY <2>1 DEF ActiveJson
    <2>3. hook'.run # None => /\ goal.run # None
                              /\ hook'.run = [epoch |-> goal.epoch, token |-> goal.run.token]
      BY <2>2 DEF ActiveJson
    <2>4. hook'.run # None => hook'.run.token = minted /\ hook'.run.epoch = goal.epoch /\ minted \in Nat
      BY <2>3 DEF IInv, GoalInv, TypeOK
    <2>5. proc.at = "start" => goal.run = None
      BY DEF IInv, SweptInv
    <2>6. ReadInv'
      BY <2>1, <2>2, <2>3, <2>4, <2>5 DEF HookInv, ReadInv, Standing
    <2> QED
      BY <2>1, <2>6 DEF HookInv, RenewalInv
  <1>2. CASE ReadOwner
    <2>1. /\ hook' = [hook EXCEPT !.owner = lease.owner] /\ UNCHANGED <<goal, lease, proc, minted, onDisk>>
      BY <1>2 DEF ReadOwner, vars
    <2>2. DOMAIN hook' = {"complete", "owner", "run"} /\ hook'.run = hook.run
      BY <2>1 DEF HookInv, ReadInv
    <2> QED
      BY <2>1, <2>2 DEF HookInv, ReadInv, RenewalInv, Standing
  <1>3. CASE ReplaceRenewal
    <2>1. onDisk' = RenewalIn(lease) /\ UNCHANGED <<goal, lease, proc, minted, hook>>
      BY <1>3 DEF ReplaceRenewal, vars
    <2>2. ReadInv'
      BY <2>1 DEF HookInv, ReadInv, Standing
    <2>3. lease # None => lease.renewal \in RenewalType \cup {None}
      BY DEF IInv, TypeOK, LeaseType
    <2>4. onDisk' # None => lease # None /\ onDisk' = lease.renewal /\ onDisk' \in RenewalType
      BY <2>1, <2>3 DEF RenewalIn
    <2>5. onDisk' # None => onDisk'.left \in Nat
      BY <2>4, PolicyAssumption DEF RenewalType
    <2> QED
      BY <2>1, <2>2, <2>4, <2>5 DEF HookInv, RenewalInv
  <1>4. CASE JournalRenewal
    <2>1. PICK token \in owners : Renew(token)
      BY <1>4 DEF JournalRenewal, Renewing
    <2>2. /\ lease' = [lease EXCEPT !.renewal = [token |-> token, epoch |-> goal.epoch, left |-> Ttl]]
          /\ AssertLease(token) /\ UNCHANGED <<goal, proc, minted, hook, onDisk>>
      BY <1>4, <2>1 DEF Renew, JournalRenewal
    <2>3. lease \in LeaseType /\ lease # None /\ lease.owner \in OwnerType /\ lease.owner # None
      BY <2>2, Admitted
    <2>4. PICK r : r = [token |-> token, epoch |-> goal.epoch, left |-> Ttl]
      OBVIOUS
    <2>5. lease' # None /\ lease'.owner = lease.owner /\ lease'.renewal = r
      BY <2>1, <2>2, <2>3, <2>4, RenewStep DEF LeaseType
    <2>6. r.left = Ttl /\ Ttl \in Nat /\ r # None /\ lease.owner.left \in 0..Ttl
      <3>1. r \in RenewalType
        BY <2>1, <2>2, <2>4, Admitted, PolicyAssumption DEF RenewalType
      <3> QED
        BY <2>3, <2>4, <3>1, PolicyAssumption, NullAssumption DEF OwnerType
    <2>7. onDisk \in RenewalType \cup {None}
      BY DEF HookInv, RenewalInv
    <2>8. onDisk # None => onDisk.left \in 0..Ttl
      BY <2>7 DEF RenewalType
    <2>9. RenewalInv'
      BY <2>2, <2>5, <2>6, <2>7, <2>8 DEF RenewalInv
    <2>10. ReadInv'
      BY <2>2, <2>3, <2>5 DEF HookInv, ReadInv, Standing
    <2> QED
      BY <2>9, <2>10 DEF HookInv
  <1>5. CASE Command
    BY <1>5, RenewalMoves, ReadMoves DEF Command, HookInv
  <1>6. CASE RepositoryMoves
    BY <1>6 DEF RepositoryMoves, MoveRepository, HookInv, RenewalInv, ReadInv, Standing
  <1>7. CASE ClockMoves
    BY <1>7, HookTick
  <1>8. CASE UNCHANGED hookVars
    BY <1>8 DEF hookVars, vars, HookInv, RenewalInv, ReadInv, Standing
  <1> QED
    BY <1>1, <1>2, <1>3, <1>4, <1>5, <1>6, <1>7, <1>8 DEF HookNext

LEMMA HookAgrees ==
    ASSUME IInv, HookInv
    PROVE  OneAuthority
  <1>1. lease # None /\ lease.owner # None =>
           /\ lease \in LeaseType /\ lease.owner \in OwnerType
           /\ lease.owner.left \in Nat /\ lease.owner.token = minted /\ minted \in 1..minted
           /\ lease.renewal # None => lease.renewal \in RenewalType /\ lease.renewal.left \in Nat
                                      /\ lease.renewal.token = lease.owner.token
                                      /\ lease.renewal.epoch = lease.owner.epoch
                                      /\ lease.renewal.left >= lease.owner.left
    <2>1. SUFFICES ASSUME lease # None, lease.owner # None
          PROVE  /\ lease \in LeaseType /\ lease.owner \in OwnerType
                 /\ lease.owner.left \in Nat /\ lease.owner.token = minted /\ minted \in 1..minted
                 /\ lease.renewal # None => lease.renewal \in RenewalType /\ lease.renewal.left \in Nat
                                            /\ lease.renewal.token = lease.owner.token
                                            /\ lease.renewal.epoch = lease.owner.epoch
                                            /\ lease.renewal.left >= lease.owner.left
      OBVIOUS
    <2>2. /\ lease \in LeaseType /\ lease.owner \in OwnerType
          /\ lease.renewal # None => lease.renewal \in RenewalType
      BY <2>1 DEF IInv, TypeOK, LeaseType
    <2>3. lease.owner.left \in Nat /\ lease.owner.token \in Token
      BY <2>2, PolicyAssumption DEF OwnerType
    <2>4. lease.renewal # None => lease.renewal.left \in Nat
      BY <2>2, PolicyAssumption DEF RenewalType
    <2> QED
      BY <2>1, <2>2, <2>3, <2>4, BoundAssumption DEF IInv, LeaseInv, HookInv, RenewalInv, Token
  <1>2. ASSUME NEW token \in 1..minted, AssertLease(token), hook.run # None, hook.run.token = token,
               hook.owner = lease.owner, Replayed
        PROVE  CommitAdmitted
    <2>1. /\ lease # None /\ lease.owner # None /\ lease.owner.token = token
          /\ lease.owner.epoch = goal.epoch /\ LeaseLeft > 0
          /\ lease.owner.head = Head /\ lease.owner.rev = Current /\ token = minted
      BY <1>2, Admitted DEF AssertLease
    <2>2. hook.run.epoch = lease.owner.epoch
      BY <1>2, <2>1 DEF HookInv, ReadInv
    <2>3. lease.owner.rev.branch = repo.branch
      BY <2>1 DEF Current, RevisionOf
    <2>4. Granted
      BY <1>2, <2>1, <2>2, <2>3 DEF Granted
    <2>5. onDisk = lease.renewal
      BY <1>2, <2>1 DEF Replayed, RenewalIn
    <2> QED
      BY <1>1, <1>2, <2>1, <2>4, <2>5 DEF CommitAdmitted, LeaseLeft
  <1>3. ASSUME CommitAdmitted, ~hook.complete, lease # None, hook.owner = lease.owner,
               goal.checkpoint # minted, lease.owner.rev = Current
        PROVE  AssertLease(minted) \/ goal.run.left = 0
    <2>1. /\ Granted
          /\ onDisk = None => hook.owner.left > 0
          /\ onDisk # None => onDisk.left > 0
      BY <1>3 DEF CommitAdmitted
    <2>2. /\ lease.owner # None /\ hook.run # None /\ hook.run.epoch = lease.owner.epoch
          /\ hook.run.token = minted /\ lease.owner.head = Head
      BY <1>1, <1>3, <2>1 DEF Granted
    <2>3. hook.run.epoch = goal.epoch /\ goal.run # None
      BY <1>3, <2>2 DEF HookInv, ReadInv, Standing
    <2>4. LeaseLeft > 0
      <3>1. onDisk # None => /\ onDisk \in RenewalType /\ lease.renewal # None
                             /\ onDisk.left <= lease.renewal.left
        BY DEF HookInv, RenewalInv
      <3>2. onDisk # None => onDisk.left \in Nat
        BY <3>1, PolicyAssumption DEF RenewalType
      <3>3. CASE lease.renewal = None
        BY <1>3, <2>1, <3>1, <3>3 DEF LeaseLeft
      <3>4. CASE lease.renewal # None
        <4>1. LeaseLeft = lease.renewal.left
          BY <1>1, <1>3, <2>2, <3>4 DEF LeaseLeft
        <4>2. lease.renewal.left > 0
          BY <1>1, <1>3, <2>1, <2>2, <3>1, <3>2, <3>4
        <4> QED
          BY <4>1, <4>2
      <3> QED
        BY <3>3, <3>4
    <2>5. goal.run \in RunType
      BY <2>3 DEF IInv, TypeOK, GoalType
    <2>6. goal.run.left > 0 \/ goal.run.left = 0
      BY <2>5, PolicyAssumption DEF RunType
    <2> QED
      BY <1>1, <1>3, <2>2, <2>3, <2>4, <2>6 DEF AssertLease
  <1>4. \A token \in 1..minted : AssertLease(token) => token = minted
    BY Admitted
  <1> QED
    BY <1>2, <1>3, <1>4 DEF OneAuthority

(* The hook and assertLease agree, but for a renewal that is not yet on    *)
(* disk, a run that is being checkpointed, the deadline and the revision.  *)
THEOREM OneCommitter == HookSpec => []OneAuthority
  <1>1. HookInit => HookInv
    <2>1. SUFFICES ASSUME HookInit PROVE HookInv
      OBVIOUS
    <2>2. goal.run = None /\ lease = None /\ proc.at = "idle" /\ onDisk = None /\ hook = ActiveJson
      BY <2>1 DEF HookInit, Init, NewGoal, Idle
    <2>3. DOMAIN hook = {"complete", "owner", "run"} /\ hook.run = None
      BY <2>2 DEF ActiveJson
    <2> QED
      BY <2>2, <2>3 DEF HookInv, ReadInv, RenewalInv
  <1>2. IInv /\ HookInv /\ [HookNext]_hookVars => HookInv'
    BY HookStep
  <1>3. IInv /\ HookInv => OneAuthority
    BY HookAgrees
  <1> QED
    BY <1>1, <1>2, <1>3, Projected, Invariance, PTL DEF HookSpec
=============================================================================
