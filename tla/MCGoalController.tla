-------------------------- MODULE MCGoalController --------------------------
(* Values of the constants of GoalController that a .cfg cannot spell.     *)
EXTENDS GoalController, TLC

CONSTANTS standards, verifier, validator

NoRoles == << >>
ReviewRoles == [k \in {standards, verifier, validator} |->
                  CASE k = standards -> "standards-review"
                    [] k = verifier -> "verifier"
                    [] k = validator -> "validator"]

(* The code tells commits, contents, branches and wake tokens apart only by *)
(* comparing them, and treats verifier and validator alike.  Used by the   *)
(* runs without liveness.                                                  *)
Symmetry == Permutations(Commit) \cup Permutations(Content)
            \cup Permutations(Branch) \cup Permutations(WakeToken)
            \cup Permutations({verifier, validator})
=============================================================================
