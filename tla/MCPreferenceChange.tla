------------------------- MODULE MCPreferenceChange -------------------------
(* PreferenceChange with interchangeable participants and handlers. *)
EXTENDS PreferenceChange, TLC

Symmetry == Permutations(Actor) \cup Permutations(Handler)
=============================================================================
