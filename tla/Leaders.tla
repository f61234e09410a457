------------------------------ MODULE Leaders ------------------------------
(***************************************************************************)
(* The loop that deduplication, clustering, their second pass and a drill have   *)
(* in common: things are taken one after the other, and each goes to the first   *)
(* of those kept so far that takes it, or is kept itself.  A thing is its place   *)
(* in that order, and takes is the set of pairs <<l, i>> where l would take i.   *)
(***************************************************************************)
EXTENDS Naturals

(* What the loop keeps: there is one such set, since whether a thing is in it      *)
(* depends on earlier ones only.                                             *)
Kept(S, takes) ==
    CHOOSE K \in SUBSET S : \A i \in S : i \in K <=> ~\E l \in K : l < i /\ <<l, i>> \in takes

(* Where each thing goes: what is kept stays by itself.                          *)
Joined(S, takes) ==
    LET K == Kept(S, takes)
        fits(i) == {l \in K : l = i \/ (i \notin K /\ l < i /\ <<l, i>> \in takes)}
    IN [i \in S |-> CHOOSE l \in fits(i) : \A m \in fits(i) : l <= m]
=============================================================================
