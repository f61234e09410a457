----------------------------- MODULE SourceCalls -----------------------------
(***************************************************************************)
(* What the source adapters of last30days are built from: calls to a        *)
(* service or a command-line tool, and the ways an adapter puts the answers  *)
(* of several calls together.                                              *)
(*                                                                         *)
(* A call answers "items", "empty" or the kind of its failure.  The outcome  *)
(* of an adapter, or of a part of one, is a record:                          *)
(*   items    whether it has items                                          *)
(*   raised   the kind of the exception it ends with, or None               *)
(*   error    the kind of the "error" of the result it returns, or None     *)
(*   seen     the kinds http.capture_failures of the stream holds           *)
(*   failed   history: the kinds of failure its search calls met            *)
(*   found    history: some search call answered items                      *)
(***************************************************************************)
EXTENDS Naturals, Sequences, SequencesExt

None == "none"
(* The outcome states that matter here: AUTH_FAILED, RATE_LIMITED and the   *)
(* unspecific ERROR.                                                       *)
Kind == {"auth", "rate", "error"}
Answer == Kind \cup {"items", "empty"}

Outcome == [items : BOOLEAN, raised : Kind \cup {None}, error : Kind \cup {None},
            seen : SUBSET Kind, failed : SUBSET Kind, found : BOOLEAN]

Nothing == [items |-> FALSE, raised |-> None, error |-> None,
            seen |-> {}, failed |-> {}, found |-> FALSE]

(* http.request: a failure is put into the capture of the context, raised.  *)
Fetch(a) == [items |-> a = "items", raised |-> IF a \in Kind THEN a ELSE None,
             error |-> None, seen |-> {a} \cap Kind, failed |-> {a} \cap Kind,
             found |-> a = "items"]

(* urllib, subprocesses, and threads of an executor that was not given the   *)
(* context of its caller: no capture sees the failure.                     *)
Unseen(r) == [r EXCEPT !.seen = {}]
Command(a) == Unseen(Fetch(a))

(* except Exception: return [].                                            *)
Swallowed(r) == [r EXCEPT !.raised = None]
(* except Exception as e: return {..., "error": e}.                        *)
Told(r) == IF r.raised = None THEN r ELSE [r EXCEPT !.raised = None, !.error = r.raised]
Untold(r) == [r EXCEPT !.error = None]
NoItems(r) == [r EXCEPT !.items = FALSE]

(* Two calls of one adapter: items add up, and the last error is kept.       *)
Join(r, s) == [items |-> r.items \/ s.items,
               raised |-> IF r.raised # None THEN r.raised ELSE s.raised,
               error |-> IF s.error # None THEN s.error ELSE r.error,
               seen |-> r.seen \cup s.seen, failed |-> r.failed \cup s.failed,
               found |-> r.found \/ s.found]

(* One after the other; an exception ends it, and takes the items with it.   *)
Then(r, s) == IF r.raised # None THEN r
              ELSE IF s.raised # None THEN NoItems(Join(r, s)) ELSE Join(r, s)
All(rs) == FoldLeft(Then, Nothing, rs)
(* The second only when the first gave no items.                             *)
OrElse(r, s) == IF r.items \/ r.raised # None THEN r ELSE Join(r, s)
Chain(rs) == FoldLeft(OrElse, Nothing, rs)

(* Comments, captions, transcripts, profiles: fetched for the items there    *)
(* are, contained, never the reason why a source has or lacks items.        *)
Detail(r) == [Nothing EXCEPT !.seen = r.seen]
Adding(r, s) == IF r.raised = None /\ r.items THEN Join(r, Detail(s)) ELSE r

(***************************************************************************)
(* _retrieve_stream: how the stream reports the outcome of the adapter.      *)
(***************************************************************************)
Specificity == [auth |-> 0, rate |-> 1, error |-> 5]
MostSpecific(kinds) == CHOOSE k \in kinds : \A l \in kinds : Specificity[k] <= Specificity[l]

(* Faulty variant: what the calls of the stream left in its capture is ignored. *)
ResolvedByError(r) == r.error

Resolved(r) ==
    IF r.seen = {} THEN r.error
    ELSE LET captured == MostSpecific(r.seen)
         IN IF r.error = None \/ (r.error = "error" /\ captured # "error") THEN captured ELSE r.error

Stream(r) == [items |-> r.items /\ r.raised = None,
              raises |-> r.raised,
              note |-> IF r.raised # None THEN None ELSE Resolved(r)]
=============================================================================
