-------------------------- MODULE RetrievalBundle --------------------------
(***************************************************************************)
(* RetrievalBundle of last30days (lib/schema.py): what one research run    *)
(* gathers before ranking, and the status it gives each source (the        *)
(* finalisation is in lib/pipeline.py).                                    *)
(*                                                                         *)
(* An item is its URL, and a URL is a natural number: its place in the     *)
(* relevance order of its source, so that "the best n" is a prefix.  A     *)
(* bundle is the record                                                    *)
(*   listed[l, s][u]  how often URL u is in items_by_source_and_query      *)
(*   status[s]        source_status, None before the source is known       *)
(*   errors           the sources named in errors_by_source                *)
(* items_by_source, which the code appends to in the same call, is the sum *)
(* of listed over the labels.                                              *)
(***************************************************************************)
EXTENDS Naturals, FiniteSets, FiniteSetsExt

CONSTANTS Source, Label, Url, None

ASSUME UrlAssumption == Url \subseteq Nat \ {0}

(* The failing RunOutcomeStates told apart: what rate limiting, a missing    *)
(* configuration and everything else lead to.                              *)
Failing == {"rate-limited", "skipped-unconfigured", "error"}
State == {"ok", "no-results", "partial"} \cup Failing
(* detail is what http.classify_failure reads in the detail text. *)
Outcome == [state : State, attempted : BOOLEAN, detail : Failing \cup {None}]

(* None, which stands for what is missing, is not one of the values. *)
ASSUME NoneAssumption == None \notin Outcome /\ None \notin State

Bundle == [listed : [Label \X Source -> [Url -> Nat]],
           status : [Source -> Outcome \cup {None}],
           errors : SUBSET Source]

EmptyBundle == [listed |-> [k \in Label \X Source |-> [u \in Url |-> 0]],
                status |-> [s \in Source |-> None],
                errors |-> {}]

UrlsUnder(b, l, s) == {u \in Url : b.listed[<<l, s>>][u] > 0}
UrlsOf(b, s) == UNION {UrlsUnder(b, l, s) : l \in Label}
HasItems(b, s) == \E l \in Label, u \in Url : b.listed[<<l, s>>][u] > 0
(* len(items_by_source[s]), repetitions included. *)
ItemCount(b, s) == MapThenSumSet(LAMBDA l : MapThenSumSet(LAMBDA u : b.listed[<<l, s>>][u], Url), Label)

MarkAttempted(b, s) ==
    IF b.status[s] # None THEN b
    ELSE [b EXCEPT !.status[s] =
             [state |-> "no-results", attempted |-> TRUE, detail |-> None]]

RecordFailure(b, s, state, attempted) ==
    [b EXCEPT !.errors = b.errors \cup {s},
              !.status[s] = [state |-> IF HasItems(b, s) THEN "partial" ELSE state,
                             attempted |-> attempted, detail |-> state]]

FailedBefore(b, s) == b.status[s] # None /\ b.status[s].state \notin {"ok", "no-results"}

WithUrls(b, l, s, urls) ==
    [k \in Label \X Source |-> [u \in Url |->
       b.listed[k][u] + (IF k = <<l, s>> /\ u \in urls THEN 1 ELSE 0)]]

(* The status of a source none of whose calls has failed. *)
Plain(urls) ==
    [state |-> IF urls # {} THEN "ok" ELSE "no-results", attempted |-> TRUE, detail |-> None]

(* Faulty variant: items that come after a failure make it forgotten.           *)
AddItemsForgetting(b, l, s, urls) ==
    [b EXCEPT !.listed = WithUrls(b, l, s, urls), !.status[s] = Plain(urls)]

AddItems(b, l, s, urls) ==
    LET some == urls # {} \/ HasItems(b, s)
        was == b.status[s]
    IN [b EXCEPT
          !.listed = WithUrls(b, l, s, urls),
          !.status[s] =
             IF FailedBefore(b, s)
             THEN [state |-> IF some THEN "partial" ELSE was.state,
                   attempted |-> TRUE, detail |-> was.detail]
             ELSE Plain(urls)]

(* The hiring gate takes a source out of both maps. *)
DropSource(b, s) ==
    [b EXCEPT !.listed = [k \in Label \X Source |->
                            IF k[2] = s THEN [u \in Url |-> 0] ELSE b.listed[k]]]

(* http.classify_failure on a detail; no text maps to skipped-unconfigured. *)
ClassifyDetail(d) == IF d = "rate-limited" THEN d ELSE "error"

(* _finalize_source_status for one source with a final items. *)
FinalState(outcome, some) ==
    CASE outcome.state = "no-results" /\ some -> "ok"
      [] outcome.state = "ok" /\ ~some -> "no-results"
      [] outcome.state = "partial" /\ ~some -> ClassifyDetail(outcome.detail)
      [] OTHER -> outcome.state
=============================================================================
