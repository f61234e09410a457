---------------------------- MODULE MCResearchRun ----------------------------
(* Runs and answers of the sources for TLC. *)
EXTENDS ResearchRun

MCSource == {"x", "reddit", "polymarket", "jobs", "github", "corpus", "tiktok"}
MCLabel == {"a", "b", "supplemental-related"}

Sub(label, sources) == [label |-> label, sources |-> sources]
Base == [plan |-> << >>, available |-> MCSource \ {"corpus", "tiktok"}, requested |-> {},
         quick |-> FALSE, caps |-> [s \in {"x"} |-> 2], github |-> {}, corpus |-> FALSE,
         lanes |-> FALSE, handle |-> FALSE, related |-> FALSE, hiring |-> FALSE, workers |-> 2]

(* Two subqueries on X and one on Reddit, with the lanes of the handles the *)
(* items name; and one subquery with --x-handle and --x-related.            *)
XAndReddit == [Base EXCEPT !.plan = <<Sub("a", <<"x", "reddit">>), Sub("b", <<"x">>)>>,
                           !.lanes = TRUE]
Related == [Base EXCEPT !.plan = <<Sub("a", <<"x">>)>>,
                        !.lanes = TRUE, !.handle = TRUE, !.related = TRUE]
(* X beyond its cap. *)
Quick == [Base EXCEPT !.plan = <<Sub("a", <<"x">>), Sub("b", <<"x">>)>>,
                      !.caps = [s \in {"x"} |-> 1], !.quick = TRUE, !.workers = 1]
(* A plan of the model that repeats a label. *)
Repeated == [Base EXCEPT !.plan = <<Sub("a", <<"x">>), Sub("a", <<"x">>)>>, !.lanes = TRUE]
(* The sources whose items a filter or a gate may drop at the end. *)
Filtered == [Base EXCEPT !.plan = <<Sub("a", <<"polymarket", "jobs">>), Sub("b", <<"polymarket">>)>>]
(* GitHub's modes, the corpus, and a requested source that is missing. *)
Local == [Base EXCEPT !.plan = <<Sub("a", <<"github", "corpus">>)>>,
                      !.available = @ \cup {"corpus"}, !.corpus = TRUE,
                      !.github = {"project", "person"}, !.requested = {"github", "tiktok"}]
NoCorpus == [Local EXCEPT !.corpus = FALSE, !.github = {}, !.requested = {"corpus"}]

MCRuns == {XAndReddit, Related, Quick, Repeated, Filtered, Local, NoCorpus}

MCResult == {Got({}), Got({1}), Got({1, 2}), GotNote("rate-limited", {}), GotNote("error", {2}),
             Raise("429"), Raise("5xx"), Raise("unconfigured")}
=============================================================================
