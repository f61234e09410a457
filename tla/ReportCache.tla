---------------------------- MODULE ReportCache ----------------------------
(***************************************************************************)
(* The report cache of last30days.py (last-report.json) and the files a run     *)
(* saves, both shared by every process of the user: research runs and drills    *)
(* write the cache, a verification rewrites the reports in it, and a page for   *)
(* a synthesis is rendered from it.                                           *)
(***************************************************************************)
EXTENDS Integers, Sequences

CONSTANTS
    Process,        \* the commands, each of which runs once
    Entity,         \* what is researched
    Requests,       \* what is asked for: one of them, or an "a vs b" (those of the text),
                    \* and the entities that are researched: these, or one and its competitors
    Attempts        \* how many names a save tries (101 in the code)
Earlier == "earlier"        \* the process of an earlier day that left its cache
CacheAssumption ==
    /\ Requests \subseteq [asked : Seq(Entity) \ {<<>>}, entities : Seq(Entity) \ {<<>>}]
    /\ Earlier \notin Process

VARIABLES
    cache,      \* last-report.json: absent, torn or a payload
    saved,      \* the saved files: the content of each taken name
    process     \* what every process does, and what it holds
vars == <<cache, saved, process>>

Absent == [file |-> "absent"]
Torn == [file |-> "torn"]       \* an empty file too: neither parses
(* A run is named by its process; a report is its topic and the run it is from.   *)
Report(t, p) == [topic |-> t, run |-> p]
Payload(asked, several, reports) ==
    [file |-> "whole", topic |-> asked, comparison |-> several, reports |-> reports]

(* run_competitor_fanout: the reports of the entities whose runs did not raise,    *)
(* in the order of submission; one entity is researched without it.               *)
Increasing(n, m) == {f \in [1..n -> 1..m] : \A i, j \in 1..n : i < j => f[i] < f[j]}
Surviving(entities, p) ==
    IF Len(entities) = 1 THEN {<<Report(entities[1], p)>>}
    ELSE UNION {{[k \in 1..n |-> Report(entities[f[k]], p)] : f \in Increasing(n, Len(entities))} :
                n \in 2..Len(entities)}

Started ==
    [at |-> "start", asked |-> <<>>, entities |-> <<>>, served |-> <<>>, payload |-> Absent,
     names |-> <<>>, next |-> 1, files |-> <<>>]
Init ==
    /\ saved = <<>>
    /\ \/ /\ cache = Absent
          /\ process = [p \in Process \cup {Earlier} |->
                            IF p = Earlier THEN [Started EXCEPT !.at = "ended"] ELSE Started]
       \/ \E r \in Requests : \E reports \in Surviving(r.entities, Earlier) :
              /\ cache = Payload(r.asked, Len(r.entities) > 1, reports)
              /\ process = [p \in Process \cup {Earlier} |->
                                IF p = Earlier
                                THEN [Started EXCEPT !.at = "ended", !.served = reports]
                                ELSE Started]

At(p, place) == process[p].at = place
Become(p, record) == process' = [process EXCEPT ![p] = record]
Go(p, from, to) == At(p, from) /\ Become(p, [process[p] EXCEPT !.at = to])
(* What is left of a process is what it served and saved.                         *)
Gone(r) == [Started EXCEPT !.at = "ended", !.served = r.served, !.files = r.files]
End(p) == Become(p, Gone(process[p]))

(* _load_last_report_cache, of a topic or (<<>>) of any; what is torn does not      *)
(* parse.                                                                    *)
Loaded(asked) ==
    IF \/ cache.file # "whole"
       \/ asked # <<>> /\ asked # cache.topic
       \/ cache.comparison /\ Len(cache.reports) < 2
    THEN <<>>
    ELSE IF cache.comparison THEN cache.reports ELSE <<cache.reports[1]>>
(* Its timestamp may lie within the time to live or not, which every command has a    *)
(* setting of its own for.                                                     *)
Found(asked) == {<<>>, Loaded(asked)}

(* A research run begins; --emit=html with a synthesis looks in the cache first,     *)
(* and with --verify-freshness verifies what it finds.                            *)
StartResearch(p) ==
    /\ At(p, "start")
    /\ \E r \in Requests :
           Become(p, [process[p] EXCEPT !.at = "research", !.asked = r.asked, !.entities = r.entities])
    /\ UNCHANGED <<cache, saved>>
StartPage(p) ==
    /\ At(p, "start")
    /\ \E r \in Requests : \E found \in Found(r.asked) :
           \/ /\ found = <<>>
              /\ Become(p, [process[p] EXCEPT !.at = "research", !.asked = r.asked,
                                              !.entities = r.entities])
           \/ /\ found # <<>>
              /\ \E to \in {"verified", "save"} :
                     Become(p, [process[p] EXCEPT !.at = to, !.served = found])
    /\ UNCHANGED <<cache, saved>>

(* --verify-freshness without a topic verifies the reports of the cache.            *)
StartVerify(p) ==
    /\ At(p, "start")
    /\ \E found \in Found(<<>>) :
           \/ found = <<>> /\ End(p)
           \/ /\ found # <<>>
              /\ Become(p, [process[p] EXCEPT !.at = "verified", !.served = found])
    /\ UNCHANGED <<cache, saved>>

(* A drill needs the report of one topic, and a target among its stories.           *)
StartDrill(p) ==
    /\ At(p, "start")
    /\ \E found \in Found(<<>>) :
           \/ End(p)
           \/ /\ Len(found) = 1
              /\ Become(p, [process[p] EXCEPT !.at = "research", !.asked = <<found[1].topic>>,
                                              !.entities = <<found[1].topic>>])
    /\ UNCHANGED <<cache, saved>>

(* The research ends with the reports of the entities, is given up with fewer than   *)
(* two of a comparison, or raises.  A drill merges its findings into the report that  *)
(* it read; what comes of that is its own.                                        *)
Research(p) ==
    /\ At(p, "research")
    /\ \/ End(p)
       \/ \E reports \in Surviving(process[p].entities, p) :
              Become(p, [process[p] EXCEPT !.at = "write", !.served = reports])
    /\ UNCHANGED <<cache, saved>>

(* _write_last_run: write_text empties the file first, and fills it.  What it leaves  *)
(* does not parse where it fails, or over the longer text of another one that wrote   *)
(* meanwhile.  The run goes on without its cache.                                  *)
EmptyCache(p) ==
    /\ \/ Go(p, "write", "save") /\ UNCHANGED cache
       \/ Go(p, "write", "fill") /\ cache' = Torn
    /\ UNCHANGED saved
FillCache(p) ==
    /\ Go(p, "fill", "save")
    /\ cache' \in {Payload(process[p].asked, Len(process[p].entities) > 1, process[p].served),
                   Torn, cache}
    /\ UNCHANGED saved

(* _update_cached_freshness reads the payload again and replaces its reports.        *)
ReadAgain(p) ==
    /\ At(p, "verified")
    /\ \/ cache.file # "whole" /\ Go(p, "verified", "save")
       \/ /\ cache.file = "whole"
          /\ Become(p, [process[p] EXCEPT !.at = "rewrite", !.payload = cache])
    /\ UNCHANGED <<cache, saved>>
EmptyForUpdate(p) ==
    /\ \/ Go(p, "rewrite", "save") /\ UNCHANGED cache
       \/ Go(p, "rewrite", "refill") /\ cache' = Torn
    /\ UNCHANGED saved
(* Faulty variant: the verified reports are laid over those that are there.           *)
UpdatedInPlace(payload, reports) ==
    [payload EXCEPT !.reports =
        [i \in 1..Len(reports) |-> reports[i]]
        \o SubSeq(payload.reports, Len(reports) + 1, Len(payload.reports))]
Updated(payload, reports) == [payload EXCEPT !.reports = reports]
FillUpdated(p) ==
    /\ Go(p, "refill", "save")
    /\ cache' \in {Updated(process[p].payload, process[p].served), Torn, cache}
    /\ UNCHANGED saved

(* _render_save_and_print with --save-dir saves each report of its own, under names   *)
(* with its topic; the first file of a comparison in HTML is the whole page, under    *)
(* all of the topics.                                                         *)
Subject(reports, page, i) ==
    IF page /\ Len(reports) > 1 /\ i = 1 THEN [k \in 1..Len(reports) |-> reports[k].topic]
    ELSE <<reports[i].topic>>
Save(p) ==
    /\ At(p, "save")
    /\ \/ End(p)
       \/ \E page \in BOOLEAN :
              LET names == [i \in 1..Len(process[p].served) |->
                                Subject(process[p].served, page, i)]
              IN Become(p, [process[p] EXCEPT !.at = "create", !.names = names])
    /\ UNCHANGED <<cache, saved>>

(* save_output: the first name nobody has is created, empty, and then written; the    *)
(* last of them may be taken too, and a write may fail.                            *)
Saving(p) == Len(process[p].files) + 1
NameOf(p) == <<process[p].names[Saving(p)], process[p].next>>
Content(p, i) == <<p, i>>
With(name, content) == [n \in DOMAIN saved \cup {name} |-> IF n = name THEN content ELSE saved[n]]
CreateFile(p) ==
    /\ At(p, "create")
    /\ \/ process[p].next > Attempts /\ End(p) /\ UNCHANGED saved
       \/ /\ process[p].next <= Attempts /\ NameOf(p) \in DOMAIN saved
          /\ Become(p, [process[p] EXCEPT !.next = process[p].next + 1])
          /\ UNCHANGED saved
       \/ /\ process[p].next <= Attempts /\ NameOf(p) \notin DOMAIN saved
          /\ Go(p, "create", "output")
          /\ saved' = With(NameOf(p), <<>>)
    /\ UNCHANGED cache
WriteFile(p) ==
    /\ At(p, "output")
    /\ \/ End(p) /\ UNCHANGED saved
       \/ /\ saved' = With(NameOf(p), Content(p, Saving(p)))
          /\ LET r == [process[p] EXCEPT !.at = "create", !.next = 1,
                                         !.files = Append(process[p].files, NameOf(p))]
             IN Become(p, IF Saving(p) < Len(process[p].names) THEN r ELSE Gone(r))
    /\ UNCHANGED cache

(* A process is killed: what it has written so far stays.                       *)
Die(p) ==
    /\ process[p].at \notin {"start", "ended"}
    /\ End(p)
    /\ UNCHANGED <<cache, saved>>

Next ==
    \E p \in Process :
        \/ StartResearch(p) \/ StartPage(p) \/ StartVerify(p) \/ StartDrill(p) \/ Research(p)
        \/ EmptyCache(p) \/ FillCache(p)
        \/ ReadAgain(p) \/ EmptyForUpdate(p) \/ FillUpdated(p)
        \/ Save(p) \/ CreateFile(p) \/ WriteFile(p) \/ Die(p)
Spec == Init /\ [][Next]_vars

(* Whatever runs, drills, verifications, failed writes and deaths do to the cache at  *)
(* the same time, what a command takes from it is the work of one run: one report, or *)
(* all that the run had.                                                       *)
Whole(reports) ==
    reports # <<>> =>
        /\ \A i \in 1..Len(reports) : reports[i].run = reports[1].run
        /\ Len(reports) > 1 => reports = process[reports[1].run].served
ServedWhole == Whole(Loaded(<<>>)) /\ \A p \in Process : Whole(process[p].served)

(* Two commands never save to one name, and a command writes each of its reports to a  *)
(* name of its own: what it has saved is there, whatever others save.                *)
SavesKept ==
    \A p \in Process : \A i \in 1..Len(process[p].files) :
        process[p].files[i] \in DOMAIN saved /\ saved[process[p].files[i]] = Content(p, i)
=============================================================================
