----------------------------- MODULE LibraryIndex -----------------------------
(***************************************************************************)
(* The search index over the saved briefs of last30days: processes that        *)
(* synchronise it with the files and search it, next to a user who edits the    *)
(* files and to a disk that may lose the index or its full-text table.         *)
(***************************************************************************)
EXTENDS Naturals, FiniteSets

CONSTANTS
    File,       \* the paths of briefs
    Topic,      \* the titles a brief may have; its entry is identified by topic and path
    Process,    \* the commands that search, one search each
    MaxEvents   \* bound on what the user and the disk do

VARIABLES
    files,      \* the briefs on disk: [topic, mtime], for the paths there are
    events,     \* what the user and the disk have done so far; the clock of the files
    docs,       \* library_documents: what each entry was indexed from
    fts,        \* library_fts: for the entries it knows, the text it would match
    broken,     \* the database file is corrupt
    process     \* the state of each process
vars == <<files, events, docs, fts, broken, process>>

(* The text of a version of a file: a user who edits it changes its modification *)
(* time and its text together.                                             *)
Parsed(f) == [id |-> <<files[f].topic, f>>, path |-> f, text |-> files[f].mtime]
ScanLibrary == {Parsed(f) : f \in DOMAIN files}

Idle == [pc |-> "idle", entries |-> {}, existing |-> <<>>, trusted |-> FALSE, quiet |-> TRUE,
         moved |-> FALSE, rebuilt |-> FALSE, found |-> {}]
Init ==
    /\ files = <<>> /\ events = 0
    /\ docs = <<>> /\ fts = <<>> /\ broken = FALSE
    /\ process = [p \in Process |-> Idle]

Keep(table, ids) == [id \in DOMAIN table \ ids |-> table[id]]
(* The first table laid over the second.                                      *)
Over(new, table) == [x \in DOMAIN new \cup DOMAIN table |->
                        IF x \in DOMAIN new THEN new[x] ELSE table[x]]

At(p, pc) == process[p].pc = pc
Step(p, changes) == process' = [process EXCEPT ![p] = Over(changes, @)]
(* quiet: nothing happened next to this process since it scanned the files.     *)
Disturbed(p) == [q \in Process |-> IF q = p THEN process[q] ELSE [process[q] EXCEPT !.quiet = FALSE]]
AllDisturbed == [q \in Process |-> [process[q] EXCEPT !.quiet = FALSE]]

(* _sync_library: the files first, then what the index has of them.            *)
Scan(p) ==
    /\ At(p, "idle") \/ At(p, "rescan")
    /\ Step(p, [pc |-> "scanned", entries |-> ScanLibrary, quiet |-> TRUE])
    /\ UNCHANGED <<files, events, docs, fts, broken>>

ReadExisting(p) ==
    /\ At(p, "scanned") /\ ~broken
    /\ Step(p, [pc |-> "read", moved |-> FALSE, existing |-> docs,
                trusted |-> docs = <<>> \/ Cardinality(DOMAIN fts) >= Cardinality(DOMAIN docs)])
    /\ UNCHANGED <<files, events, docs, fts, broken>>

(* sync_library: a corrupt database is removed and built anew, once.  Whoever saw   *)
(* it corrupt removes what is there by then, a database another process has built    *)
(* anew in between too; a process that still has the removed file open sees what was   *)
(* wrong with that one.                                                     *)
SeeCorruption(p) ==
    /\ \/ At(p, "scanned") /\ broken
       \/ At(p, "read") /\ (broken \/ process[p].moved)
    /\ Step(p, [pc |-> IF process[p].rebuilt THEN "failed" ELSE "corrupt"])
    /\ UNCHANGED <<files, events, docs, fts, broken>>
(* moved: the database this process has open is no longer the one at the path.        *)
Unlinked(p) == [q \in Process |-> IF q = p THEN process[q]
                                ELSE [process[q] EXCEPT !.quiet = FALSE, !.moved = At(q, "read")]]
RemoveDatabase(p) ==
    /\ At(p, "corrupt")
    /\ docs' = <<>> /\ fts' = <<>> /\ broken' = FALSE
    /\ process' = [Unlinked(p) EXCEPT ![p].pc = "rescan", ![p].rebuilt = TRUE]
    /\ UNCHANGED <<files, events>>

(* One transaction, which SQLite refuses on a file that was unlinked since it was    *)
(* opened.  The files are looked at once more, for their time.                 *)
Unchanged(p, e) ==
    /\ process[p].trusted
    /\ e.id \in DOMAIN process[p].existing
    /\ process[p].existing[e.id] = [path |-> e.path, mtime |-> files[e.path].mtime, hash |-> e.text]
ToUpsert(p) == {e \in process[p].entries : ~Unchanged(p, e)}
Stale(p) == DOMAIN process[p].existing \ {e.id : e \in process[p].entries}
(* _upsert_entry removes the entries another topic of the same file has.        *)
Replaced(p) == {id \in DOMAIN docs : \E e \in ToUpsert(p) : docs[id].path = e.path /\ id # e.id}
Upserted(p) == {e.id : e \in ToUpsert(p)}
Entry(p, id) == CHOOSE e \in ToUpsert(p) : e.id = id
DocOf(e) == [path |-> e.path, mtime |-> files[e.path].mtime, hash |-> e.text]
TextOf(e) == e.text

Write(p) ==
    /\ At(p, "read") /\ ~broken /\ ~process[p].moved
    /\ \A e \in process[p].entries : e.path \in DOMAIN files
    /\ docs' = Keep(Over([id \in Upserted(p) |-> DocOf(Entry(p, id))], Keep(docs, Replaced(p))), Stale(p))
    /\ fts' = Keep(Over([id \in Upserted(p) |-> TextOf(Entry(p, id))], Keep(fts, Replaced(p))), Stale(p))
    /\ process' = [Disturbed(p) EXCEPT ![p].pc = "synced"]
    /\ UNCHANGED <<files, events, broken>>
(* A file that is gone by now, a database another process keeps locked or has       *)
(* unlinked: nothing is committed.                                          *)
WriteFails(p) ==
    /\ At(p, "read")
    /\ Step(p, [pc |-> "failed"])
    /\ UNCHANGED <<files, events, docs, fts, broken>>

(* search joins the two tables; on a database error it finds nothing.           *)
Search(p) ==
    /\ At(p, "synced")
    /\ Step(p, [pc |-> "done", found |->
        IF broken THEN {} ELSE {[id |-> id, text |-> fts[id]] : id \in DOMAIN fts \cap DOMAIN docs}])
    /\ UNCHANGED <<files, events, docs, fts, broken>>

(* What happens next to them.                                               *)
Event == events < MaxEvents /\ events' = events + 1 /\ process' = AllDisturbed
Edit(f, t) ==
    /\ Event
    /\ files' = Over([g \in {f} |-> [topic |-> t, mtime |-> events + 1]], files)
    /\ UNCHANGED <<docs, fts, broken>>
Delete(f) ==
    /\ Event
    /\ f \in DOMAIN files /\ files' = Keep(files, {f})
    /\ UNCHANGED <<docs, fts, broken>>
LoseFts == Event /\ ~broken /\ fts # <<>> /\ fts' = <<>> /\ UNCHANGED <<files, docs, broken>>
Corrupt == Event /\ ~broken /\ broken' = TRUE /\ UNCHANGED <<files, docs, fts>>

Next ==
    \/ \E p \in Process :
        \/ Scan(p) \/ ReadExisting(p) \/ SeeCorruption(p) \/ RemoveDatabase(p)
        \/ Write(p) \/ WriteFails(p) \/ Search(p)
    \/ \E f \in File : Delete(f) \/ \E t \in Topic : Edit(f, t)
    \/ LoseFts \/ Corrupt
Spec == Init /\ [][Next]_vars

(* The full-text table never knows an entry the documents do not, and two entries *)
(* are never indexed from one file: whatever the processes interleave, each of    *)
(* their transactions leaves the two tables as one index.                      *)
IndexWhole ==
    /\ DOMAIN fts \subseteq DOMAIN docs
    /\ \A id, other \in DOMAIN docs : docs[id].path = docs[other].path => id = other

(* "the fingerprint check alone would mark everything unchanged and searches       *)
(* would silently return nothing": a search that nothing disturbed since its own  *)
(* scan finds what the files say, whatever overlapping syncs, edits, lost tables   *)
(* and corrupt databases left behind before.                                  *)
SearchFindsFiles ==
    \A p \in Process : At(p, "done") /\ process[p].quiet =>
        process[p].found = {[id |-> e.id, text |-> e.text] : e \in ScanLibrary}
=============================================================================
