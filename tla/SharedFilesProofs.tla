-------------------------- MODULE SharedFilesProofs --------------------------
(***************************************************************************)
(* What the processes of one user leave of what they share, proved for any       *)
(* number of them: the report cache, the library and its saved files, the store. *)
(***************************************************************************)
EXTENDS Engine, FiniteSetTheorems, TLAPS

(* The engine never goes from one part to another.                              *)
LEMMA StaysPut == ASSUME [EngineNext]_engine PROVE part' = part
  BY DEF EngineNext, HttpStep, OnOne, engine

-----------------------------------------------------------------------------
(* The report cache.  The reports of one run, which has them from the end of its    *)
(* research on: one of them, or all.                                             *)
Everybody == Process \cup {"earlier"}
ReportRow == [topic : Entity, run : Everybody]
RowSeq == Seq(ReportRow)
Fresh == {"start", "research"}
Solid(reports, table) ==
    /\ reports \in RowSeq
    /\ reports # <<>> =>
        /\ \A i \in 1..Len(reports) : reports[i].run = reports[1].run
        /\ table[reports[1].run].at \notin Fresh
        /\ Len(reports) > 1 => reports = table[reports[1].run].served
PayloadRow ==
    [file : {"whole"}, topic : Seq(Entity), comparison : BOOLEAN, reports : RowSeq \ {<<>>}]
FileRow == {Cache!Absent, Cache!Torn} \cup PayloadRow
SolidFile(c, table) == c \in FileRow /\ (c \in PayloadRow => Solid(c.reports, table))
(* What a command holds on its way.                                            *)
Places == {"start", "research", "write", "fill", "verified", "rewrite", "refill", "save", "create",
           "output", "ended"}
NameRow == Seq(Entity) \X Nat
CommandRow ==
    [at : Places, asked : Seq(Entity), entities : Seq(Entity), served : RowSeq, payload : FileRow,
     names : Seq(Seq(Entity)), next : Nat, files : Seq(NameRow)]
Holds(r, table) ==
    /\ r \in CommandRow
    /\ Solid(r.served, table) /\ SolidFile(r.payload, table)
    /\ r.at \in {"write", "fill", "verified", "rewrite", "refill", "save"} => r.served # <<>>
    /\ r.at = "research" => r.entities # <<>>
    /\ r.at \in {"rewrite", "refill"} => r.payload \in PayloadRow
    /\ r.at \in {"create", "output"} => Len(r.files) < Len(r.names)
    /\ r.at \notin {"create", "output", "ended"} => r.files = <<>>
NameIn(r) == <<r.names[Len(r.files) + 1], r.next>>
(* Its files are there, and no other command writes to the one it has created.       *)
Filed(r, p, table) ==
    /\ \A i \in 1..Len(r.files) : r.files[i] \in DOMAIN table /\ table[r.files[i]] = <<p, i>>
    /\ r.at = "output" => NameIn(r) \in DOMAIN table /\ table[NameIn(r)] = <<>>
Apart(table) ==
    \A p, q \in Process :
        p # q /\ table[p].at = "output" /\ table[q].at = "output" => NameIn(table[p]) # NameIn(table[q])
FilesInv(table, names) == (\A p \in Process : Filed(table[p], p, names)) /\ Apart(table)
CacheInv ==
    /\ s2 \in [Everybody -> CommandRow] /\ s2["earlier"].at = "ended"
    /\ SolidFile(input, s2)
    /\ \A p \in Everybody : Holds(s2[p], s2)
    /\ FilesInv(s2, s1)

(* What holds of the reports of a run stays so, as a run never starts again.          *)
Later(r, s) == r.at \in Fresh \/ (s.at \notin Fresh /\ s.served = r.served)
LEMMA SolidStays ==
    ASSUME NEW table \in [Everybody -> CommandRow], NEW p \in Everybody, NEW r \in CommandRow,
           Later(table[p], r), NEW reports, Solid(reports, table)
    PROVE  Solid(reports, [table EXCEPT ![p] = r])
  <1>1. CASE reports = <<>>
    BY <1>1 DEF Solid
  <1>2. CASE reports # <<>>
    <2>1. reports \in RowSeq /\ 1 \in 1..Len(reports)
      BY <1>2 DEF Solid, RowSeq
    <2>2. reports[1] \in ReportRow
      BY <2>1 DEF RowSeq
    <2>3. PICK q \in Everybody : q = reports[1].run
      BY <2>2 DEF ReportRow
    <2>4. PICK after : after = [table EXCEPT ![p] = r]
      OBVIOUS
    <2>5. after[q] = IF q = p THEN r ELSE table[q]
      BY <2>4
    <2>6. after[q].at \notin Fresh /\ after[q].served = table[q].served
      BY <1>2, <2>3, <2>5 DEF Solid, Later
    <2> QED
      BY <1>2, <2>3, <2>4, <2>6 DEF Solid
  <1> QED
    BY <1>1, <1>2

LEMMA SolidFileStays ==
    ASSUME NEW table \in [Everybody -> CommandRow], NEW p \in Everybody, NEW r \in CommandRow,
           Later(table[p], r), NEW c, SolidFile(c, table)
    PROVE  SolidFile(c, [table EXCEPT ![p] = r])
  BY SolidStays DEF SolidFile

LEMMA HoldsStays ==
    ASSUME NEW table \in [Everybody -> CommandRow], NEW p \in Everybody, NEW r \in CommandRow,
           Later(table[p], r), NEW s, Holds(s, table)
    PROVE  Holds(s, [table EXCEPT ![p] = r])
  <1>1. Solid(s.served, [table EXCEPT ![p] = r])
    BY SolidStays DEF Holds
  <1>2. SolidFile(s.payload, [table EXCEPT ![p] = r])
    BY SolidFileStays DEF Holds
  <1> QED
    BY <1>1, <1>2 DEF Holds

(* A step of one command.                                                      *)
LEMMA OneCommand ==
    ASSUME CacheInv, NEW p \in Process, NEW r \in CommandRow, Cache!Become(p, r), Later(s2[p], r),
           Holds(r, s2'), SolidFile(input', s2'), FilesInv(s2', s1')
    PROVE  CacheInv'
  <1>1. /\ s2 \in [Everybody -> CommandRow] /\ p \in Everybody /\ s2["earlier"].at = "ended"
        /\ \A q \in Everybody : Holds(s2[q], s2)
    BY DEF CacheInv, Everybody
  <1>2. s2' = [s2 EXCEPT ![p] = r]
    BY DEF Cache!Become
  <1>3. p # "earlier"
    BY CacheAssumption DEF Cache!CacheAssumption, Cache!Earlier
  <1>4. s2' \in [Everybody -> CommandRow] /\ s2'["earlier"].at = "ended" /\ s2'[p] = r
    BY <1>1, <1>2, <1>3 DEF Everybody
  <1>5. \A q \in Everybody : q # p => s2'[q] = s2[q]
    BY <1>1, <1>2
  <1>6. \A q \in Everybody : Holds(s2'[q], s2')
    <2> TAKE q \in Everybody
    <2>1. CASE q = p
      BY <1>4, <2>1
    <2>2. CASE q # p
      <3>1. Holds(s2[q], [s2 EXCEPT ![p] = r])
        BY <1>1, HoldsStays
      <3> QED
        BY <1>2, <1>5, <2>2, <3>1
    <2> QED
      BY <2>1, <2>2
  <1>7. /\ s2' \in [Everybody -> CommandRow] /\ s2'["earlier"].at = "ended"
        /\ SolidFile(input', s2') /\ (\A q \in Everybody : Holds(s2'[q], s2')) /\ FilesInv(s2', s1')
    BY <1>4, <1>6
  <1> QED
    BY <1>7, Zenon DEF CacheInv, SolidFile, Holds, FilesInv, Filed, Apart, NameIn, Solid, FileRow, CommandRow,
       PayloadRow, RowSeq, ReportRow, Everybody, Fresh, Places, NameRow, Cache!Absent, Cache!Torn

(* One that writes no file.                                                     *)
LEMMA FilesStay ==
    ASSUME CacheInv, NEW p \in Process, NEW r \in CommandRow, Cache!Become(p, r), s1' = s1,
           r.files = s2[p].files, r.at # "output"
    PROVE  FilesInv(s2', s1')
  <1>1. s2 \in [Everybody -> CommandRow] /\ FilesInv(s2, s1) /\ p \in Everybody
    BY DEF CacheInv, Everybody
  <1>2. s2' = [s2 EXCEPT ![p] = r]
    BY DEF Cache!Become
  <1>3. \A q \in Process : s2'[q] = IF q = p THEN r ELSE s2[q]
    BY <1>1, <1>2 DEF Everybody
  <1>4. Filed(r, p, s1)
    BY <1>1 DEF FilesInv, Filed
  <1>5. \A q \in Process : Filed(s2'[q], q, s1')
    BY <1>1, <1>3, <1>4 DEF FilesInv
  <1>6. Apart(s2')
    BY <1>1, <1>3 DEF FilesInv, Apart
  <1> QED
    BY <1>5, <1>6 DEF FilesInv

(* One that serves nothing else than before.                                       *)
LEMMA Onward ==
    ASSUME CacheInv, NEW p \in Process, NEW r \in CommandRow, Cache!Become(p, r),
           s2[p].at \in Fresh \/ r.at \notin Fresh, r.served = s2[p].served,
           SolidFile(r.payload, s2),
           r.at \in {"write", "fill", "verified", "rewrite", "refill", "save"} => r.served # <<>>,
           r.at = "research" => r.entities # <<>>,
           r.at \in {"rewrite", "refill"} => r.payload \in PayloadRow,
           r.at \in {"create", "output"} => Len(r.files) < Len(r.names),
           r.at \notin {"create", "output", "ended"} => r.files = <<>>,
           SolidFile(input', s2), FilesInv(s2', s1')
    PROVE  CacheInv'
  <1>1. s2 \in [Everybody -> CommandRow] /\ p \in Everybody /\ Holds(s2[p], s2)
    BY DEF CacheInv, Everybody
  <1>2. s2' = [s2 EXCEPT ![p] = r] /\ Later(s2[p], r)
    BY DEF Cache!Become, Later
  <1>3. Solid(r.served, s2)
    BY <1>1 DEF Holds
  <1>4. Solid(r.served, s2')
    BY <1>1, <1>2, <1>3, SolidStays
  <1>5. SolidFile(r.payload, s2') /\ SolidFile(input', s2')
    BY <1>1, <1>2, SolidFileStays
  <1>6. Holds(r, s2')
    BY <1>4, <1>5 DEF Holds
  <1> QED
    BY <1>2, <1>5, <1>6, OneCommand

(* The record of a command, and a file that stays what it is.                         *)
LEMMA Mine ==
    ASSUME CacheInv, NEW p \in Process
    PROVE  s2[p] \in CommandRow /\ Holds(s2[p], s2) /\ SolidFile(s2[p].payload, s2) /\ SolidFile(input, s2)
  BY DEF CacheInv, Holds, Everybody

LEMMA TornSolid == SolidFile(Cache!Torn, s2) /\ SolidFile(Cache!Absent, s2)
  BY DEF SolidFile, FileRow, PayloadRow, Cache!Torn, Cache!Absent

Serving == {"write", "fill", "verified", "rewrite", "refill", "save"}
LEMMA GoneOn ==
    ASSUME CacheInv, NEW p \in Process, NEW from \in Places, NEW to \in Places, Cache!Go(p, from, to),
           from \in Fresh \/ to \notin Fresh,
           to \in Serving => from \in Serving,
           to \notin {"research", "create", "output", "ended"}, from \notin {"create", "output", "ended"},
           to \in {"rewrite", "refill"} => from \in {"rewrite", "refill"},
           s1' = s1, SolidFile(input', s2)
    PROVE  CacheInv'
  <1>1. PICK r \in CommandRow : r = s2[p]
    BY Mine
  <1>2. Holds(r, s2) /\ SolidFile(r.payload, s2) /\ r.at = from
    BY <1>1, Mine DEF Cache!Go, Cache!At
  <1>3. PICK d : d = [r EXCEPT !.at = to]
    OBVIOUS
  <1>4. /\ d \in CommandRow /\ d.at = to /\ d.served = r.served /\ d.payload = r.payload
        /\ d.files = r.files /\ d.names = r.names /\ d.entities = r.entities
    BY <1>3 DEF CommandRow
  <1>5. Cache!Become(p, d)
    BY <1>1, <1>3 DEF Cache!Go
  <1>6. FilesInv(s2', s1')
    BY <1>1, <1>4, <1>5, FilesStay
  <1>7. /\ d.at \in Serving => d.served # <<>>
        /\ d.at \in {"rewrite", "refill"} => d.payload \in PayloadRow
        /\ d.at \notin {"create", "output", "ended"} => d.files = <<>>
    BY <1>2, <1>4 DEF Holds, Serving
  <1> QED
    BY <1>1, <1>2, <1>4, <1>5, <1>6, <1>7, Onward DEF Serving

LEMMA NoneOf == ASSUME NEW S PROVE <<>> \in Seq(S)
  OBVIOUS
LEMMA OneOf == ASSUME NEW S, NEW x \in S PROVE <<x>> \in Seq(S)
  OBVIOUS

(* A command that ends, or dies.                                                  *)
LEMMA EndKept ==
    ASSUME CacheInv, NEW p \in Process, NEW r \in CommandRow, Cache!Become(p, Cache!Gone(r)),
           r.served = s2[p].served, SolidFile(input', s2),
           Cache!Become(p, Cache!Gone(r)) => FilesInv(s2', s1')
    PROVE  CacheInv'
  <1>1. PICK d : d = Cache!Gone(r)
    OBVIOUS
  <1>2. d = [at |-> "ended", asked |-> <<>>, entities |-> <<>>, served |-> r.served,
             payload |-> Cache!Absent, names |-> <<>>, next |-> 1, files |-> r.files]
    BY <1>1 DEF Cache!Gone, Cache!Started
  <1>3. r.served \in RowSeq /\ r.files \in Seq(NameRow) /\ Cache!Absent \in FileRow
    BY DEF CommandRow, FileRow
  <1>4. PICK empty \in Seq(Entity) : empty = <<>>
    BY NoneOf
  <1>5. PICK none \in Seq(Seq(Entity)) : none = <<>>
    BY NoneOf
  <1>6. d \in CommandRow /\ d.at = "ended" /\ d.served = r.served /\ d.payload = Cache!Absent
    BY <1>2, <1>3, <1>4, <1>5 DEF CommandRow, Places
  <1>7. Cache!Become(p, d)
    BY <1>1
  <1> QED
    BY <1>1, <1>6, <1>7, TornSolid, Onward DEF Fresh

LEMMA EndQuietly ==
    ASSUME CacheInv, NEW p \in Process, Cache!End(p), s1' = s1, SolidFile(input', s2)
    PROVE  CacheInv'
  <1>1. PICK r \in CommandRow : r = s2[p]
    BY Mine
  <1>2. PICK d : d = Cache!Gone(r)
    OBVIOUS
  <1>3. d = [at |-> "ended", asked |-> <<>>, entities |-> <<>>, served |-> r.served,
             payload |-> Cache!Absent, names |-> <<>>, next |-> 1, files |-> r.files]
    BY <1>2 DEF Cache!Gone, Cache!Started
  <1>4. r.served \in RowSeq /\ r.files \in Seq(NameRow) /\ Cache!Absent \in FileRow
    BY DEF CommandRow, FileRow
  <1>5. PICK empty \in Seq(Entity) : empty = <<>>
    BY NoneOf
  <1>6. PICK none \in Seq(Seq(Entity)) : none = <<>>
    BY NoneOf
  <1>7. d \in CommandRow /\ d.files = r.files /\ d.at # "output"
    BY <1>3, <1>4, <1>5, <1>6 DEF CommandRow, Places
  <1>8. Cache!Become(p, Cache!Gone(r))
    BY <1>1 DEF Cache!End
  <1>9. FilesInv(s2', s1')
    BY <1>1, <1>2, <1>7, <1>8, FilesStay
  <1> QED
    BY <1>1, <1>8, <1>9, EndKept

(* What _load_last_report_cache gives is solid.                                     *)
LEMMA LoadedSolid ==
    ASSUME CacheInv, NEW asked, NEW found \in Cache!Found(asked)
    PROVE  Solid(found, s2)
  <1>1. CASE found = <<>>
    BY <1>1 DEF Solid, RowSeq
  <1>2. CASE found # <<>>
    <2>1. found = Cache!Loaded(asked) /\ Cache!Loaded(asked) # <<>>
      BY <1>2 DEF Cache!Found
    <2>2. input.file = "whole"
      BY <2>1 DEF Cache!Loaded
    <2>3. found = IF input.comparison THEN input.reports ELSE <<input.reports[1]>>
      BY <2>1 DEF Cache!Loaded
    <2>4. input \in PayloadRow
      BY <2>2 DEF CacheInv, SolidFile, FileRow, Cache!Absent, Cache!Torn
    <2>5. Solid(input.reports, s2)
      BY <2>4 DEF CacheInv, SolidFile
    <2>6. PICK reports \in RowSeq : reports = input.reports /\ reports # <<>>
      BY <2>4 DEF PayloadRow
    <2>7. CASE input.comparison
      BY <2>3, <2>5, <2>7
    <2>8. CASE ~input.comparison
      <3>1. found = <<reports[1]>> /\ reports[1] \in ReportRow
        BY <2>3, <2>6, <2>8 DEF RowSeq
      <3>2. found \in RowSeq /\ Len(found) = 1 /\ found[1] = reports[1]
        BY <3>1 DEF RowSeq
      <3>3. s2[reports[1].run].at \notin Fresh
        BY <2>5, <2>6 DEF Solid
      <3> QED
        BY <3>2, <3>3 DEF Solid
    <2> QED
      BY <2>7, <2>8
  <1> QED
    BY <1>1, <1>2

(* A command that begins its research.                                             *)
LEMMA Begun ==
    ASSUME CacheInv, NEW p \in Process, Cache!At(p, "start"),
           NEW asked \in Seq(Entity), NEW entities \in Seq(Entity), entities # <<>>,
           Cache!Become(p, [s2[p] EXCEPT !.at = "research", !.asked = asked, !.entities = entities]),
           s1' = s1, input' = input
    PROVE  CacheInv'
  <1>1. PICK r \in CommandRow : r = s2[p]
    BY Mine
  <1>2. Holds(r, s2) /\ SolidFile(r.payload, s2) /\ r.at = "start" /\ SolidFile(input', s2)
    BY <1>1, Mine DEF Cache!At
  <1>3. PICK d : d = [r EXCEPT !.at = "research", !.asked = asked, !.entities = entities]
    OBVIOUS
  <1>4. /\ d \in CommandRow /\ d.at = "research" /\ d.served = r.served /\ d.payload = r.payload
        /\ d.files = r.files /\ d.names = r.names /\ d.entities = entities
    BY <1>3 DEF CommandRow, Places
  <1>5. Cache!Become(p, d)
    BY <1>1, <1>3
  <1>6. FilesInv(s2', s1')
    BY <1>1, <1>4, <1>5, FilesStay
  <1>7. d.files = <<>>
    BY <1>2, <1>4 DEF Holds
  <1> QED
    BY <1>1, <1>2, <1>4, <1>5, <1>6, <1>7, Onward DEF Fresh

(* One that takes what it serves from the cache, or has it from its research.         *)
LEMMA Served ==
    ASSUME CacheInv, NEW p \in Process, s2[p].at \in Fresh,
           NEW to \in {"write", "verified", "save"}, NEW reports, reports # <<>>,
           Cache!Become(p, [s2[p] EXCEPT !.at = to, !.served = reports]),
           reports \in RowSeq, Solid(reports, s2'), s1' = s1, input' = input
    PROVE  CacheInv'
  <1>1. PICK r \in CommandRow : r = s2[p]
    BY Mine
  <1>2. Holds(r, s2) /\ SolidFile(r.payload, s2) /\ SolidFile(input, s2)
    BY <1>1, Mine
  <1>3. PICK d : d = [r EXCEPT !.at = to, !.served = reports]
    OBVIOUS
  <1>4. /\ d \in CommandRow /\ d.at = to /\ d.served = reports /\ d.payload = r.payload
        /\ d.files = r.files /\ d.names = r.names
    BY <1>3 DEF CommandRow, Places
  <1>5. Cache!Become(p, d)
    BY <1>1, <1>3
  <1>6. FilesInv(s2', s1')
    BY <1>1, <1>4, <1>5, FilesStay
  <1>7. r.files = <<>>
    BY <1>1, <1>2 DEF Holds, Fresh
  <1>8. Later(s2[p], d) /\ s2 \in [Everybody -> CommandRow] /\ p \in Everybody
    BY DEF Later, CacheInv, Everybody
  <1>9. s2' = [s2 EXCEPT ![p] = d]
    BY <1>5 DEF Cache!Become
  <1>11. SolidFile(r.payload, s2') /\ SolidFile(input, s2')
    BY <1>2, <1>4, <1>8, <1>9, SolidFileStays
  <1>10. Holds(d, s2')
    BY <1>4, <1>7, <1>11 DEF Holds
  <1> QED
    BY <1>4, <1>5, <1>6, <1>8, <1>11, <1>10, OneCommand

LEMMA RequestRow == ASSUME NEW r \in Requests PROVE r.asked \in Seq(Entity) /\ r.entities \in Seq(Entity) /\ r.entities # <<>>
  BY CacheAssumption DEF Cache!CacheAssumption

LEMMA StartResearchKept == ASSUME CacheInv, NEW p \in Process, Cache!StartResearch(p) PROVE CacheInv'
  <1>1. PICK r \in Requests : Cache!Become(p, [s2[p] EXCEPT !.at = "research", !.asked = r.asked,
                                                              !.entities = r.entities])
    BY DEF Cache!StartResearch
  <1>2. Cache!At(p, "start") /\ s1' = s1 /\ input' = input
    BY DEF Cache!StartResearch
  <1> QED
    BY <1>1, <1>2, RequestRow, Begun

(* What is loaded stays solid as the command begins to serve it.                      *)
LEMMA ServesLoaded ==
    ASSUME CacheInv, NEW p \in Process, Cache!At(p, "start"), NEW asked, NEW found \in Cache!Found(asked),
           found # <<>>, NEW to \in {"verified", "save"},
           Cache!Become(p, [s2[p] EXCEPT !.at = to, !.served = found]), s1' = s1, input' = input
    PROVE  CacheInv'
  <1>1. Solid(found, s2)
    BY LoadedSolid
  <1>2. found \in RowSeq /\ s2[p].at \in Fresh
    BY <1>1 DEF Solid, Cache!At, Fresh
  <1>3. PICK r \in CommandRow : r = s2[p]
    BY Mine
  <1>4. PICK d : d = [r EXCEPT !.at = to, !.served = found]
    OBVIOUS
  <1>5. d \in CommandRow
    BY <1>2, <1>4 DEF CommandRow, Places
  <1>6. s2' = [s2 EXCEPT ![p] = d]
    BY <1>3, <1>4 DEF Cache!Become
  <1>7. Later(s2[p], d) /\ s2 \in [Everybody -> CommandRow] /\ p \in Everybody
    BY <1>2 DEF Later, CacheInv, Everybody
  <1>8. Solid(found, s2')
    BY <1>1, <1>5, <1>6, <1>7, SolidStays
  <1> QED
    BY <1>2, <1>8, Served

LEMMA StartPageKept == ASSUME CacheInv, NEW p \in Process, Cache!StartPage(p) PROVE CacheInv'
  <1>1. Cache!At(p, "start") /\ s1' = s1 /\ input' = input
    BY DEF Cache!StartPage
  <1>5. PICK r \in Requests : \E found \in Cache!Found(r.asked) :
            \/ Cache!Become(p, [s2[p] EXCEPT !.at = "research", !.asked = r.asked, !.entities = r.entities])
            \/ /\ found # <<>>
               /\ \E to \in {"verified", "save"} :
                      Cache!Become(p, [s2[p] EXCEPT !.at = to, !.served = found])
    BY DEF Cache!StartPage
  <1>2. PICK found \in Cache!Found(r.asked) :
            \/ Cache!Become(p, [s2[p] EXCEPT !.at = "research", !.asked = r.asked, !.entities = r.entities])
            \/ /\ found # <<>>
               /\ \E to \in {"verified", "save"} :
                      Cache!Become(p, [s2[p] EXCEPT !.at = to, !.served = found])
    BY <1>5
  <1>3. CASE Cache!Become(p, [s2[p] EXCEPT !.at = "research", !.asked = r.asked, !.entities = r.entities])
    BY <1>1, <1>3, RequestRow, Begun
  <1>4. CASE /\ found # <<>>
             /\ \E to \in {"verified", "save"} : Cache!Become(p, [s2[p] EXCEPT !.at = to, !.served = found])
    <2>1. PICK to \in {"verified", "save"} : Cache!Become(p, [s2[p] EXCEPT !.at = to, !.served = found])
      BY <1>4
    <2>2. found # <<>>
      BY <1>4
    <2> QED
      BY <1>1, <2>1, <2>2, ServesLoaded
  <1> QED
    BY <1>2, <1>3, <1>4

LEMMA StartVerifyKept == ASSUME CacheInv, NEW p \in Process, Cache!StartVerify(p) PROVE CacheInv'
  <1>1. Cache!At(p, "start") /\ s1' = s1 /\ input' = input /\ SolidFile(input', s2)
    BY DEF Cache!StartVerify, CacheInv
  <1>2. PICK found \in Cache!Found(<<>>) :
            \/ Cache!End(p)
            \/ found # <<>> /\ Cache!Become(p, [s2[p] EXCEPT !.at = "verified", !.served = found])
    BY DEF Cache!StartVerify
  <1>3. CASE Cache!End(p)
    BY <1>1, <1>3, EndQuietly
  <1>4. CASE found # <<>> /\ Cache!Become(p, [s2[p] EXCEPT !.at = "verified", !.served = found])
    <2>1. PICK to \in {"verified", "save"} : to = "verified"
      OBVIOUS
    <2> QED
      BY <1>1, <1>4, <2>1, ServesLoaded
  <1> QED
    BY <1>2, <1>3, <1>4

LEMMA StartDrillKept == ASSUME CacheInv, NEW p \in Process, Cache!StartDrill(p) PROVE CacheInv'
  <1>1. Cache!At(p, "start") /\ s1' = s1 /\ input' = input /\ SolidFile(input', s2)
    BY DEF Cache!StartDrill, CacheInv
  <1>2. PICK found \in Cache!Found(<<>>) :
            \/ Cache!End(p)
            \/ /\ Len(found) = 1
               /\ Cache!Become(p, [s2[p] EXCEPT !.at = "research", !.asked = <<found[1].topic>>,
                                                !.entities = <<found[1].topic>>])
    BY DEF Cache!StartDrill
  <1>3. CASE Cache!End(p)
    BY <1>1, <1>3, EndQuietly
  <1>4. CASE /\ Len(found) = 1
             /\ Cache!Become(p, [s2[p] EXCEPT !.at = "research", !.asked = <<found[1].topic>>,
                                              !.entities = <<found[1].topic>>])
    <2>1. found \in RowSeq
      BY LoadedSolid DEF Solid
    <2>2. found[1] \in ReportRow
      BY <1>4, <2>1 DEF RowSeq
    <2>3. PICK t \in Entity : t = found[1].topic
      BY <2>2 DEF ReportRow
    <2>4. PICK asked \in Seq(Entity) : asked = <<t>>
      BY OneOf
    <2>5. asked # <<>>
      BY <2>4
    <2>6. Cache!Become(p, [s2[p] EXCEPT !.at = "research", !.asked = asked, !.entities = asked])
      BY <1>4, <2>3, <2>4
    <2> QED
      BY <1>1, <2>5, <2>6, Begun
  <1> QED
    BY <1>2, <1>3, <1>4

(* The reports of a run are its own.                                              *)
LEMMA SurvivingRow ==
    ASSUME NEW entities \in Seq(Entity), entities # <<>>, NEW p \in Everybody,
           NEW reports \in Cache!Surviving(entities, p)
    PROVE  /\ reports \in RowSeq /\ reports # <<>> /\ Len(reports) \in Nat
           /\ \A i \in 1..Len(reports) : reports[i].run = p
  <1>1. CASE Len(entities) = 1
    <2>1. reports = <<[topic |-> entities[1], run |-> p]>> /\ entities[1] \in Entity
      BY <1>1 DEF Cache!Surviving, Cache!Report
    <2>2. PICK x \in ReportRow : x = [topic |-> entities[1], run |-> p]
      BY <2>1 DEF ReportRow
    <2>3. reports = <<x>> /\ x.run = p
      BY <2>1, <2>2
    <2> QED
      BY <2>3 DEF RowSeq
  <1>2. CASE Len(entities) # 1
    <2>1. PICK n \in 2..Len(entities) :
              reports \in {[k \in 1..n |-> Cache!Report(entities[f[k]], p)] :
                           f \in Cache!Increasing(n, Len(entities))}
      BY <1>2, Zenon DEF Cache!Surviving
    <2>2. PICK f \in [1..n -> 1..Len(entities)] :
              reports = [k \in 1..n |-> [topic |-> entities[f[k]], run |-> p]]
      BY <2>1 DEF Cache!Increasing, Cache!Report
    <2>3. \A k \in 1..n : entities[f[k]] \in Entity
      OBVIOUS
    <2>4. \A k \in 1..n : [topic |-> entities[f[k]], run |-> p] \in ReportRow
      BY <2>3 DEF ReportRow
    <2>5. reports \in [1..n -> ReportRow] /\ \A k \in 1..n : reports[k].run = p
      BY <2>2, <2>4
    <2>6. n \in Nat /\ n >= 2
      OBVIOUS
    <2>7. reports \in RowSeq /\ Len(reports) = n
      BY <2>5, <2>6 DEF RowSeq
    <2> QED
      BY <2>5, <2>6, <2>7
  <1> QED
    BY <1>1, <1>2

LEMMA ResearchKept == ASSUME CacheInv, NEW p \in Process, Cache!Research(p) PROVE CacheInv'
  <1>1. Cache!At(p, "research") /\ s1' = s1 /\ input' = input /\ SolidFile(input', s2)
    BY DEF Cache!Research, CacheInv
  <1>2. CASE Cache!End(p)
    BY <1>1, <1>2, EndQuietly
  <1>3. CASE \E reports \in Cache!Surviving(s2[p].entities, p) :
                Cache!Become(p, [s2[p] EXCEPT !.at = "write", !.served = reports])
    <2>1. PICK r \in CommandRow : r = s2[p]
      BY Mine
    <2>2. PICK reports \in Cache!Surviving(r.entities, p) :
              Cache!Become(p, [r EXCEPT !.at = "write", !.served = reports])
      BY <1>3, <2>1
    <2>3. r.entities \in Seq(Entity) /\ r.entities # <<>> /\ p \in Everybody
      BY <1>1, <2>1, Mine DEF Holds, CommandRow, Cache!At, Everybody
    <2>4. /\ reports \in RowSeq /\ reports # <<>> /\ Len(reports) \in Nat
          /\ \A i \in 1..Len(reports) : reports[i].run = p
      BY <2>3, SurvivingRow
    <2>5. PICK d : d = [r EXCEPT !.at = "write", !.served = reports]
      OBVIOUS
    <2>6. d.at = "write" /\ d.served = reports
      BY <2>5 DEF CommandRow
    <2>7. s2'[p] = d
      BY <2>2, <2>3, <2>5 DEF Cache!Become, CacheInv
    <2>8. 1 \in 1..Len(reports)
      BY <2>4 DEF RowSeq
    <2>9. Solid(reports, s2')
      BY <2>4, <2>6, <2>7, <2>8 DEF Solid, Fresh
    <2>10. PICK to \in {"write", "verified", "save"} : to = "write"
      OBVIOUS
    <2> QED
      BY <1>1, <2>1, <2>2, <2>4, <2>9, <2>10, Served DEF Cache!At, Fresh
  <1> QED
    BY <1>2, <1>3 DEF Cache!Research

(* Both writes of the cache: emptied first, then filled, torn or left alone.            *)
LEMMA EmptyCacheKept ==
    ASSUME CacheInv, NEW p \in Process, Cache!EmptyCache(p) \/ Cache!EmptyForUpdate(p) PROVE CacheInv'
  <1>1. SolidFile(Cache!Torn, s2) /\ SolidFile(input, s2)
    BY TornSolid DEF CacheInv
  <1>2. s1' = s1 /\ SolidFile(input', s2)
    BY <1>1 DEF Cache!EmptyCache, Cache!EmptyForUpdate
  <1>3. CASE Cache!Go(p, "write", "save")
    BY <1>2, <1>3, GoneOn DEF Fresh, Serving, Places
  <1>4. CASE Cache!Go(p, "write", "fill")
    BY <1>2, <1>4, GoneOn DEF Fresh, Serving, Places
  <1>5. CASE Cache!Go(p, "rewrite", "save")
    BY <1>2, <1>5, GoneOn DEF Fresh, Serving, Places
  <1>6. CASE Cache!Go(p, "rewrite", "refill")
    BY <1>2, <1>6, GoneOn DEF Fresh, Serving, Places
  <1> QED
    BY <1>3, <1>4, <1>5, <1>6 DEF Cache!EmptyCache, Cache!EmptyForUpdate

LEMMA FillCacheKept == ASSUME CacheInv, NEW p \in Process, Cache!FillCache(p) PROVE CacheInv'
  <1>1. Cache!Go(p, "fill", "save") /\ s1' = s1
    BY DEF Cache!FillCache
  <1>2. PICK r \in CommandRow : r = s2[p]
    BY Mine
  <1>3. Holds(r, s2) /\ r.at = "fill"
    BY <1>1, <1>2, Mine DEF Cache!Go, Cache!At
  <1>4. Solid(r.served, s2) /\ r.served \in RowSeq \ {<<>>} /\ r.asked \in Seq(Entity)
    BY <1>3 DEF Holds, CommandRow
  <1>11. (Len(r.entities) > 1) \in BOOLEAN
    OBVIOUS
  <1>5. PICK several \in BOOLEAN : several = (Len(r.entities) > 1)
    BY <1>11, Zenon
  <1>6. PICK c : c = Cache!Payload(r.asked, several, r.served)
    OBVIOUS
  <1>7. c \in PayloadRow /\ c.reports = r.served
    BY <1>4, <1>6 DEF Cache!Payload, PayloadRow
  <1>8. SolidFile(c, s2)
    BY <1>4, <1>7 DEF SolidFile, FileRow
  <1>9. input' \in {c, Cache!Torn, input}
    BY <1>2, <1>5, <1>6 DEF Cache!FillCache
  <1>10. SolidFile(input', s2)
    BY <1>8, <1>9, TornSolid, Mine
  <1> QED
    BY <1>1, <1>10, GoneOn DEF Fresh, Serving, Places

LEMMA ReadAgainKept == ASSUME CacheInv, NEW p \in Process, Cache!ReadAgain(p) PROVE CacheInv'
  <1>1. Cache!At(p, "verified") /\ s1' = s1 /\ SolidFile(input', s2)
    BY DEF Cache!ReadAgain, CacheInv
  <1>2. CASE Cache!Go(p, "verified", "save")
    BY <1>1, <1>2, GoneOn DEF Fresh, Serving, Places
  <1>3. CASE /\ input.file = "whole"
             /\ Cache!Become(p, [s2[p] EXCEPT !.at = "rewrite", !.payload = input])
    <2>1. PICK r \in CommandRow : r = s2[p]
      BY Mine
    <2>2. Holds(r, s2) /\ r.at = "verified" /\ SolidFile(input, s2)
      BY <1>1, <2>1, Mine DEF Cache!At
    <2>3. input \in PayloadRow
      BY <1>3, <2>2 DEF SolidFile, FileRow, Cache!Absent, Cache!Torn
    <2>4. PICK d : d = [r EXCEPT !.at = "rewrite", !.payload = input]
      OBVIOUS
    <2>5. PICK c \in FileRow : c = input
      BY <2>3 DEF FileRow
    <2>6. /\ d \in CommandRow /\ d.at = "rewrite" /\ d.served = r.served /\ d.payload = c
          /\ d.files = r.files /\ d.names = r.names /\ d.entities = r.entities
      BY <2>4, <2>5 DEF CommandRow, Places
    <2>7. Cache!Become(p, d)
      BY <1>3, <2>1, <2>4
    <2>8. FilesInv(s2', s1')
      BY <1>1, <2>1, <2>6, <2>7, FilesStay
    <2>9. d.files = <<>> /\ d.served # <<>>
      BY <2>2, <2>6 DEF Holds
    <2> QED
      BY <1>1, <2>1, <2>2, <2>3, <2>5, <2>6, <2>7, <2>8, <2>9, Onward DEF Fresh
  <1> QED
    BY <1>2, <1>3 DEF Cache!ReadAgain

LEMMA FillUpdatedKept == ASSUME CacheInv, NEW p \in Process, Cache!FillUpdated(p) PROVE CacheInv'
  <1>1. Cache!Go(p, "refill", "save") /\ s1' = s1
    BY DEF Cache!FillUpdated
  <1>2. PICK r \in CommandRow : r = s2[p]
    BY Mine
  <1>3. Holds(r, s2) /\ r.at = "refill"
    BY <1>1, <1>2, Mine DEF Cache!Go, Cache!At
  <1>4. PICK served \in RowSeq \ {<<>>} : served = r.served /\ Solid(served, s2)
    BY <1>3 DEF Holds, CommandRow
  <1>5. PICK payload \in PayloadRow : payload = r.payload
    BY <1>3 DEF Holds
  <1>6. PICK c : c = [payload EXCEPT !.reports = served]
    OBVIOUS
  <1>7. c \in PayloadRow /\ c.reports = served
    BY <1>6 DEF PayloadRow
  <1>8. SolidFile(c, s2)
    BY <1>4, <1>7 DEF SolidFile, FileRow
  <1>9. input' \in {c, Cache!Torn, input}
    BY <1>2, <1>4, <1>5, <1>6 DEF Cache!FillUpdated, Cache!Updated
  <1>10. SolidFile(input', s2)
    BY <1>8, <1>9, TornSolid, Mine
  <1> QED
    BY <1>1, <1>10, GoneOn DEF Fresh, Serving, Places

(* The files.                                                                  *)
LEMMA SaveKept == ASSUME CacheInv, NEW p \in Process, Cache!Save(p) PROVE CacheInv'
  <1>1. Cache!At(p, "save") /\ s1' = s1 /\ SolidFile(input', s2)
    BY DEF Cache!Save, CacheInv
  <1>2. CASE Cache!End(p)
    BY <1>1, <1>2, EndQuietly
  <1>3. ASSUME NEW page \in BOOLEAN,
               Cache!Become(p, [s2[p] EXCEPT !.at = "create",
                   !.names = [i \in 1..Len(s2[p].served) |-> Cache!Subject(s2[p].served, page, i)]])
        PROVE  CacheInv'
    <2>1. PICK r \in CommandRow : r = s2[p]
      BY Mine
    <2>2. Holds(r, s2) /\ r.at = "save" /\ SolidFile(r.payload, s2)
      BY <1>1, <2>1, Mine DEF Cache!At
    <2>3. PICK served \in RowSeq : served = r.served /\ served # <<>>
      BY <2>2 DEF Holds, CommandRow
    <2>4. PICK n \in Nat : n = Len(served) /\ n >= 1
      BY <2>3 DEF RowSeq
    <2>5. \A i \in 1..n : served[i].topic \in Entity
      <3>1. \A i \in 1..n : served[i] \in ReportRow
        BY <2>3, <2>4 DEF RowSeq
      <3> QED
        BY <3>1 DEF ReportRow
    <2>6. ASSUME NEW i \in 1..n PROVE Cache!Subject(served, page, i) \in Seq(Entity)
      <3>1. PICK all : all = [k \in 1..n |-> served[k].topic]
        OBVIOUS
      <3>2. all \in [1..n -> Entity]
        BY <2>5, <3>1
      <3>3. all \in Seq(Entity)
        BY <3>2
      <3>4. <<served[i].topic>> \in Seq(Entity)
        BY <2>5, OneOf
      <3>5. Cache!Subject(served, page, i) = IF page /\ n > 1 /\ i = 1 THEN all ELSE <<served[i].topic>>
        BY <2>4, <3>1 DEF Cache!Subject
      <3> QED
        BY <3>3, <3>4, <3>5
    <2>7. PICK names : names = [i \in 1..n |-> Cache!Subject(served, page, i)]
      OBVIOUS
    <2>8. names \in [1..n -> Seq(Entity)]
      BY <2>6, <2>7
    <2>9. names \in Seq(Seq(Entity)) /\ Len(names) = n
      BY <2>8
    <2>10. PICK d : d = [r EXCEPT !.at = "create", !.names = names]
      OBVIOUS
    <2>11. /\ d \in CommandRow /\ d.at = "create" /\ d.served = r.served /\ d.payload = r.payload
           /\ d.files = r.files /\ d.names = names
      BY <2>9, <2>10 DEF CommandRow, Places
    <2>12. Cache!Become(p, d)
      BY <1>3, <2>1, <2>3, <2>4, <2>7, <2>10
    <2>13. r.files = <<>>
      BY <2>2 DEF Holds
    <2>14. Len(d.files) < Len(d.names)
      BY <2>4, <2>9, <2>11, <2>13
    <2>15. FilesInv(s2', s1')
      BY <1>1, <2>1, <2>11, <2>12, FilesStay
    <2> QED
      BY <1>1, <2>1, <2>2, <2>11, <2>12, <2>14, <2>15, Onward DEF Fresh
  <1>4. Cache!End(p) \/ \E page \in BOOLEAN :
            Cache!Become(p, [s2[p] EXCEPT !.at = "create",
                !.names = [i \in 1..Len(s2[p].served) |-> Cache!Subject(s2[p].served, page, i)]])
    BY DEF Cache!Save
  <1> QED
    BY <1>2, <1>3, <1>4

LEMMA DieKept == ASSUME CacheInv, NEW p \in Process, Cache!Die(p) PROVE CacheInv'
  BY EndQuietly DEF Cache!Die, CacheInv

(* A file is created only under a name that nobody has, so that its name is no other's.   *)
LEMMA CreateFileKept == ASSUME CacheInv, NEW p \in Process, Cache!CreateFile(p) PROVE CacheInv'
  <1>1. PICK r \in CommandRow : r = s2[p]
    BY Mine
  <1>2. /\ Holds(r, s2) /\ r.at = "create" /\ SolidFile(r.payload, s2)
        /\ SolidFile(input', s2) /\ s2 \in [Everybody -> CommandRow] /\ p \in Everybody
    BY <1>1, Mine DEF Cache!CreateFile, Cache!At, CacheInv, Everybody
  <1>3. FilesInv(s2, s1)
    BY DEF CacheInv
  <1>4. PICK name : name = NameIn(r)
    OBVIOUS
  <1>5. Cache!NameOf(p) = name
    BY <1>1, <1>4 DEF Cache!NameOf, Cache!Saving, NameIn
  <1>6. CASE Cache!End(p) /\ s1' = s1
    BY <1>2, <1>6, EndQuietly
  <1>7. CASE Cache!Become(p, [s2[p] EXCEPT !.next = s2[p].next + 1]) /\ s1' = s1
    <2>6. PICK n \in Nat : n = r.next + 1
      BY DEF CommandRow
    <2>1. PICK d : d = [r EXCEPT !.next = n]
      OBVIOUS
    <2>2. /\ d \in CommandRow /\ d.at = r.at /\ d.served = r.served /\ d.payload = r.payload
          /\ d.files = r.files /\ d.names = r.names /\ d.entities = r.entities
      BY <2>1 DEF CommandRow
    <2>3. Cache!Become(p, d)
      BY <1>1, <1>7, <2>1, <2>6
    <2>4. FilesInv(s2', s1')
      BY <1>1, <1>2, <1>7, <2>2, <2>3, FilesStay
    <2>5. Len(d.files) < Len(d.names)
      BY <1>2, <2>2 DEF Holds
    <2> QED
      BY <1>1, <1>2, <2>2, <2>3, <2>4, <2>5, Onward DEF Fresh
  <1>8. CASE name \notin DOMAIN s1 /\ Cache!Go(p, "create", "output") /\ s1' = Cache!With(name, <<>>)
    <2>1. PICK d : d = [r EXCEPT !.at = "output"]
      OBVIOUS
    <2>2. /\ d \in CommandRow /\ d.at = "output" /\ d.served = r.served /\ d.payload = r.payload
          /\ d.files = r.files /\ d.names = r.names /\ d.next = r.next
      BY <2>1 DEF CommandRow, Places
    <2>3. Cache!Become(p, d)
      BY <1>1, <1>8, <2>1 DEF Cache!Go
    <2>4. /\ DOMAIN s1' = DOMAIN s1 \cup {name} /\ s1'[name] = <<>>
          /\ \A n \in DOMAIN s1 : s1'[n] = s1[n]
      BY <1>8 DEF Cache!With
    <2>5. \A q \in Process : s2'[q] = IF q = p THEN d ELSE s2[q]
      BY <1>2, <2>3 DEF Cache!Become, Everybody
    <2>6. NameIn(d) = name
      BY <1>4, <2>2 DEF NameIn
    <2>7. ASSUME NEW q \in Process PROVE Filed(s2'[q], q, s1')
      <3>1. Filed(s2[q], q, s1)
        BY <1>3 DEF FilesInv
      <3>2. CASE q = p
        <4>1. Filed(d, p, s1')
          BY <1>1, <2>2, <2>4, <2>6, <3>1, <3>2 DEF Filed
        <4> QED
          BY <2>5, <3>2, <4>1
      <3>3. CASE q # p
        BY <2>4, <2>5, <3>1, <3>3 DEF Filed
      <3> QED
        BY <3>2, <3>3
    <2>8. ASSUME NEW q \in Process, q # p, s2[q].at = "output" PROVE NameIn(s2[q]) # name
      BY <1>3, <1>8, <2>8 DEF FilesInv, Filed
    <2>9. Apart(s2')
      BY <1>3, <2>5, <2>6, <2>8 DEF Apart, FilesInv
    <2>10. FilesInv(s2', s1')
      BY <2>7, <2>9 DEF FilesInv
    <2>11. Len(d.files) < Len(d.names)
      BY <1>2, <2>2 DEF Holds
    <2> QED
      BY <1>1, <1>2, <2>2, <2>3, <2>10, <2>11, Onward DEF Fresh
  <1> QED
    BY <1>1, <1>5, <1>6, <1>7, <1>8, Zenon DEF Cache!CreateFile

(* A file is written by the command that created it.                                  *)
LEMMA WriteFileKept == ASSUME CacheInv, NEW p \in Process, Cache!WriteFile(p) PROVE CacheInv'
  <1>1. PICK r \in CommandRow : r = s2[p]
    BY Mine
  <1>2. /\ Holds(r, s2) /\ r.at = "output" /\ SolidFile(r.payload, s2)
        /\ SolidFile(input', s2) /\ s2 \in [Everybody -> CommandRow] /\ p \in Everybody
    BY <1>1, Mine DEF Cache!WriteFile, Cache!At, CacheInv, Everybody
  <1>3. FilesInv(s2, s1)
    BY DEF CacheInv
  <1>4. CASE Cache!End(p) /\ s1' = s1
    BY <1>2, <1>4, EndQuietly
  <1>5. PICK name : name = NameIn(r)
    OBVIOUS
  <1>6. PICK m \in Nat : m = Len(r.files) /\ m < Len(r.names)
    BY <1>2 DEF Holds, CommandRow
  <1>7. Cache!NameOf(p) = name /\ Cache!Saving(p) = m + 1
    BY <1>1, <1>5, <1>6 DEF Cache!NameOf, Cache!Saving, NameIn
  <1>8. name \in NameRow
    <2>1. r.names \in Seq(Seq(Entity)) /\ m + 1 \in 1..Len(r.names) /\ r.next \in Nat
      BY <1>6 DEF CommandRow
    <2>2. r.names[m + 1] \in Seq(Entity)
      BY <2>1
    <2> QED
      BY <1>5, <1>6, <2>1, <2>2 DEF NameIn, NameRow
  <1>9. PICK d : d = [r EXCEPT !.at = "create", !.next = 1, !.files = Append(r.files, name)]
    OBVIOUS
  <1>14. r.files \in Seq(NameRow)
    BY DEF CommandRow
  <1>15. PICK files : files = Append(r.files, name)
    OBVIOUS
  <1>16. files \in Seq(NameRow) /\ Len(files) = m + 1
    BY <1>6, <1>8, <1>14, <1>15
  <1>17. files[m + 1] = name /\ \A i \in 1..m : files[i] = r.files[i]
    BY <1>6, <1>8, <1>14, <1>15
  <1>10. files \in Seq(NameRow) /\ files = Append(r.files, name) /\ Len(files) = m + 1
         /\ files[m + 1] = name /\ \A i \in 1..m : files[i] = r.files[i]
    BY <1>15, <1>16, <1>17
  <1>11. /\ d \in CommandRow /\ d.at = "create" /\ d.served = r.served /\ d.payload = r.payload
         /\ d.files = files /\ d.names = r.names
    BY <1>9, <1>10 DEF CommandRow, Places
  <1>12. CASE /\ s1' = Cache!With(name, <<p, m + 1>>)
              /\ \/ m + 1 < Len(r.names) /\ Cache!Become(p, d)
                 \/ Cache!Become(p, Cache!Gone(d))
    <2>1. /\ DOMAIN s1' = DOMAIN s1 \cup {name} /\ s1'[name] = <<p, m + 1>>
          /\ \A n \in DOMAIN s1 \ {name} : s1'[n] = s1[n]
      BY <1>12 DEF Cache!With
    <2>2. name \in DOMAIN s1 /\ s1[name] = <<>>
      BY <1>1, <1>2, <1>3, <1>5 DEF FilesInv, Filed
    <2>3. ASSUME NEW q \in Process, NEW i \in 1..Len(s2[q].files)
          PROVE  /\ s2[q].files[i] \in DOMAIN s1' /\ s2[q].files[i] # name
                 /\ s1'[s2[q].files[i]] = <<q, i>>
      <3>1. s2[q].files[i] \in DOMAIN s1 /\ s1[s2[q].files[i]] = <<q, i>>
        BY <1>3 DEF FilesInv, Filed
      <3>2. <<q, i>> # <<>>
        OBVIOUS
      <3> QED
        BY <2>1, <2>2, <3>1, <3>2
    <2>4. ASSUME NEW q \in Process, q # p PROVE Filed(s2[q], q, s1')
      <3>1. CASE s2[q].at = "output"
        <4>1. NameIn(s2[q]) # name /\ NameIn(s2[q]) \in DOMAIN s1 /\ s1[NameIn(s2[q])] = <<>>
          BY <1>1, <1>2, <1>3, <1>5, <2>4, <3>1 DEF FilesInv, Filed, Apart
        <4> QED
          BY <2>1, <2>3, <4>1 DEF Filed
      <3>2. CASE s2[q].at # "output"
        BY <2>3, <3>2 DEF Filed
      <3> QED
        BY <3>1, <3>2
    <2>5. ASSUME NEW s, s.files = files, s.at # "output" PROVE Filed(s, p, s1')
      <3>1. \A i \in 1..m : files[i] \in DOMAIN s1' /\ s1'[files[i]] = <<p, i>>
        BY <1>1, <1>6, <1>10, <2>3
      <3>2. files[m + 1] \in DOMAIN s1' /\ s1'[files[m + 1]] = <<p, m + 1>>
        BY <1>10, <2>1
      <3>3. \A i \in 1..(m + 1) : i \in 1..m \/ i = m + 1
        BY <1>6
      <3> QED
        BY <1>10, <2>5, <3>1, <3>2, <3>3 DEF Filed
    <2>6. ASSUME NEW s, s2' = [s2 EXCEPT ![p] = s], s.files = files, s.at # "output" PROVE FilesInv(s2', s1')
      <3>1. \A q \in Process : s2'[q] = IF q = p THEN s ELSE s2[q]
        BY <1>2, <2>6 DEF Everybody
      <3>2. \A q \in Process : Filed(s2'[q], q, s1')
        BY <2>4, <2>5, <2>6, <3>1
      <3>3. Apart(s2')
        BY <1>3, <2>6, <3>1 DEF FilesInv, Apart
      <3> QED
        BY <3>2, <3>3 DEF FilesInv
    <2>7. CASE m + 1 < Len(r.names) /\ Cache!Become(p, d)
      <3>1. FilesInv(s2', s1')
        BY <1>11, <2>6, <2>7 DEF Cache!Become
      <3> QED
        BY <1>1, <1>2, <1>10, <1>11, <2>7, <3>1, Onward DEF Fresh
    <2>8. CASE Cache!Become(p, Cache!Gone(d))
      <3>1. PICK g : g = Cache!Gone(d)
        OBVIOUS
      <3>2. g.files = files /\ g.at # "output"
        BY <1>11, <3>1 DEF Cache!Gone, Cache!Started
      <3>3. FilesInv(s2', s1')
        BY <2>6, <2>8, <3>1, <3>2 DEF Cache!Become
      <3> QED
        BY <1>1, <1>2, <1>11, <2>8, <3>3, EndKept
    <2> QED
      BY <1>12, <2>7, <2>8
  <1>13. CASE /\ s1' = Cache!With(Cache!NameOf(p), Cache!Content(p, Cache!Saving(p)))
              /\ LET next == [s2[p] EXCEPT !.at = "create", !.next = 1,
                                           !.files = Append(s2[p].files, Cache!NameOf(p))]
                 IN Cache!Become(p, IF Cache!Saving(p) < Len(s2[p].names) THEN next ELSE Cache!Gone(next))
    <2>1. s1' = Cache!With(name, <<p, m + 1>>)
      BY <1>7, <1>13 DEF Cache!Content
    <2>2. Cache!Become(p, IF m + 1 < Len(r.names) THEN d ELSE Cache!Gone(d))
      BY <1>1, <1>7, <1>9, <1>13
    <2>3. CASE m + 1 < Len(r.names)
      BY <1>12, <2>1, <2>2, <2>3
    <2>4. CASE ~(m + 1 < Len(r.names))
      BY <1>12, <2>1, <2>2, <2>4
    <2> QED
      BY <2>3, <2>4
  <1> QED
    BY <1>4, <1>13, Zenon DEF Cache!WriteFile

LEMMA CacheSteps == ASSUME CacheInv, Cache!Next \/ UNCHANGED <<input, output, s1, s2>> PROVE CacheInv'
  <1>1. CASE UNCHANGED <<input, output, s1, s2>>
    <2>1. input' = input /\ s1' = s1 /\ s2' = s2
      BY <1>1
    <2>2. s2' \in [Everybody -> CommandRow] /\ s2'["earlier"].at = "ended"
      BY <2>1 DEF CacheInv
    <2>3. SolidFile(input', s2')
      BY <2>1 DEF CacheInv
    <2>4. \A p \in Everybody : Holds(s2'[p], s2')
      BY <2>1 DEF CacheInv
    <2>5. FilesInv(s2', s1')
      BY <2>1 DEF CacheInv
    <2> QED
      BY <2>2, <2>3, <2>4, <2>5 DEF CacheInv
  <1>2. CASE \E p \in Process : \/ Cache!StartResearch(p) \/ Cache!StartPage(p) \/ Cache!StartVerify(p)
                                \/ Cache!StartDrill(p) \/ Cache!Research(p)
                                \/ Cache!EmptyCache(p) \/ Cache!FillCache(p)
                                \/ Cache!ReadAgain(p) \/ Cache!EmptyForUpdate(p) \/ Cache!FillUpdated(p)
                                \/ Cache!Save(p) \/ Cache!CreateFile(p) \/ Cache!WriteFile(p) \/ Cache!Die(p)
    BY <1>2, StartResearchKept, StartPageKept, StartVerifyKept, StartDrillKept, ResearchKept, EmptyCacheKept,
       FillCacheKept, ReadAgainKept, FillUpdatedKept, SaveKept, CreateFileKept, WriteFileKept, DieKept
  <1> QED
    BY <1>1, <1>2, Zenon DEF Cache!Next

LEMMA CacheStarts == ASSUME Cache!Init PROVE CacheInv
  <1>1. PICK r : r = Cache!Started
    OBVIOUS
  <1>2. PICK empty \in Seq(Entity) : empty = <<>>
    BY NoneOf
  <1>3. PICK none \in Seq(Seq(Entity)) : none = <<>>
    BY NoneOf
  <1>4. PICK served \in RowSeq : served = <<>>
    BY NoneOf DEF RowSeq
  <1>5. PICK files \in Seq(NameRow) : files = <<>>
    BY NoneOf
  <1>6. PICK absent \in FileRow : absent = Cache!Absent
    BY DEF FileRow
  <1>7. r = [at |-> "start", asked |-> empty, entities |-> empty, served |-> served, payload |-> absent,
             names |-> none, next |-> 1, files |-> files]
    BY <1>1, <1>2, <1>3, <1>4, <1>5, <1>6 DEF Cache!Started
  <1>8. r \in CommandRow /\ r.at = "start" /\ r.served = <<>> /\ r.payload = absent /\ r.files = <<>>
    BY <1>4, <1>5, <1>7 DEF CommandRow, Places
  <1>9. \A table : SolidFile(absent, table)
    BY <1>6 DEF SolidFile, PayloadRow, Cache!Absent
  <1>10. \A table : Solid(<<>>, table)
    BY <1>4 DEF Solid
  <1>11. \A table : Holds(r, table)
    BY <1>8, <1>9, <1>10 DEF Holds
  <1>12. /\ "earlier" \notin Process /\ "earlier" \in Everybody /\ s1 = <<>> /\ Cache!Earlier = "earlier"
         /\ Everybody = Process \cup {Cache!Earlier}
    BY CacheAssumption DEF Cache!CacheAssumption, Cache!Earlier, Everybody, Cache!Init
  <1>13. ASSUME NEW x \in CommandRow, x.at = "ended", x.files = <<>>, x.payload = absent,
                s2 = [p \in Process \cup {Cache!Earlier} |-> IF p = Cache!Earlier THEN x ELSE r],
                Solid(x.served, s2), SolidFile(input, s2)
         PROVE  CacheInv
    <2>1. \A p \in Process : s2[p] = r
      BY <1>12, <1>13
    <2>2. s2["earlier"] = x /\ s2 \in [Everybody -> CommandRow]
      BY <1>8, <1>12, <1>13
    <2>3. Holds(x, s2)
      BY <1>9, <1>13 DEF Holds
    <2>4. \A p \in Everybody : Holds(s2[p], s2)
      BY <1>11, <2>1, <2>2, <2>3 DEF Everybody
    <2>5. Len(r.files) = 0
      BY <1>8
    <2>6. FilesInv(s2, s1)
      BY <1>8, <2>1, <2>5 DEF FilesInv, Filed, Apart
    <2> QED
      BY <1>13, <2>2, <2>4, <2>6 DEF CacheInv
  <1>14. CASE /\ input = Cache!Absent
              /\ s2 = [p \in Process \cup {Cache!Earlier} |->
                           IF p = Cache!Earlier THEN [r EXCEPT !.at = "ended"] ELSE r]
    <2>1. PICK x : x = [r EXCEPT !.at = "ended"]
      OBVIOUS
    <2>2. x \in CommandRow /\ x.at = "ended" /\ x.files = <<>> /\ x.payload = absent /\ x.served = <<>>
      BY <1>8, <2>1 DEF CommandRow, Places
    <2> QED
      BY <1>6, <1>9, <1>10, <1>13, <1>14, <2>1, <2>2
  <1>15. ASSUME NEW q \in Requests, NEW reports \in Cache!Surviving(q.entities, Cache!Earlier),
                input = Cache!Payload(q.asked, Len(q.entities) > 1, reports),
                s2 = [p \in Process \cup {Cache!Earlier} |->
                          IF p = Cache!Earlier THEN [r EXCEPT !.at = "ended", !.served = reports] ELSE r]
         PROVE  CacheInv
    <2>1. q.asked \in Seq(Entity) /\ q.entities \in Seq(Entity) /\ q.entities # <<>>
      BY RequestRow
    <2>2. /\ reports \in RowSeq /\ reports # <<>> /\ Len(reports) \in Nat
          /\ \A i \in 1..Len(reports) : reports[i].run = "earlier"
      BY <1>12, <2>1, SurvivingRow
    <2>3. PICK x : x = [r EXCEPT !.at = "ended", !.served = reports]
      OBVIOUS
    <2>4. x \in CommandRow /\ x.at = "ended" /\ x.files = <<>> /\ x.payload = absent /\ x.served = reports
      BY <1>8, <2>2, <2>3 DEF CommandRow, Places
    <2>5. s2 = [p \in Process \cup {Cache!Earlier} |-> IF p = Cache!Earlier THEN x ELSE r]
      BY <1>15, <2>3
    <2>6. s2["earlier"] = x
      BY <1>12, <2>5
    <2>7. 1 \in 1..Len(reports)
      BY <2>2 DEF RowSeq
    <2>8. Solid(reports, s2)
      BY <2>2, <2>4, <2>6, <2>7 DEF Solid, Fresh
    <2>9. (Len(q.entities) > 1) \in BOOLEAN
      OBVIOUS
    <2>10. PICK several \in BOOLEAN : several = (Len(q.entities) > 1)
      BY <2>9, Zenon
    <2>11. input = [file |-> "whole", topic |-> q.asked, comparison |-> several, reports |-> reports]
      BY <1>15, <2>10 DEF Cache!Payload
    <2>12. input \in PayloadRow /\ input.reports = reports
      BY <2>1, <2>2, <2>11 DEF PayloadRow
    <2>13. SolidFile(input, s2)
      BY <2>8, <2>12 DEF SolidFile, FileRow
    <2> QED
      BY <1>13, <2>4, <2>5, <2>8, <2>13
  <1> QED
    BY <1>1, <1>14, <1>15 DEF Cache!Init

LEMMA CacheTells == ASSUME CacheInv PROVE Cache!ServedWhole /\ Cache!SavesKept
  <1>1. Cache!SavesKept
    BY DEF Cache!SavesKept, Cache!Content, CacheInv, FilesInv, Filed
  <1>2. ASSUME NEW reports, Solid(reports, s2) PROVE Cache!Whole(reports)
    BY <1>2 DEF Solid, Cache!Whole
  <1>3. Cache!Loaded(<<>>) \in Cache!Found(<<>>)
    BY DEF Cache!Found
  <1>4. Cache!Whole(Cache!Loaded(<<>>))
    BY <1>2, <1>3, LoadedSolid
  <1>5. \A p \in Process : Cache!Whole(s2[p].served)
    BY <1>2, Mine DEF Holds
  <1> QED
    BY <1>1, <1>4, <1>5 DEF Cache!ServedWhole

(* What a command takes from the report cache is the work of one run, whatever other    *)
(* commands write, tear or verify meanwhile, and what it saves it finds saved.         *)
THEOREM CacheKeeps == EngineSpec => [](part = "cache" => Cache!ServedWhole /\ Cache!SavesKept)
  <1> DEFINE Inv == part = "cache" => CacheInv
  <1>1. EngineInit => Inv
    BY CacheStarts DEF EngineInit
  <1>2. Inv /\ [EngineNext]_engine => Inv'
    <2> SUFFICES ASSUME Inv, [EngineNext]_engine, part' = "cache"
                 PROVE  CacheInv'
      OBVIOUS
    <2>1. part = "cache"
      BY StaysPut
    <2>2. Cache!Next \/ UNCHANGED <<input, output, s1, s2>>
      BY <2>1 DEF EngineNext, HttpStep, OnOne, engine
    <2> QED
      BY <2>1, <2>2, CacheSteps
  <1>3. Inv => (part = "cache" => Cache!ServedWhole /\ Cache!SavesKept)
    BY CacheTells
  <1> QED
    BY <1>1, <1>2, <1>3, PTL DEF EngineSpec

-----------------------------------------------------------------------------
(* The search index.  What a scan lists: entries of different files that have       *)
(* different identities.                                                        *)
Listed(files) == {[id |-> <<files[f].topic, f>>, path |-> f, text |-> files[f].mtime] : f \in DOMAIN files}
Told(files) == {[id |-> e.id, text |-> e.text] : e \in Listed(files)}
Entries(E) ==
    /\ IsFiniteSet(E)
    /\ \A e, o \in E : e.path = o.path \/ e.id = o.id => e = o
Matches(docs, fts) == {[id |-> id, text |-> fts[id]] : id \in DOMAIN fts \cap DOMAIN docs}
(* The two tables are one index.                                                *)
OneIndex(docs, fts) ==
    /\ IsFiniteSet(DOMAIN docs) /\ DOMAIN fts \subseteq DOMAIN docs
    /\ \A id, other \in DOMAIN docs : docs[id].path = docs[other].path => id = other
    /\ \A id \in DOMAIN fts : fts[id] = docs[id].hash
(* A command that nothing disturbed knows what is there.                            *)
Knows(r, files, docs, fts, broken) ==
    /\ r.pc \in {"scanned", "read", "synced"} => r.entries = Listed(files)
    /\ r.pc = "read" => /\ r.existing = docs
                        /\ r.trusted => docs = <<>> \/ Cardinality(DOMAIN fts) >= Cardinality(DOMAIN docs)
    /\ r.pc = "synced" => ~broken /\ Matches(docs, fts) = Told(files)
    /\ r.pc = "done" => r.found = Told(files)
Fields == {"pc", "entries", "existing", "trusted", "quiet", "moved", "rebuilt", "found"}
Sound(r, files, docs, fts, broken) ==
    /\ Fields \subseteq DOMAIN r /\ Entries(r.entries)
    /\ r.quiet => Knows(r, files, docs, fts, broken)
LibraryInv ==
    /\ IsFiniteSet(DOMAIN input) /\ OneIndex(s1, s2) /\ DOMAIN s4 = Process
    /\ \A p \in Process : Sound(s4[p], input, s1, s2, s3)

LEMMA ListedSound == ASSUME NEW files, IsFiniteSet(DOMAIN files) PROVE Entries(Listed(files))
  <1> DEFINE Entry(f) == [id |-> <<files[f].topic, f>>, path |-> f, text |-> files[f].mtime]
             g == [f \in DOMAIN files |-> Entry(f)]
  <1>1. g \in Surjection(DOMAIN files, Listed(files))
    BY DEF Surjection, Listed
  <1>2. IsFiniteSet(Listed(files))
    BY <1>1, FS_Surjection
  <1>3. ASSUME NEW e \in Listed(files), NEW o \in Listed(files), e.path = o.path \/ e.id = o.id
        PROVE  e = o
    <2>1. PICK f \in DOMAIN files : e = Entry(f)
      BY DEF Listed
    <2>2. PICK h \in DOMAIN files : o = Entry(h)
      BY DEF Listed
    <2>3. f = h
      BY <1>3, <2>1, <2>2
    <2> QED
      BY <2>1, <2>2, <2>3
  <1> QED
    BY <1>2, <1>3 DEF Entries

LEMMA Disturbance ==
    ASSUME NEW r, Fields \subseteq DOMAIN r, Entries(r.entries), NEW d, d = [r EXCEPT !.quiet = FALSE],
           NEW files, NEW docs, NEW fts, NEW broken
    PROVE  Sound(d, files, docs, fts, broken)
  <1>1. DOMAIN d = DOMAIN r /\ d.quiet = FALSE /\ d.entries = r.entries
    BY DEF Fields
  <1> QED
    BY <1>1 DEF Sound

(* A step of a command that reads, and leaves the files and the tables alone.           *)
LEMMA Reading ==
    ASSUME LibraryInv, NEW p \in Process, NEW d, s4' = [s4 EXCEPT ![p] = d],
           input' = input, s1' = s1, s2' = s2, s3' = s3, Sound(d, input, s1, s2, s3)
    PROVE  LibraryInv'
  <1>1. DOMAIN s4' = Process /\ \A q \in Process : s4'[q] = IF q = p THEN d ELSE s4[q]
    BY DEF LibraryInv
  <1>2. \A q \in Process : Sound(s4'[q], input, s1, s2, s3)
    BY <1>1 DEF LibraryInv
  <1>3. IsFiniteSet(DOMAIN input') /\ OneIndex(s1', s2')
    BY DEF LibraryInv
  <1>4. \A q \in Process : Sound(s4'[q], input', s1', s2', s3')
    BY <1>2
  <1> QED
    BY <1>1, <1>3, <1>4, Zenon DEF LibraryInv, IsFiniteSet, OneIndex, Sound, Knows, Entries, Listed, Told,
       Matches, Fields

(* ... and one that tells the others they are disturbed, or that their file is gone.     *)
Alarmed(r, d) == DOMAIN d = DOMAIN r /\ d.quiet = FALSE /\ d.entries = r.entries
LEMMA Disturbing ==
    ASSUME LibraryInv, NEW p \in Process, NEW d,
           DOMAIN s4' = Process, s4'[p] = d, \A q \in Process \ {p} : Alarmed(s4[q], s4'[q]),
           IsFiniteSet(DOMAIN input'), OneIndex(s1', s2'), Sound(d, input', s1', s2', s3')
    PROVE  LibraryInv'
  <1>1. \A q \in Process : Sound(s4'[q], input', s1', s2', s3')
    <2> TAKE q \in Process
    <2>1. CASE q = p
      BY <2>1
    <2>2. CASE q # p
      <3>1. Alarmed(s4[q], s4'[q])
        BY <2>2
      <3>2. Fields \subseteq DOMAIN s4[q] /\ Entries(s4[q].entries)
        BY DEF LibraryInv, Sound
      <3> QED
        BY <3>1, <3>2 DEF Alarmed, Sound
    <2> QED
      BY <2>1, <2>2
  <1> QED
    BY <1>1, Zenon DEF LibraryInv, IsFiniteSet, OneIndex, Sound, Knows, Entries, Listed, Told,
       Matches, Fields

LEMMA EventKept ==
    ASSUME LibraryInv, Library!Event, IsFiniteSet(DOMAIN input'), OneIndex(s1', s2')
    PROVE  LibraryInv'
  <1>1. DOMAIN s4' = Process /\ \A q \in Process : s4'[q] = [s4[q] EXCEPT !.quiet = FALSE]
    BY DEF Library!Event, Library!AllDisturbed
  <1>2. \A q \in Process : Sound(s4'[q], input', s1', s2', s3')
    <2> TAKE q \in Process
    <2>1. Fields \subseteq DOMAIN s4[q] /\ Entries(s4[q].entries)
      BY DEF LibraryInv, Sound
    <2> QED
      BY <1>1, <2>1, Disturbance
  <1> QED
    BY <1>1, <1>2, Zenon DEF LibraryInv, IsFiniteSet, OneIndex, Sound, Knows, Entries, Listed, Told,
       Matches, Fields

LEMMA ScanIsListed == Library!ScanLibrary = Listed(input)
  BY DEF Library!ScanLibrary, Library!Parsed, Listed

LEMMA ScanKept == ASSUME LibraryInv, NEW p \in Process, Library!Scan(p) PROVE LibraryInv'
  <1>1. PICK E : E = Listed(input)
    OBVIOUS
  <1>2. PICK new : new = [pc |-> "scanned", entries |-> E, quiet |-> TRUE]
    OBVIOUS
  <1>3. DOMAIN new = {"pc", "entries", "quiet"} /\ new.pc = "scanned" /\ new.entries = E
    BY <1>2
  <1>4. PICK d : d = Library!Over(new, s4[p])
    OBVIOUS
  <1>5. DOMAIN d = {"pc", "entries", "quiet"} \cup DOMAIN s4[p] /\ d.pc = "scanned" /\ d.entries = E
    BY <1>3, <1>4 DEF Library!Over
  <1>6. Entries(E) /\ Fields \subseteq DOMAIN s4[p]
    BY <1>1, ListedSound DEF LibraryInv, Sound
  <1>7. Sound(d, input, s1, s2, s3)
    BY <1>1, <1>5, <1>6 DEF Sound, Knows
  <1>8. s4' = [s4 EXCEPT ![p] = d]
    BY <1>1, <1>2, <1>4, ScanIsListed DEF Library!Scan, Library!Step
  <1> QED
    BY <1>7, <1>8, Reading DEF Library!Scan

LEMMA CountedBy == ASSUME NEW S PROVE Library!Cardinality(S) = Cardinality(S)
  BY DEF Library!Cardinality, Cardinality, Library!IsFiniteSet, IsFiniteSet

LEMMA ReadExistingKept == ASSUME LibraryInv, NEW p \in Process, Library!ReadExisting(p) PROVE LibraryInv'
  <1>1. PICK t : t = (s1 = <<>> \/ Cardinality(DOMAIN s2) >= Cardinality(DOMAIN s1))
    OBVIOUS
  <1>2. PICK new : new = [pc |-> "read", moved |-> FALSE, existing |-> s1, trusted |-> t]
    OBVIOUS
  <1>3. DOMAIN new = {"pc", "moved", "existing", "trusted"} /\ new.pc = "read" /\ new.existing = s1 /\ new.trusted = t
    BY <1>2
  <1>4. PICK d : d = Library!Over(new, s4[p])
    OBVIOUS
  <1>5. Sound(s4[p], input, s1, s2, s3)
    BY DEF LibraryInv
  <1>6. /\ DOMAIN d = {"pc", "moved", "existing", "trusted"} \cup DOMAIN s4[p]
        /\ d.pc = "read" /\ d.existing = s1 /\ d.trusted = t
        /\ \A x \in DOMAIN s4[p] \ {"pc", "moved", "existing", "trusted"} : d[x] = s4[p][x]
    BY <1>3, <1>4 DEF Library!Over
  <1>7. d.entries = s4[p].entries /\ d.quiet = s4[p].quiet
    BY <1>5, <1>6 DEF Sound, Fields
  <1>8. s4[p].pc = "scanned"
    BY DEF Library!ReadExisting, Library!At
  <1>9. Sound(d, input, s1, s2, s3)
    BY <1>1, <1>5, <1>6, <1>7, <1>8 DEF Sound, Knows
  <1>10. s4' = [s4 EXCEPT ![p] = d]
    BY <1>1, <1>2, <1>4, CountedBy DEF Library!ReadExisting, Library!Step
  <1> QED
    BY <1>9, <1>10, Reading DEF Library!ReadExisting

LEMMA SearchKept ==
    ASSUME LibraryInv, NEW p \in Process,
           Library!Search(p) \/ Library!SeeCorruption(p) \/ Library!WriteFails(p)
    PROVE  LibraryInv'
  <1>1. Sound(s4[p], input, s1, s2, s3)
    BY DEF LibraryInv
  <1>2. CASE Library!Search(p)
    <2>1. PICK found : found = IF s3 THEN {} ELSE Matches(s1, s2)
      OBVIOUS
    <2>2. PICK new : new = [pc |-> "done", found |-> found]
      OBVIOUS
    <2>3. DOMAIN new = {"pc", "found"} /\ new.pc = "done" /\ new.found = found
      BY <2>2
    <2>4. PICK d : d = Library!Over(new, s4[p])
      OBVIOUS
    <2>5. /\ DOMAIN d = {"pc", "found"} \cup DOMAIN s4[p] /\ d.pc = "done" /\ d.found = found
          /\ \A x \in DOMAIN s4[p] \ {"pc", "found"} : d[x] = s4[p][x]
      BY <2>3, <2>4 DEF Library!Over
    <2>6. d.entries = s4[p].entries /\ d.quiet = s4[p].quiet /\ s4[p].pc = "synced"
      BY <1>1, <1>2, <2>5 DEF Sound, Fields, Library!Search, Library!At
    <2>7. Sound(d, input, s1, s2, s3)
      BY <1>1, <2>1, <2>5, <2>6 DEF Sound, Knows
    <2>8. s4' = [s4 EXCEPT ![p] = d]
      BY <1>2, <2>1, <2>2, <2>4 DEF Library!Search, Library!Step, Matches
    <2> QED
      BY <1>2, <2>7, <2>8, Reading DEF Library!Search
  <1>3. CASE Library!SeeCorruption(p) \/ Library!WriteFails(p)
    <2>1. PICK pc : pc \in {"failed", "corrupt"} /\ Library!Step(p, [pc |-> pc])
      BY <1>3 DEF Library!SeeCorruption, Library!WriteFails
    <2>2. PICK new : new = [pc |-> pc]
      OBVIOUS
    <2>3. DOMAIN new = {"pc"} /\ new.pc = pc
      BY <2>2
    <2>4. PICK d : d = Library!Over(new, s4[p])
      OBVIOUS
    <2>5. /\ DOMAIN d = {"pc"} \cup DOMAIN s4[p] /\ d.pc = pc
          /\ \A x \in DOMAIN s4[p] \ {"pc"} : d[x] = s4[p][x]
      BY <2>3, <2>4 DEF Library!Over
    <2>6. d.entries = s4[p].entries
      BY <1>1, <2>5 DEF Sound, Fields
    <2>7. Sound(d, input, s1, s2, s3)
      BY <1>1, <2>1, <2>5, <2>6 DEF Sound, Knows
    <2>8. s4' = [s4 EXCEPT ![p] = d]
      BY <2>1, <2>2, <2>4 DEF Library!Step
    <2> QED
      BY <1>3, <2>7, <2>8, Reading DEF Library!SeeCorruption, Library!WriteFails
  <1> QED
    BY <1>2, <1>3

LEMMA RemoveDatabaseKept == ASSUME LibraryInv, NEW p \in Process, Library!RemoveDatabase(p) PROVE LibraryInv'
  <1>1. PICK r : r = s4[p]
    OBVIOUS
  <1>2. Fields \subseteq DOMAIN r /\ Entries(r.entries) /\ DOMAIN s4 = Process
    BY <1>1 DEF LibraryInv, Sound
  <1>3. PICK d : d = [r EXCEPT !.pc = "rescan", !.rebuilt = TRUE]
    OBVIOUS
  <1>4. DOMAIN d = DOMAIN r /\ d.pc = "rescan" /\ d.entries = r.entries
    BY <1>2, <1>3 DEF Fields
  <1>5. Sound(d, input', s1', s2', s3')
    BY <1>2, <1>4 DEF Sound, Knows
  <1>6. /\ s4' = [Library!Unlinked(p) EXCEPT ![p].pc = "rescan", ![p].rebuilt = TRUE]
        /\ s1' = <<>> /\ s2' = <<>> /\ input' = input
    BY DEF Library!RemoveDatabase
  <1>7. DOMAIN s4' = Process /\ s4'[p] = d
    BY <1>1, <1>3, <1>6 DEF Library!Unlinked
  <1>8. ASSUME NEW q \in Process \ {p}
        PROVE  Alarmed(s4[q], s4'[q])
    <2>1. s4'[q] = [s4[q] EXCEPT !.quiet = FALSE, !.moved = Library!At(q, "read")]
      BY <1>6 DEF Library!Unlinked
    <2>2. Fields \subseteq DOMAIN s4[q]
      BY DEF LibraryInv, Sound
    <2> QED
      BY <2>1, <2>2 DEF Alarmed, Fields
  <1>9. DOMAIN s1' = {} /\ DOMAIN s2' = {}
    BY <1>6
  <1>10. OneIndex(s1', s2') /\ IsFiniteSet(DOMAIN input')
    BY <1>6, <1>9, FS_EmptySet DEF OneIndex, LibraryInv
  <1> QED
    BY <1>5, <1>7, <1>8, <1>10, Disturbing

(* One transaction of a sync leaves one index, whatever the process has read of it.      *)
Written(p, E, U, R, S) ==
    /\ OneIndex(s1', s2')
    /\ DOMAIN s2' = (U \cup (DOMAIN s2 \ R)) \ S /\ DOMAIN s1' = (U \cup (DOMAIN s1 \ R)) \ S
    /\ E \subseteq s4[p].entries
    /\ \A e \in E : e.id \in U /\ (e.id \notin S => s2'[e.id] = e.text)
    /\ \A id \in U : \E e \in E : id = e.id
    /\ \A id \in DOMAIN s2' \ U : s2'[id] = s2[id]
LEMMA Transaction ==
    ASSUME LibraryInv, NEW p \in Process, Library!Write(p),
           NEW E, E = Library!ToUpsert(p), NEW U, U = Library!Upserted(p),
           NEW R, R = Library!Replaced(p), NEW S, S = Library!Stale(p)
    PROVE  Written(p, E, U, R, S)
  <1>1. Entries(s4[p].entries) /\ OneIndex(s1, s2) /\ E \subseteq s4[p].entries
    BY DEF LibraryInv, Sound, Library!ToUpsert
  <1>2. U = {e.id : e \in E}
    BY DEF Library!Upserted
  <1>3. R = {id \in DOMAIN s1 : \E e \in E : s1[id].path = e.path /\ id # e.id}
    BY DEF Library!Replaced
  <1>4. PICK Of : Of = [id \in U |-> Library!Entry(p, id)]
    OBVIOUS
  <1>5. \A id \in U : Of[id] \in E /\ Of[id].id = id
    BY <1>2, <1>4 DEF Library!Entry
  <1>6. \A e \in E : e.id \in U /\ Of[e.id] = e
    BY <1>1, <1>2, <1>5 DEF Entries
  <1>7. /\ DOMAIN s1' = (U \cup (DOMAIN s1 \ R)) \ S
        /\ \A id \in DOMAIN s1' : s1'[id] = IF id \in U THEN Library!DocOf(Of[id]) ELSE s1[id]
    BY <1>4 DEF Library!Write, Library!Keep, Library!Over
  <1>8. /\ DOMAIN s2' = (U \cup (DOMAIN s2 \ R)) \ S
        /\ \A id \in DOMAIN s2' : s2'[id] = IF id \in U THEN Of[id].text ELSE s2[id]
    BY <1>4 DEF Library!Write, Library!Keep, Library!Over, Library!TextOf
  <1>9. \A id \in U : Library!DocOf(Of[id]).path = Of[id].path /\ Library!DocOf(Of[id]).hash = Of[id].text
    BY DEF Library!DocOf
  <1>10. IsFiniteSet(DOMAIN s1')
    <2>1. IsFiniteSet(E)
      BY <1>1, FS_Subset DEF Entries
    <2>2. [e \in E |-> e.id] \in Surjection(E, U)
      BY <1>2 DEF Surjection
    <2>3. IsFiniteSet(U)
      BY <2>1, <2>2, FS_Surjection
    <2>4. IsFiniteSet(U \cup DOMAIN s1)
      BY <1>1, <2>3, FS_Union DEF OneIndex
    <2>5. DOMAIN s1' \subseteq U \cup DOMAIN s1
      BY <1>7
    <2> QED
      BY <2>4, <2>5, FS_Subset
  <1>11. DOMAIN s2' \subseteq DOMAIN s1'
    BY <1>1, <1>7, <1>8 DEF OneIndex
  <1>12. ASSUME NEW id \in DOMAIN s1', NEW other \in DOMAIN s1', s1'[id].path = s1'[other].path
         PROVE  id = other
    <2>1. CASE id \in U /\ other \in U
      <3>1. Of[id].path = Of[other].path
        BY <1>7, <1>9, <1>12, <2>1
      <3>2. Of[id] = Of[other]
        BY <1>1, <1>5, <2>1, <3>1 DEF Entries
      <3> QED
        BY <1>5, <2>1, <3>2
    <2>2. CASE id \in U /\ other \notin U
      <3>1. s1[other].path = Of[id].path /\ other \in DOMAIN s1 \ R /\ Of[id] \in E /\ Of[id].id = id
        BY <1>5, <1>7, <1>9, <1>12, <2>2
      <3> QED
        BY <1>3, <3>1
    <2>3. CASE id \notin U /\ other \in U
      <3>1. s1[id].path = Of[other].path /\ id \in DOMAIN s1 \ R /\ Of[other] \in E /\ Of[other].id = other
        BY <1>5, <1>7, <1>9, <1>12, <2>3
      <3> QED
        BY <1>3, <3>1
    <2>4. CASE id \notin U /\ other \notin U
      BY <1>1, <1>7, <1>12, <2>4 DEF OneIndex
    <2> QED
      BY <2>1, <2>2, <2>3, <2>4
  <1>13. \A id \in DOMAIN s2' : s2'[id] = s1'[id].hash
    <2> TAKE id \in DOMAIN s2'
    <2>1. CASE id \in U
      BY <1>7, <1>8, <1>9, <1>11, <2>1
    <2>2. CASE id \notin U
      BY <1>1, <1>7, <1>8, <1>11, <2>2 DEF OneIndex
    <2> QED
      BY <2>1, <2>2
  <1>14. OneIndex(s1', s2')
    BY <1>10, <1>11, <1>12, <1>13 DEF OneIndex
  <1>15. \A e \in E : e.id \in U /\ (e.id \notin S => s2'[e.id] = e.text)
    BY <1>6, <1>8
  <1> QED
    BY <1>1, <1>2, <1>7, <1>8, <1>14, <1>15 DEF Written

(* ... that holds what the files say, when nothing happened since the scan.             *)
LEMMA Synced ==
    ASSUME LibraryInv, NEW p \in Process, Library!Write(p), s4[p].quiet
    PROVE  Matches(s1', s2') = Told(input)
  <1>1. PICK r : r = s4[p]
    OBVIOUS
  <1>2. PICK E : E = Library!ToUpsert(p)
    OBVIOUS
  <1>3. PICK U : U = Library!Upserted(p)
    OBVIOUS
  <1>4. PICK R : R = Library!Replaced(p)
    OBVIOUS
  <1>5. PICK S : S = Library!Stale(p)
    OBVIOUS
  <1>6. /\ OneIndex(s1', s2')
        /\ DOMAIN s2' = (U \cup (DOMAIN s2 \ R)) \ S /\ DOMAIN s1' = (U \cup (DOMAIN s1 \ R)) \ S
        /\ E \subseteq s4[p].entries
        /\ \A e \in E : e.id \in U /\ (e.id \notin S => s2'[e.id] = e.text)
        /\ \A id \in U : \E e \in E : id = e.id
        /\ \A id \in DOMAIN s2' \ U : s2'[id] = s2[id]
    <2>1. Written(p, E, U, R, S)
      BY <1>2, <1>3, <1>4, <1>5, Transaction
    <2> QED
      BY <2>1 DEF Written
  <1>7. /\ r.entries = Listed(input) /\ r.existing = s1 /\ Entries(r.entries)
        /\ r.trusted => s1 = <<>> \/ Cardinality(DOMAIN s2) >= Cardinality(DOMAIN s1)
    BY <1>1 DEF LibraryInv, Sound, Knows, Library!Write, Library!At
  <1>8. OneIndex(s1, s2)
    BY DEF LibraryInv
  <1>9. S = DOMAIN s1 \ {e.id : e \in r.entries}
    BY <1>1, <1>5, <1>7 DEF Library!Stale
  <1>10. ASSUME NEW e \in r.entries
         PROVE  e.id \in DOMAIN s2' /\ s2'[e.id] = e.text
    <2>1. e.id \notin S
      BY <1>9
    <2>2. CASE e \in E
      BY <1>6, <2>1, <2>2
    <2>3. CASE e \notin E
      <3>1. Library!Unchanged(p, e)
        BY <1>1, <1>2, <2>3 DEF Library!ToUpsert
      <3>2. /\ r.trusted /\ e.id \in DOMAIN s1
            /\ s1[e.id] = [path |-> e.path, mtime |-> input[e.path].mtime, hash |-> e.text]
        BY <1>1, <1>7, <3>1 DEF Library!Unchanged
      <3>3. s1[e.id].path = e.path /\ s1[e.id].hash = e.text /\ s1 # <<>>
        BY <3>2
      <3>4. DOMAIN s2 = DOMAIN s1
        <4>1. Cardinality(DOMAIN s2) >= Cardinality(DOMAIN s1)
          BY <1>7, <3>2, <3>3
        <4>2. IsFiniteSet(DOMAIN s1) /\ DOMAIN s2 \in SUBSET DOMAIN s1
          BY <1>8 DEF OneIndex
        <4>3. /\ Cardinality(DOMAIN s2) <= Cardinality(DOMAIN s1) /\ IsFiniteSet(DOMAIN s2)
              /\ Cardinality(DOMAIN s1) = Cardinality(DOMAIN s2) => DOMAIN s1 = DOMAIN s2
          BY <4>2, FS_Subset
        <4>4. Cardinality(DOMAIN s2) \in Nat /\ Cardinality(DOMAIN s1) \in Nat
          BY <4>2, <4>3, FS_CardinalityType
        <4> QED
          BY <4>1, <4>3, <4>4
      <3>5. e.id \notin R
        <4>1. ASSUME NEW o \in E, s1[e.id].path = o.path, e.id # o.id
              PROVE  FALSE
          <5>1. o = e
            BY <1>1, <1>6, <1>7, <3>3, <4>1 DEF Entries
          <5> QED
            BY <4>1, <5>1
        <4> QED
          BY <1>2, <1>4, <4>1 DEF Library!Replaced
      <3>6. e.id \notin U
        <4>1. ASSUME e.id \in U
              PROVE  FALSE
          <5>1. PICK o \in E : e.id = o.id
            BY <1>6, <4>1
          <5>2. o = e
            BY <1>1, <1>6, <1>7, <5>1 DEF Entries
          <5> QED
            BY <2>3, <5>2
        <4> QED
          BY <4>1
      <3>7. e.id \in DOMAIN s2' /\ s2'[e.id] = s2[e.id]
        BY <1>6, <2>1, <3>2, <3>4, <3>5, <3>6
      <3> QED
        BY <1>8, <3>2, <3>3, <3>4, <3>7 DEF OneIndex
    <2> QED
      BY <2>2, <2>3
  <1>11. ASSUME NEW id \in DOMAIN s2'
         PROVE  \E e \in r.entries : id = e.id
    <2>1. CASE id \in U
      BY <1>1, <1>6, <2>1
    <2>2. CASE id \notin U
      BY <1>6, <1>8, <1>9, <1>11, <2>2 DEF OneIndex
    <2> QED
      BY <2>1, <2>2
  <1>12. DOMAIN s2' \cap DOMAIN s1' = DOMAIN s2'
    BY <1>6 DEF OneIndex
  <1>13. Matches(s1', s2') = {[id |-> id, text |-> s2'[id]] : id \in DOMAIN s2'}
    BY <1>12 DEF Matches
  <1>14. Told(input) = {[id |-> e.id, text |-> e.text] : e \in r.entries}
    BY <1>7 DEF Told
  <1> QED
    BY <1>10, <1>11, <1>13, <1>14

LEMMA WriteKept == ASSUME LibraryInv, NEW p \in Process, Library!Write(p) PROVE LibraryInv'
  <1>1. PICK r : r = s4[p]
    OBVIOUS
  <1>2. Fields \subseteq DOMAIN r /\ Entries(r.entries) /\ (r.quiet => Knows(r, input, s1, s2, s3)) /\ r.pc = "read"
    BY <1>1 DEF LibraryInv, Sound, Library!Write, Library!At
  <1>3. PICK d : d = [r EXCEPT !.pc = "synced"]
    OBVIOUS
  <1>4. DOMAIN d = DOMAIN r /\ d.pc = "synced" /\ d.entries = r.entries /\ d.quiet = r.quiet
    BY <1>2, <1>3 DEF Fields
  <1>5. input' = input /\ s3' = s3 /\ ~s3
    BY DEF Library!Write
  <1>6. r.quiet => Matches(s1', s2') = Told(input')
    BY <1>1, <1>5, Synced
  <1>7. Sound(d, input', s1', s2', s3')
    BY <1>2, <1>4, <1>5, <1>6 DEF Sound, Knows
  <1>8. s4' = [Library!Disturbed(p) EXCEPT ![p].pc = "synced"]
    BY DEF Library!Write
  <1>9. DOMAIN s4' = Process /\ s4'[p] = d
    BY <1>1, <1>3, <1>8 DEF Library!Disturbed
  <1>10. ASSUME NEW q \in Process \ {p}
         PROVE  Alarmed(s4[q], s4'[q])
    <2>1. s4'[q] = [s4[q] EXCEPT !.quiet = FALSE]
      BY <1>8 DEF Library!Disturbed
    <2>2. Fields \subseteq DOMAIN s4[q]
      BY DEF LibraryInv, Sound
    <2> QED
      BY <2>1, <2>2 DEF Alarmed, Fields
  <1>11. OneIndex(s1', s2') /\ IsFiniteSet(DOMAIN input')
    BY <1>5, Transaction DEF LibraryInv, Written
  <1> QED
    BY <1>7, <1>9, <1>10, <1>11, Disturbing

LEMMA EventsKept ==
    ASSUME LibraryInv,
           (\E f \in File : Library!Delete(f) \/ \E t \in Topic : Library!Edit(f, t))
               \/ Library!LoseFts \/ Library!Corrupt
    PROVE  LibraryInv'
  <1>1. IsFiniteSet(DOMAIN input) /\ OneIndex(s1, s2)
    BY DEF LibraryInv
  <1>2. Library!Event
    BY DEF Library!Delete, Library!Edit, Library!LoseFts, Library!Corrupt
  <1>3. CASE \E f \in File : Library!Delete(f)
    <2>1. PICK f \in File : DOMAIN input' = DOMAIN input \ {f} /\ s1' = s1 /\ s2' = s2
      BY <1>3 DEF Library!Delete, Library!Keep
    <2>2. IsFiniteSet(DOMAIN input')
      BY <1>1, <2>1, FS_RemoveElement
    <2>3. OneIndex(s1', s2')
      BY <1>1, <2>1
    <2> QED
      BY <1>2, <2>2, <2>3, EventKept
  <1>4. CASE \E f \in File : \E t \in Topic : Library!Edit(f, t)
    <2>1. PICK f \in File, t \in Topic : Library!Edit(f, t)
      BY <1>4
    <2>2. DOMAIN input' = DOMAIN input \cup {f} /\ s1' = s1 /\ s2' = s2
      BY <2>1 DEF Library!Edit, Library!Over
    <2>3. IsFiniteSet(DOMAIN input')
      BY <1>1, <2>2, FS_AddElement
    <2>4. OneIndex(s1', s2')
      BY <1>1, <2>2
    <2> QED
      BY <1>2, <2>3, <2>4, EventKept
  <1>5. CASE Library!LoseFts
    <2>1. input' = input /\ s1' = s1 /\ s2' = <<>>
      BY <1>5 DEF Library!LoseFts
    <2>2. DOMAIN s2' = {}
      BY <2>1
    <2>3. OneIndex(s1', s2') /\ IsFiniteSet(DOMAIN input')
      BY <1>1, <2>1, <2>2 DEF OneIndex
    <2> QED
      BY <1>2, <2>3, EventKept
  <1>6. CASE Library!Corrupt
    <2>1. input' = input /\ s1' = s1 /\ s2' = s2
      BY <1>6 DEF Library!Corrupt
    <2>2. OneIndex(s1', s2') /\ IsFiniteSet(DOMAIN input')
      BY <1>1, <2>1
    <2> QED
      BY <1>2, <2>2, EventKept
  <1> QED
    BY <1>3, <1>4, <1>5, <1>6

LEMMA LibrarySteps ==
    ASSUME LibraryInv, Library!Next \/ UNCHANGED <<input, output, s1, s2, s3, s4>>
    PROVE  LibraryInv'
  <1>1. CASE UNCHANGED <<input, output, s1, s2, s3, s4>>
    <2>1. /\ IsFiniteSet(DOMAIN input') /\ OneIndex(s1', s2') /\ DOMAIN s4' = Process
          /\ \A p \in Process : Sound(s4'[p], input', s1', s2', s3')
      BY <1>1 DEF LibraryInv
    <2> QED
      BY <2>1, Zenon DEF LibraryInv, IsFiniteSet, OneIndex, Sound, Knows, Entries, Listed, Told,
         Matches, Fields
  <1>2. CASE \E p \in Process : \/ Library!Scan(p) \/ Library!ReadExisting(p) \/ Library!SeeCorruption(p)
                                \/ Library!RemoveDatabase(p) \/ Library!Write(p) \/ Library!WriteFails(p) \/ Library!Search(p)
    BY <1>2, ScanKept, ReadExistingKept, RemoveDatabaseKept, WriteKept, SearchKept
  <1>3. CASE (\E f \in File : Library!Delete(f) \/ \E t \in Topic : Library!Edit(f, t))
               \/ Library!LoseFts \/ Library!Corrupt
    BY <1>3, EventsKept
  <1> QED
    BY <1>1, <1>2, <1>3 DEF Library!Next

LEMMA LibraryStarts == ASSUME Library!Init PROVE LibraryInv
  <1>1. DOMAIN input = {} /\ DOMAIN s1 = {} /\ DOMAIN s2 = {}
    BY DEF Library!Init
  <1>2. IsFiniteSet(DOMAIN input) /\ OneIndex(s1, s2)
    BY <1>1, FS_EmptySet DEF OneIndex
  <1>3. PICK r : r = Library!Idle
    OBVIOUS
  <1>4. Fields \subseteq DOMAIN r /\ r.entries = {} /\ r.pc = "idle"
    BY <1>3 DEF Library!Idle, Fields
  <1>5. Sound(r, input, s1, s2, s3)
    BY <1>4, FS_EmptySet DEF Sound, Entries, Knows
  <1>6. s4 = [p \in Process |-> r]
    BY <1>3 DEF Library!Init
  <1> QED
    BY <1>2, <1>5, <1>6 DEF LibraryInv

LEMMA LibraryTells == ASSUME LibraryInv PROVE Library!IndexWhole /\ Library!SearchFindsFiles
  <1>1. Library!IndexWhole
    BY DEF Library!IndexWhole, LibraryInv, OneIndex
  <1>2. Told(input) = {[id |-> e.id, text |-> e.text] : e \in Library!ScanLibrary}
    BY ScanIsListed DEF Told
  <1>3. Library!SearchFindsFiles
    BY <1>2 DEF Library!SearchFindsFiles, LibraryInv, Sound, Knows, Library!At
  <1> QED
    BY <1>1, <1>3

(* However the commands, the user and the disk interleave, the index is whole and a     *)
(* search that nothing disturbed finds what the files say; what a command takes from     *)
(* the report cache is the work of one run, and no result is saved over another.        *)
THEOREM FilesKept == EngineSpec => []FilesShared
  <1> DEFINE Inv == part = "library" => LibraryInv
  <1>1. EngineInit => Inv
    BY LibraryStarts DEF EngineInit
  <1>2. Inv /\ [EngineNext]_engine => Inv'
    <2> SUFFICES ASSUME Inv, [EngineNext]_engine, part' = "library"
                 PROVE  LibraryInv'
      OBVIOUS
    <2>1. part = "library"
      BY StaysPut
    <2>2. Library!Next \/ UNCHANGED <<input, output, s1, s2, s3, s4>>
      BY <2>1 DEF EngineNext, HttpStep, OnOne, engine
    <2> QED
      BY <2>1, <2>2, LibrarySteps
  <1>3. Inv /\ (part = "cache" => Cache!ServedWhole /\ Cache!SavesKept) => FilesShared
    BY LibraryTells DEF FilesShared
  <1> QED
    BY <1>1, <1>2, <1>3, CacheKeeps, PTL DEF EngineSpec

-----------------------------------------------------------------------------
(***************************************************************************)
(* The store                                                               *)
(***************************************************************************)
(* The tables: t the topics, R the runs, F the findings and S the sightings.       *)
RunRow == [topic : Nat, status : {"running", "completed", "failed"}, new : 0..Cardinality(Url)]
FindingRow == [url : Url, topic : Nat, run : Nat, score : Int, count : Nat \ {0}]
Tables(t, R, F, S) ==
    /\ DOMAIN t \subseteq Name /\ \A n \in DOMAIN t : t[n] \in Nat
    /\ \A m, n \in DOMAIN t : t[m] = t[n] => m = n
    /\ DOMAIN R \subseteq Nat /\ \A r \in DOMAIN R : R[r] \in RunRow
    /\ DOMAIN F \subseteq Nat /\ \A i \in DOMAIN F : F[i] \in FindingRow
    /\ \A i, k \in DOMAIN F : F[i].url = F[k].url => i = k
    /\ DOMAIN S = DOMAIN R
Values(t) == {t[n] : n \in DOMAIN t}
Keys(t, R, F, S) ==
    /\ \A r \in DOMAIN R : R[r].topic \in Values(t)
    /\ \A i \in DOMAIN F : F[i].topic \in Values(t) /\ F[i].run \in DOMAIN R
    /\ \A r \in DOMAIN S : S[r] \subseteq DOMAIN F

(* What a process holds on its way: the run it records, and what it has read.         *)
Kind == {"watch", "store"}
Batches == UNION {[U -> Int] : U \in SUBSET Url}
Existing == UNION {[U -> [id : Nat, score : Int]] : U \in SUBSET Url}
Bare == [at : {"idle", "done", "died"}]
StartedJob == [at : {"started"}, kind : Kind, topic : Nat]
SearchingJob == [at : {"searching"}, kind : Kind, topic : Nat, run : Nat]
ReadJob == [at : {"read", "stored", "done"}, kind : Kind, topic : Nat, run : Nat,
            batch : Batches, existing : Existing]
JobSound(job) ==
    \/ job \in Bare \/ job \in StartedJob \/ job \in SearchingJob
    \/ job \in ReadJob /\ DOMAIN job.existing \subseteq DOMAIN job.batch
Recorded(job) == job \in SearchingJob \/ job \in ReadJob

(* While no topic was removed, a process that recorded a run knows what became of it. *)
Found(F, ids) == {F[i].url : i \in ids}
Tied(job, R, F, S, I) ==
    /\ job.run \in DOMAIN R
    /\ job.at \in {"searching", "read"} => (S[job.run] = {} /\ \A p \in I : p[1] # job.run)
    /\ job.at = "read" => \A u \in DOMAIN job.existing : /\ job.existing[u].id \in DOMAIN F
                                                         /\ F[job.existing[u].id].url = u
    /\ job.at \in {"stored", "done"} => Found(F, S[job.run]) = DOMAIN job.batch
    /\ job.at = "done" => R[job.run].status = "completed"
Counted(R, I) ==
    /\ \A p \in I : p[1] \in DOMAIN R
    /\ \A r \in DOMAIN R : R[r].new = Cardinality({p \in I : p[1] = r})
Ties(R, F, S, J, I) ==
    /\ \A j \in Job : Recorded(J[j]) => Tied(J[j], R, F, S, I)
    /\ \A j, k \in Job : (Recorded(J[j]) /\ Recorded(J[k]) /\ J[j].run = J[k].run) => j = k
    /\ Counted(R, I)

StoreKept(t, R, F, S, J, I, removed) ==
    /\ Tables(t, R, F, S) /\ Keys(t, R, F, S)
    /\ DOMAIN J = Job /\ \A j \in Job : JobSound(J[j])
    /\ removed \/ Ties(R, F, S, J, I)
StoreInv == StoreKept(input, output, s1, s2, s3, s4, s5)

(* Where a process is tells what it holds.                                      *)
LEMMA JobForms ==
    ASSUME NEW job, JobSound(job)
    PROVE  /\ job.at = "started" => job \in StartedJob
           /\ job.at = "searching" => job \in SearchingJob
           /\ job.at \in {"read", "stored"} => (job \in ReadJob /\ DOMAIN job.existing \subseteq DOMAIN job.batch)
           /\ job.at \in {"idle", "started", "died"} => ~Recorded(job)
  BY DEF JobSound, Bare, StartedJob, SearchingJob, ReadJob, Recorded

LEMMA BareSound == \A a \in {"idle", "done", "died"} : JobSound([at |-> a]) /\ ~Recorded([at |-> a])
  BY DEF JobSound, Bare, SearchingJob, ReadJob, Recorded

LEMMA StoreValues == Store!TopicIds = Values(input)
  BY DEF Store!TopicIds, Values

(* The step of another process leaves a run what it was.                            *)
LEMMA StillTied ==
    ASSUME NEW job, NEW R, NEW F, NEW S, NEW I, Tied(job, R, F, S, I),
           \A r \in DOMAIN S : S[r] \subseteq DOMAIN F, DOMAIN S = DOMAIN R,
           NEW R2, NEW F2, NEW S2, NEW I2, DOMAIN R \subseteq DOMAIN R2,
           \A i \in DOMAIN F : i \in DOMAIN F2 /\ F2[i].url = F[i].url,
           S2[job.run] = S[job.run], R2[job.run].status = R[job.run].status,
           \A p \in I2 : p \in I \/ p[1] # job.run
    PROVE  Tied(job, R2, F2, S2, I2)
  <1>1. S[job.run] \subseteq DOMAIN F
    BY DEF Tied
  <1>2. Found(F2, S[job.run]) = Found(F, S[job.run])
    BY <1>1 DEF Found
  <1>3. job.run \in DOMAIN R2
    BY DEF Tied
  <1>4. job.at \in {"searching", "read"} => (S2[job.run] = {} /\ \A p \in I2 : p[1] # job.run)
    BY DEF Tied
  <1>5. job.at = "read" => \A u \in DOMAIN job.existing : /\ job.existing[u].id \in DOMAIN F2
                                                         /\ F2[job.existing[u].id].url = u
    BY DEF Tied
  <1>6. /\ job.at \in {"stored", "done"} => Found(F2, S2[job.run]) = DOMAIN job.batch
        /\ job.at = "done" => R2[job.run].status = "completed"
    BY <1>2 DEF Tied
  <1> QED
    BY <1>3, <1>4, <1>5, <1>6 DEF Tied

(* The step of one process.                                                    *)
LEMMA OneJob ==
    ASSUME StoreInv, NEW j \in Job, NEW d, s3' = [s3 EXCEPT ![j] = d], JobSound(d)
    PROVE  /\ DOMAIN s3' = Job /\ \A k \in Job : JobSound(s3'[k])
           /\ s3'[j] = d /\ \A k \in Job : k # j => s3'[k] = s3[k]
  BY DEF StoreInv, StoreKept

(* A step of the process j leaves the runs of the others and the addresses as they were. *)
SameUrls(F, F2) == \A i \in DOMAIN F : i \in DOMAIN F2 /\ F2[i].url = F[i].url
SameRuns(J, j, R, S, I, R2, S2, I2) ==
    \A k \in Job \ {j} : Recorded(J[k]) =>
        /\ S2[J[k].run] = S[J[k].run] /\ R2[J[k].run].status = R[J[k].run].status
        /\ \A p \in I2 : p \in I \/ p[1] # J[k].run
OwnTied(d, J, j, R2, F2, S2, I2) ==
    Recorded(d) => /\ Tied(d, R2, F2, S2, I2)
                   /\ \A k \in Job \ {j} : Recorded(J[k]) => d.run # J[k].run
LEMMA TiedTogether ==
    ASSUME StoreInv, ~s5, NEW j \in Job, NEW d, s3' = [s3 EXCEPT ![j] = d],
           NEW R2, NEW F2, NEW S2, NEW I2, DOMAIN output \subseteq DOMAIN R2,
           SameUrls(s1, F2), SameRuns(s3, j, output, s2, s4, R2, S2, I2),
           OwnTied(d, s3, j, R2, F2, S2, I2), Counted(R2, I2)
    PROVE  Ties(R2, F2, S2, s3', I2)
  <1>1. Ties(output, s1, s2, s3, s4) /\ Keys(input, output, s1, s2) /\ DOMAIN s2 = DOMAIN output
    BY DEF StoreInv, StoreKept, Tables
  <1>2. s3'[j] = d /\ \A k \in Job : k # j => s3'[k] = s3[k]
    BY DEF StoreInv, StoreKept
  <1>3. ASSUME NEW k \in Job, Recorded(s3'[k]) PROVE Tied(s3'[k], R2, F2, S2, I2)
    <2>1. CASE k = j
      BY <1>2, <1>3, <2>1 DEF OwnTied
    <2>2. CASE k # j
      <3>1. s3'[k] = s3[k] /\ Recorded(s3[k]) /\ Tied(s3[k], output, s1, s2, s4)
        BY <1>1, <1>2, <1>3, <2>2 DEF Ties
      <3>2. \A r \in DOMAIN s2 : s2[r] \subseteq DOMAIN s1
        BY <1>1 DEF Keys
      <3> QED
        BY <1>1, <2>2, <3>1, <3>2, StillTied DEF SameUrls, SameRuns
    <2> QED
      BY <2>1, <2>2
  <1>4. \A k, l \in Job : (Recorded(s3'[k]) /\ Recorded(s3'[l]) /\ s3'[k].run = s3'[l].run) => k = l
    BY <1>1, <1>2 DEF Ties, OwnTied
  <1> QED
    BY <1>3, <1>4 DEF Ties


LEMMA NextNumber ==
    ASSUME NEW U, U \subseteq Nat, NEW n \in Store!NextId(U)
    PROVE  n \in Nat /\ n \notin U /\ \A i \in U : i < n
  BY DEF Store!NextId

LEMMA StoreCloses ==
    ASSUME StoreKept(input', output', s1', s2', s3', s4', s5')
    PROVE  StoreInv'
  BY Zenon DEF StoreInv, StoreKept, Tables, Keys, Ties, Tied, Counted, JobSound, Recorded, Found, RunRow,
     FindingRow, Values, Kind, Batches, Existing, Bare, StartedJob, SearchingJob, ReadJob

(* A step that changes the tables only by a topic.                                *)
LEMMA TopicAdded ==
    ASSUME StoreInv, NEW n \in Name \ DOMAIN input, NEW number \in Store!NextId(Store!TopicIds),
           NEW t, t = Store!Extend(input, n, number)
    PROVE  Tables(t, output, s1, s2) /\ Keys(t, output, s1, s2) /\ t[n] \in Nat
  <1>1. Tables(input, output, s1, s2) /\ Keys(input, output, s1, s2)
    BY DEF StoreInv, StoreKept
  <1>2. Values(input) \subseteq Nat
    BY <1>1 DEF Tables, Values
  <1>3. number \in Nat /\ number \notin Values(input)
    BY <1>2, NextNumber, StoreValues
  <1>4. DOMAIN t = DOMAIN input \cup {n} /\ t[n] = number /\ \A z \in DOMAIN input : t[z] = input[z]
    <2>1. DOMAIN t = DOMAIN input \cup {n} /\ t[n] = number /\ \A z \in DOMAIN input : z # n => t[z] = input[z]
      BY DEF Store!Extend
    <2> QED
      BY <2>1
  <1>5. Values(input) \subseteq Values(t)
    BY <1>4 DEF Values
  <1>6. \A l, m \in DOMAIN t : t[l] = t[m] => l = m
    BY <1>1, <1>3, <1>4 DEF Tables, Values
  <1>7. Tables(t, output, s1, s2)
    BY <1>1, <1>3, <1>4, <1>6 DEF Tables
  <1>8. Keys(t, output, s1, s2)
    BY <1>1, <1>5 DEF Keys
  <1> QED
    BY <1>3, <1>4, <1>7, <1>8

(* A step of a process that leaves runs, findings and sightings alone.                *)
LEMMA TablesAlone ==
    ASSUME StoreInv, NEW j \in Job, NEW d, s3' = [s3 EXCEPT ![j] = d], JobSound(d),
           UNCHANGED <<output, s1, s2, s4, s5>>,
           Tables(input', output, s1, s2), Keys(input', output, s1, s2),
           (Recorded(d) /\ ~s5) => /\ Tied(d, output, s1, s2, s4)
                                   /\ Recorded(s3[j]) /\ d.run = s3[j].run
    PROVE  StoreInv'
  <1>1. DOMAIN s3' = Job /\ \A k \in Job : JobSound(s3'[k])
    BY OneJob
  <1>2. s5 \/ Ties(output, s1, s2, s3', s4)
    <2> SUFFICES ASSUME ~s5 PROVE Ties(output, s1, s2, s3', s4)
      OBVIOUS
    <2>1. Ties(output, s1, s2, s3, s4)
      BY DEF StoreInv, StoreKept
    <2>2. Recorded(d) => \A k \in Job \ {j} : Recorded(s3[k]) => d.run # s3[k].run
      BY <2>1 DEF Ties
    <2>3. Counted(output, s4)
      BY <2>1 DEF Ties
    <2>4. /\ SameUrls(s1, s1) /\ SameRuns(s3, j, output, s2, s4, output, s2, s4)
          /\ OwnTied(d, s3, j, output, s1, s2, s4)
      BY <2>2 DEF SameUrls, SameRuns, OwnTied
    <2> QED
      BY <2>3, <2>4, TiedTogether
  <1>3. StoreKept(input', output', s1', s2', s3', s4', s5')
    BY <1>1, <1>2 DEF StoreKept
  <1> QED
    BY <1>3, StoreCloses

LEMMA StoreStartKept ==
    ASSUME StoreInv, NEW j \in Job, NEW n \in Name, NEW kind \in Kind, Store!Start(j, n, kind)
    PROVE  StoreInv'
  <1>1. UNCHANGED <<output, s1, s2, s4, s5>>
    BY DEF Store!Start
  <1>2. Tables(input, output, s1, s2) /\ Keys(input, output, s1, s2)
    BY DEF StoreInv, StoreKept
  <1>3. Tables(input', output, s1, s2) /\ Keys(input', output, s1, s2) /\ input'[n] \in Nat
    <2>1. CASE n \in DOMAIN input
      <3>1. input' = input
        BY <2>1 DEF Store!Start
      <3> QED
        BY <1>2, <2>1, <3>1 DEF Tables
    <2>2. CASE n \notin DOMAIN input
      <3>1. PICK number \in Store!NextId(Store!TopicIds) : input' = Store!Extend(input, n, number)
        BY <2>2 DEF Store!Start
      <3> QED
        BY <2>2, <3>1, TopicAdded
    <2> QED
      BY <2>1, <2>2
  <1>4. PICK d : d = [at |-> "started", kind |-> kind, topic |-> input'[n]]
    OBVIOUS
  <1>5. s3' = [s3 EXCEPT ![j] = d]
    BY <1>4 DEF Store!Start, Store!Step
  <1>6. d \in StartedJob
    BY <1>3, <1>4 DEF StartedJob
  <1>7. JobSound(d) /\ ~Recorded(d)
    BY <1>6 DEF JobSound, Recorded, StartedJob, SearchingJob, ReadJob
  <1> QED
    BY <1>1, <1>3, <1>5, <1>7, TablesAlone

LEMMA StoreCrashKept == ASSUME StoreInv, NEW j \in Job, Store!Crash(j) PROVE StoreInv'
  <1>1. UNCHANGED <<input, output, s1, s2, s4, s5>>
    BY DEF Store!Crash, Store!store
  <1>2. PICK d : d = [at |-> "died"]
    OBVIOUS
  <1>3. s3' = [s3 EXCEPT ![j] = d] /\ JobSound(d) /\ ~Recorded(d)
    BY <1>2, BareSound DEF Store!Crash
  <1>4. Tables(input', output, s1, s2) /\ Keys(input', output, s1, s2)
    BY <1>1 DEF StoreInv, StoreKept
  <1> QED
    BY <1>1, <1>3, <1>4, TablesAlone

LEMMA RunAdded ==
    ASSUME StoreInv, NEW topic \in Values(input), NEW r \in Store!NextId(DOMAIN output),
           NEW R, R = Store!Extend(output, r, [topic |-> topic, status |-> "running", new |-> 0]),
           NEW S, S = Store!Extend(s2, r, {})
    PROVE  /\ Tables(input, R, s1, S) /\ Keys(input, R, s1, S) /\ r \in Nat /\ r \notin DOMAIN output
           /\ DOMAIN R = DOMAIN output \cup {r} /\ S[r] = {} /\ R[r].new = 0
           /\ \A k \in DOMAIN output : R[k] = output[k] /\ S[k] = s2[k]
  <1>1. Tables(input, output, s1, s2) /\ Keys(input, output, s1, s2)
    BY DEF StoreInv, StoreKept
  <1>2. r \in Nat /\ r \notin DOMAIN output
    BY <1>1, NextNumber DEF Tables
  <1>3. PICK row : row = [topic |-> topic, status |-> "running", new |-> 0]
    OBVIOUS
  <1>4. topic \in Nat
    BY <1>1 DEF Tables, Values
  <1>5. Cardinality(Url) \in Nat
    BY FS_CardinalityType, StoreAssumption DEF Store!StoreAssumption, Store!IsFiniteSet, IsFiniteSet
  <1>6. row \in RunRow /\ row.topic = topic /\ row.new = 0
    BY <1>3, <1>4, <1>5 DEF RunRow
  <1>7. DOMAIN R = DOMAIN output \cup {r} /\ R[r] = row /\ \A k \in DOMAIN output : R[k] = output[k]
    BY <1>2, <1>3 DEF Store!Extend
  <1>8. DOMAIN S = DOMAIN s2 \cup {r} /\ S[r] = {} /\ \A k \in DOMAIN s2 : S[k] = s2[k]
    BY <1>1, <1>2 DEF Store!Extend, Tables
  <1>9. Tables(input, R, s1, S)
    BY <1>1, <1>2, <1>6, <1>7, <1>8 DEF Tables
  <1>10. Keys(input, R, s1, S)
    BY <1>1, <1>6, <1>7, <1>8 DEF Keys, Tables
  <1> QED
    BY <1>1, <1>2, <1>6, <1>7, <1>8, <1>9, <1>10 DEF Tables

LEMMA RecordRunKept == ASSUME StoreInv, NEW j \in Job, Store!RecordRun(j) PROVE StoreInv'
  <1>1. UNCHANGED <<input, s1, s4, s5>> /\ s3[j].at = "started"
    BY DEF Store!RecordRun
  <1>2. s3[j] \in StartedJob
    BY <1>1, JobForms DEF StoreInv, StoreKept
  <1>3. CASE s3[j].topic \in Store!TopicIds
    <2>1. PICK r \in Store!NextId(DOMAIN output) :
            /\ output' = Store!Extend(output, r, [topic |-> s3[j].topic, status |-> "running", new |-> 0])
            /\ s2' = Store!Extend(s2, r, {})
            /\ Store!Step(j, "started", [at |-> "searching", kind |-> s3[j].kind,
                                          topic |-> s3[j].topic, run |-> r])
      BY <1>3 DEF Store!RecordRun
    <2>2. s3[j].topic \in Values(input)
      BY <1>3, StoreValues
    <2>3. /\ Tables(input, output', s1, s2') /\ Keys(input, output', s1, s2') /\ r \in Nat /\ r \notin DOMAIN output
          /\ DOMAIN output' = DOMAIN output \cup {r} /\ s2'[r] = {} /\ output'[r].new = 0
          /\ \A k \in DOMAIN output : output'[k] = output[k] /\ s2'[k] = s2[k]
      BY <2>1, <2>2, RunAdded
    <2>4. PICK d : d = [at |-> "searching", kind |-> s3[j].kind, topic |-> s3[j].topic, run |-> r]
      OBVIOUS
    <2>5. s3' = [s3 EXCEPT ![j] = d]
      BY <2>1, <2>4 DEF Store!Step
    <2>6. d \in SearchingJob /\ d.run = r /\ d.at = "searching"
      BY <1>2, <2>3, <2>4 DEF SearchingJob, StartedJob
    <2>7. JobSound(d) /\ DOMAIN s3' = Job /\ \A k \in Job : JobSound(s3'[k])
      <3>1. JobSound(d)
        BY <2>6 DEF JobSound
      <3> QED
        BY <2>5, <3>1, OneJob
    <2>8. ASSUME ~s5 PROVE Ties(output', s1, s2', s3', s4)
      <3>1. Ties(output, s1, s2, s3, s4)
        BY <2>8 DEF StoreInv, StoreKept
      <3>2. \A k \in Job : Recorded(s3[k]) => s3[k].run \in DOMAIN output
        BY <3>1 DEF Ties, Tied
      <3>3. \A p \in s4 : p[1] \in DOMAIN output
        BY <3>1 DEF Ties, Counted
      <3>4. Tied(d, output', s1, s2', s4)
        BY <2>3, <2>6, <3>3 DEF Tied
      <3>5. \A i \in DOMAIN output' : output'[i].new = Cardinality({p \in s4 : p[1] = i})
        <4>1. {p \in s4 : p[1] = r} = {}
          BY <2>3, <3>3
        <4>2. Cardinality({p \in s4 : p[1] = r}) = 0
          BY <4>1, FS_EmptySet
        <4> QED
          BY <2>3, <3>1, <4>2 DEF Ties, Counted
      <3>6. DOMAIN output \subseteq DOMAIN output' /\ Counted(output', s4)
        BY <2>3, <3>3, <3>5 DEF Counted
      <3>7. SameUrls(s1, s1) /\ SameRuns(s3, j, output, s2, s4, output', s2', s4)
        BY <2>3, <3>2 DEF SameUrls, SameRuns
      <3>8. OwnTied(d, s3, j, output', s1, s2', s4)
        BY <2>3, <2>6, <3>2, <3>4 DEF OwnTied
      <3> QED
        BY <2>5, <2>8, <3>6, <3>7, <3>8, TiedTogether
    <2>9. StoreKept(input', output', s1', s2', s3', s4', s5')
      BY <1>1, <2>3, <2>7, <2>8 DEF StoreKept
    <2> QED
      BY <2>9, StoreCloses
  <1>4. CASE s3[j].topic \notin Store!TopicIds
    <2>1. PICK d : d = [at |-> "died"]
      OBVIOUS
    <2>2. UNCHANGED <<output, s2>> /\ s3' = [s3 EXCEPT ![j] = d]
      BY <1>4, <2>1 DEF Store!RecordRun, Store!Step
    <2>3. JobSound(d) /\ ~Recorded(d)
      BY <2>1, BareSound
    <2>4. Tables(input', output, s1, s2) /\ Keys(input', output, s1, s2)
      BY <1>1 DEF StoreInv, StoreKept
    <2> QED
      BY <1>1, <2>2, <2>3, <2>4, TablesAlone
  <1> QED
    BY <1>3, <1>4

(* UpdateRun changes the status of one run, if it is there.                       *)
LEMMA StatusUpdated ==
    ASSUME StoreInv, NEW r, NEW status \in {"running", "completed", "failed"}, NEW R,
           R = IF r \in DOMAIN output THEN [output EXCEPT ![r].status = status] ELSE output
    PROVE  /\ Tables(input, R, s1, s2) /\ Keys(input, R, s1, s2) /\ DOMAIN R = DOMAIN output
           /\ r \in DOMAIN output => R[r].status = status
           /\ \A k \in DOMAIN output : R[k].new = output[k].new /\ (k # r => R[k] = output[k])
  <1>1. Tables(input, output, s1, s2) /\ Keys(input, output, s1, s2)
    BY DEF StoreInv, StoreKept
  <1>2. DOMAIN R = DOMAIN output /\ \A k \in DOMAIN output : k # r => R[k] = output[k]
    OBVIOUS
  <1>3. r \in DOMAIN output => /\ R[r] \in RunRow /\ R[r].status = status /\ R[r].new = output[r].new
                               /\ R[r].topic = output[r].topic
    BY <1>1 DEF Tables, RunRow
  <1>4. Tables(input, R, s1, s2)
    BY <1>1, <1>2, <1>3 DEF Tables
  <1>5. Keys(input, R, s1, s2)
    BY <1>1, <1>2, <1>3 DEF Keys
  <1> QED
    BY <1>2, <1>3, <1>4, <1>5

(* A step that closes the run of a process.                                       *)
LEMMA Closing ==
    ASSUME StoreInv, NEW j \in Job, Recorded(s3[j]), NEW status \in {"running", "completed", "failed"},
           Store!UpdateRun(s3[j].run, status), UNCHANGED <<input, s1, s2, s4, s5>>,
           NEW d, s3' = [s3 EXCEPT ![j] = d], JobSound(d),
           (Recorded(d) /\ ~s5) => (d.run = s3[j].run /\ Tied(d, output', s1, s2, s4))
    PROVE  StoreInv'
  <1>1. PICK r : r = s3[j].run
    OBVIOUS
  <1>2. PICK R : R = output'
    OBVIOUS
  <1>3. R = IF r \in DOMAIN output THEN [output EXCEPT ![r].status = status] ELSE output
    BY <1>1, <1>2 DEF Store!UpdateRun
  <1>4. /\ Tables(input, R, s1, s2) /\ Keys(input, R, s1, s2) /\ DOMAIN R = DOMAIN output
        /\ \A k \in DOMAIN output : R[k].new = output[k].new /\ (k # r => R[k] = output[k])
    BY <1>3, StatusUpdated
  <1>5. DOMAIN s3' = Job /\ \A k \in Job : JobSound(s3'[k])
    BY OneJob
  <1>6. ASSUME ~s5 PROVE Ties(R, s1, s2, s3', s4)
    <2>1. Ties(output, s1, s2, s3, s4)
      BY <1>6 DEF StoreInv, StoreKept
    <2>2. \A k \in Job \ {j} : Recorded(s3[k]) => s3[k].run # r /\ s3[k].run \in DOMAIN output
      BY <1>1, <2>1 DEF Ties, Tied
    <2>3. Recorded(d) => /\ Tied(d, R, s1, s2, s4) /\ \A k \in Job \ {j} : Recorded(s3[k]) => d.run # s3[k].run
      BY <1>1, <1>2, <1>6, <2>2
    <2>4. Counted(R, s4)
      BY <1>4, <2>1 DEF Ties, Counted
    <2>5. SameUrls(s1, s1) /\ SameRuns(s3, j, output, s2, s4, R, s2, s4)
      BY <1>4, <2>2 DEF SameUrls, SameRuns
    <2>6. OwnTied(d, s3, j, R, s1, s2, s4) /\ DOMAIN output \subseteq DOMAIN R
      BY <1>4, <2>3 DEF OwnTied
    <2> QED
      BY <1>6, <2>4, <2>5, <2>6, TiedTogether
  <1>7. StoreKept(input', output', s1', s2', s3', s4', s5')
    BY <1>2, <1>4, <1>5, <1>6 DEF StoreKept
  <1> QED
    BY <1>7, StoreCloses


LEMMA SearchFailsKept == ASSUME StoreInv, NEW j \in Job, Store!SearchFails(j) PROVE StoreInv'
  <1>1. s3[j].at = "searching" /\ JobSound(s3[j])
    BY DEF Store!SearchFails, StoreInv, StoreKept
  <1>2. Recorded(s3[j])
    BY <1>1, JobForms DEF Recorded
  <1>3. PICK d : d = [at |-> "done"]
    OBVIOUS
  <1>4. JobSound(d) /\ ~Recorded(d)
    BY <1>3, BareSound
  <1>5. /\ UNCHANGED <<input, s1, s2, s4, s5>> /\ s3' = [s3 EXCEPT ![j] = d]
        /\ Store!UpdateRun(s3[j].run, "failed")
    BY <1>3 DEF Store!SearchFails
  <1> QED
    BY <1>2, <1>4, <1>5, Closing

LEMMA CompleteKept == ASSUME StoreInv, NEW j \in Job, Store!Complete(j) PROVE StoreInv'
  <1>1. s3[j].at = "stored" /\ JobSound(s3[j])
    BY DEF Store!Complete, StoreInv, StoreKept
  <1>2. s3[j] \in ReadJob /\ DOMAIN s3[j].existing \subseteq DOMAIN s3[j].batch
    BY <1>1, JobForms
  <1>3. Recorded(s3[j])
    BY <1>2 DEF Recorded
  <1>4. PICK d : d = [s3[j] EXCEPT !.at = "done"]
    OBVIOUS
  <1>5. /\ d \in ReadJob /\ d.at = "done" /\ d.run = s3[j].run /\ d.batch = s3[j].batch
        /\ d.existing = s3[j].existing
    BY <1>2, <1>4 DEF ReadJob
  <1>6. JobSound(d)
    BY <1>2, <1>5 DEF JobSound
  <1>7. /\ UNCHANGED <<input, s1, s2, s4, s5>>
        /\ Store!UpdateRun(s3[j].run, "completed")
    BY DEF Store!Complete
  <1>8. s3' = [s3 EXCEPT ![j] = d]
    BY <1>4 DEF Store!Complete, StoreInv, StoreKept
  <1>9. ASSUME ~s5 PROVE Tied(d, output', s1, s2, s4)
    <2>1. Tied(s3[j], output, s1, s2, s4)
      BY <1>3, <1>9 DEF StoreInv, StoreKept, Ties
    <2>2. PICK R : R = output'
      OBVIOUS
    <2>3. R = IF s3[j].run \in DOMAIN output THEN [output EXCEPT ![s3[j].run].status = "completed"] ELSE output
      BY <1>7, <2>2 DEF Store!UpdateRun
    <2>4. d.run \in DOMAIN output
      BY <1>5, <2>1 DEF Tied
    <2>5. R[d.run].status = "completed" /\ DOMAIN R = DOMAIN output
      BY <1>5, <2>3, <2>4, StatusUpdated
    <2>6. Found(s1, s2[d.run]) = DOMAIN d.batch
      BY <1>1, <1>5, <2>1 DEF Tied
    <2>7. Tied(d, R, s1, s2, s4)
      BY <1>5, <2>4, <2>5, <2>6 DEF Tied
    <2> QED
      BY <2>2, <2>7
  <1> QED
    BY <1>3, <1>5, <1>6, <1>7, <1>8, <1>9, Closing

LEMMA StoreReadKept ==
    ASSUME StoreInv, NEW j \in Job, NEW U \in SUBSET Url, NEW b \in [U -> 1..MaxScore],
           Store!ReadExisting(j, b)
    PROVE  StoreInv'
  <1>1. UNCHANGED <<input, output, s1, s2, s4, s5>> /\ s3[j].at = "searching"
    BY DEF Store!ReadExisting, Store!store
  <1>2. s3[j] \in SearchingJob
    BY <1>1, JobForms DEF StoreInv, StoreKept
  <1> DEFINE known == {i \in DOMAIN s1 : s1[i].url \in DOMAIN b}
  <1>3. PICK e : e = [u \in {s1[i].url : i \in known} |->
                         LET i == CHOOSE k \in known : s1[k].url = u
                         IN [id |-> i, score |-> s1[i].score]]
    OBVIOUS
  <1>4. Tables(input, output, s1, s2) /\ Keys(input, output, s1, s2)
    BY DEF StoreInv, StoreKept
  <1>5. ASSUME NEW u \in DOMAIN e
        PROVE  /\ u \in DOMAIN b /\ e[u] \in [id : Nat, score : Int] /\ e[u].id \in DOMAIN s1
               /\ s1[e[u].id].url = u
    <2>1. \E k \in known : s1[k].url = u
      BY <1>3
    <2>2. PICK i : i = CHOOSE k \in known : s1[k].url = u
      OBVIOUS
    <2>3. i \in known /\ s1[i].url = u
      BY <2>1, <2>2, Zenon
    <2>4. e[u] = [id |-> i, score |-> s1[i].score]
      BY <1>3, <2>2
    <2>5. s1[i] \in FindingRow /\ i \in Nat
      BY <1>4, <2>3 DEF Tables
    <2> QED
      BY <2>3, <2>4, <2>5 DEF FindingRow
  <1>6. DOMAIN e \subseteq DOMAIN b /\ e \in Existing
    <2>1. DOMAIN e \subseteq DOMAIN b /\ DOMAIN e \in SUBSET Url
      BY <1>5
    <2>2. e \in [DOMAIN e -> [id : Nat, score : Int]]
      BY <1>3, <1>5
    <2> QED
      BY <2>1, <2>2 DEF Existing
  <1>7. b \in Batches
    <2>1. b \in [U -> Int]
      OBVIOUS
    <2> QED
      BY <2>1 DEF Batches
  <1>8. PICK d : d = [at |-> "read", kind |-> s3[j].kind, topic |-> s3[j].topic, run |-> s3[j].run,
                      batch |-> b, existing |-> e]
    OBVIOUS
  <1>9. /\ d \in ReadJob /\ d.at = "read" /\ d.run = s3[j].run /\ d.batch = b /\ d.existing = e
    BY <1>2, <1>6, <1>7, <1>8 DEF ReadJob, SearchingJob
  <1>10. JobSound(d) /\ Recorded(s3[j])
    BY <1>2, <1>6, <1>9 DEF JobSound, Recorded
  <1>11. s3' = [s3 EXCEPT ![j] = d]
    BY <1>3, <1>8 DEF Store!ReadExisting
  <1>12. ASSUME ~s5 PROVE Tied(d, output, s1, s2, s4)
    <2>1. Tied(s3[j], output, s1, s2, s4)
      BY <1>10, <1>12 DEF StoreInv, StoreKept, Ties
    <2> QED
      BY <1>1, <1>5, <1>9, <2>1 DEF Tied
  <1> QED
    BY <1>1, <1>4, <1>9, <1>10, <1>11, <1>12, TablesAlone

LEMMA RemoveTopicKept == ASSUME StoreInv, NEW n \in Name, Store!RemoveTopic(n) PROVE StoreInv'
  <1>1. s3' = s3 /\ s5' = TRUE /\ n \in DOMAIN input /\ Store!Removable(n)
    BY DEF Store!RemoveTopic
  <1>2. Tables(input, output, s1, s2) /\ Keys(input, output, s1, s2)
    BY DEF StoreInv, StoreKept
  <1>3. PICK t : t = input'
    OBVIOUS
  <1>4. PICK R : R = output'
    OBVIOUS
  <1>5. PICK F : F = s1'
    OBVIOUS
  <1>6. PICK S : S = s2'
    OBVIOUS
  <1>7. DOMAIN t = DOMAIN input \ {n} /\ \A m \in DOMAIN t : t[m] = input[m]
    BY <1>3 DEF Store!RemoveTopic, Store!Without, Store!Restrict
  <1>8. /\ DOMAIN R = {r \in DOMAIN output : output[r].topic # input[n]}
        /\ \A r \in DOMAIN R : R[r] = output[r]
    BY <1>4 DEF Store!RemoveTopic, Store!Without, Store!Restrict
  <1>9. /\ DOMAIN F = {i \in DOMAIN s1 : s1[i].topic # input[n]}
        /\ \A i \in DOMAIN F : F[i] = s1[i]
    BY <1>5 DEF Store!RemoveTopic, Store!Without, Store!Restrict
  <1>10. /\ DOMAIN S = {r \in DOMAIN s2 : output[r].topic # input[n]}
         /\ \A r \in DOMAIN S : S[r] = s2[r] \ {i \in DOMAIN s1 : s1[i].topic = input[n]}
    BY <1>2, <1>6 DEF Store!RemoveTopic, Tables
  <1>11. Tables(t, R, F, S)
    BY <1>2, <1>7, <1>8, <1>9, <1>10 DEF Tables
  <1>12. Values(input) \ {input[n]} \subseteq Values(t)
    BY <1>7 DEF Values
  <1>13. \A r \in DOMAIN R : R[r].topic \in Values(t)
    BY <1>2, <1>8, <1>12 DEF Keys
  <1>14. \A i \in DOMAIN F : F[i].topic \in Values(t) /\ F[i].run \in DOMAIN R
    BY <1>1, <1>2, <1>8, <1>9, <1>12 DEF Keys, Store!Removable
  <1>15. \A r \in DOMAIN S : S[r] \subseteq DOMAIN F
    BY <1>2, <1>9, <1>10 DEF Keys
  <1>16. Keys(t, R, F, S)
    BY <1>13, <1>14, <1>15 DEF Keys
  <1>17. StoreKept(input', output', s1', s2', s3', s4', s5')
    BY <1>1, <1>3, <1>4, <1>5, <1>6, <1>11, <1>16 DEF StoreKept, StoreInv
  <1> QED
    BY <1>17, StoreCloses


LEMMA StoreCount == ASSUME NEW S PROVE Store!Cardinality(S) = Cardinality(S)
  BY DEF Store!Cardinality, Cardinality, Store!IsFiniteSet, IsFiniteSet

(* The addresses of a batch are finitely many.                                  *)
LEMMA FewUrls ==
    ASSUME NEW U, U \subseteq Url
    PROVE  IsFiniteSet(U) /\ Cardinality(U) \in Nat /\ Cardinality(U) <= Cardinality(Url)
  <1>1. IsFiniteSet(Url)
    BY StoreAssumption DEF Store!StoreAssumption, Store!IsFiniteSet, IsFiniteSet
  <1>2. U \in SUBSET Url
    OBVIOUS
  <1> QED
    BY <1>1, <1>2, FS_Subset, FS_CardinalityType

LEMMA ReadFields ==
    ASSUME NEW job \in ReadJob
    PROVE  /\ DOMAIN job.batch \subseteq Url /\ \A u \in DOMAIN job.batch : job.batch[u] \in Int
           /\ \A u \in DOMAIN job.existing : job.existing[u].id \in Nat /\ job.existing[u].score \in Int
           /\ job.run \in Nat /\ job.topic \in Nat
  <1>1. job.batch \in Batches /\ job.existing \in Existing /\ job.run \in Nat /\ job.topic \in Nat
    BY DEF ReadJob
  <1>2. PICK U \in SUBSET Url : job.batch \in [U -> Int]
    BY <1>1 DEF Batches
  <1>3. PICK V \in SUBSET Url : job.existing \in [V -> [id : Nat, score : Int]]
    BY <1>1 DEF Existing
  <1>4. \A u \in V : job.existing[u] \in [id : Nat, score : Int]
    BY <1>3
  <1> QED
    BY <1>1, <1>2, <1>3, <1>4

(* The numbers the new rows get are free, one for each address that has no row.       *)
FreeNumbers(urls, M, F) ==
    /\ DOMAIN urls \subseteq Nat /\ DOMAIN urls \cap DOMAIN F = {}
    /\ \A i \in DOMAIN urls : urls[i] \in M
    /\ \A i, k \in DOMAIN urls : urls[i] = urls[k] => i = k
    /\ \A u \in M : \E i \in DOMAIN urls : urls[i] = u
LEMMA Numbered ==
    ASSUME StoreInv, NEW job \in ReadJob, NEW urls \in Store!Numberings(job)
    PROVE  FreeNumbers(urls, Store!Missing(job), s1)
  <1>1. PICK M : M = Store!Missing(job)
    OBVIOUS
  <1>2. M \subseteq Url
    BY <1>1, ReadFields DEF Store!Missing, Store!NewUrls
  <1>3. PICK c : c = Store!Cardinality(M)
    OBVIOUS
  <1>4. c \in Nat
    BY <1>2, <1>3, StoreCount, FewUrls
  <1>5. PICK n \in Store!NextId(DOMAIN s1) : urls \in Store!Bijection(n..(n + c - 1), M)
    BY <1>1, <1>3 DEF Store!Numberings
  <1>6. n \in Nat /\ \A i \in DOMAIN s1 : i < n
    BY NextNumber DEF StoreInv, StoreKept, Tables
  <1>7. DOMAIN s1 \subseteq Nat
    BY DEF StoreInv, StoreKept, Tables
  <1>8. DOMAIN urls = n..(n + c - 1) /\ \A i \in DOMAIN urls : urls[i] \in M
    BY <1>5 DEF Store!Bijection, Store!Injection
  <1>9. DOMAIN urls \subseteq Nat /\ DOMAIN urls \cap DOMAIN s1 = {}
    BY <1>4, <1>6, <1>7, <1>8
  <1>10. \A i, k \in DOMAIN urls : urls[i] = urls[k] => i = k
    BY <1>5 DEF Store!Bijection, Store!Injection, Store!IsInjective
  <1>11. \A u \in M : \E i \in DOMAIN urls : urls[i] = u
    BY <1>5, <1>8 DEF Store!Bijection, Store!Surjection
  <1> QED
    BY <1>1, <1>8, <1>9, <1>10, <1>11 DEF FreeNumbers

Changed(row, count, run, score) == [row EXCEPT !.count = count, !.run = run, !.score = score]
LEMMA RowChanged ==
    ASSUME NEW row \in FindingRow, NEW count \in Nat \ {0}, NEW run \in Nat, NEW score \in Int,
           NEW new, new = Changed(row, count, run, score)
    PROVE  /\ new \in FindingRow /\ new.url = row.url /\ new.topic = row.topic
           /\ new.run = run /\ new.count = count
  BY DEF FindingRow, Changed

(* What the updates leave of a row, and what the inserts leave of it.                *)
LEMMA UpdatedRow ==
    ASSUME StoreInv, NEW job \in ReadJob, DOMAIN job.existing \subseteq DOMAIN job.batch,
           NEW T, T = Store!Updated(s1, job), NEW i \in DOMAIN s1
    PROVE  /\ DOMAIN T = DOMAIN s1 /\ T[i] \in FindingRow /\ T[i].url = s1[i].url /\ T[i].topic = s1[i].topic
           /\ T[i].run = s1[i].run \/ (T[i].run = job.run /\ DOMAIN job.batch # {})
  <1>1. s1[i] \in FindingRow
    BY DEF StoreInv, StoreKept, Tables
  <1>2. CASE \E u \in DOMAIN job.existing : job.existing[u].id = i
    <2>1. PICK u : u = CHOOSE v \in DOMAIN job.existing : job.existing[v].id = i
      OBVIOUS
    <2>2. u \in DOMAIN job.existing
      BY <1>2, <2>1, Zenon
    <2>3. PICK best : best = Store!Larger(job.batch[u], job.existing[u].score)
      OBVIOUS
    <2>4. best \in Int
      BY <2>2, <2>3, ReadFields DEF Store!Larger
    <2>5. PICK more : more = s1[i].count + 1
      OBVIOUS
    <2>6. T[i] = Changed(s1[i], more, job.run, best)
      BY <1>2, <2>1, <2>3, <2>5 DEF Store!Updated, Changed
    <2>7. job.run \in Nat /\ more \in Nat \ {0}
      BY <1>1, <2>5, ReadFields DEF FindingRow
    <2>8. T[i] \in FindingRow /\ T[i].url = s1[i].url /\ T[i].topic = s1[i].topic /\ T[i].run = job.run
      BY <1>1, <2>4, <2>6, <2>7, RowChanged
    <2> QED
      BY <2>2, <2>8 DEF Store!Updated
  <1>3. CASE ~\E u \in DOMAIN job.existing : job.existing[u].id = i
    BY <1>1, <1>3 DEF Store!Updated
  <1> QED
    BY <1>2, <1>3

Old(F, G, job) ==
    \A i \in DOMAIN F :
        /\ G[i] \in FindingRow /\ G[i].url = F[i].url /\ G[i].topic = F[i].topic
        /\ G[i].run = F[i].run \/ (G[i].run = job.run /\ DOMAIN job.batch # {})
        /\ F[i].url \in Store!NewUrls(job) => G[i].count > 1
New(G, urls, job) ==
    \A i \in DOMAIN urls :
        /\ G[i] \in FindingRow /\ G[i].url = urls[i] /\ G[i].topic = job.topic
        /\ G[i].run = job.run /\ DOMAIN job.batch # {} /\ G[i].count = 1
LEMMA WrittenRows ==
    ASSUME StoreInv, NEW job \in ReadJob, DOMAIN job.existing \subseteq DOMAIN job.batch,
           NEW urls, FreeNumbers(urls, Store!Missing(job), s1), NEW G, G = Store!Written(job, urls)
    PROVE  DOMAIN G = DOMAIN s1 \cup DOMAIN urls /\ Old(s1, G, job) /\ New(G, urls, job)
  <1>1. PICK T : T = Store!Updated(s1, job)
    OBVIOUS
  <1>2. DOMAIN T = DOMAIN s1
    BY <1>1 DEF Store!Updated
  <1>3. DOMAIN G = DOMAIN s1 \cup DOMAIN urls
    BY <1>1, <1>2 DEF Store!Written
  <1>4. ASSUME NEW i \in DOMAIN s1
        PROVE  /\ G[i] \in FindingRow /\ G[i].url = s1[i].url /\ G[i].topic = s1[i].topic
               /\ G[i].run = s1[i].run \/ (G[i].run = job.run /\ DOMAIN job.batch # {})
               /\ s1[i].url \in Store!NewUrls(job) => G[i].count > 1
    <2>1. /\ T[i] \in FindingRow /\ T[i].url = s1[i].url /\ T[i].topic = s1[i].topic
          /\ T[i].run = s1[i].run \/ (T[i].run = job.run /\ DOMAIN job.batch # {})
      BY <1>1, UpdatedRow
    <2>2. i \notin DOMAIN urls
      BY DEF FreeNumbers
    <2>3. CASE s1[i].url \in Store!NewUrls(job)
      <3>1. PICK best : best = Store!Larger(T[i].score, job.batch[T[i].url])
        OBVIOUS
      <3>2. s1[i].url \in DOMAIN job.batch
        BY <2>3 DEF Store!NewUrls
      <3>3. best \in Int /\ job.run \in Nat
        BY <2>1, <3>1, <3>2, ReadFields DEF Store!Larger, FindingRow
      <3>4. PICK more : more = T[i].count + 1
        OBVIOUS
      <3>5. G[i] = Changed(T[i], more, job.run, best)
        BY <1>1, <1>2, <2>1, <2>2, <2>3, <3>1, <3>4 DEF Store!Written, Changed
      <3>6. more \in Nat /\ more > 1
        BY <2>1, <3>4 DEF FindingRow
      <3>7. /\ G[i] \in FindingRow /\ G[i].url = T[i].url /\ G[i].topic = T[i].topic
            /\ G[i].run = job.run /\ G[i].count = more
        <4>1. more \in Nat \ {0}
          BY <3>6
        <4>2. PICK row \in FindingRow : row = T[i]
          BY <2>1
        <4>3. G[i] = Changed(row, more, job.run, best)
          BY <3>5, <4>2
        <4>4. /\ G[i] \in FindingRow /\ G[i].url = row.url /\ G[i].topic = row.topic
              /\ G[i].run = job.run /\ G[i].count = more
          BY <3>3, <4>1, <4>3, RowChanged
        <4> QED
          BY <4>2, <4>4
      <3> QED
        BY <2>1, <3>2, <3>6, <3>7
    <2>4. CASE s1[i].url \notin Store!NewUrls(job)
      <3>1. G[i] = T[i]
        BY <1>1, <1>2, <2>1, <2>2, <2>4 DEF Store!Written
      <3> QED
        BY <2>1, <2>4, <3>1
    <2> QED
      BY <2>3, <2>4
  <1>5. ASSUME NEW i \in DOMAIN urls
        PROVE  /\ G[i] \in FindingRow /\ G[i].url = urls[i] /\ G[i].topic = job.topic
               /\ G[i].run = job.run /\ DOMAIN job.batch # {} /\ G[i].count = 1
    <2>1. urls[i] \in DOMAIN job.batch
      BY DEF FreeNumbers, Store!Missing, Store!NewUrls
    <2>2. G[i] = [url |-> urls[i], topic |-> job.topic, run |-> job.run, score |-> job.batch[urls[i]],
                  count |-> 1]
      BY DEF Store!Written
    <2>3. urls[i] \in Url /\ job.topic \in Nat /\ job.run \in Nat /\ job.batch[urls[i]] \in Int
      BY <2>1, ReadFields
    <2> QED
      BY <2>1, <2>2, <2>3 DEF FindingRow
  <1> QED
    BY <1>3, <1>4, <1>5 DEF Old, New

(* Every address of the batch has its one row, and the rows are those of the batch.     *)
Addressed(G) == \A i, k \in DOMAIN G : G[i].url = G[k].url => i = k
LEMMA RowsApart ==
    ASSUME StoreInv, NEW job \in ReadJob, NEW urls, FreeNumbers(urls, Store!Missing(job), s1),
           NEW G, DOMAIN G = DOMAIN s1 \cup DOMAIN urls, Old(s1, G, job), New(G, urls, job)
    PROVE  /\ Addressed(G)
           /\ \A u \in Store!NewUrls(job) : \E i \in DOMAIN G : G[i].url = u
  <1>1. \A i, k \in DOMAIN s1 : s1[i].url = s1[k].url => i = k
    BY DEF StoreInv, StoreKept, Tables
  <1>2. \A i \in DOMAIN urls : ~Store!HasRow(s1, urls[i])
    BY DEF FreeNumbers, Store!Missing
  <1>3. \A i \in DOMAIN urls, k \in DOMAIN s1 : urls[i] # s1[k].url
    BY <1>2 DEF Store!HasRow
  <1>4. Addressed(G)
    BY <1>1, <1>3 DEF Addressed, Old, New, FreeNumbers
  <1>5. ASSUME NEW u \in Store!NewUrls(job) PROVE \E i \in DOMAIN G : G[i].url = u
    <2>1. CASE Store!HasRow(s1, u)
      BY <2>1 DEF Store!HasRow, Old
    <2>2. CASE ~Store!HasRow(s1, u)
      <3>1. u \in Store!Missing(job)
        BY <2>2 DEF Store!Missing
      <3> QED
        BY <3>1 DEF FreeNumbers, New
    <2> QED
      BY <2>1, <2>2
  <1> QED
    BY <1>4, <1>5

LEMMA RowFound ==
    ASSUME NEW G, Addressed(G), NEW i \in DOMAIN G
    PROVE  Store!RowOf(G, G[i].url) = i
  <1>1. PICK k : k = Store!RowOf(G, G[i].url)
    OBVIOUS
  <1>2. k = CHOOSE l \in DOMAIN G : G[l].url = G[i].url
    BY <1>1 DEF Store!RowOf
  <1>3. k \in DOMAIN G /\ G[k].url = G[i].url
    BY <1>2, Zenon
  <1> QED
    BY <1>1, <1>3 DEF Addressed


(* What the transaction of store_findings sees of the batch, and counts of it.         *)
Batched(job, urls, G) ==
    /\ job \in ReadJob /\ DOMAIN job.existing \subseteq DOMAIN job.batch
    /\ FreeNumbers(urls, Store!Missing(job), s1)
    /\ DOMAIN G = DOMAIN s1 \cup DOMAIN urls /\ Old(s1, G, job) /\ New(G, urls, job)
LEMMA BatchedRows ==
    ASSUME StoreInv, NEW job, NEW urls, NEW G, Batched(job, urls, G)
    PROVE  Addressed(G) /\ \A u \in Store!NewUrls(job) : \E i \in DOMAIN G : G[i].url = u
  <1>1. /\ job \in ReadJob /\ FreeNumbers(urls, Store!Missing(job), s1)
        /\ DOMAIN G = DOMAIN s1 \cup DOMAIN urls /\ Old(s1, G, job) /\ New(G, urls, job)
    BY DEF Batched
  <1> QED
    BY <1>1, RowsApart
LEMMA NewCounted ==
    ASSUME StoreInv, NEW job, NEW urls, NEW G, Batched(job, urls, G)
    PROVE  /\ Store!NewCount(G, job) = Cardinality(Store!Missing(job))
           /\ Store!NewCount(G, job) \in 0..Cardinality(Url)
  <1>1. PICK M : M = Store!Missing(job)
    OBVIOUS
  <1>2. PICK N : N = Store!NewUrls(job)
    OBVIOUS
  <1>3. M = {u \in N : ~Store!HasRow(s1, u)} /\ N \subseteq Url
    <2>1. M = {u \in N : ~Store!HasRow(s1, u)}
      BY <1>1, <1>2 DEF Store!Missing
    <2>2. N \subseteq DOMAIN job.batch /\ job \in ReadJob
      BY <1>2 DEF Batched, Store!NewUrls
    <2> QED
      BY <2>1, <2>2, ReadFields
  <1>4. Addressed(G)
    BY BatchedRows
  <1>5. \A u \in N \ M : \E i \in DOMAIN s1 : s1[i].url = u
    BY <1>3 DEF Store!HasRow
  <1>6. ASSUME NEW u \in N \ M PROVE G[Store!RowOf(G, u)].count > 1
    <2>1. PICK i \in DOMAIN s1 : s1[i].url = u
      BY <1>5
    <2>2. i \in DOMAIN G /\ G[i].url = u /\ G[i].count > 1
      BY <1>2, <2>1 DEF Batched, Old
    <2>3. Store!RowOf(G, u) = i
      BY <1>4, <2>2, RowFound
    <2> QED
      BY <2>2, <2>3
  <1>7. ASSUME NEW u \in M PROVE ~(G[Store!RowOf(G, u)].count > 1)
    <2>1. PICK i \in DOMAIN urls : urls[i] = u
      BY <1>1 DEF Batched, FreeNumbers
    <2>2. i \in DOMAIN G /\ G[i].url = u /\ G[i].count = 1
      BY <2>1 DEF Batched, New
    <2>3. Store!RowOf(G, u) = i
      BY <1>4, <2>2, RowFound
    <2> QED
      BY <2>2, <2>3
  <1>8. PICK C : C = Store!Conflicted(G, job)
    OBVIOUS
  <1>9. C = {u \in N : G[Store!RowOf(G, u)].count > 1}
    BY <1>2, <1>8 DEF Store!Conflicted
  <1>10. C = N \ M
    BY <1>6, <1>7, <1>9
  <1>11. /\ IsFiniteSet(N) /\ Cardinality(N) \in Nat /\ Cardinality(M) \in Nat
         /\ Cardinality(M) <= Cardinality(Url) /\ M \subseteq N
    BY <1>3, FewUrls
  <1>12. Cardinality(N \ M) = Cardinality(N) - Cardinality(M)
    <2>1. N \cap M = M
      BY <1>11
    <2> QED
      BY <1>11, <2>1, FS_Difference
  <1>13. Store!NewCount(G, job) = Cardinality(N) - Cardinality(C)
    BY <1>2, <1>8, StoreCount DEF Store!NewCount
  <1>14. Cardinality(Url) \in Nat
    BY FewUrls
  <1> QED
    BY <1>1, <1>10, <1>11, <1>12, <1>13, <1>14

(* The rows a run inserted, counted.                                            *)
InsertedBy(r, urls) == {<<r, i>> : i \in DOMAIN urls}
RowsBy(r, I) == {p \in I : p[1] = r}
LEMMA InsertedCounted ==
    ASSUME NEW r, NEW urls, NEW M, NEW F, FreeNumbers(urls, M, F), M \subseteq Url,
           NEW I, RowsBy(r, I) = {}
    PROVE  Cardinality(RowsBy(r, I \cup InsertedBy(r, urls))) = Cardinality(M)
  <1>1. PICK P : P = {<<r, i>> : i \in DOMAIN urls}
    OBVIOUS
  <1>2. RowsBy(r, I \cup InsertedBy(r, urls)) = P
    BY <1>1 DEF InsertedBy, RowsBy
  <1>3. PICK f : f = [p \in P |-> urls[p[2]]]
    OBVIOUS
  <1>4. \A p \in P : p[2] \in DOMAIN urls /\ p = <<r, p[2]>>
    BY <1>1
  <1>5. f \in [P -> M]
    BY <1>3, <1>4 DEF FreeNumbers
  <1>6. \A p, q \in P : f[p] = f[q] => p = q
    BY <1>3, <1>4 DEF FreeNumbers
  <1>7. \A u \in M : \E p \in P : f[p] = u
    <2> SUFFICES ASSUME NEW u \in M PROVE \E p \in P : f[p] = u
      OBVIOUS
    <2>1. PICK i \in DOMAIN urls : urls[i] = u
      BY DEF FreeNumbers
    <2>2. <<r, i>> \in P
      BY <1>1
    <2>3. f[<<r, i>>] = u
      BY <1>3, <2>1, <2>2
    <2> QED
      BY <2>2, <2>3
  <1>8. f \in Injection(P, M) /\ f \in Surjection(P, M)
    BY <1>5, <1>6, <1>7 DEF Injection, Surjection, IsInjective
  <1>9. Cardinality(P) = Cardinality(M)
    BY <1>8, FewUrls, FS_Injection
  <1> QED
    BY <1>2, <1>9

(* What a run saw are the rows of its batch.                                      *)
LEMMA SeenIsBatch ==
    ASSUME StoreInv, NEW job, NEW urls, NEW G, Batched(job, urls, G),
           \A u \in DOMAIN job.existing : /\ job.existing[u].id \in DOMAIN s1
                                          /\ s1[job.existing[u].id].url = u
    PROVE  Found(G, Store!Seen(G, job)) = DOMAIN job.batch
  <1>1. Addressed(G) /\ \A u \in Store!NewUrls(job) : \E i \in DOMAIN G : G[i].url = u
    BY BatchedRows
  <1> DEFINE row(u) == IF u \in DOMAIN job.existing THEN job.existing[u].id ELSE Store!RowOf(G, u)
  <1>2. ASSUME NEW u \in DOMAIN job.batch PROVE row(u) \in DOMAIN G /\ G[row(u)].url = u
    <2>1. CASE u \in DOMAIN job.existing
      BY <2>1 DEF Batched, Old
    <2>2. CASE u \notin DOMAIN job.existing
      <3>1. u \in Store!NewUrls(job)
        BY <2>2 DEF Store!NewUrls
      <3>2. PICK i \in DOMAIN G : G[i].url = u
        BY <1>1, <3>1
      <3>3. Store!RowOf(G, u) = i
        BY <1>1, <3>2, RowFound
      <3> QED
        BY <2>2, <3>2, <3>3
    <2> QED
      BY <2>1, <2>2
  <1>3. Store!Seen(G, job) = {row(u) : u \in DOMAIN job.batch}
    BY DEF Store!Seen
  <1>4. \A i \in Store!Seen(G, job) : \E u \in DOMAIN job.batch : i = row(u)
    BY <1>3
  <1>5. \A u \in DOMAIN job.batch : row(u) \in Store!Seen(G, job)
    BY <1>3
  <1> HIDE DEF row
  <1>6. Found(G, Store!Seen(G, job)) \subseteq DOMAIN job.batch
    BY <1>2, <1>4 DEF Found
  <1>7. DOMAIN job.batch \subseteq Found(G, Store!Seen(G, job))
    BY <1>2, <1>5 DEF Found
  <1> QED
    BY <1>6, <1>7


(* The run of the transaction, if it is there, is given its count and its sightings.   *)
Recounted(job, G, R, S) ==
    \/ /\ job.run \in DOMAIN output
       /\ R = [output EXCEPT ![job.run].new = Store!NewCount(G, job)]
       /\ S = [s2 EXCEPT ![job.run] = @ \cup Store!Seen(G, job)]
    \/ job.run \notin DOMAIN output /\ R = output /\ S = s2
(* The tables after the transaction.                                            *)
LEMMA TablesAfter ==
    ASSUME StoreInv, NEW job, NEW urls, NEW G, Batched(job, urls, G), Store!KeysHold(G, job),
           NEW R, NEW S, Recounted(job, G, R, S)
    PROVE  /\ Tables(input, R, G, S) /\ Keys(input, R, G, S) /\ DOMAIN R = DOMAIN output
           /\ \A r \in DOMAIN output : R[r].status = output[r].status
           /\ \A r \in DOMAIN output : r # job.run => R[r] = output[r] /\ S[r] = s2[r]
           /\ job.run \in DOMAIN output => /\ R[job.run].new = Store!NewCount(G, job)
                                           /\ S[job.run] = s2[job.run] \cup Store!Seen(G, job)
  <1>1. Tables(input, output, s1, s2) /\ Keys(input, output, s1, s2)
    BY DEF StoreInv, StoreKept
  <1>2. PICK c : c = Store!NewCount(G, job)
    OBVIOUS
  <1>3. c \in 0..Cardinality(Url)
    BY <1>2, NewCounted
  <1>4. /\ DOMAIN R = DOMAIN output
        /\ \A r \in DOMAIN output : /\ R[r] \in RunRow /\ R[r].status = output[r].status
                                    /\ R[r].topic = output[r].topic
                                    /\ r # job.run => R[r] = output[r]
        /\ job.run \in DOMAIN output => R[job.run].new = c
    BY <1>1, <1>2, <1>3 DEF Tables, RunRow, Recounted
  <1>5. /\ DOMAIN S = DOMAIN s2 /\ \A r \in DOMAIN s2 : r # job.run => S[r] = s2[r]
        /\ job.run \in DOMAIN output => S[job.run] = s2[job.run] \cup Store!Seen(G, job)
    BY <1>1 DEF Tables, Recounted
  <1>6. DOMAIN s1 \subseteq Nat /\ DOMAIN urls \subseteq Nat
    BY <1>1 DEF Tables, Batched, FreeNumbers
  <1>7. \A i, k \in DOMAIN G : G[i].url = G[k].url => i = k
    BY BatchedRows DEF Addressed
  <1>8. DOMAIN G \subseteq Nat /\ \A i \in DOMAIN G : G[i] \in FindingRow
    BY <1>6 DEF Batched, Old, New
  <1>9. Tables(input, R, G, S)
    BY <1>1, <1>4, <1>5, <1>7, <1>8 DEF Tables
  <1>10. DOMAIN job.batch # {} =>
            /\ job.run \in DOMAIN output /\ job.topic \in Values(input)
            /\ Store!Seen(G, job) \subseteq DOMAIN G
    BY StoreValues DEF Store!KeysHold
  <1>11. \A i \in DOMAIN G : G[i].topic \in Values(input) /\ G[i].run \in DOMAIN R
    BY <1>1, <1>4, <1>10 DEF Batched, Old, New, Keys
  <1>12. Store!Seen(G, job) \subseteq DOMAIN G
    BY <1>10 DEF Store!Seen
  <1>13. DOMAIN s1 \subseteq DOMAIN G
    BY DEF Batched
  <1>14. \A r \in DOMAIN S : S[r] \subseteq DOMAIN G
    BY <1>1, <1>5, <1>12, <1>13 DEF Keys, Tables
  <1>15. \A r \in DOMAIN R : R[r].topic \in Values(input)
    BY <1>1, <1>4 DEF Keys
  <1>16. Keys(input, R, G, S)
    BY <1>11, <1>14, <1>15 DEF Keys
  <1> QED
    BY <1>1, <1>2, <1>4, <1>5, <1>9, <1>16 DEF Tables

LEMMA TransactionKept ==
    ASSUME StoreInv, NEW j \in Job, NEW job, job = s3[j], job.at = "read",
           NEW urls, NEW G, Batched(job, urls, G), Store!KeysHold(G, job),
           NEW R, NEW S, Recounted(job, G, R, S),
           NEW I, I = s4 \cup InsertedBy(job.run, urls),
           NEW d, d = [job EXCEPT !.at = "stored"], s3' = [s3 EXCEPT ![j] = d]
    PROVE  StoreKept(input, R, G, S, s3', I, s5)
  <1>1. /\ Tables(input, R, G, S) /\ Keys(input, R, G, S) /\ DOMAIN R = DOMAIN output
        /\ \A r \in DOMAIN output : R[r].status = output[r].status
        /\ \A r \in DOMAIN output : r # job.run => R[r] = output[r] /\ S[r] = s2[r]
        /\ job.run \in DOMAIN output => /\ R[job.run].new = Store!NewCount(G, job)
                                        /\ S[job.run] = s2[job.run] \cup Store!Seen(G, job)
    BY TablesAfter
  <1>2. job \in ReadJob /\ DOMAIN job.existing \subseteq DOMAIN job.batch
    BY DEF Batched
  <1>3. /\ d \in ReadJob /\ d.at = "stored" /\ d.run = job.run /\ d.batch = job.batch
        /\ d.existing = job.existing
    BY <1>2 DEF ReadJob
  <1>4. JobSound(d)
    BY <1>2, <1>3 DEF JobSound
  <1>5. DOMAIN s3' = Job /\ \A k \in Job : JobSound(s3'[k])
    BY <1>4, OneJob
  <1>6. ASSUME ~s5 PROVE Ties(R, G, S, s3', I)
    <2>1. Ties(output, s1, s2, s3, s4)
      BY <1>6 DEF StoreInv, StoreKept
    <2>2. Recorded(s3[j])
      BY <1>2 DEF Recorded
    <2>3. Tied(job, output, s1, s2, s4)
      BY <2>1, <2>2 DEF Ties
    <2>4. job.run \in DOMAIN output /\ s2[job.run] = {} /\ \A p \in s4 : p[1] # job.run
      BY <2>3 DEF Tied
    <2>5. \A u \in DOMAIN job.existing : /\ job.existing[u].id \in DOMAIN s1
                                         /\ s1[job.existing[u].id].url = u
      BY <2>3 DEF Tied
    <2>6. \A k \in Job \ {j} : Recorded(s3[k]) => s3[k].run # job.run /\ s3[k].run \in DOMAIN output
      BY <2>1, <2>2 DEF Ties, Tied
    <2>7. \A p \in I : p \in s4 \/ p[1] = job.run
      BY DEF InsertedBy
    <2>8. SameUrls(s1, G)
      BY DEF SameUrls, Batched, Old
    <2>9. SameRuns(s3, j, output, s2, s4, R, S, I)
      BY <1>1, <2>6, <2>7 DEF SameRuns
    <2>10. Found(G, S[d.run]) = DOMAIN d.batch
      <3>1. Found(G, Store!Seen(G, job)) = DOMAIN job.batch
        BY <2>5, SeenIsBatch
      <3>2. S[d.run] = Store!Seen(G, job)
        BY <1>1, <1>3, <2>4
      <3> QED
        BY <1>3, <3>1, <3>2
    <2>11. Tied(d, R, G, S, I)
      BY <1>1, <1>3, <2>4, <2>10 DEF Tied
    <2>12. OwnTied(d, s3, j, R, G, S, I)
      BY <1>3, <2>6, <2>11 DEF OwnTied
    <2>13. Counted(R, I)
      <3>1. \A p \in I : p[1] \in DOMAIN R
        BY <1>1, <2>1, <2>4, <2>7 DEF Ties, Counted
      <3>2. ASSUME NEW r \in DOMAIN R PROVE R[r].new = Cardinality({p \in I : p[1] = r})
        <4>1. CASE r # job.run
          <5>1. {p \in I : p[1] = r} = {p \in s4 : p[1] = r}
            BY <2>7, <4>1
          <5> QED
            BY <1>1, <2>1, <4>1, <5>1 DEF Ties, Counted
        <4>2. CASE r = job.run
          <5>1. PICK M : M = Store!Missing(job)
            OBVIOUS
          <5>2. FreeNumbers(urls, M, s1)
            BY <5>1 DEF Batched
          <5>3. M \subseteq Url
            BY <1>2, <5>1, ReadFields DEF Store!Missing, Store!NewUrls
          <5>4. Cardinality(RowsBy(job.run, I)) = Cardinality(M)
            <6>1. RowsBy(job.run, s4) = {}
              BY <2>4 DEF RowsBy
            <6>2. Cardinality(RowsBy(job.run, s4 \cup InsertedBy(job.run, urls))) = Cardinality(M)
              BY <5>2, <5>3, <6>1, InsertedCounted
            <6> QED
              BY <6>2
          <5>5. Store!NewCount(G, job) = Cardinality(M)
            BY <5>1, NewCounted
          <5> QED
            BY <1>1, <2>4, <4>2, <5>4, <5>5 DEF RowsBy
        <4> QED
          BY <4>1, <4>2
      <3> QED
        BY <3>1, <3>2 DEF Counted
    <2> QED
      BY <1>1, <1>6, <2>8, <2>9, <2>12, <2>13, TiedTogether
  <1> QED
    BY <1>1, <1>5, <1>6 DEF StoreKept


LEMMA StoreFindingsKept == ASSUME StoreInv, NEW j \in Job, Store!StoreFindings(j) PROVE StoreInv'
  <1>1. UNCHANGED <<input, s5>> /\ s3[j].at = "read"
    BY DEF Store!StoreFindings
  <1>2. s3[j] \in ReadJob /\ DOMAIN s3[j].existing \subseteq DOMAIN s3[j].batch
    BY <1>1, JobForms DEF StoreInv, StoreKept
  <1>3. PICK job : job = s3[j]
    OBVIOUS
  <1>4. PICK urls \in Store!Numberings(job) :
          IF Store!KeysHold(Store!Written(job, urls), job)
          THEN /\ s1' = Store!Written(job, urls)
               /\ IF job.run \in DOMAIN output
                  THEN /\ output' = [output EXCEPT ![job.run].new = Store!NewCount(s1', job)]
                       /\ s2' = [s2 EXCEPT ![job.run] = @ \cup Store!Seen(s1', job)]
                  ELSE UNCHANGED <<output, s2>>
               /\ s4' = s4 \cup {<<job.run, i>> : i \in DOMAIN urls}
               /\ s3' = [s3 EXCEPT ![j] = Store!At(j, "stored")]
          ELSE /\ s3' = [s3 EXCEPT ![j] = [at |-> IF job.kind = "watch" THEN "died" ELSE "done"]]
               /\ IF job.kind = "store" THEN Store!UpdateRun(job.run, "failed") ELSE UNCHANGED output
               /\ UNCHANGED <<s1, s2, s4>>
    BY <1>3 DEF Store!StoreFindings
  <1>5. PICK G : G = Store!Written(job, urls)
    OBVIOUS
  <1>6. FreeNumbers(urls, Store!Missing(job), s1)
    BY <1>2, <1>3, <1>4, Numbered
  <1>7. Batched(job, urls, G)
    BY <1>2, <1>3, <1>5, <1>6, WrittenRows DEF Batched
  <1>8. CASE Store!KeysHold(G, job)
    <2>1. s1' = G
      BY <1>4, <1>5, <1>8
    <2>2. Recounted(job, G, output', s2')
      BY <1>4, <1>5, <1>8, <2>1 DEF Recounted
    <2>3. s4' = s4 \cup InsertedBy(job.run, urls)
      BY <1>4, <1>5, <1>8 DEF InsertedBy
    <2>4. PICK d : d = [job EXCEPT !.at = "stored"]
      OBVIOUS
    <2>5. s3' = [s3 EXCEPT ![j] = d]
      BY <1>3, <1>4, <1>5, <1>8, <2>4 DEF Store!At
    <2>6. StoreKept(input, output', G, s2', s3', s4', s5)
      BY <1>1, <1>3, <1>7, <1>8, <2>2, <2>3, <2>4, <2>5, TransactionKept
    <2> QED
      BY <1>1, <2>1, <2>6, StoreCloses
  <1>9. CASE ~Store!KeysHold(G, job)
    <2>1. PICK d : d = [at |-> IF job.kind = "watch" THEN "died" ELSE "done"]
      OBVIOUS
    <2>2. JobSound(d) /\ ~Recorded(d)
      BY <2>1, BareSound
    <2>3. /\ s3' = [s3 EXCEPT ![j] = d] /\ UNCHANGED <<s1, s2, s4>>
          /\ IF job.kind = "store" THEN Store!UpdateRun(job.run, "failed") ELSE UNCHANGED output
      BY <1>4, <1>5, <1>9, <2>1
    <2>4. Recorded(s3[j])
      BY <1>2 DEF Recorded
    <2>5. CASE job.kind = "store"
      BY <1>1, <1>3, <2>2, <2>3, <2>4, <2>5, Closing
    <2>6. CASE job.kind # "store"
      <3>1. Tables(input', output, s1, s2) /\ Keys(input', output, s1, s2)
        BY <1>1 DEF StoreInv, StoreKept
      <3> QED
        BY <1>1, <2>2, <2>3, <2>6, <3>1, TablesAlone
    <2> QED
      BY <2>5, <2>6
  <1> QED
    BY <1>8, <1>9

LEMMA StoreSteps ==
    ASSUME StoreInv, Store!Next \/ UNCHANGED <<input, output, s1, s2, s3, s4, s5>>
    PROVE  StoreInv'
  <1>1. CASE UNCHANGED <<input, output, s1, s2, s3, s4, s5>>
    <2>1. StoreKept(input', output', s1', s2', s3', s4', s5')
      BY <1>1 DEF StoreInv
    <2> QED
      BY <2>1, StoreCloses
  <1>2. CASE \E j \in Job, n \in Name, kind \in {"watch", "store"} : Store!Start(j, n, kind)
    BY <1>2, StoreStartKept DEF Kind
  <1>3. CASE \E j \in Job : Store!Advance(j) \/ Store!Crash(j)
    BY <1>3, RecordRunKept, SearchFailsKept, StoreFindingsKept, CompleteKept, StoreReadKept, StoreCrashKept
       DEF Store!Advance
  <1>4. CASE \E n \in Name : Store!RemoveTopic(n)
    BY <1>4, RemoveTopicKept
  <1> QED
    BY <1>1, <1>2, <1>3, <1>4 DEF Store!Next

LEMMA StoreStarts == ASSUME Store!Init PROVE StoreInv
  <1>1. /\ input \in [Initial -> 1..Store!Cardinality(Initial)] /\ Store!IsInjective(input)
        /\ DOMAIN output = {} /\ DOMAIN s1 = {} /\ DOMAIN s2 = {} /\ s4 = {} /\ s5 = FALSE
    BY DEF Store!Init
  <1>2. Store!Cardinality(Initial) \in Nat /\ Initial \subseteq Name
    BY StoreAssumption, StoreCount, FS_CardinalityType
       DEF Store!StoreAssumption, Store!IsFiniteSet, IsFiniteSet
  <1>3. DOMAIN input \subseteq Name /\ \A n \in DOMAIN input : input[n] \in Nat
    BY <1>1, <1>2
  <1>4. Tables(input, output, s1, s2)
    BY <1>1, <1>3 DEF Tables, Store!IsInjective
  <1>5. Keys(input, output, s1, s2)
    BY <1>1 DEF Keys
  <1>6. PICK d : d = Store!Idle
    OBVIOUS
  <1>7. JobSound(d) /\ ~Recorded(d)
    BY <1>6, BareSound DEF Store!Idle
  <1>8. s3 = [j \in Job |-> d]
    BY <1>6 DEF Store!Init
  <1>9. Ties(output, s1, s2, s3, s4)
    BY <1>1, <1>7, <1>8 DEF Ties, Counted
  <1> QED
    BY <1>4, <1>5, <1>7, <1>8, <1>9 DEF StoreInv, StoreKept

LEMMA StoreTells ==
    ASSUME StoreInv
    PROVE  Store!TypeOK /\ Store!NoOrphans /\ Store!RunsWhole /\ Store!CountsAddUp
  <1>1. Tables(input, output, s1, s2) /\ Keys(input, output, s1, s2)
    BY DEF StoreInv, StoreKept
  <1>2. Store!TypeOK
    <2>1. DOMAIN input \subseteq Name /\ Store!IsInjective(input) /\ DOMAIN s2 = DOMAIN output
      BY <1>1 DEF Tables, Store!IsInjective
    <2>2. \A r \in DOMAIN output : /\ output[r].status \in {"running", "completed", "failed"}
                                   /\ output[r].new \in 0..Store!Cardinality(Url)
      BY <1>1, StoreCount DEF Tables, RunRow
    <2>3. \A i, k \in DOMAIN s1 : i # k => s1[i].url # s1[k].url
      BY <1>1 DEF Tables
    <2>4. \A j \in Job : s3[j].at \in {"idle", "started", "searching", "read", "stored", "done", "died"}
      BY DEF StoreInv, StoreKept, JobSound, Bare, StartedJob, SearchingJob, ReadJob
    <2> QED
      BY <2>1, <2>2, <2>3, <2>4 DEF Store!TypeOK
  <1>3. Store!NoOrphans
    BY <1>1, StoreValues DEF Store!NoOrphans, Keys
  <1>4. Store!RunsWhole
    <2> SUFFICES ASSUME NEW j \in Job, s3[j].at = "done", "batch" \in DOMAIN s3[j], ~s5
                 PROVE  /\ output[s3[j].run].status = "completed"
                        /\ Store!UrlsOf(s3[j].run) = DOMAIN s3[j].batch
      BY DEF Store!RunsWhole
    <2>1. s3[j] \in ReadJob
      BY DEF StoreInv, StoreKept, JobSound, Bare, StartedJob, SearchingJob
    <2>2. Tied(s3[j], output, s1, s2, s4)
      BY <2>1 DEF StoreInv, StoreKept, Ties, Recorded
    <2> QED
      BY <2>2 DEF Tied, Found, Store!UrlsOf
  <1>5. Store!CountsAddUp
    <2> SUFFICES ASSUME ~s5, NEW r \in DOMAIN output
                 PROVE  output[r].new = Store!Cardinality({p \in s4 : p[1] = r})
      BY DEF Store!CountsAddUp
    <2>1. output[r].new = Cardinality({p \in s4 : p[1] = r})
      BY DEF StoreInv, StoreKept, Ties, Counted
    <2> QED
      BY <2>1, StoreCount
  <1> QED
    BY <1>2, <1>3, <1>4, <1>5

(* Whatever runs of the watchlist, runs of --store and removals of topics come between    *)
(* the statements of store_findings: no row refers to one that is gone, a run that is      *)
(* through has a sighting of all it found, and what it reports as new is what it inserted. *)
THEOREM StoreStaysSound == EngineSpec => []StoreSound
  <1> DEFINE Inv == part = "store" => StoreInv
  <1>1. EngineInit => Inv
    BY StoreStarts DEF EngineInit
  <1>2. Inv /\ [EngineNext]_engine => Inv'
    <2> SUFFICES ASSUME Inv, [EngineNext]_engine, part' = "store"
                 PROVE  StoreInv'
      OBVIOUS
    <2>1. part = "store"
      BY StaysPut
    <2>2. Store!Next \/ UNCHANGED <<input, output, s1, s2, s3, s4, s5>>
      BY <2>1 DEF EngineNext, HttpStep, OnOne, engine
    <2> QED
      BY <2>1, <2>2, StoreSteps
  <1>3. Inv => StoreSound
    BY StoreTells DEF StoreSound
  <1> QED
    BY <1>1, <1>2, <1>3, PTL DEF EngineSpec
=============================================================================
