-------------------------------- MODULE DvdIfo --------------------------------
(***************************************************************************)
(* libdvdread: loading the IFO of the disc (title 0) or of a title set     *)
(* (ifo_read.c: ifoOpen, ifoOpenVMGI, ifoOpenVTSI, ifoRead_*, ifoFree_*,   *)
(* ifoClose), with the BUP as its replacement.                             *)
(*                                                                         *)
(* A program opens and closes IFOs one after the other.  Tables are read   *)
(* by their parts: a head with the counts, and a body.  Where a part lies  *)
(* is a set of sectors of the file; IFO and BUP have the same contents.    *)
(* Reading a part gives "read", "short" (DVDFileSeek_ fails or             *)
(* DVDReadBytes returns 0: the file ends before it) or "lost" (the read    *)
(* fails and DVDReadBytes returns a negative number, which every caller    *)
(* takes for success: the structure stays as calloc() made it, zero).      *)
(*                                                                         *)
(* PGCs and PGCI tables that several entries refer to are shared under a   *)
(* reference count; they are objects of their own here.  Where the code's  *)
(* behaviour is undefined the program dies or goes on.                     *)
(***************************************************************************)
EXTENDS Integers, Sequences, SequencesExt, FiniteSetsExt

CONSTANTS Discs,      \* for each title its "IFO" and its "BUP": length, bad sectors
          Contents,   \* for each title where the parts of its tables lie
          MaxCalls,   \* bound: IFOs opened
          MaxSrps     \* entries of the longest PGCI table

Titles == DOMAIN Contents

VARIABLES disc,
          flags,               \* ifoBUPflags: titles whose BUP is tried first
          call, calls,         \* what is being opened, and how many were before
          backup, second,      \* the copy; ifoOpen(): its second attempt
          pc,                  \* where the open or close is
          todo, tables,        \* tables still to be read, and what came of the others
          pgcs, its,           \* PGCs and PGCI tables allocated
          vts, ut,             \* vts_pgcit and pgci_ut->lu[].pgcit, as indexes of its
          lus,                 \* language units to be read, by the tables they refer to
          rel, after           \* PGCI tables to be released, and where to go then

data == <<todo, tables, pgcs, its, vts, ut, lus, rel, after>>
vars == <<disc, flags, call, calls, backup, second, pc, data>>

Missing == -1         \* the length of a file that is not there
Null    == 0          \* the index of no object

Vmg == <<"FP_PGC", "TT_SRPT", "PGCI_UT", "PTL_MAIT", "VTS_ATRT", "TXTDT_MGI",
         "C_ADT", "VOBU_ADMAP">>
Vts == <<"VTS_PTT_SRPT", "PGCIT", "PGCI_UT", "VTS_TMAPT", "C_ADT", "VOBU_ADMAP",
         "TITLE_C_ADT", "TITLE_VOBU_ADMAP">>
Order(title) == IF title = 0 THEN Vmg ELSE Vts

\* The tables without which ifoOpenFileOrBackup() gives up.
Mandatory == {"FP_PGC", "TT_SRPT", "VTS_ATRT", "VTS_PTT_SRPT", "PGCIT",
              "TITLE_C_ADT", "TITLE_VOBU_ADMAP"}
NoTables  == [n \in Range(Vmg) \cup Range(Vts) |-> "none"]

\* The tables of a title lie within its file, the mandatory ones are there, and the
\* entries of its PGCI tables are PGCs of the title.
WellFormed(c, title) ==
    /\ c.size \in Nat /\ c.size > 0
    /\ \A n \in DOMAIN c \cap (DOMAIN NoTables \ {"FP_PGC"}) :
          c[n].head \cup c[n].body \subseteq 0 .. c.size - 1
    /\ "FP_PGC" \in DOMAIN c =>
          UNION {c["FP_PGC"].head, c["FP_PGC"].commands, c["FP_PGC"].arrays,
                 c["FP_PGC"].maps} \subseteq 0 .. c.size - 1
    /\ (Mandatory \ {"FP_PGC"}) \cap Range(Order(title)) \subseteq DOMAIN c
    /\ "PGCIT" \in DOMAIN c => /\ c["PGCIT"].pgcs \in Seq(DOMAIN c.pgcs)
                               /\ Len(c["PGCIT"].pgcs) <= MaxSrps
    /\ "PGCI_UT" \in DOMAIN c => c["PGCI_UT"].lus \in Seq(DOMAIN c.its)
    /\ \A id \in DOMAIN c.its : /\ c.its[id].pgcs \in Seq(DOMAIN c.pgcs)
                                /\ Len(c.its[id].pgcs) <= MaxSrps

ASSUME DvdIfoAssumption ==
    /\ MaxSrps \in Nat /\ MaxSrps >= 2
    /\ \A d \in Discs, t \in Titles, copy \in {"IFO", "BUP"} : d[t][copy].len \in Int
    /\ \A t \in Titles : WellFormed(Contents[t], t)

File    == disc[call.title][IF backup THEN "BUP" ELSE "IFO"]
Content == Contents[call.title]

\* 1 << title is an int, and the machine shifts by title modulo 32: titles that
\* are 32 apart in the same word share a flag.
FlagOf(title) == IF title > 63 THEN <<0, (title - 64) % 32>> ELSE <<1, title % 32>>

-------------------------------------------------------------------------------
(***************************************************************************)
(* Reading parts, tables and PGCs                                          *)
(***************************************************************************)
Got(f, part) == IF \E s \in part : s >= f.len THEN {"short"}
                ELSE IF part \cap f.bad # {} THEN {"read", "lost"}
                ELSE {"read"}

\* What becomes of a table: "whole", "torn" (zeros in its body), "empty" (zeros
\* for its head), "none", or "stale" (released, and the handle still has it).
Table(f, c, cut, zero) ==
    {IF h = "short" THEN cut
     ELSE IF h = "lost" THEN zero
     ELSE IF b = "short" THEN "none"
     ELSE IF b = "lost" THEN "torn"
     ELSE "whole" : h \in Got(f, c.head), b \in Got(f, c.body)}

\* A head of zeros makes most of the readers ask for a body of 0 bytes, and
\* DVDReadBytes() returns 0 for it; the two address tables find their last_byte
\* too small.
TT_SRPT(f, c)      == Table(f, c, "stale", "none")
VTS_ATRT(f, c)     == Table(f, c, "none", "none")
VTS_PTT_SRPT(f, c) == Table(f, c, "none", "none")
VTS_TMAPT(f, c)    == Table(f, c, "none", "none")
C_ADT(f, c)        == Table(f, c, "none", "none")
VOBU_ADMAP(f, c)   == Table(f, c, "none", "none")
PTL_MAIT(f, c)     == Table(f, c, "none", "empty")
TXTDT_MGI(f, c)    == Table(f, c, "none", "empty")

\* ifoRead_X() of the tables that have no PGCs; one that the header does not
\* point to is not read.
SimpleTable(f, n) ==
    IF n \notin DOMAIN Content THEN {"none"}
    ELSE CASE n = "TT_SRPT"      -> TT_SRPT(f, Content[n])
           [] n = "VTS_ATRT"     -> VTS_ATRT(f, Content[n])
           [] n = "VTS_PTT_SRPT" -> VTS_PTT_SRPT(f, Content[n])
           [] n = "VTS_TMAPT"    -> VTS_TMAPT(f, Content[n])
           [] n = "PTL_MAIT"     -> PTL_MAIT(f, Content[n])
           [] n = "TXTDT_MGI"    -> TXTDT_MGI(f, Content[n])
           [] n \in {"C_ADT", "TITLE_C_ADT"} -> C_ADT(f, Content[n])
           [] OTHER -> VOBU_ADMAP(f, Content[n])

\* ifoRead_PGC_COMMAND_TBL(): its head, and three arrays of commands.  An array
\* that is cut off has been released when the table that points to it is given up.
CommandTable(f, c) ==
    {IF h = "short" THEN "none"
     ELSE IF h = "lost" THEN "torn"
     ELSE IF a = "short" THEN "stale"
     ELSE IF a = "lost" THEN "torn"
     ELSE "whole" : h \in Got(f, c.commands), a \in Got(f, c.arrays)}

\* Program map, cell playback and cell positions.
Maps(f, c) == Got(f, c.maps)

PGC(f, c) ==
    {IF h = "short" THEN "none"
     ELSE IF h = "lost" THEN "empty"
     ELSE IF k \in {"none", "stale"} THEN k
     ELSE IF m = "short" THEN "none"
     ELSE IF k = "torn" \/ m = "lost" THEN "torn"
     ELSE "whole" :
     h \in Got(f, c.head), k \in CommandTable(f, c), m \in Maps(f, c)}

\* The head and the entries of a PGCI table: entries of zeros all point to the
\* table itself, which is then read as a PGC.  "broken" is a table with a number
\* of entries and without entries.
Garbage == "garbage"
Entries(f, c) ==
    {IF h = "short" THEN [is |-> "none", want |-> <<>>]
     ELSE IF h = "lost" THEN [is |-> "empty", want |-> <<>>]
     ELSE IF b = "short" THEN [is |-> "broken", want |-> <<>>]
     ELSE IF b = "lost" THEN [is |-> "torn", want |-> [i \in 1 .. Len(c.pgcs) |-> Garbage]]
     ELSE [is |-> "whole", want |-> c.pgcs] :
     h \in Got(f, c.head), b \in Got(f, c.body)}

\* What a table at a wrong place may look like.
GarbageEntries == {[is |-> "none", want |-> <<>>], [is |-> "broken", want |-> <<>>],
                   [is |-> "torn", want |-> <<>>],
                   [is |-> "torn", want |-> <<Garbage, Garbage>>]}

EntriesOf(f, id) == IF id = Garbage THEN GarbageEntries ELSE Entries(f, Content.its[id])
PgcOf(f, id)     == IF id = Garbage THEN {"torn", "none"} ELSE PGC(f, Content.pgcs[id])

\* find_dup_pgc(), find_dup_lut(): the first of the entries before i that refers
\* to the same place, or 0.
FindDup(want, i) == IF \E j \in 1 .. i - 1 : want[j] = want[i]
                    THEN Min({j \in 1 .. i - 1 : want[j] = want[i]}) ELSE 0

-------------------------------------------------------------------------------
(***************************************************************************)
(* Opening                                                                 *)
(***************************************************************************)
Init == /\ disc \in Discs /\ flags = {}
        /\ call = [kind |-> "ifoOpen", title |-> 0] /\ calls = 0
        /\ backup = FALSE /\ second = FALSE /\ pc = "idle"
        /\ todo = <<>> /\ tables = NoTables /\ pgcs = <<>> /\ its = <<>>
        /\ vts = Null /\ ut = <<>> /\ lus = <<>> /\ rel = <<>> /\ after = "idle"

\* ifoGetBupFlag() says with which copy to begin.
Call(kind, title) ==
    /\ pc \in {"idle", "null"} /\ calls < MaxCalls
    /\ kind = "ifoOpenVMGI" => title = 0
    /\ kind = "ifoOpenVTSI" => title \in 1 .. 99
    /\ call' = [kind |-> kind, title |-> title] /\ calls' = calls + 1
    /\ backup' = (FlagOf(title) \in flags) /\ second' = FALSE /\ pc' = "open"
    /\ UNCHANGED <<disc, flags, data>>

OpenFile ==
    /\ pc = "open"
    /\ pc' = IF File.len = Missing THEN "failed"
             ELSE IF call.kind = "ifoOpenVTSI" THEN "vts"
             ELSE "vmg"
    /\ pgcs' = <<>> /\ its' = <<>> /\ lus' = <<>>
    /\ UNCHANGED <<disc, flags, call, calls, backup, second>>
    /\ UNCHANGED <<todo, tables, vts, ut, rel, after>>

\* What follows when the file has turned out to be the IFO that was asked for.
Begin == IF call.kind = "ifoOpen"
           THEN pc' = "tables" /\ todo' = Order(call.title) /\ UNCHANGED after
           ELSE pc' = "have" /\ UNCHANGED <<todo, after>>
\* goto ifoOpen_fail
GiveUp == pc' = "close" /\ after' = "failed" /\ UNCHANGED todo

\* The identifier at the start of the file tells the two apart; zeros are neither.
ReadVMG == /\ pc = "vmg"
           /\ \E r \in Got(File, {0}) :
                 IF r = "read" /\ call.title = 0 THEN Begin
                 ELSE IF call.kind = "ifoOpen"
                   THEN pc' = "vts" /\ UNCHANGED <<todo, after>>
                   ELSE GiveUp
           /\ UNCHANGED <<disc, flags, call, calls, backup, second>>
           /\ UNCHANGED <<tables, pgcs, its, vts, ut, lus, rel>>

ReadVTS == /\ pc = "vts"
           /\ \E r \in Got(File, {0}) :
                 IF r = "read" /\ call.title # 0 THEN Begin ELSE GiveUp
           /\ UNCHANGED <<disc, flags, call, calls, backup, second>>
           /\ UNCHANGED <<tables, pgcs, its, vts, ut, lus, rel>>

GoOn   == pc' = "tables" /\ todo' = Tail(todo) /\ UNCHANGED after
NextIs(n) == pc = "tables" /\ todo # <<>> /\ Head(todo) = n

ReadTable ==
    /\ \E n \in DOMAIN tables \ {"FP_PGC", "PGCI_UT", "PGCIT"} :
          /\ NextIs(n)
          /\ \E r \in SimpleTable(File, n) :
                /\ tables' = [tables EXCEPT ![n] = r]
                /\ IF r \in {"none", "stale"} /\ n \in Mandatory THEN GiveUp ELSE GoOn
    /\ UNCHANGED <<disc, flags, call, calls, backup, second>>
    /\ UNCHANGED <<pgcs, its, vts, ut, lus, rel>>

\* ifoRead_FP_PGC(): a PGC with a stale command array is released once more.
ReadFP ==
    /\ NextIs("FP_PGC")
    /\ IF "FP_PGC" \notin DOMAIN Content THEN GoOn /\ UNCHANGED tables
       ELSE \E r \in PGC(File, Content["FP_PGC"]) :
               /\ tables' = [tables EXCEPT !["FP_PGC"] =
                                IF r = "stale" THEN "none" ELSE r]
               /\ \/ r = "stale" /\ pc' = "died" /\ UNCHANGED <<todo, after>>
                  \/ r \in {"none", "stale"} /\ GiveUp
                  \/ r \notin {"none", "stale"} /\ GoOn
    /\ UNCHANGED <<disc, flags, call, calls, backup, second>>
    /\ UNCHANGED <<pgcs, its, vts, ut, lus, rel>>

NewTable(want) == [refs |-> 1, live |-> TRUE, want |-> want, srp |-> <<>>]

ReadPGCIT ==
    /\ NextIs("PGCIT")
    /\ IF "PGCIT" \notin DOMAIN Content THEN GiveUp /\ UNCHANGED <<its, vts>>
       ELSE \E r \in Entries(File, Content["PGCIT"]) :
               IF r.is \in {"none", "broken"} THEN GiveUp /\ UNCHANGED <<its, vts>>
               ELSE /\ its' = Append(its, NewTable(r.want)) /\ vts' = Len(its) + 1
                    /\ pc' = "pgcs" /\ UNCHANGED <<todo, after>>
    /\ UNCHANGED <<disc, flags, call, calls, backup, second>>
    /\ UNCHANGED <<tables, pgcs, ut, lus, rel>>

\* Mutant: the duplicate is not counted.
NotCounted(p) == pgcs

\* pgc->ref_count++
Counted(p) == [pgcs EXCEPT ![p].refs = @ + 1]

\* The loop of ifoRead_PGCIT_internal(), on the table allocated last.  A PGC that
\* cannot be read leaves a null pointer, through which a later duplicate goes.
ReadSrp ==
    /\ pc = "pgcs"
    /\ LET t == Len(its)  i == Len(its[t].srp) + 1  d == FindDup(its[t].want, i)
           Enter(p) == its' = [its EXCEPT ![t].srp = Append(@, p)]
       IN  IF i > Len(its[t].want) THEN
              /\ IF vts = t THEN GoOn ELSE pc' = "lus" /\ UNCHANGED <<todo, after>>
              /\ UNCHANGED <<its, pgcs>>
           ELSE /\ UNCHANGED <<todo, after>>
                /\ IF d # 0 THEN
                      LET p == its[t].srp[d] IN
                      IF p = Null THEN pc' = "died" /\ UNCHANGED <<its, pgcs>>
                      ELSE /\ Enter(p) /\ UNCHANGED pc
                           /\ pgcs' = Counted(p)
                   ELSE \E r \in PgcOf(File, its[t].want[i]) :
                           IF r \in {"none", "stale"}
                             THEN Enter(Null) /\ UNCHANGED <<pgcs, pc>>
                             ELSE /\ Enter(Len(pgcs) + 1) /\ UNCHANGED pc
                                  /\ pgcs' = Append(pgcs, [refs |-> 1, live |-> TRUE,
                                                           is |-> r])
    /\ UNCHANGED <<disc, flags, call, calls, backup, second>>
    /\ UNCHANGED <<tables, vts, ut, lus, rel>>

\* ifoRead_PGCI_UT(), of the disc's or the title set's menus: optional.
ReadUT ==
    /\ NextIs("PGCI_UT")
    /\ IF "PGCI_UT" \notin DOMAIN Content THEN GoOn /\ UNCHANGED lus
       ELSE LET c == Content["PGCI_UT"]
            IN  \E h \in Got(File, c.head), b \in Got(File, c.body) :
                   IF h # "read" \/ b = "short" THEN GoOn /\ UNCHANGED lus
                   ELSE /\ lus' = IF b = "read" THEN c.lus
                                  ELSE [i \in 1 .. Len(c.lus) |-> Garbage]
                        /\ pc' = "lus" /\ UNCHANGED <<todo, after>>
    /\ UNCHANGED <<disc, flags, call, calls, backup, second>>
    /\ UNCHANGED <<tables, pgcs, its, vts, ut, rel>>

\* All language units up to this one are released with the table.
Unwind(units) == /\ pc' = "release" /\ rel' = units /\ after' = "tables"
                 /\ ut' = <<>> /\ todo' = Tail(todo)

ReadLu ==
    /\ pc = "lus"
    /\ LET i == Len(ut) + 1  d == FindDup(lus, i) IN
       IF i > Len(lus) THEN GoOn /\ UNCHANGED <<its, ut, rel>>
       ELSE IF d # 0 THEN /\ ut' = Append(ut, ut[d])
                          /\ its' = [its EXCEPT ![ut[d]].refs = @ + 1]
                          /\ UNCHANGED <<pc, todo, after, rel>>
       ELSE \E r \in EntriesOf(File, lus[i]) :
               /\ its' = Append(its, NewTable(r.want))
               /\ CASE r.is = "broken" -> pc' = "died" /\ UNCHANGED <<todo, after, ut, rel>>
                    [] r.is = "none"   -> Unwind(Append(ut, Len(its) + 1))
                    [] OTHER -> /\ ut' = Append(ut, Len(its) + 1) /\ pc' = "pgcs"
                                /\ UNCHANGED <<todo, after, rel>>
    /\ UNCHANGED <<disc, flags, call, calls, backup, second>>
    /\ UNCHANGED <<tables, pgcs, vts, lus>>

\* ifoSetBupFlag() is called when a second attempt succeeds and the first was not
\* made with the BUP.
Return == /\ pc = "tables" /\ todo = <<>> /\ pc' = "have"
          /\ flags' = IF second THEN flags \cup {FlagOf(call.title)} ELSE flags
          /\ UNCHANGED <<disc, call, calls, backup, second, data>>

-------------------------------------------------------------------------------
(***************************************************************************)
(* Closing                                                                 *)
(***************************************************************************)
\* ifoClose() by the program, or for a handle that could not be filled.
UserClose == /\ pc = "have" /\ pc' = "close" /\ after' = "idle"
             /\ UNCHANGED <<disc, flags, call, calls, backup, second>>
             /\ UNCHANGED <<todo, tables, pgcs, its, vts, ut, lus, rel>>

\* ifoFree_TT_SRPT() of a table released before: undefined.
Close == /\ pc = "close"
         /\ \/ pc' = "release"
            \/ tables["TT_SRPT"] = "stale" /\ pc' = "died"
         /\ tables' = NoTables /\ todo' = <<>>
         /\ rel' = ut \o (IF vts = Null THEN <<>> ELSE <<vts>>)
         /\ ut' = <<>> /\ vts' = Null
         /\ UNCHANGED <<disc, flags, call, calls, backup, second, pgcs, its, lus, after>>

\* ifoFree_PGC() of the first of the remaining entries of PGCI table t.
DropPgc(t) == LET p == Head(its[t].srp) IN
    IF p = Null THEN pgcs
    ELSE [pgcs EXCEPT ![p].refs = @ - 1, ![p].live = pgcs[p].refs > 1]

Drained(t) == its[t].srp = <<>>

\* ifoFree_PGCIT_internal()
Release ==
    /\ pc = "release"
    /\ IF rel = <<>> THEN pc' = after /\ UNCHANGED <<its, pgcs, rel>>
       ELSE LET t == Head(rel) IN
            /\ UNCHANGED pc
            /\ IF its[t].refs > 1
                 THEN /\ its' = [its EXCEPT ![t].refs = @ - 1]
                      /\ rel' = Tail(rel) /\ UNCHANGED pgcs
               ELSE IF ~Drained(t)
                 THEN /\ pgcs' = DropPgc(t)
                      /\ its' = [its EXCEPT ![t].srp = Tail(@)]
                      /\ UNCHANGED rel
               ELSE /\ its' = [its EXCEPT ![t].refs = 0, ![t].live = FALSE]
                    /\ rel' = Tail(rel) /\ UNCHANGED pgcs
    /\ UNCHANGED <<disc, flags, call, calls, backup, second>>
    /\ UNCHANGED <<todo, tables, vts, ut, lus, after>>

\* Mutant: ifoOpenVTSI() returns when a file is not there, too.
NoneIfMissing == \/ call.kind = "ifoOpen" /\ ~second
                 \/ call.kind # "ifoOpen" /\ ~backup /\ File.len # Missing

\* ifoOpen() makes a second attempt, with the BUP, whatever the first was;
\* ifoOpenVMGI() returns when a file is not there; ifoOpenVTSI() goes on.
Retries == \/ call.kind = "ifoOpen" /\ ~second
           \/ call.kind = "ifoOpenVMGI" /\ ~backup /\ File.len # Missing
           \/ call.kind = "ifoOpenVTSI" /\ ~backup

\* A copy could not be opened or filled.
Failed == /\ pc = "failed"
          /\ IF Retries
               THEN backup' = TRUE /\ second' = (call.kind = "ifoOpen") /\ pc' = "open"
               ELSE pc' = "null" /\ UNCHANGED <<backup, second>>
          /\ UNCHANGED <<disc, flags, call, calls, data>>

Next == \/ \E kind \in {"ifoOpen", "ifoOpenVMGI", "ifoOpenVTSI"}, title \in Titles :
              Call(kind, title)
        \/ OpenFile \/ ReadVMG \/ ReadVTS \/ ReadTable \/ ReadFP \/ ReadPGCIT
        \/ ReadSrp \/ ReadUT \/ ReadLu \/ Return \/ UserClose \/ Close \/ Release \/ Failed

Spec == Init /\ [][Next]_vars

-------------------------------------------------------------------------------
(***************************************************************************)
(* Properties                                                              *)
(***************************************************************************)
Size(title) == Contents[title].size
Damaged(f, title) == f.len < Size(title) \/ f.bad # {}

\* The references to PGCI table t, and those to PGC p.
TableRefs(t) == Cardinality({i \in DOMAIN ut : ut[i] = t})
              + Cardinality({i \in DOMAIN rel : rel[i] = t})
              + (IF vts = t THEN 1 ELSE 0)
PgcRefs(p) == Cardinality({r \in (DOMAIN its) \X (1 .. MaxSrps) :
                              /\ r[2] \in DOMAIN its[r[1]].srp
                              /\ its[r[1]].srp[r[2]] = p})

\* The count of a shared PGC or PGCI table is that of its references.
Counts == pc # "died" =>
    /\ \A t \in DOMAIN its : its[t].refs = TableRefs(t) /\ its[t].live = (its[t].refs > 0)
    /\ \A p \in DOMAIN pgcs : pgcs[p].refs = PgcRefs(p) /\ pgcs[p].live = (pgcs[p].refs > 0)

\* After ifoClose(), or an open that returns no handle, no PGC and no PGCI table
\* is left over (ifo_read.h: "This will free all data allocated for the
\* substructures").
NothingLeft == pc \in {"idle", "null", "failed"} =>
    /\ \A t \in DOMAIN its : ~its[t].live
    /\ \A p \in DOMAIN pgcs : ~pgcs[p].live

\* A shared object is counted as often as it is referred to, while tables are read,
\* given up half-way or closed: no entry refers to one that has been released, none is
\* released twice, and in the end all are (ifoRead_PGCIT_internal(), ifoClose()).
RefsCounted == Counts /\ NothingLeft

HeadsRead == pc = "have" /\ call.kind = "ifoOpen" =>
    \A n \in Range(Order(call.title)) \cap (Mandatory \ {"FP_PGC", "PGCIT"}) :
        tables[n] \in {"whole", "torn"}

FallsBack == pc = "null" /\ call.kind # "ifoOpenVMGI" =>
    \A copy \in {"IFO", "BUP"} : Damaged(disc[call.title][copy], call.title)

\* Every mandatory table of a handle, but for the PGCs, has been read at least in its
\* head, although each reader takes a failed read for a success: a table whose counts
\* are lost makes the open fall back to the BUP.  And an open fails only if both copies
\* are damaged: whatever was opened before, whichever copies were used, and however
\* often reads of a bad sector succeed (ifoOpen()).
OpensRight == HeadsRead /\ FallsBack

===============================================================================
