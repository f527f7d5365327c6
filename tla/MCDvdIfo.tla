------------------------------- MODULE MCDvdIfo -------------------------------
(***************************************************************************)
(* Instances of DvdIfo: the IFO of the disc and those of title sets, with  *)
(* shared PGCs and language units.  One title at a time has damaged files: *)
(* each copy is missing, cut off somewhere, or has one bad sector.         *)
(***************************************************************************)
EXTENDS DvdIfo

At(s) == [head |-> {s}, body |-> {s + 1}]

Pgc(s) == [head |-> {s}, commands |-> {s}, arrays |-> {s + 1}, maps |-> {s + 1}]
Bare(s) == [head |-> {s}, commands |-> {}, arrays |-> {}, maps |-> {}]

\* Two of three entries of the first language unit refer to one PGC, and two of
\* three language units to one table.
Menus(s) == [head |-> {s}, body |-> {s + 1}, lus |-> <<"en", "fr", "en">>]
Its(s)   == [i \in {"en", "fr"} |->
                [head |-> {s}, body |-> {s + 1},
                 pgcs |-> IF i = "en" THEN <<"p", "q", "p">> ELSE <<"q">>]]
Pgcs(s)  == [i \in {"p", "q"} |-> IF i = "p" THEN Pgc(s) ELSE Bare(s + 1)]

VmgContent ==
    [size |-> 11, FP_PGC |-> Pgc(1), TT_SRPT |-> At(2), PGCI_UT |-> Menus(3),
     PTL_MAIT |-> At(7), VTS_ATRT |-> At(8), TXTDT_MGI |-> At(9),
     C_ADT |-> At(9), VOBU_ADMAP |-> At(9), its |-> Its(4), pgcs |-> Pgcs(5)]
VtsContent ==
    [size |-> 11, VTS_PTT_SRPT |-> At(1),
     PGCIT |-> [head |-> {2}, body |-> {3}, pgcs |-> <<"q", "p", "q">>],
     PGCI_UT |-> Menus(5), VTS_TMAPT |-> At(7), C_ADT |-> At(8),
     VOBU_ADMAP |-> At(8), TITLE_C_ADT |-> At(8), TITLE_VOBU_ADMAP |-> At(9),
     its |-> Its(6), pgcs |-> Pgcs(4)]
Good == [len |-> 11, bad |-> {}]
Files == {[len |-> n, bad |-> {}] : n \in -1 .. 11 } \cup
         {[len |-> 11, bad |-> {s}] : s \in 0 .. 10}

MCContents == [t \in {0, 1} |-> IF t = 0 THEN VmgContent ELSE VtsContent]
MCDiscs == {[t \in {0, 1} |-> IF t = hurt THEN [IFO |-> ifo, BUP |-> bup]
                              ELSE [IFO |-> Good, BUP |-> Good]] :
               hurt \in {0, 1}, ifo \in Files, bup \in Files}
===============================================================================
