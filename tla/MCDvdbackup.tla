----------------------------- MODULE MCDvdbackup -------------------------------
(* Two small VOBs, up to two bad blocks; titles of up to three cells in any   *)
(* order, that may overlap, repeat or leave gaps.                               *)
EXTENDS Dvdbackup, FiniteSets

MCEnds == [i \in 0 .. 2 |-> IF i = 0 THEN 0 ELSE IF i = 1 THEN 4 ELSE 7]
MCDiscs == {[mode |-> m, bad |-> b] : m \in {"file", "css"},
              b \in {s \in SUBSET Blocks : Cardinality(s) <= 2}}

MCMirror == {[kind |-> "mirror", strategy |-> s, disc |-> d] :
               s \in Strategies, d \in MCDiscs}

\* One program for every cell and one chapter for every program.
Cell == {c \in [first : Blocks, last : Blocks] : c.last - c.first \in {0, 3}}
Title(s) == [cells |-> s, map |-> [i \in 1 .. Len(s) |-> i],
             ptt |-> [i \in 1 .. Len(s) |-> i]]
MCFew == {[mode |-> m, bad |-> b] : m \in {"file", "css"}, b \in {{}, {3}}}
MCChapters == {[kind |-> "chapters", title |-> Title(<<a, b, c>>),
                from |-> 1, to |-> u, disc |-> d] :
                 a, b, c \in Cell, u \in {2, 9}, d \in MCFew}

MCJobs == MCMirror \cup MCChapters
===============================================================================
