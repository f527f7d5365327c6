------------------------------- MODULE MCVobcopy --------------------------------
(* A disc of two title sets, one of them in two parts, with a menu; two titles  *)
(* of which one has more chapters and the other takes longer.  One sector of a  *)
(* title and one of an IFO may fail.                                            *)
EXTENDS Vobcopy

MCTitles == <<[set |-> 1, chapters |-> 2, angles |-> 1, time |-> 5, name |-> "title1"],
              [set |-> 2, chapters |-> 1, angles |-> 1, time |-> 9, name |-> "title2"]>>
MCPartSizes == <<<<2, 1>>, <<2>>>>
MCSizes == [f \in {<<"title", 1>>, <<"title", 2>>, <<"menu", 0>>, <<"menu", 1>>,
                   <<"bup", 0>>, <<"bup", 1>>} |->
              IF f = <<"title", 1>> THEN 3 ELSE IF f[1] = "menu" THEN 1 ELSE 2]
MCHard == {<<"title", 1, 1>>, <<"bup", 1, 0>>}

Entry(name, nr, kind, digit, size) ==
    [name |-> name, nr |-> nr, kind |-> kind, digit |-> digit, size |-> size]
Dots  == <<Entry("dot", 0, "other", 0, 0), Entry("dotdot", 0, "other", 0, 0)>>
Vmg   == <<Entry("vmg.ifo", 0, "info", 10, 2), Entry("vmg.vob", 0, "vob", 10, 1)>>
Vts   == <<Entry("vts1.ifo", 1, "info", 0, 2), Entry("vts1_0", 1, "vob", 0, 1),
           Entry("vts1_2", 1, "vob", 2, 1), Entry("vts2_1", 2, "vob", 1, 2)>>
MCNames == {"title1", "title2", "dot", "dotdot", "vmg.ifo", "vmg.vob",
            "vts1.ifo", "vts1_0", "vts1_2", "vts2_1"}

Job(mode, pick, x, listing) ==
    [mode |-> mode, pick |-> pick, x |-> x, force |-> FALSE, stdout |-> FALSE,
     chapter |-> 0, angle |-> 0, start |-> 0, end |-> 0, mounted |-> TRUE, free |-> 9,
     listing |-> listing, reach |-> TRUE]

MCTitleJobs ==
    {Job("title", 0, FALSE, <<>>),
     [Job("title", -1, TRUE, <<>>) EXCEPT !.start = 1],
     [Job("title", 1, FALSE, <<>>) EXCEPT !.end = 4, !.free = 0],
     [Job("title", 1, FALSE, <<>>) EXCEPT !.stdout = TRUE, !.force = TRUE],
     [Job("title", 2, FALSE, <<>>) EXCEPT !.start = 1, !.end = 1, !.mounted = FALSE],
     [Job("title", 3, TRUE, <<>>) EXCEPT !.chapter = 4]}
MCMirrorJobs ==
    {Job("mirror", 0, FALSE, Dots \o <<Vts[1]>>),
     Job("mirror", 0, FALSE, Dots \o <<Vts[2], Vts[3]>>),
     Job("mirror", 0, TRUE, Dots \o <<Vts[4], Vmg[2]>>),
     Job("mirror", 0, FALSE, Reverse(Dots) \o <<Vmg[2]>> \o Dots),
     [Job("mirror", 0, FALSE, Dots \o Vmg) EXCEPT !.stdout = TRUE],
     [Job("mirror", 0, TRUE, Dots \o Vmg) EXCEPT !.reach = FALSE],
     Job("both", 1, FALSE, <<>>)}
MCJobs == MCTitleJobs \cup MCMirrorJobs
MCOneJob == {Job("title", 1, TRUE, <<>>)}
===============================================================================
