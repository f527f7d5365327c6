------------------------------ MODULE MCPlayCell -------------------------------
(* Cells of up to three VOBUs, empty ones among them, interleaved with another *)
(* cell or not, with up to two sectors that cannot be read and up to one that  *)
(* sometimes can.                                                              *)
EXTENDS PlayCell, FiniteSets

MCCells == {<<"nav">>, <<"nav", "av">>, <<"nav", "nav", "av">>,
            <<"nav", "av", "av", "av", "nav", "av">>,
            <<"nav", "av", "nav", "nav", "av">>,
            <<"nav", "av", "alien", "gap", "nav", "av">>,
            <<"nav", "nav", "alien", "nav">>,
            <<"nav", "av", "sys", "nav">>}
MCFew(c, n) == {x \in SUBSET (1 .. Len(c)) : Cardinality(x) <= n}
MCJobs == {j \in UNION {[cell : {c}, bad : MCFew(c, 2), flaky : MCFew(c, 1),
                         ignore : {"yes", "no"}, report : {"yes", "no"}] :
                            c \in MCCells} :
             j.bad \cap j.flaky = {}}
MCScr == [s \in Nat |-> s - 1]
===============================================================================
