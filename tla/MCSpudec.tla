------------------------------ MODULE MCSpudec ------------------------------
(* Streams of subtitles for TLC: every small picture on its own, and every  *)
(* sequence of three units of the shapes that discs have.                   *)
EXTENDS Spudec

Plain(p) == [k \in 1 .. 5 |-> p]
Lines == {Plain(0), Plain(2), <<0, 0, 1, 0, 0>>, <<3, 1, 2, 0, 0>>, <<0, 0, 0, 0, 1>>}

Set == <<"colors", "alpha", "area", "lines">>
Shown == <<[date |-> 0, cmds |-> Set \o <<"start">>], [date |-> 2, cmds |-> <<"stop">>]>>

\* The commands a unit of a stream may have
Usual == Shown
Fades == <<[date |-> 0, cmds |-> Set \o <<"force">>], [date |-> 1, cmds |-> <<"alpha", "unknown">>],
           [date |-> 2, cmds |-> <<"stop">>]>>
Stays == <<[date |-> 0, cmds |-> Set \o <<"start">>]>>

\* The runs of a line of pixels; fill: the last one is up to the end
Runs(row) ==
  LET Join(rs, p) == IF rs # <<>> /\ Last(rs)[2] = p
                     THEN Append(Front(rs), <<Last(rs)[1] + 1, p>>)
                     ELSE Append(rs, <<1, p>>)
  IN  FoldLeft(Join, <<>>, row)
Coded(row, fill) == IF fill THEN Append(Front(Runs(row)), <<0, Last(row)>>) ELSE Runs(row)

UnitOf(rows, fill, lens, padded, program, pts) ==
  [width |-> Len(rows[1]), lines |-> [k \in DOMAIN rows |-> Coded(rows[k], fill)],
   lens |-> lens, padded |-> padded, program |-> program, pts |-> pts]

Picture1 == <<<<0, 1, 1, 1, 0>>, <<0, 0, 0, 0, 1>>, <<0, 2, 2, 0, 0>>, Plain(0)>>
Picture2 == <<<<0, 0, 2, 3, 0>>, Plain(0), <<3, 3, 0, 0, 0>>, Plain(0)>>
Picture3 == <<Plain(3), <<1, 2, 3, 0, 0>>, Plain(1), Plain(0)>>

\* One title of every picture
Alone == {<<UnitOf(<<a, b, c, Plain(3)>>, fill, <<20>>, FALSE, Usual, 1)>> :
            a \in Lines, b \in Lines, c \in Lines, fill \in BOOLEAN}

\* Lines with runs of all lengths of code
Long == {<<<<70, 0>>>>, <<<<66, 1>>, <<4, 2>>>>, <<<<3, 2>>, <<17, 1>>, <<0, 3>>>>}
Wide == {<<[UnitOf(<<<<0>>>>, FALSE, <<20>>, FALSE, Usual, 1) EXCEPT
              !.width = 70, !.lines = <<a, b, <<<<70, 1>>>>>>]>> : a \in Long, b \in Long}

\* Shapes: a single fragment, several, a padded size, a fade, no stop
Shape(rows, n, pts) ==
  CASE n = 1 -> UnitOf(rows, TRUE, <<20>>, FALSE, Usual, pts)
    [] n = 2 -> UnitOf(rows, FALSE, <<12, 12, 8>>, FALSE, Usual, pts)
    [] n = 3 -> UnitOf(rows, TRUE, <<12, 9>>, TRUE, Fades, pts)
    [] n = 4 -> UnitOf(rows, FALSE, <<12, 12>>, FALSE, Stays, pts)

\* The distances of the units are short or longer than Gap
Several == {<<Shape(Picture1, a, 3), Shape(Picture2, b, 3 + g), Shape(Picture3, c, 3 + g + h)>> :
              a \in 1 .. 4, b \in 1 .. 4, c \in 1 .. 4, g \in {3, 12}, h \in {3, 12}}

MCBorders == {-1, 0, 1}
MCScripts == Alone \cup Wide \cup Several

ASSUME InOrder == Orderly
=============================================================================
