------------------------------ MODULE MCBackup ------------------------------
(* Discs and command lines for TLC: some to guess the main feature of, whose *)
(* copy ends soon as a file is in the way, some to be copied.                *)
EXTENDS Backup

O(flags, titleset, title, start, end, aspect) ==
  [flags |-> flags, set |-> titleset, title |-> title, start |-> start, end |-> end, aspect |-> aspect]
Plain(flags) == O(flags, Absent, Absent, Absent, Absent, 3)

F(ifo, menu, vobs) == [ifo |-> ifo, menu |-> menu, vobs |-> vobs]
All(c) == [ifo |-> c, bup |-> c, menu |-> c, vobs |-> [v \in 1 .. MaxVobs |-> c]]
Before(c) == [s \in 0 .. MaxSets |-> All(c)]

Set(size, aspect, audio, files) ==
  [size |-> size, aspect |-> aspect, audio |-> audio, sub |-> audio, channels |-> 2, files |-> files]
Disc(sets, chapters, manager) ==
  [sets |-> sets, manager |-> manager, titles |-> [s \in 1 .. Len(sets) |-> [set |-> s, chapters |-> chapters[s]]]]
Job(opts, disc, place, flaky, before) ==
  [opts |-> opts, disc |-> disc, place |-> place, flaky |-> flaky, before |-> before, name |-> "given"]

Small == F("sound", "none", <<>>)
Guess(n, aspects, chapters) ==
  {Job(O({"feature"}, Absent, Absent, Absent, Absent, p), Disc([s \in 1 .. n |-> Set(z[s], a[s], u[s], Small)], c, Small),
       "file", FALSE, Before("none")) :
     p \in {0, 3}, z \in [1 .. n -> {2, 4, 5}], a \in [1 .. n -> {0, 3}], u \in [1 .. n -> {1, 2}], c \in chapters}
GuessJobs == Guess(2, {0, 3}, [1 .. 2 -> {1, 2}])
             \cup {j \in Guess(3, {0, 3}, [1 .. 3 -> {1, 2}]) : j.disc.sets[3].aspect = 3}

D(one, two) == Disc(<<Set(5, 3, 2, one), Set(2, 3, 1, two)>>, <<2, 1>>, F("sound", "sound", <<>>))
Good == D(F("sound", "none", <<"sound", "sound">>), F("sound", "ragged", <<"sound">>))
Odd  == D(F("empty", "empty", <<"sound", "ragged">>), F("sound", "sound", <<"empty", "sound">>))
Bad  == D(F("sound", "sound", <<"sound">>), F("ragged", "none", <<>>))
InTheWay == {[Before("old") EXCEPT ![1] = [@ EXCEPT !.bup = "other"]], [Before("none") EXCEPT ![1] = [@ EXCEPT !.menu = "other"]],
             [Before("none") EXCEPT ![2] = [@ EXCEPT !.vobs[1] = "other"]]}

Lines == {Plain({"mirror"}), Plain({"feature"}), O({}, 1, Absent, Absent, Absent, 3), O({}, 3, Absent, Absent, Absent, 3),
          O({}, Absent, 1, Absent, Absent, 3), O({}, Absent, 1, 1, Absent, 3), O({}, Absent, 3, Absent, 1, 3)}
CopyJobs == {Job(o, d, "there", f, b) : o \in Lines, d \in {Good, Odd, Bad}, f \in BOOLEAN, b \in {Before("old"), Before("none")} \cup InTheWay}
            \cup {Job(o, Good, p, FALSE, Before("none")) : o \in Lines, p \in {"new", "blocked", "file"}}

\* Command lines that are refused or do other things, and volumes without a name.
OtherLines == {Plain({}), Plain({"info"}), Plain({"info", "mirror"}), O({"mirror"}, 1, Absent, Absent, Absent, 3),
               O({}, 100, Absent, Absent, Absent, 3), O({}, Absent, 0, Absent, Absent, 3), O({}, Absent, 1, 2, 1, 3),
               O({}, Absent, Absent, 1, 2, 3), O({}, Absent, 1, 100, Absent, 3), O({}, Absent, 1, 1, 0, 3), O({"mirror"}, Absent, Absent, Absent, Absent, 1),
               O({"info"}, Absent, Absent, Absent, Absent, 1)}
OtherJobs == {Job(o, Good, "there", FALSE, Before("none")) : o \in OtherLines}
             \cup {[Job(Plain({"mirror"}), Good, "there", FALSE, Before("none")) EXCEPT !.name = n] : n \in {"volume", "generic", "unreadable"}}

MCJobs == GuessJobs \cup CopyJobs \cup OtherJobs
=============================================================================
