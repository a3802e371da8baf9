------------------------------- MODULE MCLirc -------------------------------
(* Model checking of Lirc: one remote with two buttons, four files in use,   *)
(* and every file of up to five lines over seven kinds of line.              *)
EXTENDS Lirc

CONSTANTS r, A, B, m, n, x, y

MCNames == {ALL, Prog, r, A, B, m, n, x, y}
MCPress == {[remote |-> r, button |-> A], [remote |-> r, button |-> B]}

L(key, value) == [key |-> key, value |-> value]
Begin == L("begin", NULL)
End == L("end", NULL)
Ours == L("prog", Prog)
Word(w) == <<w>>
Given(lines) == <<Begin, Ours>> \o lines \o <<End>>
Buttons(codes) == [i \in DOMAIN codes |-> L("button", codes[i])]

\* Sequences that overlap themselves, and a key that may be held.
Sequences ==
  Given(Buttons(<<A, A, B>>) \o <<L("config", x)>>) \o
  Given(<<L("remote", r)>> \o Buttons(<<ALL, A, B>>) \o <<L("config", x)>>) \o
  <<Begin, L("button", A), L("blank", NULL), L("repeat", 2), Ours, L("config", x), L("config", y)>>

\* Modes: the starting mode m is left for n, in which a quit hides the last entry.
ModesFile ==
  Given(<<L("mode", m), L("flags", <<Word("startup_mode")>>)>>) \o
  <<L("begin", m)>> \o
  Given(<<L("button", A), L("config", x), L("config", y)>>) \o
  Given(<<L("button", B), L("mode", n), L("flags", <<<<"once">>>>), L("config", x)>>) \o
  <<L("end", m), L("begin", n)>> \o
  Given(<<L("button", A), L("config", y), L("flags", <<Word("quit"), Word("mode")>>)>>) \o
  <<L("end", n)>> \o
  Given(<<L("button", ALL), L("config", x)>>)

\* A wildcard behind a code that is none.
Wildcard == Given(<<L("remote", r)>> \o Buttons(<<A, ALL, A>>) \o <<L("config", x)>>)

Broken == <<Begin, Ours, L("button", A), Begin>>

MCFiles == {Sequences, ModesFile, Wildcard, Broken}
MCEdits == {ModesFile, Broken}

MCShapes ==
  BoundedSeq({Begin, End, L("begin", m), L("end", m), L("remote", r), L("button", A), L("word", NULL)}, 5)
=============================================================================
