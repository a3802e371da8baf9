----------------------------- MODULE LircConfig -----------------------------
(***************************************************************************)
(* Reading the remote control's configuration: lirc_readconfig, lirc_mode, *)
(* lirc_flags and lirc_startupmode.  A file is a sequence of lines; a line *)
(* is its token and what follows it.  Names that differ in case only are   *)
(* the same name.  No check function is passed, memory does not run out.   *)
(***************************************************************************)
EXTENDS Naturals, SequencesExt

CONSTANTS
  ALL,   \* LIRC_ALL: any remote, any button
  NULL,
  Prog,  \* lirc_prog: the name the daemon listens to
  Names  \* what the values of a file may be

ASSUME LircNames == ALL \in Names /\ Prog \in Names /\ NULL \notin Names

\* Tokens of lines with '=', which lirc_readconfig understands in an entry.
Assignment == {"prog", "remote", "button", "repeat", "config", "mode", "flags", "other"}

\* "begin" and "end" may name a mode; "word" is any other line of one or two
\* words, "blank" one that is empty, a comment or longer.
Token == Assignment \cup {"begin", "end", "word", "blank"}

Flag == {"once", "quit", "mode", "startup_mode"}

\* What may follow each token.  The words of a flags line are grouped by blanks.
Group == Seq(Flag \cup {"unknown"}) \ {<<>>}
Line ==
  [key : {"begin", "end"}, value : Names \cup {NULL}] \cup
  [key : {"prog", "remote", "button", "config", "mode"}, value : Names] \cup
  [key : {"repeat"}, value : Nat] \cup
  [key : {"flags"}, value : Seq(Group) \ {<<>>}] \cup
  [key : {"other", "word", "blank"}, value : {NULL}]

Code == [remote : Names, button : Names]
Entry ==
  [prog : Names \cup {NULL}, codes : Seq(Code), rep : Nat, config : Seq(Names),
   change : Names \cup {NULL}, flags : SUBSET Flag, mode : Names \cup {NULL}]

\* A null pointer is neither an entry nor a list of them.
ASSUME PointerAssumption == NULL \notin Entry /\ NULL \notin Seq(Entry)

NewEntry ==
  [prog |-> NULL, codes |-> <<>>, rep |-> 0, config |-> <<>>,
   change |-> NULL, flags |-> {}, mode |-> NULL]

\* The state of the loop over the lines.
Start == [entry |-> NULL, mode |-> NULL, remote |-> ALL, list |-> <<>>, failed |-> FALSE]

-----------------------------------------------------------------------------
(* One line.                                                               *)

\* The words of a flags line.  Only the first
\* call of strtok splits at "|": of words joined by "|" the first group may have
\* two, and any other group one.
Flags(groups) ==
  LET tokens == <<SubSeq(Head(groups), 1, 1), Tail(Head(groups))>> \o Tail(groups)
  IN  {t[1] : t \in {u \in Range(tokens) : Len(u) = 1}} \cap Flag

\* Mutant: the entry is not told which mode it stands in.
CloseWithoutMode(p) == [p EXCEPT !.list = Append(@, p.entry), !.entry = NULL]

Close(p) == [p EXCEPT !.list = Append(@, [p.entry EXCEPT !.mode = p.mode]), !.entry = NULL]

\* lirc_mode and lirc_readconfig print an error and stop.
Refuses(p, line) ==
  \/ line.key = "begin" /\ (p.entry # NULL \/ (line.value # NULL /\ p.mode # NULL))
  \/ line.key = "end" /\ line.value = NULL /\ p.entry = NULL
  \/ line.key = "end" /\ line.value # NULL /\ (p.mode # line.value \/ p.entry # NULL)
  \/ line.key \in Assignment /\ p.entry = NULL

\* begin and end, with or without the name of a mode.
Bracket(p, line) ==
  CASE line.key = "begin" /\ line.value = NULL -> [p EXCEPT !.entry = NewEntry]
    [] line.key = "begin" /\ line.value # NULL -> [p EXCEPT !.mode = line.value]
    [] line.key = "end" /\ line.value = NULL -> Close(p)
    [] line.key = "end" /\ line.value # NULL -> [p EXCEPT !.mode = NULL]
    [] OTHER -> p

\* A line with '=' inside an entry.
Assign(p, line) ==
  CASE line.key = "prog" -> [p EXCEPT !.entry.prog = line.value]
    [] line.key = "remote" -> [p EXCEPT !.remote = line.value]
    [] line.key = "button" ->
         [p EXCEPT !.entry.codes = Append(@, [remote |-> p.remote, button |-> line.value])]
    [] line.key = "repeat" -> [p EXCEPT !.entry.rep = line.value]
    [] line.key = "config" -> [p EXCEPT !.entry.config = Append(@, line.value)]
    [] line.key = "mode" -> [p EXCEPT !.entry.change = line.value]
    [] line.key = "flags" -> [p EXCEPT !.entry.flags = Flags(line.value)]
    [] OTHER -> p

\* Mutant: the remote of an entry is kept for the next one.
ReadLineKeepsRemote(p, line) ==
  CASE p.failed \/ line.key = "blank" -> p
    [] ~p.failed /\ Refuses(p, line) -> [p EXCEPT !.failed = TRUE]
    [] OTHER -> IF line.key \in Assignment THEN Assign(p, line) ELSE Bracket(p, line)

ReadLine(p, line) ==
  CASE p.failed \/ line.key = "blank" -> p
    [] ~p.failed /\ Refuses(p, line) -> [p EXCEPT !.failed = TRUE]
    [] OTHER ->
         IF line.key \in Assignment THEN Assign(p, line) ELSE [Bracket(p, line) EXCEPT !.remote = ALL]

\* What the loop knows after each line.
After(file) ==
  LET after[n \in 0..Len(file)] == IF n = 0 THEN Start ELSE ReadLine(after[n - 1], file[n])
  IN  after

\* The list of entries, or NULL.  A missing last end is forgiven.
Readconfig(file) ==
  LET p == After(file)[Len(file)]
  IN  IF p.failed THEN NULL ELSE IF p.entry = NULL THEN p.list ELSE Close(p).list

-----------------------------------------------------------------------------
(* The mode in which the daemon starts.                                    *)

\* The entry that names it; 0 when there is none.
StartupEntry(list) ==
  SelectInSeq(list, LAMBDA e : "startup_mode" \in e.flags /\ e.change # NULL)

StartupMode(list) ==
  IF StartupEntry(list) # 0 THEN list[StartupEntry(list)].change
  ELSE IF \E i \in DOMAIN list : list[i].mode = Prog THEN Prog ELSE NULL

\* The entry that named it no longer changes the mode.
StartupEntries(list) ==
  [i \in DOMAIN list |->
    IF i = StartupEntry(list) THEN [list[i] EXCEPT !.change = NULL] ELSE list[i]]

\* The entries that count as having entered it.
StartupOnce(list) ==
  {i \in DOMAIN list :
     /\ StartupMode(list) # NULL
     /\ StartupEntries(list)[i].change = StartupMode(list)
     /\ "once" \in list[i].flags}

-----------------------------------------------------------------------------
(* What a file means, said by the places of its lines.                     *)

Begins(f) == {i \in DOMAIN f : f[i].key = "begin" /\ f[i].value = NULL}
Ends(f) == {i \in DOMAIN f : f[i].key = "end" /\ f[i].value = NULL}
ModeBegins(f) == {i \in DOMAIN f : f[i].key = "begin" /\ f[i].value # NULL}
ModeEnds(f) == {i \in DOMAIN f : f[i].key = "end" /\ f[i].value # NULL}

Before(S, i) == {j \in S : j < i}

\* Of the brackets before i, the one opened last is not closed.
Open(begins, ends, i) == \E b \in Before(begins, i) : \A e \in Before(ends, i) : e < b

Within(f, i) == Open(Begins(f), Ends(f), i)
ModeAt(f, i) ==
  IF Open(ModeBegins(f), ModeEnds(f), i) THEN f[Max(Before(ModeBegins(f), i))].value ELSE NULL

Fits(f, i) ==
  /\ f[i].key \in Assignment => Within(f, i)
  /\ i \in Ends(f) => Within(f, i)
  /\ i \in Begins(f) \cup ModeBegins(f) \cup ModeEnds(f) => ~Within(f, i)
  /\ i \in ModeBegins(f) => ModeAt(f, i) = NULL
  /\ i \in ModeEnds(f) => ModeAt(f, i) = f[i].value
WellFormed(f) == \A i \in DOMAIN f : Fits(f, i)

\* The last line of the entry that begins at i.
LastLine(f, i) == Min({j \in Ends(f) : j > i} \cup {Len(f) + 1}) - 1

\* A set of places in order: the k-th has k - 1 others before it.
InOrder(S) == [k \in 1..Cardinality(S) |-> Min({j \in S : Cardinality(Before(S, j)) = k - 1})]

\* The lines from i to n with the given token.
Places(f, i, n, key) == {j \in i..n : f[j].key = key}

\* The last value given, or the default.
LastValue(f, places, default) == IF places = {} THEN default ELSE f[Max(places)].value

\* The remote in force at line j: the last one named with nothing but
\* assignments and comments in between.
RemoteAt(f, j) ==
  LET named == {k \in Before(DOMAIN f, j) :
                  f[k].key = "remote" /\ \A l \in k..(j - 1) : f[l].key \in Assignment \cup {"blank"}}
  IN  IF named = {} THEN ALL ELSE f[Max(named)].value

\* What the lines from i to n say of the entry that begins at i.
Meaning(f, i, n) ==
  LET buttons == InOrder(Places(f, i, n, "button"))
      configs == InOrder(Places(f, i, n, "config"))
      groups == LastValue(f, Places(f, i, n, "flags"), <<>>)
  IN  [prog |-> LastValue(f, Places(f, i, n, "prog"), NULL),
       codes |-> [k \in DOMAIN buttons |->
                    [remote |-> RemoteAt(f, buttons[k]), button |-> f[buttons[k]].value]],
       rep |-> LastValue(f, Places(f, i, n, "repeat"), 0),
       config |-> [k \in DOMAIN configs |-> f[configs[k]].value],
       change |-> LastValue(f, Places(f, i, n, "mode"), NULL),
       flags |-> {w[1] : w \in Range(groups)} \cap Flag,
       mode |-> ModeAt(f, i)]

\* No two flags are joined by "|".
FlagsApart(f) ==
  \A i \in DOMAIN f : f[i].key = "flags" => \A group \in Range(f[i].value) : Len(group) = 1

\* A file is refused when it is not well-formed, and otherwise read entry by
\* entry as it is written: its lines, the mode around it, and for each button the
\* remote named before it in the same entry.  The parser sees one line at a
\* time and has a few variables.
Faithful(f) ==
  LET begins == InOrder(Begins(f))
  IN  FlagsApart(f) =>
        Readconfig(f) =
          IF WellFormed(f)
          THEN [k \in DOMAIN begins |-> Meaning(f, begins[k], LastLine(f, begins[k]))]
          ELSE NULL
=============================================================================
