----------------------------- MODULE LircProofs -----------------------------
(***************************************************************************)
(* Proofs about Lirc: what is read from a configuration file, the search   *)
(* through the entries, the stream of lines, what a crash needs, and how   *)
(* far a sequence of codes has got, for every set of files and presses and *)
(* every bound.                                                            *)
(***************************************************************************)
EXTENDS Lirc, SequenceTheorems, FiniteSetTheorems, WellFoundedInduction, TLAPS

-----------------------------------------------------------------------------
(* Reading the configuration.                                              *)

\* A set of numbers has a least one: what the lemmas about Min rest on.
LEMMA Smallest ==
  ASSUME NEW S, S \subseteq Nat, S # {}
  PROVE  Min(S) \in S /\ \A y \in S : Min(S) <= y
<1>1. \E x \in S : \A y \in S : ~(y < x)
  <2>1. PICK x \in S : \A y \in S : ~(<<y, x>> \in OpToRel(<, Nat))
    BY WFMin, NatLessThanWellFounded, Zenon
  <2> QED BY <2>1, Zenon DEF OpToRel
<1>2. \E x \in S : \A y \in S : x <= y
  BY <1>1
<1> QED BY <1>2 DEF Min

\* The greatest of a set of numbers, when it is known.
LEMMA Greatest ==
  ASSUME NEW S, S \subseteq Nat, NEW m \in S, \A y \in S : y <= m
  PROVE  Max(S) = m
<1>1. \E x \in S : \A y \in S : x >= y
  OBVIOUS
<1>2. PICK x \in S : x = Max(S) /\ \A y \in S : x >= y
  BY <1>1 DEF Max
<1>3. x >= m /\ x <= m
  BY <1>2
<1> QED BY <1>2, <1>3

\* What holds of 0 and goes over from a number to the next holds up to n: S are the
\* numbers it holds of.
LEMMA UpTo ==
  ASSUME NEW n \in Nat, NEW S, 0 \in S, \A k \in 0..(n - 1) : k \in S => k + 1 \in S
  PROVE  \A k \in 0..n : k \in S
<1> SUFFICES ASSUME NEW j \in 0..n, j \notin S PROVE FALSE
  OBVIOUS
<1> DEFINE T == {k \in 0..n : k \notin S}
<1>1. PICK m \in T : \A y \in T : m <= y
  <2>1. T \subseteq Nat /\ T # {}
    OBVIOUS
  <2> HIDE DEF T
  <2> QED BY <2>1, Smallest
<1>2. m \in 0..n /\ m \notin S /\ m # 0
  BY <1>1
<1>3. m - 1 \in 0..(n - 1) /\ (m - 1) + 1 = m
  BY <1>2
<1>4. m - 1 \in S
  BY <1>1, <1>3
<1> QED BY <1>2, <1>3, <1>4

\* The loop over the lines computes one state after the other.
LEMMA AfterEach ==
  ASSUME NEW f \in Seq(Line)
  PROVE  After(f) = [n \in 0..Len(f) |-> IF n = 0 THEN Start ELSE ReadLine(After(f)[n - 1], f[n])]
<1> DEFINE Good(n, g) == g = [i \in 0..n |-> IF i = 0 THEN Start ELSE ReadLine(g[i - 1], f[i])]
<1> DEFINE S == {n \in 0..Len(f) : \E g : Good(n, g)}
<1>0. Len(f) \in Nat
  OBVIOUS
<1>1. 0 \in S
  <2>1. Good(0, [i \in 0..0 |-> Start])
    OBVIOUS
  <2>2. \E g : Good(0, g)
    <3> HIDE DEF Good
    <3> QED BY <2>1
  <2> HIDE DEF Good
  <2> QED BY <1>0, <2>2
<1>2. ASSUME NEW k \in 0..(Len(f) - 1), k \in S PROVE k + 1 \in S
  <2>1. PICK g : Good(k, g)
    BY <1>2
  <2> DEFINE h == [i \in 0..(k + 1) |-> IF i <= k THEN g[i] ELSE ReadLine(g[k], f[k + 1])]
  <2>2. ASSUME NEW i \in 0..(k + 1)
        PROVE  h[i] = IF i = 0 THEN Start ELSE ReadLine(h[i - 1], f[i])
    <3>1. CASE i = 0
      BY <2>1, <3>1
    <3>2. CASE i # 0 /\ i <= k
      <4>1. h[i] = g[i] /\ h[i - 1] = g[i - 1]
        BY <3>2
      <4>2. g[i] = ReadLine(g[i - 1], f[i])
        BY <2>1, <3>2
      <4> QED BY <3>2, <4>1, <4>2
    <3>3. CASE i = k + 1
      <4>1. h[i - 1] = g[k] /\ h[i] = ReadLine(g[k], f[k + 1])
        BY <3>3
      <4> QED BY <3>3, <4>1
    <3> QED BY <3>1, <3>2, <3>3
  <2>3. Good(k + 1, h)
    <3> HIDE DEF h
    <3>1. h = [i \in 0..(k + 1) |-> h[i]]
      BY DEF h
    <3> QED BY <2>2, <3>1
  <2>4. k + 1 \in 0..Len(f) /\ \E r : Good(k + 1, r)
    <3> HIDE DEF Good, h
    <3> QED BY <2>3, <1>0
  <2> HIDE DEF Good
  <2> QED BY <2>4
<1>3. Len(f) \in S
  <2> HIDE DEF S
  <2>1. \A k \in 0..(Len(f) - 1) : k \in S => k + 1 \in S
    BY <1>2
  <2>2. \A k \in 0..Len(f) : k \in S
    BY <1>0, <1>1, <2>1, UpTo
  <2> QED BY <1>0, <2>2
<1>4. \E g : Good(Len(f), g)
  BY <1>3
<1>5. After(f) = CHOOSE g : Good(Len(f), g)
  BY DEF After
<1>6. Good(Len(f), After(f))
  <2> HIDE DEF Good
  <2> QED BY <1>4, <1>5, Zenon
<1> QED BY <1>6

\* What the variables of the loop may hold.
State ==
  [entry : Entry \cup {NULL}, mode : Names \cup {NULL}, remote : Names, list : Seq(Entry),
   failed : BOOLEAN]

\* The loop begins with nothing read.
LEMMA StartType == Start \in State
BY LircNames DEF Start, State

\* An assignment keeps an entry an entry; only "remote" changes something else.
LEMMA AssignType ==
  ASSUME NEW p \in State, NEW line \in Line, p.entry # NULL
  PROVE  /\ Assign(p, line) \in State /\ Assign(p, line).entry # NULL
         /\ line.key # "remote" => Assign(p, line) = [p EXCEPT !.entry = Assign(p, line).entry]
<1> DEFINE e == p.entry
<1>1. e \in Entry /\ p \in State
  BY DEF State
<1>2. NULL \notin Entry
  BY PointerAssumption
<1>3. ASSUME NEW d \in Entry PROVE [p EXCEPT !.entry = d] \in State /\ [p EXCEPT !.entry = d].entry = d
  BY <1>1 DEF State
<1>4. CASE line.key \in {"prog", "mode"}
  <2>1. line.value \in Names
    BY <1>4 DEF Line
  <2>2. [e EXCEPT !.prog = line.value] \in Entry /\ [e EXCEPT !.change = line.value] \in Entry
    BY <1>1, <2>1 DEF Entry
  <2>3. Assign(p, line) = [p EXCEPT !.entry = [e EXCEPT !.prog = line.value]]
        \/ Assign(p, line) = [p EXCEPT !.entry = [e EXCEPT !.change = line.value]]
    BY <1>4 DEF Assign
  <2> HIDE DEF e
  <2> QED BY <1>2, <1>3, <2>2, <2>3
<1>5. CASE line.key = "remote"
  <2>1. line.value \in Names
    BY <1>5 DEF Line
  <2> QED BY <1>1, <1>5, <2>1 DEF Assign, State
<1>6. CASE line.key = "button"
  <2>1. line.value \in Names /\ p.remote \in Names
    BY <1>1, <1>6 DEF Line, State
  <2>2. [remote |-> p.remote, button |-> line.value] \in Code /\ e.codes \in Seq(Code)
    BY <1>1, <2>1 DEF Code, Entry
  <2>3. Append(e.codes, [remote |-> p.remote, button |-> line.value]) \in Seq(Code)
    BY <2>2
  <2>4. [e EXCEPT !.codes = Append(@, [remote |-> p.remote, button |-> line.value])] \in Entry
    BY <1>1, <2>3 DEF Entry
  <2>5. Assign(p, line) =
          [p EXCEPT !.entry = [e EXCEPT !.codes = Append(@, [remote |-> p.remote, button |-> line.value])]]
    BY <1>6 DEF Assign
  <2> HIDE DEF e
  <2> QED BY <1>2, <1>3, <2>4, <2>5
<1>7. CASE line.key = "repeat"
  <2>1. line.value \in Nat
    BY <1>7 DEF Line
  <2>2. [e EXCEPT !.rep = line.value] \in Entry
    BY <1>1, <2>1 DEF Entry
  <2>3. Assign(p, line) = [p EXCEPT !.entry = [e EXCEPT !.rep = line.value]]
    BY <1>7 DEF Assign
  <2> HIDE DEF e
  <2> QED BY <1>2, <1>3, <2>2, <2>3
<1>8. CASE line.key = "config"
  <2>1. line.value \in Names /\ e.config \in Seq(Names)
    BY <1>1, <1>8 DEF Line, Entry
  <2>2. Append(e.config, line.value) \in Seq(Names)
    BY <2>1
  <2>3. [e EXCEPT !.config = Append(@, line.value)] \in Entry
    BY <1>1, <2>2 DEF Entry
  <2>4. Assign(p, line) = [p EXCEPT !.entry = [e EXCEPT !.config = Append(@, line.value)]]
    BY <1>8 DEF Assign
  <2> HIDE DEF e
  <2> QED BY <1>2, <1>3, <2>3, <2>4
<1>9. CASE line.key = "flags"
  <2>1. Flags(line.value) \in SUBSET Flag
    BY DEF Flags
  <2>2. [e EXCEPT !.flags = Flags(line.value)] \in Entry
    BY <1>1, <2>1 DEF Entry
  <2>3. Assign(p, line) = [p EXCEPT !.entry = [e EXCEPT !.flags = Flags(line.value)]]
    BY <1>9 DEF Assign
  <2> HIDE DEF e
  <2> QED BY <1>2, <1>3, <2>2, <2>3
<1>10. CASE line.key \in {"begin", "end", "other", "word", "blank"}
  BY <1>1, <1>10 DEF Assign, State
<1> QED BY <1>4, <1>5, <1>6, <1>7, <1>8, <1>9, <1>10 DEF Line

\* Closing an entry adds it to the list.
LEMMA CloseType ==
  ASSUME NEW p \in State, p.entry # NULL
  PROVE  /\ Close(p) \in State /\ [p.entry EXCEPT !.mode = p.mode] \in Entry
         /\ Close(p) = [p EXCEPT !.list = Append(p.list, [p.entry EXCEPT !.mode = p.mode]),
                                 !.entry = NULL]
<1>1. p.entry \in Entry /\ p.mode \in Names \cup {NULL} /\ p.list \in Seq(Entry)
  BY DEF State
<1>2. [p.entry EXCEPT !.mode = p.mode] \in Entry
  BY <1>1 DEF Entry
<1>3. Append(p.list, [p.entry EXCEPT !.mode = p.mode]) \in Seq(Entry)
  BY <1>1, <1>2
<1> QED BY <1>2, <1>3 DEF Close, State

\* A new entry is one.
LEMMA NewEntryType == NewEntry \in Entry
<1>1. <<>> \in Seq(Code) /\ <<>> \in Seq(Names)
  OBVIOUS
<1> QED BY <1>1 DEF NewEntry, Entry

\* A line that is not refused leaves the variables typed.
LEMMA ReadLineType ==
  ASSUME NEW p \in State, NEW line \in Line
  PROVE  ReadLine(p, line) \in State
<1>1. CASE p.failed \/ line.key = "blank"
  <2>1. line.key = "blank" => ~Refuses(p, line)
    BY DEF Refuses, Assignment
  <2> QED BY <1>1, <2>1 DEF ReadLine
<1>2. CASE ~p.failed /\ line.key # "blank" /\ Refuses(p, line)
  <2>1. ReadLine(p, line) = [p EXCEPT !.failed = TRUE]
    BY <1>2 DEF ReadLine
  <2> QED BY <2>1 DEF State
<1>3. CASE ~p.failed /\ line.key # "blank" /\ ~Refuses(p, line)
  <2>1. CASE line.key \in Assignment
    <3>1. ReadLine(p, line) = Assign(p, line)
      BY <1>3, <2>1 DEF ReadLine
    <3>2. p.entry # NULL
      BY <1>3, <2>1 DEF Refuses
    <3> QED BY <3>1, <3>2, AssignType
  <2>2. CASE line.key \notin Assignment
    <3>1. ReadLine(p, line) = [Bracket(p, line) EXCEPT !.remote = ALL]
      BY <1>3, <2>2 DEF ReadLine
    <3>2. Bracket(p, line) \in State
      <4>1. CASE line.key = "end" /\ line.value = NULL
        <5>1. p.entry # NULL
          BY <1>3, <4>1 DEF Refuses
        <5> QED BY <4>1, <5>1, CloseType DEF Bracket
      <4>2. CASE line.key = "begin" /\ line.value = NULL
        BY <4>2, NewEntryType DEF Bracket, State
      <4>3. CASE line.key \in {"begin", "end"} /\ line.value # NULL
        <5>1. line.value \in Names
          BY <4>3 DEF Line
        <5> QED BY <4>3, <5>1 DEF Bracket, State
      <4>4. CASE line.key \notin {"begin", "end"}
        BY <4>4 DEF Bracket
      <4> QED BY <4>1, <4>2, <4>3, <4>4
    <3> QED BY <3>1, <3>2, LircNames DEF State
  <2> QED BY <2>1, <2>2
<1> QED BY <1>1, <1>2, <1>3

\* After every line the variables are typed.
LEMMA AfterType ==
  ASSUME NEW f \in Seq(Line), NEW n \in 0..Len(f)
  PROVE  After(f)[n] \in State
<1> DEFINE S == {k \in 0..Len(f) : After(f)[k] \in State}
<1>1. Len(f) \in Nat
  OBVIOUS
<1>2. After(f)[0] = Start /\ \A k \in 1..Len(f) : After(f)[k] = ReadLine(After(f)[k - 1], f[k])
  BY AfterEach
<1>3. 0 \in S
  BY <1>1, <1>2, StartType
<1>4. ASSUME NEW k \in 0..(Len(f) - 1), k \in S PROVE k + 1 \in S
  <2>1. k + 1 \in 1..Len(f) /\ (k + 1) - 1 = k /\ f[k + 1] \in Line
    BY <1>1
  <2>2. After(f)[k + 1] = ReadLine(After(f)[k], f[k + 1])
    BY <1>2, <2>1
  <2>3. After(f)[k] \in State
    BY <1>4
  <2> QED BY <2>1, <2>2, <2>3, ReadLineType
<1>5. \A k \in 0..Len(f) : k \in S
  <2> HIDE DEF S
  <2>1. \A k \in 0..(Len(f) - 1) : k \in S => k + 1 \in S
    BY <1>4
  <2> QED BY <1>1, <1>3, <2>1, UpTo
<1> QED BY <1>5

\* What lirc_readconfig returns is a list of entries, if anything.
LEMMA ReadconfigType ==
  ASSUME NEW f \in Seq(Line)
  PROVE  Readconfig(f) = NULL \/ Readconfig(f) \in Seq(Entry)
<1>1. Len(f) \in 0..Len(f)
  OBVIOUS
<1>2. After(f)[Len(f)] \in State
  BY <1>1, AfterType
<1>3. After(f)[Len(f)].entry # NULL => Close(After(f)[Len(f)]) \in State
  BY <1>2, CloseType
<1> QED BY <1>2, <1>3 DEF Readconfig, State

(* What the variables of the loop stand for when line m is next.           *)

\* The entries that are complete, and the one that is not.
Finished(f, m) == {b \in Begins(f) : \E e \in Ends(f) : b < e /\ e < m}
Opened(f, m, b) ==
  /\ b \in Before(Begins(f), m)
  /\ \A e \in Before(Ends(f), m) : e < b
  /\ Before(Begins(f), m) = Finished(f, m) \cup {b}

\* The entries found at the places of S, in their order.
EntriesAt(f, S) ==
  [k \in 1..Cardinality(S) |-> Meaning(f, InOrder(S)[k], LastLine(f, InOrder(S)[k]))]

EntryInv(f, m, p) ==
  \/ p.entry = NULL /\ ~Within(f, m)
  \/ \E b \in DOMAIN f :
       /\ p.entry # NULL /\ Opened(f, m, b)
       /\ p.entry = [Meaning(f, b, m - 1) EXCEPT !.mode = NULL] /\ p.mode = ModeAt(f, b)

ReadInv(f, m, p) ==
  /\ p.failed <=> \E i \in 1..(m - 1) : ~Fits(f, i)
  /\ ~p.failed =>
       /\ p.mode = ModeAt(f, m) /\ p.remote = RemoteAt(f, m)
       /\ p.list = EntriesAt(f, Finished(f, m))
       /\ EntryInv(f, m, p)

\* One line more.
LEMMA BeforeStep ==
  ASSUME NEW S \in SUBSET Nat, NEW m \in Nat
  PROVE  Before(S, m + 1) = IF m \in S THEN Before(S, m) \cup {m} ELSE Before(S, m)
<1>1. ASSUME NEW j \in S PROVE j < m + 1 <=> j < m \/ j = m
  OBVIOUS
<1>2. ~(m < m)
  OBVIOUS
<1> QED BY <1>1, <1>2, Zenon DEF Before

\* A bracket opens or closes behind itself.
LEMMA OpenStep ==
  ASSUME NEW B \in SUBSET Nat, NEW E \in SUBSET Nat, NEW m \in Nat, B \cap E = {}
  PROVE  /\ m \in B => Open(B, E, m + 1)
         /\ m \in E => ~Open(B, E, m + 1)
         /\ m \notin B \cup E => (Open(B, E, m + 1) <=> Open(B, E, m))
<1>1. CASE m \in B
  <2>1. m \in Before(B, m + 1) /\ m \notin E
    BY <1>1 DEF Before
  <2>2. \A e \in Before(E, m + 1) : e < m
    BY <2>1 DEF Before
  <2> QED BY <1>1, <2>1, <2>2 DEF Open
<1>2. CASE m \in E
  <2>1. m \in Before(E, m + 1) /\ m \notin B
    BY <1>2 DEF Before
  <2>2. \A b \in Before(B, m + 1) : ~(m < b)
    BY DEF Before
  <2>3. ~Open(B, E, m + 1)
    <3> SUFFICES ASSUME NEW b \in Before(B, m + 1) PROVE ~(\A e \in Before(E, m + 1) : e < b)
      BY DEF Open
    <3> QED BY <2>1, <2>2
  <2> QED BY <1>2, <2>1, <2>3
<1>3. CASE m \notin B \cup E
  <2>1. Before(B, m + 1) = Before(B, m) /\ Before(E, m + 1) = Before(E, m)
    BY <1>3, BeforeStep
  <2> QED BY <1>3, <2>1 DEF Open
<1> QED BY <1>1, <1>2, <1>3

\* The four kinds of brackets are disjoint sets of places.
LEMMA Brackets ==
  ASSUME NEW f \in Seq(Line)
  PROVE  /\ DOMAIN f = 1..Len(f) /\ Len(f) \in Nat
         /\ Begins(f) \in SUBSET Nat /\ Ends(f) \in SUBSET Nat
         /\ ModeBegins(f) \in SUBSET Nat /\ ModeEnds(f) \in SUBSET Nat
         /\ Begins(f) \subseteq DOMAIN f /\ Ends(f) \subseteq DOMAIN f
         /\ ModeBegins(f) \subseteq DOMAIN f /\ ModeEnds(f) \subseteq DOMAIN f
         /\ Begins(f) \cap Ends(f) = {} /\ ModeBegins(f) \cap ModeEnds(f) = {}
<1>1. DOMAIN f = 1..Len(f) /\ Len(f) \in Nat
  OBVIOUS
<1>2. 1..Len(f) \subseteq Nat
  BY <1>1
<1> QED BY <1>1, <1>2 DEF Begins, Ends, ModeBegins, ModeEnds

\* The mode around the next line.
LEMMA ModeStep ==
  ASSUME NEW f \in Seq(Line), NEW m \in DOMAIN f
  PROVE  /\ m \in ModeBegins(f) => ModeAt(f, m + 1) = f[m].value
         /\ m \in ModeEnds(f) => ModeAt(f, m + 1) = NULL
         /\ m \notin ModeBegins(f) \cup ModeEnds(f) => ModeAt(f, m + 1) = ModeAt(f, m)
<1> DEFINE B == ModeBegins(f)
           E == ModeEnds(f)
<1>1. B \in SUBSET Nat /\ E \in SUBSET Nat /\ m \in Nat /\ B \cap E = {}
  BY Brackets
<1>2. /\ m \in B => Open(B, E, m + 1)
      /\ m \in E => ~Open(B, E, m + 1)
      /\ m \notin B \cup E => (Open(B, E, m + 1) <=> Open(B, E, m))
  BY <1>1, OpenStep
<1>3. Before(B, m + 1) = IF m \in B THEN Before(B, m) \cup {m} ELSE Before(B, m)
  BY <1>1, BeforeStep
<1>4. ASSUME m \in B PROVE Max(Before(B, m + 1)) = m
  <2>1. Before(B, m + 1) \subseteq Nat /\ m \in Before(B, m + 1)
        /\ \A y \in Before(B, m + 1) : y <= m
    BY <1>1, <1>4 DEF Before
  <2> QED BY <2>1, Greatest
<1> QED BY <1>2, <1>3, <1>4 DEF ModeAt

\* Whether the next line stands in an entry.
LEMMA WithinStep ==
  ASSUME NEW f \in Seq(Line), NEW m \in DOMAIN f
  PROVE  /\ m \in Begins(f) => Within(f, m + 1)
         /\ m \in Ends(f) => ~Within(f, m + 1)
         /\ m \notin Begins(f) \cup Ends(f) => (Within(f, m + 1) <=> Within(f, m))
<1>1. m \in Nat
  BY Brackets
<1> QED BY <1>1, Brackets, OpenStep DEF Within

\* The remote in force for the next line.
LEMMA RemoteStep ==
  ASSUME NEW f \in Seq(Line), NEW m \in DOMAIN f
  PROVE  RemoteAt(f, m + 1) =
           IF f[m].key = "remote" THEN f[m].value
           ELSE IF f[m].key \in Assignment \cup {"blank"} THEN RemoteAt(f, m) ELSE ALL
<1> DEFINE Named(j) == {k \in Before(DOMAIN f, j) :
              f[k].key = "remote" /\ \A l \in k..(j - 1) : f[l].key \in Assignment \cup {"blank"}}
<1>1. m \in Nat /\ DOMAIN f \subseteq Nat
  BY Brackets
<1>2. CASE f[m].key = "remote"
  <2>1. m \in Named(m + 1)
    BY <1>1, <1>2 DEF Before, Assignment
  <2>2. Named(m + 1) \subseteq Nat /\ \A y \in Named(m + 1) : y <= m
    BY <1>1 DEF Before
  <2>3. Max(Named(m + 1)) = m
    <3> HIDE DEF Named
    <3> QED BY <2>1, <2>2, Greatest
  <2> QED BY <1>2, <2>1, <2>3 DEF RemoteAt
<1>3. CASE f[m].key # "remote" /\ f[m].key \in Assignment \cup {"blank"}
  <2>1. Named(m + 1) = Named(m)
    <3>1. ASSUME NEW k \in DOMAIN f, k < m PROVE k \in Named(m + 1) <=> k \in Named(m)
      <4>1. k \in Nat /\ k..((m + 1) - 1) = (k..(m - 1)) \cup {m}
        BY <1>1, <3>1
      <4> QED BY <1>1, <1>3, <3>1, <4>1 DEF Before
    <3>2. \A k \in Named(m + 1) : k \in DOMAIN f /\ k < m
      BY <1>1, <1>3 DEF Before
    <3>3. \A k \in Named(m) : k \in DOMAIN f /\ k < m
      BY DEF Before
    <3> HIDE DEF Named
    <3> QED BY <3>1, <3>2, <3>3
  <2> QED BY <1>3, <2>1 DEF RemoteAt
<1>4. CASE f[m].key \notin Assignment \cup {"blank"}
  <2>1. Named(m + 1) = {}
    <3> SUFFICES ASSUME NEW k \in Named(m + 1) PROVE FALSE
      OBVIOUS
    <3>1. k \in Nat /\ k <= m /\ \A l \in k..((m + 1) - 1) : f[l].key \in Assignment \cup {"blank"}
      BY <1>1 DEF Before
    <3>2. m \in k..((m + 1) - 1)
      BY <1>1, <3>1
    <3> QED BY <1>4, <3>1, <3>2
  <2>2. f[m].key # "remote"
    BY <1>4 DEF Assignment
  <2> QED BY <1>4, <2>1, <2>2 DEF RemoteAt
<1> QED BY <1>2, <1>3, <1>4

\* The line is refused exactly when it does not fit.
LEMMA RefusesStep ==
  ASSUME NEW f \in Seq(Line), NEW m \in DOMAIN f, NEW p \in State,
         p.mode = ModeAt(f, m), p.entry # NULL <=> Within(f, m)
  PROVE  Refuses(p, f[m]) <=> ~Fits(f, m)
BY DEF Refuses, Fits, Begins, Ends, ModeBegins, ModeEnds

\* The places of S that are at most n: none are lost before a place behind all.
LEMMA InOrderAppend ==
  ASSUME NEW S \in SUBSET Nat, IsFiniteSet(S), NEW m \in Nat, \A j \in S : j < m
  PROVE  /\ IsFiniteSet(S \cup {m}) /\ Cardinality(S) \in Nat
         /\ Cardinality(S \cup {m}) = Cardinality(S) + 1
         /\ InOrder(S \cup {m})[Cardinality(S) + 1] = m
         /\ \A k \in 1..Cardinality(S) : InOrder(S \cup {m})[k] = InOrder(S)[k]
<1> DEFINE c == Cardinality(S)
           Th(T, k) == {j \in T : Cardinality(Before(T, j)) = k - 1}
<1>1. m \notin S
  OBVIOUS
<1>2. IsFiniteSet(S \cup {m}) /\ c \in Nat /\ Cardinality(S \cup {m}) = c + 1
  BY <1>1, FS_AddElement, FS_CardinalityType
<1>3. Before(S \cup {m}, m) = S
  <2>1. ~(m < m)
    OBVIOUS
  <2> QED BY <2>1, Zenon DEF Before
<1>4. ASSUME NEW j \in S PROVE Before(S \cup {m}, j) = Before(S, j) /\ Cardinality(Before(S, j)) < c
  <2>1. Before(S \cup {m}, j) = Before(S, j)
    <3>1. ~(m < j)
      OBVIOUS
    <3> QED BY <3>1, Zenon DEF Before
  <2>2. Before(S, j) \subseteq S /\ j \notin Before(S, j)
    BY DEF Before
  <2>3. IsFiniteSet(Before(S, j)) /\ Cardinality(Before(S, j)) \in Nat
        /\ Cardinality(Before(S, j)) <= c /\ (Cardinality(Before(S, j)) = c => Before(S, j) = S)
    BY <2>2, FS_Subset, FS_CardinalityType
  <2> QED BY <1>2, <2>1, <2>2, <2>3
<1>5. Th(S \cup {m}, c + 1) = {m}
  <2>1. \A j \in S : Cardinality(Before(S \cup {m}, j)) # (c + 1) - 1
    <3> SUFFICES ASSUME NEW j \in S PROVE Cardinality(Before(S \cup {m}, j)) # (c + 1) - 1
      OBVIOUS
    <3>1. Cardinality(Before(S, j)) < c
      BY <1>4
    <3>2. Cardinality(Before(S \cup {m}, j)) = Cardinality(Before(S, j))
      BY <1>4
    <3>3. (c + 1) - 1 = c
      BY <1>2
    <3>4. Cardinality(Before(S, j)) # c
      BY <1>2, <3>1
    <3> QED BY <3>2, <3>3, <3>4
  <2>2. Cardinality(Before(S \cup {m}, m)) = (c + 1) - 1
    BY <1>2, <1>3
  <2> QED BY <2>1, <2>2
<1>6. ASSUME NEW k \in 1..c PROVE Th(S \cup {m}, k) = Th(S, k)
  <2>1. Cardinality(Before(S \cup {m}, m)) # k - 1
    BY <1>2, <1>3
  <2>2. \A j \in S : Cardinality(Before(S \cup {m}, j)) = Cardinality(Before(S, j))
    BY <1>4
  <2> QED BY <2>1, <2>2
<1>7. Min({m}) = m
  BY DEF Min
<1>8. /\ InOrder(S \cup {m}) = [k \in 1..Cardinality(S \cup {m}) |-> Min(Th(S \cup {m}, k))]
      /\ InOrder(S) = [k \in 1..c |-> Min(Th(S, k))]
  BY DEF InOrder
<1> HIDE DEF Th, c
<1>9. /\ \A k \in 1..(c + 1) : InOrder(S \cup {m})[k] = Min(Th(S \cup {m}, k))
      /\ \A k \in 1..c : InOrder(S)[k] = Min(Th(S, k))
  BY <1>2, <1>8
<1>10. InOrder(S \cup {m})[c + 1] = m
  BY <1>2, <1>5, <1>7, <1>9
<1>11. \A k \in 1..c : InOrder(S \cup {m})[k] = InOrder(S)[k]
  BY <1>2, <1>6, <1>9
<1> QED BY <1>2, <1>10, <1>11 DEF c

\* A sequence with one more value than s and the same values before it.
LEMMA GrowsAtEnd ==
  ASSUME NEW X, NEW s \in Seq(X), NEW v \in X, NEW t \in [1..(Len(s) + 1) -> X],
         \A k \in 1..Len(s) : t[k] = s[k], t[Len(s) + 1] = v
  PROVE  t = Append(s, v)
<1>1. Len(s) \in Nat
  OBVIOUS
<1>2. /\ Append(s, v) \in Seq(X) /\ Len(Append(s, v)) = Len(s) + 1
      /\ \A k \in 1..Len(s) : Append(s, v)[k] = s[k]
      /\ Append(s, v)[Len(s) + 1] = v
  BY AppendProperties
<1>3. \A k \in 1..(Len(s) + 1) : t[k] = Append(s, v)[k]
  <2> SUFFICES ASSUME NEW k \in 1..(Len(s) + 1) PROVE t[k] = Append(s, v)[k]
    OBVIOUS
  <2>1. k \in 1..Len(s) \/ k = Len(s) + 1
    BY <1>1
  <2> QED BY <1>2, <2>1
<1>4. Append(s, v) = [k \in 1..(Len(s) + 1) |-> Append(s, v)[k]]
  <2> DEFINE d == Append(s, v)
  <2>1. d \in Seq(X) /\ Len(d) = Len(s) + 1
    BY <1>2
  <2> HIDE DEF d
  <2>2. d = [k \in 1..Len(d) |-> d[k]]
    BY <2>1
  <2>3. d = [k \in 1..(Len(s) + 1) |-> d[k]]
    BY <2>1, <2>2
  <2> QED BY <2>3 DEF d
<1> QED BY <1>1, <1>3, <1>4

\* The places of a token stay when another line is added.
LEMMA PlacesElsewhere ==
  ASSUME NEW f \in Seq(Line), NEW b \in Nat, NEW m \in Nat, b <= m, NEW key, f[m].key # key
  PROVE  Places(f, b, m, key) = Places(f, b, m - 1, key)
<1>1. b..m = (b..(m - 1)) \cup {m}
  OBVIOUS
<1> QED BY <1>1 DEF Places

\* The places before a line are finitely many.
LEMMA PlacesBefore ==
  ASSUME NEW f \in Seq(Line), NEW b \in Nat, NEW m \in Nat, b <= m, NEW key
  PROVE  /\ Places(f, b, m - 1, key) \in SUBSET Nat /\ IsFiniteSet(Places(f, b, m - 1, key))
         /\ \A j \in Places(f, b, m - 1, key) : j < m
<1>1. b..(m - 1) \subseteq Nat /\ \A j \in b..(m - 1) : j < m
  OBVIOUS
<1>2. IsFiniteSet(b..(m - 1))
  <2>1. b \in Int /\ m - 1 \in Int
    OBVIOUS
  <2> QED BY <2>1, FS_Interval
<1>3. Places(f, b, m - 1, key) \subseteq b..(m - 1)
  BY DEF Places
<1>4. IsFiniteSet(Places(f, b, m - 1, key))
  BY <1>2, <1>3, FS_Subset
<1> QED BY <1>1, <1>3, <1>4

\* The last value is the one just given.
LEMMA LastValueStep ==
  ASSUME NEW f, NEW S \in SUBSET Nat, NEW m \in Nat, \A j \in S : j < m, NEW default
  PROVE  LastValue(f, S \cup {m}, default) = f[m].value
<1>1. Max(S \cup {m}) = m
  <2>1. S \cup {m} \subseteq Nat /\ m \in S \cup {m} /\ \A y \in S \cup {m} : y <= m
    OBVIOUS
  <2> QED BY <2>1, Greatest
<1> QED BY <1>1 DEF LastValue

\* The codes and the strings given at the places of S.
CodesAt(f, S) ==
  [k \in 1..Cardinality(S) |->
    [remote |-> RemoteAt(f, InOrder(S)[k]), button |-> f[InOrder(S)[k]].value]]
ValuesAt(f, S) == [k \in 1..Cardinality(S) |-> f[InOrder(S)[k]].value]

\* One more code.
LEMMA CodesStep ==
  ASSUME NEW f, NEW A \in SUBSET Nat, IsFiniteSet(A), NEW m \in Nat, \A j \in A : j < m,
         CodesAt(f, A) \in Seq(Code), [remote |-> RemoteAt(f, m), button |-> f[m].value] \in Code
  PROVE  CodesAt(f, A \cup {m}) = Append(CodesAt(f, A), [remote |-> RemoteAt(f, m), button |-> f[m].value])
<1> DEFINE s == CodesAt(f, A)
           t == CodesAt(f, A \cup {m})
           v == [remote |-> RemoteAt(f, m), button |-> f[m].value]
<1>1. /\ Cardinality(A) \in Nat /\ Cardinality(A \cup {m}) = Cardinality(A) + 1
      /\ InOrder(A \cup {m})[Cardinality(A) + 1] = m
      /\ \A k \in 1..Cardinality(A) : InOrder(A \cup {m})[k] = InOrder(A)[k]
  BY InOrderAppend
<1>2. DOMAIN s = 1..Cardinality(A) /\ t = [k \in 1..Cardinality(A \cup {m}) |-> t[k]]
  BY DEF CodesAt
<1>3. \A k \in 1..Cardinality(A) : k \in 1..Cardinality(A \cup {m})
  BY <1>1
<1>4. Cardinality(A) + 1 \in 1..Cardinality(A \cup {m})
  BY <1>1
<1>5. \A k \in 1..Cardinality(A) : t[k] = s[k]
  BY <1>1, <1>3 DEF CodesAt
<1>6. t[Cardinality(A) + 1] = v
  BY <1>1, <1>4 DEF CodesAt
<1>7. s \in Seq(Code) /\ v \in Code
  OBVIOUS
<1> HIDE DEF s, t, v
<1>8. Len(s) = Cardinality(A)
  BY <1>1, <1>2, <1>7, LenProperties
<1>9. t \in [1..(Len(s) + 1) -> Code]
  <2>1. \A k \in 1..Len(s) : s[k] \in Code
    BY <1>7, ElementOfSeq
  <2>2. \A k \in 1..(Len(s) + 1) : k \in 1..Len(s) \/ k = Len(s) + 1
    BY <1>1, <1>8
  <2>3. \A k \in 1..(Len(s) + 1) : t[k] \in Code
    BY <1>5, <1>6, <1>7, <1>8, <2>1, <2>2
  <2> QED BY <1>1, <1>2, <1>8, <2>3
<1>10. t = Append(s, v)
  BY <1>5, <1>6, <1>7, <1>8, <1>9, GrowsAtEnd
<1> QED BY <1>10 DEF s, t, v

\* One more string.
LEMMA ValuesStep ==
  ASSUME NEW f, NEW A \in SUBSET Nat, IsFiniteSet(A), NEW m \in Nat, \A j \in A : j < m,
         ValuesAt(f, A) \in Seq(Names), f[m].value \in Names
  PROVE  ValuesAt(f, A \cup {m}) = Append(ValuesAt(f, A), f[m].value)
<1> DEFINE s == ValuesAt(f, A)
           t == ValuesAt(f, A \cup {m})
           v == f[m].value
<1>1. /\ Cardinality(A) \in Nat /\ Cardinality(A \cup {m}) = Cardinality(A) + 1
      /\ InOrder(A \cup {m})[Cardinality(A) + 1] = m
      /\ \A k \in 1..Cardinality(A) : InOrder(A \cup {m})[k] = InOrder(A)[k]
  BY InOrderAppend
<1>2. DOMAIN s = 1..Cardinality(A) /\ t = [k \in 1..Cardinality(A \cup {m}) |-> t[k]]
  BY DEF ValuesAt
<1>3. \A k \in 1..Cardinality(A) : k \in 1..Cardinality(A \cup {m})
  BY <1>1
<1>4. Cardinality(A) + 1 \in 1..Cardinality(A \cup {m})
  BY <1>1
<1>5. \A k \in 1..Cardinality(A) : t[k] = s[k]
  BY <1>1, <1>3 DEF ValuesAt
<1>6. t[Cardinality(A) + 1] = v
  BY <1>1, <1>4 DEF ValuesAt
<1>7. s \in Seq(Names) /\ v \in Names
  OBVIOUS
<1> HIDE DEF s, t, v
<1>8. Len(s) = Cardinality(A)
  BY <1>1, <1>2, <1>7, LenProperties
<1>9. t \in [1..(Len(s) + 1) -> Names]
  <2>1. \A k \in 1..Len(s) : s[k] \in Names
    BY <1>7, ElementOfSeq
  <2>2. \A k \in 1..(Len(s) + 1) : k \in 1..Len(s) \/ k = Len(s) + 1
    BY <1>1, <1>8
  <2>3. \A k \in 1..(Len(s) + 1) : t[k] \in Names
    BY <1>5, <1>6, <1>7, <1>8, <2>1, <2>2
  <2> QED BY <1>1, <1>2, <1>8, <2>3
<1>10. t = Append(s, v)
  BY <1>5, <1>6, <1>7, <1>8, <1>9, GrowsAtEnd
<1> QED BY <1>10 DEF s, t, v

\* One more entry.
LEMMA EntriesStep ==
  ASSUME NEW f, NEW A \in SUBSET Nat, IsFiniteSet(A), NEW m \in Nat, \A j \in A : j < m,
         EntriesAt(f, A) \in Seq(Entry), Meaning(f, m, LastLine(f, m)) \in Entry
  PROVE  EntriesAt(f, A \cup {m}) = Append(EntriesAt(f, A), Meaning(f, m, LastLine(f, m)))
<1> DEFINE s == EntriesAt(f, A)
           t == EntriesAt(f, A \cup {m})
           v == Meaning(f, m, LastLine(f, m))
<1>1. /\ Cardinality(A) \in Nat /\ Cardinality(A \cup {m}) = Cardinality(A) + 1
      /\ InOrder(A \cup {m})[Cardinality(A) + 1] = m
      /\ \A k \in 1..Cardinality(A) : InOrder(A \cup {m})[k] = InOrder(A)[k]
  BY InOrderAppend
<1>2. DOMAIN s = 1..Cardinality(A) /\ t = [k \in 1..Cardinality(A \cup {m}) |-> t[k]]
  BY DEF EntriesAt
<1>3. \A k \in 1..Cardinality(A) : k \in 1..Cardinality(A \cup {m})
  BY <1>1
<1>4. Cardinality(A) + 1 \in 1..Cardinality(A \cup {m})
  BY <1>1
<1>5. \A k \in 1..Cardinality(A) : t[k] = s[k]
  BY <1>1, <1>3 DEF EntriesAt
<1>6. t[Cardinality(A) + 1] = v
  BY <1>1, <1>4 DEF EntriesAt
<1>7. s \in Seq(Entry) /\ v \in Entry
  OBVIOUS
<1> HIDE DEF s, t, v
<1>8. Len(s) = Cardinality(A)
  BY <1>1, <1>2, <1>7, LenProperties
<1>9. t \in [1..(Len(s) + 1) -> Entry]
  <2>1. \A k \in 1..Len(s) : s[k] \in Entry
    BY <1>7, ElementOfSeq
  <2>2. \A k \in 1..(Len(s) + 1) : k \in 1..Len(s) \/ k = Len(s) + 1
    BY <1>1, <1>8
  <2>3. \A k \in 1..(Len(s) + 1) : t[k] \in Entry
    BY <1>5, <1>6, <1>7, <1>8, <2>1, <2>2
  <2> QED BY <1>1, <1>2, <1>8, <2>3
<1>10. t = Append(s, v)
  BY <1>5, <1>6, <1>7, <1>8, <1>9, GrowsAtEnd
<1> QED BY <1>10 DEF s, t, v

\* What the lines say, with the sequences under their names.
LEMMA MeaningRecord ==
  ASSUME NEW f, NEW b, NEW n
  PROVE  Meaning(f, b, n) =
           [prog |-> LastValue(f, Places(f, b, n, "prog"), NULL),
            codes |-> CodesAt(f, Places(f, b, n, "button")),
            rep |-> LastValue(f, Places(f, b, n, "repeat"), 0),
            config |-> ValuesAt(f, Places(f, b, n, "config")),
            change |-> LastValue(f, Places(f, b, n, "mode"), NULL),
            flags |-> {w[1] : w \in Range(LastValue(f, Places(f, b, n, "flags"), <<>>))} \cap Flag,
            mode |-> ModeAt(f, b)]
<1>1. \A P : DOMAIN InOrder(P) = 1..Cardinality(P)
  BY DEF InOrder
<1> QED BY <1>1 DEF Meaning, CodesAt, ValuesAt

\* What one more line says of the entry that begins at b.
LEMMA MeaningStep ==
  ASSUME NEW f \in Seq(Line), NEW m \in DOMAIN f, NEW b \in Nat, b <= m,
         Meaning(f, b, m - 1).codes \in Seq(Code), Meaning(f, b, m - 1).config \in Seq(Names),
         RemoteAt(f, m) \in Names
  PROVE  LET line == f[m]
             old == Meaning(f, b, m - 1)
             new == Meaning(f, b, m)
         IN  /\ line.key = "prog" => new = [old EXCEPT !.prog = line.value]
             /\ line.key = "mode" => new = [old EXCEPT !.change = line.value]
             /\ line.key = "repeat" => new = [old EXCEPT !.rep = line.value]
             /\ line.key = "flags" =>
                  new = [old EXCEPT !.flags = {w[1] : w \in Range(line.value)} \cap Flag]
             /\ line.key = "config" => new = [old EXCEPT !.config = Append(@, line.value)]
             /\ line.key = "button" =>
                  new = [old EXCEPT !.codes =
                           Append(@, [remote |-> RemoteAt(f, m), button |-> line.value])]
<1> DEFINE line == f[m]
           old == Meaning(f, b, m - 1)
           new == Meaning(f, b, m)
<1>1. m \in Nat /\ line \in Line
  BY Brackets
<1> DEFINE A(key) == Places(f, b, m - 1, key)
           B(key) == Places(f, b, m, key)
<1>2. ASSUME NEW key, line.key = key
      PROVE  /\ B(key) = A(key) \cup {m}
             /\ \A default : LastValue(f, B(key), default) = line.value
  <2>1. B(key) = A(key) \cup {m}
    <3>1. f[m].key = key /\ m \in Nat
      BY <1>1, <1>2
    <3>2. b..m = (b..(m - 1)) \cup {m}
      BY <3>1
    <3> QED BY <3>1, <3>2 DEF Places
  <2>2. A(key) \in SUBSET Nat /\ \A j \in A(key) : j < m
    BY <1>1, PlacesBefore
  <2> HIDE DEF A, B
  <2>3. ASSUME NEW default PROVE LastValue(f, A(key) \cup {m}, default) = f[m].value
    BY <1>1, <2>2, LastValueStep
  <2> QED BY <2>1, <2>3
<1>3. ASSUME NEW key, line.key # key PROVE B(key) = A(key)
  BY <1>1, <1>3, PlacesElsewhere
<1>4. ASSUME line.key = "config"
      PROVE  ValuesAt(f, B("config")) = Append(old.config, line.value)
  <2>1. A("config") \in SUBSET Nat /\ IsFiniteSet(A("config")) /\ \A j \in A("config") : j < m
    BY <1>1, PlacesBefore
  <2>2. line.value \in Names
    BY <1>1, <1>4 DEF Line
  <2>3. old.config = ValuesAt(f, A("config"))
    BY MeaningRecord
  <2> HIDE DEF A, B
  <2>4. B("config") = A("config") \cup {m}
    BY <1>2, <1>4
  <2>5. ValuesAt(f, A("config") \cup {m}) = Append(ValuesAt(f, A("config")), line.value)
    BY <1>1, <2>1, <2>2, <2>3, ValuesStep
  <2> QED BY <2>3, <2>4, <2>5
<1>5. ASSUME line.key = "button"
      PROVE  CodesAt(f, B("button")) = Append(old.codes, [remote |-> RemoteAt(f, m), button |-> line.value])
  <2>1. A("button") \in SUBSET Nat /\ IsFiniteSet(A("button")) /\ \A j \in A("button") : j < m
    BY <1>1, PlacesBefore
  <2>2. [remote |-> RemoteAt(f, m), button |-> line.value] \in Code
    BY <1>1, <1>5 DEF Line, Code
  <2>3. old.codes = CodesAt(f, A("button"))
    BY MeaningRecord
  <2> HIDE DEF A, B
  <2>4. B("button") = A("button") \cup {m}
    BY <1>2, <1>5
  <2> DEFINE D == A("button")
  <2>5. CodesAt(f, D) \in Seq(Code)
    BY <2>3
  <2>6. D \in SUBSET Nat /\ IsFiniteSet(D) /\ \A j \in D : j < m
    BY <2>1
  <2> HIDE DEF D, old, new
  <2>7. CodesAt(f, D \cup {m}) = Append(CodesAt(f, D), [remote |-> RemoteAt(f, m), button |-> f[m].value])
    BY <1>1, <2>2, <2>5, <2>6, CodesStep
  <2> QED BY <2>3, <2>4, <2>7 DEF D
<1>6. /\ \A key : line.key = key => \A default : LastValue(f, B(key), default) = line.value
      /\ \A key : line.key # key => B(key) = A(key)
  <2> HIDE DEF A, B
  <2> QED BY <1>2, <1>3
<1> DEFINE Words(groups) == {w[1] : w \in Range(groups)} \cap Flag
           Made(P(_)) == [prog |-> LastValue(f, P("prog"), NULL), codes |-> CodesAt(f, P("button")),
              rep |-> LastValue(f, P("repeat"), 0), config |-> ValuesAt(f, P("config")),
              change |-> LastValue(f, P("mode"), NULL),
              flags |-> Words(LastValue(f, P("flags"), <<>>)),
              mode |-> ModeAt(f, b)]
<1>7. old = Made(A) /\ new = Made(B)
  BY MeaningRecord
<1> HIDE DEF A, B, old, new, Words, line
<1>8. ASSUME line.key = "prog" PROVE new = [old EXCEPT !.prog = line.value]
  <2>1. LastValue(f, B("prog"), NULL) = line.value
    BY <1>6, <1>8
  <2>2. /\ B("mode") = A("mode") /\ B("repeat") = A("repeat") /\ B("flags") = A("flags")
        /\ B("config") = A("config") /\ B("button") = A("button")
    BY <1>6, <1>8
  <2> QED BY <1>7, <1>8, <2>1, <2>2
<1>9. ASSUME line.key = "mode" PROVE new = [old EXCEPT !.change = line.value]
  <2>1. LastValue(f, B("mode"), NULL) = line.value
    BY <1>6, <1>9
  <2>2. /\ B("prog") = A("prog") /\ B("repeat") = A("repeat") /\ B("flags") = A("flags")
        /\ B("config") = A("config") /\ B("button") = A("button")
    BY <1>6, <1>9
  <2> QED BY <1>7, <1>9, <2>1, <2>2
<1>10. ASSUME line.key = "repeat" PROVE new = [old EXCEPT !.rep = line.value]
  <2>1. LastValue(f, B("repeat"), 0) = line.value
    BY <1>6, <1>10
  <2>2. /\ B("prog") = A("prog") /\ B("mode") = A("mode") /\ B("flags") = A("flags")
        /\ B("config") = A("config") /\ B("button") = A("button")
    BY <1>6, <1>10
  <2> QED BY <1>7, <1>10, <2>1, <2>2
<1>11. ASSUME line.key = "flags" PROVE new = [old EXCEPT !.flags = Words(line.value)]
  <2>1. LastValue(f, B("flags"), <<>>) = line.value
    BY <1>6, <1>11
  <2>2. /\ B("prog") = A("prog") /\ B("mode") = A("mode") /\ B("repeat") = A("repeat")
        /\ B("config") = A("config") /\ B("button") = A("button")
    BY <1>6, <1>11
  <2> QED BY <1>7, <1>11, <2>1, <2>2
<1>12. ASSUME line.key = "config" PROVE new = [old EXCEPT !.config = Append(@, line.value)]
  <2>1. ValuesAt(f, B("config")) = Append(old.config, line.value)
    BY <1>4, <1>12
  <2>2. /\ B("prog") = A("prog") /\ B("mode") = A("mode") /\ B("repeat") = A("repeat")
        /\ B("flags") = A("flags") /\ B("button") = A("button")
    BY <1>6, <1>12
  <2> DEFINE grown == ValuesAt(f, B("config"))
  <2>3. new = [old EXCEPT !.config = grown]
    BY <1>7, <1>12, <2>2
  <2> HIDE DEF grown
  <2> QED BY <2>1, <2>3 DEF grown
<1>13. ASSUME line.key = "button"
       PROVE  new = [old EXCEPT !.codes = Append(@, [remote |-> RemoteAt(f, m), button |-> line.value])]
  <2>1. CodesAt(f, B("button")) = Append(old.codes, [remote |-> RemoteAt(f, m), button |-> line.value])
    BY <1>5, <1>13
  <2>2. /\ B("prog") = A("prog") /\ B("mode") = A("mode") /\ B("repeat") = A("repeat")
        /\ B("flags") = A("flags") /\ B("config") = A("config")
    BY <1>6, <1>13
  <2> DEFINE grown == CodesAt(f, B("button"))
  <2>3. new = [old EXCEPT !.codes = grown]
    BY <1>7, <1>13, <2>2
  <2> HIDE DEF grown
  <2> QED BY <2>1, <2>3 DEF grown
<1> QED BY <1>8, <1>9, <1>10, <1>11, <1>12, <1>13 DEF line, old, new, Words

\* A line that gives the entry no value says nothing of it.
LEMMA MeaningSame ==
  ASSUME NEW f \in Seq(Line), NEW m \in DOMAIN f, NEW b \in Nat, b <= m,
         f[m].key \notin {"prog", "mode", "repeat", "flags", "config", "button"}
  PROVE  Meaning(f, b, m) = Meaning(f, b, m - 1)
<1>1. m \in Nat /\ f[m] \in Line
  BY Brackets
<1>2. ASSUME NEW key, f[m].key # key PROVE Places(f, b, m, key) = Places(f, b, m - 1, key)
  BY <1>1, <1>2, PlacesElsewhere
<1>3. /\ Places(f, b, m, "prog") = Places(f, b, m - 1, "prog")
      /\ Places(f, b, m, "mode") = Places(f, b, m - 1, "mode")
      /\ Places(f, b, m, "repeat") = Places(f, b, m - 1, "repeat")
      /\ Places(f, b, m, "flags") = Places(f, b, m - 1, "flags")
      /\ Places(f, b, m, "config") = Places(f, b, m - 1, "config")
      /\ Places(f, b, m, "button") = Places(f, b, m - 1, "button")
  BY <1>2
<1> QED BY <1>3, MeaningRecord

\* Without "|", the flags of a line are its words.
LEMMA FlagsAsWritten ==
  ASSUME NEW groups \in Seq(Group) \ {<<>>}, \A group \in Range(groups) : Len(group) = 1
  PROVE  Flags(groups) = {w[1] : w \in Range(groups)} \cap Flag
<1> DEFINE Words == Flag \cup {"unknown"}
           h == Head(groups)
           rest == Tail(groups)
           tokens == <<SubSeq(h, 1, 1), Tail(h)>> \o rest
<1>1. /\ h \in Group /\ h = groups[1] /\ rest \in Seq(Group) /\ Len(rest) = Len(groups) - 1
      /\ Len(groups) \in Nat \ {0} /\ \A i \in 1..Len(rest) : rest[i] = groups[i + 1]
  OBVIOUS
<1>2. h \in Seq(Words) /\ Len(h) = 1
  BY <1>1 DEF Group, Range
<1>3. SubSeq(h, 1, 1) = h /\ Tail(h) = <<>>
  <2>1. SubSeq(h, 1, Len(h)) = h
    BY <1>2, SubSeqFull
  <2>2. Len(h) \in Nat /\ h # <<>>
    <3> HIDE DEF h
    <3>1. Len(h) \in Nat
      BY <1>2
    <3>2. h = <<>> => Len(h) = 0
      BY <1>2
    <3> QED BY <1>2, <3>1, <3>2
  <2>3. Tail(h) \in Seq(Words) /\ Len(Tail(h)) = Len(h) - 1
    BY <1>2, <2>2, HeadTailProperties
  <2>4. Len(Tail(h)) = 0
    BY <1>2, <2>3
  <2>5. Tail(h) = <<>>
    BY <2>3, <2>4, EmptySeq
  <2> QED BY <1>2, <2>1, <2>5
<1>4. tokens = <<h, <<>>>> \o rest
  BY <1>3
<1> HIDE DEF h, rest, tokens
<1>5. <<h, <<>>>> \in Seq(Seq(Words)) /\ rest \in Seq(Seq(Words))
  <2>1. Group \subseteq Seq(Words)
    BY DEF Group
  <2> QED BY <1>1, <1>2, <2>1
<1>6. /\ DOMAIN tokens = 1..(Len(rest) + 2) /\ tokens[1] = h /\ tokens[2] = <<>>
      /\ \A i \in 1..Len(rest) : tokens[i + 2] = rest[i]
  BY <1>1, <1>4, <1>5
<1>7. Range(tokens) = {h, <<>>} \cup Range(rest)
  <2>1. DOMAIN rest = 1..Len(rest) /\ Len(rest) \in Nat
    BY <1>1
  <2>2. ASSUME NEW i \in 1..(Len(rest) + 2) PROVE tokens[i] \in {h, <<>>} \cup Range(rest)
    <3>1. CASE i \in {1, 2}
      BY <1>6, <3>1
    <3>2. CASE i > 2
      <4>1. i - 2 \in 1..Len(rest) /\ (i - 2) + 2 = i
        BY <2>1, <3>2
      <4>2. tokens[i] = rest[i - 2]
        BY <1>6, <4>1
      <4> QED BY <2>1, <4>1, <4>2 DEF Range
    <3> QED BY <2>1, <3>1, <3>2
  <2>3. ASSUME NEW i \in 1..Len(rest) PROVE rest[i] \in Range(tokens)
    <3>1. i + 2 \in 1..(Len(rest) + 2)
      BY <2>1
    <3> QED BY <1>6, <3>1 DEF Range
  <2>4. h \in Range(tokens) /\ <<>> \in Range(tokens)
    <3>1. 1 \in 1..(Len(rest) + 2) /\ 2 \in 1..(Len(rest) + 2)
      BY <2>1
    <3> QED BY <1>6, <3>1 DEF Range
  <2>5. Range(tokens) \subseteq {h, <<>>} \cup Range(rest)
    BY <1>6, <2>2 DEF Range
  <2>6. Range(rest) \subseteq Range(tokens)
    BY <2>1, <2>3 DEF Range
  <2> QED BY <2>4, <2>5, <2>6
<1>8. Range(groups) = {h} \cup Range(rest)
  <2>1. DOMAIN rest = 1..Len(rest) /\ Len(rest) \in Nat /\ DOMAIN groups = 1..(Len(rest) + 1)
    BY <1>1
  <2>2. ASSUME NEW i \in 1..(Len(rest) + 1) PROVE groups[i] \in {h} \cup Range(rest)
    <3>1. CASE i = 1
      BY <1>1, <3>1
    <3>2. CASE i > 1
      <4>1. i - 1 \in 1..Len(rest) /\ (i - 1) + 1 = i
        BY <2>1, <3>2
      <4>2. groups[i] = rest[i - 1]
        BY <1>1, <4>1
      <4> QED BY <2>1, <4>1, <4>2 DEF Range
    <3> QED BY <2>1, <3>1, <3>2
  <2>3. ASSUME NEW i \in 1..Len(rest) PROVE rest[i] \in Range(groups)
    <3>1. i + 1 \in 1..(Len(rest) + 1)
      BY <2>1
    <3> QED BY <1>1, <2>1, <3>1 DEF Range
  <2>4. h \in Range(groups)
    BY <1>1, <2>1 DEF Range
  <2>5. Range(groups) \subseteq {h} \cup Range(rest)
    BY <2>1, <2>2 DEF Range
  <2>6. Range(rest) \subseteq Range(groups)
    BY <2>1, <2>3 DEF Range
  <2> QED BY <2>4, <2>5, <2>6
<1>9. Len(<<>>) # 1
  OBVIOUS
<1>10. {u \in Range(tokens) : Len(u) = 1} = Range(groups)
  BY <1>7, <1>8, <1>9
<1>11. Flags(groups) = {t[1] : t \in {u \in Range(tokens) : Len(u) = 1}} \cap Flag
  BY DEF Flags, tokens, h, rest
<1> QED BY <1>10, <1>11

\* What the loop keeps of a line in an entry is what the line says.
LEMMA AssignStep ==
  ASSUME NEW f \in Seq(Line), NEW m \in DOMAIN f, NEW b \in Nat, b <= m, NEW p \in State,
         p.entry # NULL, p.entry = [Meaning(f, b, m - 1) EXCEPT !.mode = NULL],
         p.remote = RemoteAt(f, m), FlagsApart(f), f[m].key \in Assignment
  PROVE  Assign(p, f[m]).entry = [Meaning(f, b, m) EXCEPT !.mode = NULL]
<1> DEFINE line == f[m]
           old == Meaning(f, b, m - 1)
           new == Meaning(f, b, m)
<1>1. p.entry \in Entry /\ p.remote \in Names /\ line \in Line
  BY Brackets DEF State
<1>2. p.entry = [prog |-> old.prog, codes |-> old.codes, rep |-> old.rep, config |-> old.config,
                 change |-> old.change, flags |-> old.flags, mode |-> NULL]
  <2>1. old = [prog |-> old.prog, codes |-> old.codes, rep |-> old.rep, config |-> old.config,
               change |-> old.change, flags |-> old.flags, mode |-> old.mode]
    BY MeaningRecord
  <2>2. p.entry = [old EXCEPT !.mode = NULL]
    OBVIOUS
  <2> HIDE DEF old
  <2> QED BY <2>1, <2>2
<1>3. old.codes \in Seq(Code) /\ old.config \in Seq(Names)
  <2>1. p.entry.codes = old.codes /\ p.entry.config = old.config
    BY <1>2
  <2>2. p.entry.codes \in Seq(Code) /\ p.entry.config \in Seq(Names)
    BY <1>1 DEF Entry
  <2> HIDE DEF old
  <2> QED BY <2>1, <2>2
<1>4. /\ line.key = "prog" => new = [old EXCEPT !.prog = line.value]
      /\ line.key = "mode" => new = [old EXCEPT !.change = line.value]
      /\ line.key = "repeat" => new = [old EXCEPT !.rep = line.value]
      /\ line.key = "flags" =>
           new = [old EXCEPT !.flags = {w[1] : w \in Range(line.value)} \cap Flag]
      /\ line.key = "config" => new = [old EXCEPT !.config = Append(@, line.value)]
      /\ line.key = "button" =>
           new = [old EXCEPT !.codes = Append(@, [remote |-> RemoteAt(f, m), button |-> line.value])]
  BY <1>1, <1>3, MeaningStep
<1>5. line.key \in {"remote", "other"} => new = old
  BY Brackets, MeaningSame
<1>6. line.key = "flags" => Flags(line.value) = {w[1] : w \in Range(line.value)} \cap Flag
  <2>1. SUFFICES ASSUME line.key = "flags"
                 PROVE  Flags(line.value) = {w[1] : w \in Range(line.value)} \cap Flag
    OBVIOUS
  <2>2. line.value \in Seq(Group) \ {<<>>}
    BY <1>1, <2>1 DEF Line
  <2>3. \A group \in Range(line.value) : Len(group) = 1
    BY <2>1 DEF FlagsApart
  <2> QED BY <2>2, <2>3, FlagsAsWritten
<1>7. old = [prog |-> old.prog, codes |-> old.codes, rep |-> old.rep, config |-> old.config,
             change |-> old.change, flags |-> old.flags, mode |-> old.mode]
  BY DEF Meaning
<1>8. p = [entry |-> p.entry, mode |-> p.mode, remote |-> p.remote, list |-> p.list, failed |-> p.failed]
  BY DEF State
<1> HIDE DEF old, new, line
<1>9. CASE line.key = "prog"
  <2>1. Assign(p, line).entry = [p.entry EXCEPT !.prog = line.value]
    BY <1>8, <1>9 DEF Assign
  <2> DEFINE v == line.value
  <2>2. new = [old EXCEPT !.prog = v]
    BY <1>4, <1>9
  <2>3. Assign(p, line).entry = [p.entry EXCEPT !.prog = v]
    BY <1>2, <1>8, <2>1
  <2> HIDE DEF v
  <2>4. new = [prog |-> v, codes |-> old.codes, rep |-> old.rep,
               config |-> old.config, change |-> old.change, flags |-> old.flags, mode |-> old.mode]
    BY <1>7, <2>2
  <2>5. Assign(p, line).entry = [prog |-> v, codes |-> old.codes, rep |-> old.rep,
               config |-> old.config, change |-> old.change, flags |-> old.flags, mode |-> NULL]
    BY <1>2, <2>3
  <2>6. Assign(p, line).entry = [new EXCEPT !.mode = NULL]
    BY <2>4, <2>5
  <2> QED BY <2>6 DEF line, new
<1>10. CASE line.key = "mode"
  <2>1. Assign(p, line).entry = [p.entry EXCEPT !.change = line.value]
    BY <1>8, <1>10 DEF Assign
  <2> DEFINE v == line.value
  <2>2. new = [old EXCEPT !.change = v]
    BY <1>4, <1>10
  <2>3. Assign(p, line).entry = [p.entry EXCEPT !.change = v]
    BY <1>2, <1>8, <2>1
  <2> HIDE DEF v
  <2>4. new = [prog |-> old.prog, codes |-> old.codes, rep |-> old.rep,
               config |-> old.config, change |-> v, flags |-> old.flags, mode |-> old.mode]
    BY <1>7, <2>2
  <2>5. Assign(p, line).entry = [prog |-> old.prog, codes |-> old.codes, rep |-> old.rep,
               config |-> old.config, change |-> v, flags |-> old.flags, mode |-> NULL]
    BY <1>2, <2>3
  <2>6. Assign(p, line).entry = [new EXCEPT !.mode = NULL]
    BY <2>4, <2>5
  <2> QED BY <2>6 DEF line, new
<1>11. CASE line.key = "repeat"
  <2>1. Assign(p, line).entry = [p.entry EXCEPT !.rep = line.value]
    BY <1>8, <1>11 DEF Assign
  <2> DEFINE v == line.value
  <2>2. new = [old EXCEPT !.rep = v]
    BY <1>4, <1>11
  <2>3. Assign(p, line).entry = [p.entry EXCEPT !.rep = v]
    BY <1>2, <1>8, <2>1
  <2> HIDE DEF v
  <2>4. new = [prog |-> old.prog, codes |-> old.codes, rep |-> v,
               config |-> old.config, change |-> old.change, flags |-> old.flags, mode |-> old.mode]
    BY <1>7, <2>2
  <2>5. Assign(p, line).entry = [prog |-> old.prog, codes |-> old.codes, rep |-> v,
               config |-> old.config, change |-> old.change, flags |-> old.flags, mode |-> NULL]
    BY <1>2, <2>3
  <2>6. Assign(p, line).entry = [new EXCEPT !.mode = NULL]
    BY <2>4, <2>5
  <2> QED BY <2>6 DEF line, new
<1>12. CASE line.key = "flags"
  <2>1. Assign(p, line).entry = [p.entry EXCEPT !.flags = Flags(line.value)]
    BY <1>8, <1>12 DEF Assign
  <2> DEFINE v == Flags(line.value)
  <2>2. new = [old EXCEPT !.flags = v]
    BY <1>4, <1>6, <1>12
  <2>3. Assign(p, line).entry = [p.entry EXCEPT !.flags = v]
    BY <1>2, <1>8, <2>1
  <2> HIDE DEF v
  <2>4. new = [prog |-> old.prog, codes |-> old.codes, rep |-> old.rep,
               config |-> old.config, change |-> old.change, flags |-> v, mode |-> old.mode]
    BY <1>7, <2>2
  <2>5. Assign(p, line).entry = [prog |-> old.prog, codes |-> old.codes, rep |-> old.rep,
               config |-> old.config, change |-> old.change, flags |-> v, mode |-> NULL]
    BY <1>2, <2>3
  <2>6. Assign(p, line).entry = [new EXCEPT !.mode = NULL]
    BY <2>4, <2>5
  <2> QED BY <2>6 DEF line, new
<1>13. CASE line.key = "config"
  <2>1. Assign(p, line).entry = [p.entry EXCEPT !.config = Append(p.entry.config, line.value)]
    BY <1>8, <1>13 DEF Assign
  <2> DEFINE v == Append(old.config, line.value)
  <2>2. new = [old EXCEPT !.config = v]
    BY <1>4, <1>13
  <2>3. Assign(p, line).entry = [p.entry EXCEPT !.config = v]
    <3>1. p.entry.config = old.config
      BY <1>2
    <3> QED BY <2>1, <3>1
  <2> HIDE DEF v
  <2>4. new = [prog |-> old.prog, codes |-> old.codes, rep |-> old.rep,
               config |-> v, change |-> old.change, flags |-> old.flags, mode |-> old.mode]
    BY <1>7, <2>2
  <2>5. Assign(p, line).entry = [prog |-> old.prog, codes |-> old.codes, rep |-> old.rep,
               config |-> v, change |-> old.change, flags |-> old.flags, mode |-> NULL]
    BY <1>2, <2>3
  <2>6. Assign(p, line).entry = [new EXCEPT !.mode = NULL]
    BY <2>4, <2>5
  <2> QED BY <2>6 DEF line, new
<1>14. CASE line.key = "button"
  <2>1. Assign(p, line).entry = [p.entry EXCEPT !.codes = Append(p.entry.codes, [remote |-> p.remote, button |-> line.value])]
    BY <1>8, <1>14 DEF Assign
  <2> DEFINE v == Append(old.codes, [remote |-> RemoteAt(f, m), button |-> line.value])
  <2>2. new = [old EXCEPT !.codes = v]
    BY <1>4, <1>14
  <2>3. Assign(p, line).entry = [p.entry EXCEPT !.codes = v]
    <3>1. p.entry.codes = old.codes
      BY <1>2
    <3> QED BY <2>1, <3>1
  <2> HIDE DEF v
  <2>4. new = [prog |-> old.prog, codes |-> v, rep |-> old.rep,
               config |-> old.config, change |-> old.change, flags |-> old.flags, mode |-> old.mode]
    BY <1>7, <2>2
  <2>5. Assign(p, line).entry = [prog |-> old.prog, codes |-> v, rep |-> old.rep,
               config |-> old.config, change |-> old.change, flags |-> old.flags, mode |-> NULL]
    BY <1>2, <2>3
  <2>6. Assign(p, line).entry = [new EXCEPT !.mode = NULL]
    BY <2>4, <2>5
  <2> QED BY <2>6 DEF line, new
<1>15. CASE line.key \in {"remote", "other"}
  <2>1. Assign(p, line).entry = p.entry
    BY <1>8, <1>15 DEF Assign
  <2>2. new = old
    BY <1>5, <1>15
  <2> QED BY <2>1, <2>2 DEF line, new, old
<1> QED BY <1>9, <1>10, <1>11, <1>12, <1>13, <1>14, <1>15 DEF Assignment, line

\* The least of a set of numbers, when it is known.
LEMMA Least ==
  ASSUME NEW S, S \subseteq Nat, NEW m \in S, \A y \in S : m <= y
  PROVE  Min(S) = m
<1>1. Min(S) \in S /\ Min(S) <= m
  BY Smallest
<1>2. PICK x \in S : x = Min(S)
  BY <1>1
<1>3. x <= m /\ m <= x /\ x \in Nat /\ m \in Nat
  BY <1>1, <1>2
<1>4. x = m
  BY <1>3
<1> QED BY <1>2, <1>4

\* An opened entry is what Within is about.
LEMMA OpenedIsWithin ==
  ASSUME NEW f, NEW m, NEW b, Opened(f, m, b)
  PROVE  Within(f, m)
BY DEF Opened, Within, Open

\* Complete entries lie before the open one.
LEMMA FinishedFirst ==
  ASSUME NEW f \in Seq(Line), NEW m \in Nat
  PROVE  /\ Finished(f, m) \in SUBSET Nat /\ IsFiniteSet(Finished(f, m))
         /\ Finished(f, m) \subseteq Before(Begins(f), m)
         /\ \A b \in DOMAIN f : Opened(f, m, b) => \A c \in Finished(f, m) : c < b
<1>1. Finished(f, m) \subseteq Begins(f) /\ Begins(f) \subseteq 1..Len(f) /\ Len(f) \in Nat
  BY Brackets DEF Finished
<1>2. IsFiniteSet(Finished(f, m))
  <2>1. IsFiniteSet(1..Len(f))
    BY <1>1, FS_Interval
  <2> QED BY <1>1, <2>1, FS_Subset
<1>3. ASSUME NEW c \in Finished(f, m)
      PROVE  /\ c \in Before(Begins(f), m)
             /\ \A b \in DOMAIN f : Opened(f, m, b) => c < b
  <2>1. PICK e \in Ends(f) : c < e /\ e < m
    BY DEF Finished
  <2>2. c \in Begins(f) /\ c \in Nat /\ e \in Nat
    BY <1>1, Brackets
  <2>3. c < m
    BY <2>1, <2>2
  <2>4. ASSUME NEW b \in DOMAIN f, Opened(f, m, b) PROVE c < b
    <3>1. e < b /\ b \in Nat
      BY <2>1, <2>4, Brackets DEF Opened, Before
    <3> QED BY <2>1, <2>2, <3>1
  <2> QED BY <2>2, <2>3, <2>4 DEF Before
<1> QED BY <1>1, <1>2, <1>3

\* Where no entry is open, all that began have ended.
LEMMA AllFinished ==
  ASSUME NEW f \in Seq(Line), NEW m \in Nat, ~Within(f, m), NEW b \in Before(Begins(f), m)
  PROVE  b \in Finished(f, m)
<1>1. /\ Begins(f) \in SUBSET Nat /\ Ends(f) \in SUBSET Nat /\ Begins(f) \cap Ends(f) = {}
  BY Brackets
<1>2. PICK e \in Before(Ends(f), m) : ~(e < b)
  BY DEF Within, Open
<1>3. b \in Begins(f) /\ e \in Ends(f) /\ e < m /\ b # e
  BY <1>1 DEF Before
<1>4. b < e
  BY <1>1, <1>2, <1>3
<1> QED BY <1>3, <1>4 DEF Finished

\* An entry begins.
LEMMA BeginStep ==
  ASSUME NEW f \in Seq(Line), NEW m \in DOMAIN f, m \in Begins(f), ~Within(f, m)
  PROVE  Opened(f, m + 1, m) /\ Finished(f, m + 1) = Finished(f, m)
<1>1. /\ m \in Nat /\ m \notin Ends(f) /\ Begins(f) \in SUBSET Nat /\ Ends(f) \in SUBSET Nat
      /\ Begins(f) \cap Ends(f) = {}
  BY Brackets
<1>2. Before(Begins(f), m + 1) = Before(Begins(f), m) \cup {m}
      /\ Before(Ends(f), m + 1) = Before(Ends(f), m)
  BY <1>1, BeforeStep
<1>3. ASSUME NEW e \in Ends(f) PROVE e < m + 1 <=> e < m
  BY <1>1
<1>4. Finished(f, m + 1) = Finished(f, m)
  BY <1>3, Zenon DEF Finished
<1>5. \A b \in Before(Begins(f), m) : b \in Finished(f, m)
  BY <1>1, AllFinished
<1>6. Finished(f, m) \subseteq Before(Begins(f), m)
  BY <1>1, FinishedFirst
<1>7. \A e \in Before(Ends(f), m) : e < m
  BY DEF Before
<1> QED BY <1>2, <1>4, <1>5, <1>6, <1>7 DEF Opened

\* The open entry ends.
LEMMA EndStep ==
  ASSUME NEW f \in Seq(Line), NEW m \in DOMAIN f, m \in Ends(f), NEW b \in DOMAIN f, Opened(f, m, b)
  PROVE  Finished(f, m + 1) = Finished(f, m) \cup {b} /\ LastLine(f, b) = m - 1
<1>1. /\ m \in Nat /\ b \in Nat /\ Begins(f) \in SUBSET Nat /\ Ends(f) \in SUBSET Nat
      /\ Ends(f) \subseteq 1..Len(f) /\ Len(f) \in Nat
  BY Brackets
<1>2. b \in Begins(f) /\ b < m /\ \A e \in Ends(f) : e < m => e < b
  BY DEF Opened, Before
<1>3. b \in Finished(f, m + 1)
  <2>1. m < m + 1
    BY <1>1
  <2> QED BY <1>2, <2>1 DEF Finished
<1>4. ASSUME NEW c \in Finished(f, m) PROVE c \in Finished(f, m + 1)
  <2>1. PICK e \in Ends(f) : c < e /\ e < m
    BY DEF Finished
  <2>2. e < m + 1 /\ c \in Begins(f)
    BY <1>1, <2>1 DEF Finished
  <2> QED BY <2>1, <2>2 DEF Finished
<1>5. ASSUME NEW c \in Finished(f, m + 1) PROVE c \in Finished(f, m) \cup {b}
  <2>1. PICK e \in Ends(f) : c < e /\ e < m + 1
    BY DEF Finished
  <2>2. c \in Begins(f) /\ c \in Nat /\ e \in Nat
    BY <1>1 DEF Finished
  <2>3. c < m
    BY <1>1, <2>1, <2>2
  <2>4. c \in Before(Begins(f), m)
    BY <2>2, <2>3 DEF Before
  <2> QED BY <2>4 DEF Opened
<1>6. LastLine(f, b) = m - 1
  <2> DEFINE S == {j \in Ends(f) : j > b} \cup {Len(f) + 1}
  <2>1. S \subseteq Nat /\ m \in S
    BY <1>1, <1>2
  <2>2. ASSUME NEW y \in S PROVE m <= y
    <3>1. CASE y = Len(f) + 1
      BY <1>1, <3>1
    <3>2. CASE y \in Ends(f) /\ y > b
      <4>1. ~(y < b) /\ y \in Nat
        BY <1>1, <3>2
      <4> QED BY <1>1, <1>2, <3>2, <4>1
    <3> QED BY <3>1, <3>2
  <2>3. Min(S) = m
    <3> HIDE DEF S
    <3> QED BY <2>1, <2>2, Least
  <2> QED BY <2>3 DEF LastLine
<1> QED BY <1>3, <1>4, <1>5, <1>6

\* Any other line leaves the entries where they are.
LEMMA OtherStep ==
  ASSUME NEW f \in Seq(Line), NEW m \in DOMAIN f, m \notin Begins(f) \cup Ends(f)
  PROVE  /\ Finished(f, m + 1) = Finished(f, m)
         /\ \A b \in DOMAIN f : Opened(f, m, b) => Opened(f, m + 1, b)
<1>1. m \in Nat /\ Begins(f) \in SUBSET Nat /\ Ends(f) \in SUBSET Nat
  BY Brackets
<1>2. Before(Begins(f), m + 1) = Before(Begins(f), m) /\ Before(Ends(f), m + 1) = Before(Ends(f), m)
  BY <1>1, BeforeStep
<1>3. ASSUME NEW e \in Ends(f) PROVE e < m + 1 <=> e < m
  BY <1>1
<1>4. Finished(f, m + 1) = Finished(f, m)
  BY <1>3, Zenon DEF Finished
<1> QED BY <1>2, <1>4, Zenon DEF Opened

\* Nothing has been said of an entry that has just begun.
LEMMA NothingSaid ==
  ASSUME NEW f \in Seq(Line), NEW m \in DOMAIN f, f[m].key = "begin"
  PROVE  NewEntry = [Meaning(f, m, m) EXCEPT !.mode = NULL]
<1>1. ASSUME NEW key \in Assignment PROVE Places(f, m, m, key) = {}
  <2>1. m \in Nat /\ m..m = {m}
    BY Brackets
  <2>2. key # "begin"
    BY DEF Assignment
  <2> QED BY <2>1, <2>2 DEF Places
<1>2. /\ Places(f, m, m, "prog") = {} /\ Places(f, m, m, "button") = {}
      /\ Places(f, m, m, "repeat") = {} /\ Places(f, m, m, "config") = {}
      /\ Places(f, m, m, "mode") = {} /\ Places(f, m, m, "flags") = {}
  BY <1>1 DEF Assignment
<1>3. CodesAt(f, {}) = <<>> /\ ValuesAt(f, {}) = <<>>
  <2>1. Cardinality({}) = 0 /\ 1..0 = {}
    BY FS_EmptySet
  <2> QED BY <2>1 DEF CodesAt, ValuesAt
<1>4. \A d : LastValue(f, {}, d) = d
  BY DEF LastValue
<1>5. Range(<<>>) = {}
  BY DEF Range
<1>6. {w[1] : w \in Range(<<>>)} \cap Flag = {}
  BY <1>5
<1>7. Meaning(f, m, m) =
        [prog |-> NULL, codes |-> <<>>, rep |-> 0, config |-> <<>>, change |-> NULL, flags |-> {},
         mode |-> ModeAt(f, m)]
  BY <1>2, <1>3, <1>4, <1>6, MeaningRecord
<1> DEFINE made(c, d, s, mode) ==
             [prog |-> NULL, codes |-> c, rep |-> 0, config |-> d, change |-> NULL,
              flags |-> s, mode |-> mode]
<1>8. \A c, d, s, mode : [made(c, d, s, mode) EXCEPT !.mode = NULL] = made(c, d, s, NULL)
  OBVIOUS
<1>9. Meaning(f, m, m) = made(<<>>, <<>>, {}, ModeAt(f, m))
  BY <1>7
<1>10. NewEntry = made(<<>>, <<>>, {}, NULL)
  BY DEF NewEntry
<1> HIDE DEF made
<1>11. [made(<<>>, <<>>, {}, ModeAt(f, m)) EXCEPT !.mode = NULL] = made(<<>>, <<>>, {}, NULL)
  BY <1>8
<1> QED BY <1>9, <1>10, <1>11

\* Before the first line.
LEMMA ReadInvStart ==
  ASSUME NEW f \in Seq(Line)
  PROVE  ReadInv(f, 1, Start)
<1>1. ASSUME NEW S \in SUBSET Nat, 0 \notin S PROVE Before(S, 1) = {}
  <2>1. \A j \in S : ~(j < 1)
    BY <1>1
  <2> QED BY <2>1, Zenon DEF Before
<1>2. /\ Before(Begins(f), 1) = {} /\ Before(ModeBegins(f), 1) = {} /\ Before(DOMAIN f, 1) = {}
  <2>1. /\ Begins(f) \in SUBSET Nat /\ 0 \notin Begins(f)
        /\ ModeBegins(f) \in SUBSET Nat /\ 0 \notin ModeBegins(f)
        /\ DOMAIN f \in SUBSET Nat /\ 0 \notin DOMAIN f
    BY Brackets
  <2> QED BY <1>1, <2>1
<1>3. ~Within(f, 1) /\ ModeAt(f, 1) = NULL
  BY <1>2 DEF Within, ModeAt, Open
<1>4. RemoteAt(f, 1) = ALL
  BY <1>2 DEF RemoteAt
<1>5. Finished(f, 1) = {}
  <2>1. 1 \in Nat
    OBVIOUS
  <2> QED BY <1>2, <2>1, FinishedFirst
<1>6. EntriesAt(f, {}) = <<>>
  <2>1. Cardinality({}) = 0 /\ 1..0 = {}
    BY FS_EmptySet
  <2> QED BY <2>1 DEF EntriesAt
<1>7. 1..(1 - 1) = {}
  OBVIOUS
<1> QED BY <1>3, <1>4, <1>5, <1>6, <1>7 DEF ReadInv, EntryInv, Start

\* A line that the loop accepts is one that fits, and the other way round.
LEMMA VerdictStep ==
  ASSUME NEW f \in Seq(Line), NEW m \in DOMAIN f, NEW p \in State, ReadInv(f, m, p)
  PROVE  /\ (\E i \in 1..((m + 1) - 1) : ~Fits(f, i)) <=> p.failed \/ ~Fits(f, m)
         /\ ~p.failed => (p.entry # NULL <=> Within(f, m)) /\ (Refuses(p, f[m]) <=> ~Fits(f, m))
<1>1. m \in Nat \ {0}
  BY Brackets
<1>2. 1..((m + 1) - 1) = (1..(m - 1)) \cup {m}
  BY <1>1
<1>3. ASSUME ~p.failed PROVE p.entry # NULL <=> Within(f, m)
  BY <1>3, OpenedIsWithin DEF ReadInv, EntryInv
<1>4. ASSUME ~p.failed PROVE Refuses(p, f[m]) <=> ~Fits(f, m)
  <2>1. p.mode = ModeAt(f, m)
    BY <1>4 DEF ReadInv
  <2> QED BY <1>3, <1>4, <2>1, RefusesStep
<1> QED BY <1>2, <1>3, <1>4 DEF ReadInv

\* What is left of a line that is refused, or passed over.
LEMMA SkippedStep ==
  ASSUME NEW f \in Seq(Line), NEW m \in DOMAIN f, NEW p \in State, ReadInv(f, m, p),
         p.failed \/ Refuses(p, f[m])
  PROVE  ReadInv(f, m + 1, ReadLine(p, f[m]))
<1>1. /\ (\E i \in 1..((m + 1) - 1) : ~Fits(f, i)) <=> p.failed \/ ~Fits(f, m)
      /\ ~p.failed => (Refuses(p, f[m]) <=> ~Fits(f, m))
  BY VerdictStep
<1>2. \E i \in 1..((m + 1) - 1) : ~Fits(f, i)
  BY <1>1
<1>3. ReadLine(p, f[m]).failed
  <2>1. CASE p.failed
    BY <2>1 DEF ReadLine
  <2>2. CASE ~p.failed
    <3>1. f[m].key # "blank"
      BY <2>2 DEF Refuses, Assignment
    <3>2. ReadLine(p, f[m]) = [p EXCEPT !.failed = TRUE]
      BY <2>2, <3>1 DEF ReadLine
    <3> QED BY <3>2 DEF State
  <2> QED BY <2>1, <2>2
<1> QED BY <1>2, <1>3 DEF ReadInv

\* What the loop has to do for a line that is none of the brackets: keep the mode and the
\* list, follow the remote, and add to the open entry what the line says.
LEMMA PlainStep ==
  ASSUME NEW f \in Seq(Line), NEW m \in DOMAIN f, NEW p \in State, NEW q \in State,
         ReadInv(f, m, p), ~p.failed, ~Refuses(p, f[m]), f[m].key \notin {"begin", "end"},
         ~q.failed, q.mode = p.mode, q.list = p.list, q.remote = RemoteAt(f, m + 1),
         q.entry = NULL <=> p.entry = NULL,
         \A b \in DOMAIN f :
           b <= m /\ p.entry # NULL /\ p.entry = [Meaning(f, b, m - 1) EXCEPT !.mode = NULL]
             => q.entry = [Meaning(f, b, m) EXCEPT !.mode = NULL]
  PROVE  ReadInv(f, m + 1, q)
<1>1. /\ m \in Nat /\ (m + 1) - 1 = m
      /\ m \notin Begins(f) \cup Ends(f) /\ m \notin ModeBegins(f) \cup ModeEnds(f)
  BY Brackets DEF Begins, Ends, ModeBegins, ModeEnds
<1>2. ~(\E i \in 1..((m + 1) - 1) : ~Fits(f, i))
  BY VerdictStep
<1>3. /\ p.mode = ModeAt(f, m) /\ p.list = EntriesAt(f, Finished(f, m)) /\ EntryInv(f, m, p)
  BY DEF ReadInv
<1>4. /\ ModeAt(f, m + 1) = ModeAt(f, m) /\ (Within(f, m + 1) <=> Within(f, m))
      /\ Finished(f, m + 1) = Finished(f, m)
      /\ \A b \in DOMAIN f : Opened(f, m, b) => Opened(f, m + 1, b)
  BY <1>1, ModeStep, WithinStep, OtherStep
<1>5. EntryInv(f, m + 1, q)
  <2>1. CASE p.entry = NULL /\ ~Within(f, m)
    BY <1>4, <2>1 DEF EntryInv
  <2>2. ASSUME NEW b \in DOMAIN f, p.entry # NULL, Opened(f, m, b),
               p.entry = [Meaning(f, b, m - 1) EXCEPT !.mode = NULL], p.mode = ModeAt(f, b)
        PROVE  EntryInv(f, m + 1, q)
    <3>1. b <= m
      BY <1>1, <2>2, Brackets DEF Opened, Before
    <3>2. q.entry = [Meaning(f, b, (m + 1) - 1) EXCEPT !.mode = NULL]
      BY <1>1, <2>2, <3>1
    <3>3. q.entry # NULL /\ Opened(f, m + 1, b) /\ q.mode = ModeAt(f, b)
      BY <1>4, <2>2
    <3> QED BY <3>2, <3>3 DEF EntryInv
  <2> QED BY <1>3, <2>1, <2>2 DEF EntryInv
<1> QED BY <1>2, <1>3, <1>4, <1>5 DEF ReadInv

\* The line that opens an entry or closes one.
LEMMA EntryBracketStep ==
  ASSUME NEW f \in Seq(Line), NEW m \in DOMAIN f, NEW p \in State, ReadInv(f, m, p),
         ~p.failed, ~Refuses(p, f[m]), f[m].key \in {"begin", "end"}, f[m].value = NULL
  PROVE  ReadInv(f, m + 1, ReadLine(p, f[m]))
<1> DEFINE q == ReadLine(p, f[m])
<1>1. /\ m \in Nat /\ (m + 1) - 1 = m /\ m \notin ModeBegins(f) \cup ModeEnds(f)
      /\ f[m].key \notin Assignment /\ f[m].key # "blank" /\ f[m].key # "remote"
  BY Brackets DEF ModeBegins, ModeEnds, Assignment
<1>2. /\ ~(\E i \in 1..((m + 1) - 1) : ~Fits(f, i)) /\ (p.entry # NULL <=> Within(f, m))
  BY VerdictStep
<1>3. /\ p.mode = ModeAt(f, m) /\ p.list = EntriesAt(f, Finished(f, m)) /\ EntryInv(f, m, p)
  BY DEF ReadInv
<1>4. ModeAt(f, m + 1) = ModeAt(f, m) /\ RemoteAt(f, m + 1) = ALL
  BY <1>1, ModeStep, RemoteStep
<1>5. q = [Bracket(p, f[m]) EXCEPT !.remote = ALL]
  BY <1>1 DEF ReadLine
<1>6. CASE f[m].key = "begin"
  <2>1. q = [entry |-> NewEntry, mode |-> p.mode, remote |-> ALL, list |-> p.list, failed |-> FALSE]
    <3>1. Bracket(p, f[m]) = [p EXCEPT !.entry = NewEntry]
      BY <1>6 DEF Bracket
    <3> QED BY <1>5, <3>1 DEF State
  <2>2. m \in Begins(f) /\ ~Within(f, m)
    BY <1>2, <1>6 DEF Begins, Refuses
  <2>3. Opened(f, m + 1, m) /\ Finished(f, m + 1) = Finished(f, m)
    BY <2>2, BeginStep
  <2>4. NewEntry = [Meaning(f, m, (m + 1) - 1) EXCEPT !.mode = NULL] /\ NewEntry # NULL
    BY <1>1, <1>6, NothingSaid, NewEntryType, PointerAssumption
  <2>5. EntryInv(f, m + 1, q)
    BY <1>3, <2>1, <2>3, <2>4 DEF EntryInv
  <2> HIDE DEF q
  <2> QED BY <1>2, <1>3, <1>4, <2>1, <2>3, <2>5 DEF ReadInv, q
<1>7. CASE f[m].key = "end"
  <2>1. p.entry # NULL /\ Within(f, m) /\ m \in Ends(f)
    BY <1>2, <1>7 DEF Refuses, Ends
  <2>2. PICK b \in DOMAIN f :
          /\ Opened(f, m, b)
          /\ p.entry = [Meaning(f, b, m - 1) EXCEPT !.mode = NULL] /\ p.mode = ModeAt(f, b)
    BY <1>3, <2>1 DEF EntryInv
  <2> DEFINE e == [p.entry EXCEPT !.mode = p.mode]
  <2>3. /\ Close(p) = [p EXCEPT !.list = Append(p.list, e), !.entry = NULL] /\ e \in Entry
    BY <2>1, CloseType
  <2>4. /\ q.entry = NULL /\ q.mode = p.mode /\ q.remote = ALL /\ q.list = Append(p.list, e)
        /\ ~q.failed
    <3> DEFINE grown == Append(p.list, e)
    <3>1. q = [Close(p) EXCEPT !.remote = ALL] /\ Close(p) \in State
      BY <1>5, <1>7, <2>1, CloseType DEF Bracket
    <3>2. Close(p) = [p EXCEPT !.list = grown, !.entry = NULL]
      BY <2>3
    <3> HIDE DEF grown, q
    <3>3. /\ Close(p).entry = NULL /\ Close(p).mode = p.mode /\ Close(p).list = grown
          /\ ~Close(p).failed
      BY <3>2 DEF State
    <3> DEFINE c == Close(p)
    <3> HIDE DEF c
    <3>4. c \in State /\ q = [c EXCEPT !.remote = ALL]
      BY <3>1 DEF c
    <3>5. q.entry = c.entry /\ q.mode = c.mode /\ q.remote = ALL /\ q.list = c.list /\ q.failed = c.failed
      BY <3>4 DEF State
    <3> QED BY <3>3, <3>5 DEF grown, q, c
  <2>5. Finished(f, m + 1) = Finished(f, m) \cup {b} /\ LastLine(f, b) = m - 1
    BY <2>1, <2>2, EndStep
  <2>6. e = Meaning(f, b, LastLine(f, b))
    <3>1. Meaning(f, b, m - 1).mode = ModeAt(f, b)
      BY DEF Meaning
    <3> DEFINE r == Meaning(f, b, m - 1)
    <3>2. r = [prog |-> r.prog, codes |-> r.codes, rep |-> r.rep, config |-> r.config,
               change |-> r.change, flags |-> r.flags, mode |-> r.mode]
      BY MeaningRecord
    <3> HIDE DEF r
    <3>3. [[r EXCEPT !.mode = NULL] EXCEPT !.mode = r.mode] = r
      BY <3>2
    <3> QED BY <2>2, <2>5, <3>1, <3>3 DEF r
  <2>7. /\ Finished(f, m) \in SUBSET Nat /\ IsFiniteSet(Finished(f, m)) /\ b \in Nat
        /\ \A c \in Finished(f, m) : c < b
    BY <1>1, <2>2, FinishedFirst, Brackets
  <2>8. EntriesAt(f, Finished(f, m) \cup {b}) = Append(p.list, e)
    <3>1. EntriesAt(f, Finished(f, m)) \in Seq(Entry) /\ Meaning(f, b, LastLine(f, b)) \in Entry
      BY <1>3, <2>3, <2>6 DEF State
    <3>2. EntriesAt(f, Finished(f, m) \cup {b}) =
            Append(EntriesAt(f, Finished(f, m)), Meaning(f, b, LastLine(f, b)))
      BY <2>7, <3>1, EntriesStep
    <3> HIDE DEF e
    <3> QED BY <1>3, <2>6, <3>2
  <2>9. ~Within(f, m + 1)
    BY <2>1, WithinStep
  <2>10. EntryInv(f, m + 1, q)
    BY <2>4, <2>9 DEF EntryInv
  <2> HIDE DEF q, e
  <2>11. q.list = EntriesAt(f, Finished(f, m + 1))
    BY <2>4, <2>5, <2>8
  <2>12. ~q.failed /\ q.mode = ModeAt(f, m + 1) /\ q.remote = RemoteAt(f, m + 1)
    BY <1>3, <1>4, <2>4
  <2>13. ReadInv(f, m + 1, q)
    BY <1>2, <2>10, <2>11, <2>12 DEF ReadInv
  <2> QED BY <2>13 DEF q
<1> QED BY <1>6, <1>7

\* The line that opens or closes a mode, outside of any entry.
LEMMA ModeBracketStep ==
  ASSUME NEW f \in Seq(Line), NEW m \in DOMAIN f, NEW p \in State, ReadInv(f, m, p),
         ~p.failed, ~Refuses(p, f[m]), f[m].key \in {"begin", "end"}, f[m].value # NULL
  PROVE  ReadInv(f, m + 1, ReadLine(p, f[m]))
<1> DEFINE q == ReadLine(p, f[m])
<1>1. /\ m \in Nat /\ m \notin Begins(f) \cup Ends(f)
      /\ f[m].key \notin Assignment /\ f[m].key # "blank" /\ f[m].key # "remote"
  BY Brackets DEF Begins, Ends, Assignment
<1>2. /\ ~(\E i \in 1..((m + 1) - 1) : ~Fits(f, i)) /\ (p.entry # NULL <=> Within(f, m))
  BY VerdictStep
<1>3. p.list = EntriesAt(f, Finished(f, m))
  BY DEF ReadInv
<1>4. RemoteAt(f, m + 1) = ALL /\ Finished(f, m + 1) = Finished(f, m)
      /\ (Within(f, m + 1) <=> Within(f, m))
  BY <1>1, RemoteStep, OtherStep, WithinStep
<1>5. p.entry = NULL
  BY DEF Refuses
<1>6. q = [entry |-> NULL, mode |-> ModeAt(f, m + 1), remote |-> ALL, list |-> p.list, failed |-> FALSE]
  <2>1. q = [Bracket(p, f[m]) EXCEPT !.remote = ALL]
    BY <1>1 DEF ReadLine
  <2>2. Bracket(p, f[m]) = [p EXCEPT !.mode = ModeAt(f, m + 1)]
    <3>1. CASE f[m].key = "begin"
      <4>1. ModeAt(f, m + 1) = f[m].value
        BY <3>1, ModeStep DEF ModeBegins
      <4> QED BY <3>1, <4>1 DEF Bracket
    <3>2. CASE f[m].key = "end"
      <4>1. ModeAt(f, m + 1) = NULL
        BY <3>2, ModeStep DEF ModeEnds
      <4> QED BY <3>2, <4>1 DEF Bracket
    <3> QED BY <3>1, <3>2
  <2> HIDE DEF q
  <2> QED BY <1>5, <2>1, <2>2 DEF State
<1>7. EntryInv(f, m + 1, q)
  BY <1>2, <1>4, <1>5, <1>6 DEF EntryInv
<1> HIDE DEF q
<1> QED BY <1>2, <1>3, <1>4, <1>6, <1>7 DEF ReadInv, q

\* Each line is dealt with as it is meant.
LEMMA ReadInvStep ==
  ASSUME NEW f \in Seq(Line), NEW m \in DOMAIN f, NEW p \in State, ReadInv(f, m, p), FlagsApart(f)
  PROVE  ReadInv(f, m + 1, ReadLine(p, f[m]))
<1> DEFINE q == ReadLine(p, f[m])
<1>1. f[m] \in Line /\ m \in Nat
  BY Brackets
<1>2. q \in State
  BY <1>1, ReadLineType
<1>3. CASE p.failed \/ Refuses(p, f[m])
  BY <1>3, SkippedStep
<1>4. CASE ~p.failed /\ ~Refuses(p, f[m]) /\ f[m].key \in {"begin", "end"}
  BY <1>4, EntryBracketStep, ModeBracketStep
<1>5. CASE ~p.failed /\ ~Refuses(p, f[m]) /\ f[m].key \notin {"begin", "end"}
  <2>1. p.remote = RemoteAt(f, m) /\ p.remote \in Names
    BY <1>5 DEF ReadInv, State
  <2>2. ASSUME f[m].key \in {"blank", "word"}, p.entry # NULL, NEW b \in DOMAIN f, b <= m,
               p.entry = [Meaning(f, b, m - 1) EXCEPT !.mode = NULL]
        PROVE  Meaning(f, b, m) = Meaning(f, b, m - 1)
    <3>1. b \in Nat
      BY Brackets
    <3>2. f[m].key \notin {"prog", "mode", "repeat", "flags", "config", "button"}
      BY <2>2
    <3> QED BY <2>2, <3>1, <3>2, MeaningSame
  <2>3. CASE f[m].key = "blank"
    <3>1. q = p
      BY <1>5, <2>3 DEF ReadLine
    <3>2. q.remote = RemoteAt(f, m + 1)
      BY <2>1, <2>3, <3>1, RemoteStep DEF Assignment
    <3> HIDE DEF q
    <3>3. ReadInv(f, m + 1, q)
      BY <1>2, <1>5, <2>2, <2>3, <3>1, <3>2, PlainStep
    <3> QED BY <3>3 DEF q
  <2>4. CASE f[m].key = "word"
    <3>1. q = [p EXCEPT !.remote = ALL]
      BY <1>5, <2>4 DEF ReadLine, Bracket, Assignment
    <3>2. RemoteAt(f, m + 1) = ALL
      BY <2>4, RemoteStep DEF Assignment
    <3>3. /\ q.remote = RemoteAt(f, m + 1) /\ q.entry = p.entry /\ q.mode = p.mode
          /\ q.list = p.list /\ q.failed = p.failed
      BY <3>1, <3>2 DEF State
    <3> HIDE DEF q
    <3>4. ReadInv(f, m + 1, q)
      BY <1>2, <1>5, <2>2, <2>4, <3>3, PlainStep
    <3> QED BY <3>4 DEF q
  <2>5. CASE f[m].key \in Assignment
    <3>1. q = Assign(p, f[m]) /\ p.entry # NULL
      BY <1>5, <2>5 DEF ReadLine, Refuses, Assignment
    <3>2. /\ Assign(p, f[m]).entry # NULL /\ Assign(p, f[m]).mode = p.mode
          /\ Assign(p, f[m]).list = p.list /\ Assign(p, f[m]).failed = p.failed
          /\ Assign(p, f[m]).remote = IF f[m].key = "remote" THEN f[m].value ELSE p.remote
      <4>1. Assign(p, f[m]).entry # NULL
        BY <1>1, <3>1, AssignType
      <4>2. CASE f[m].key = "remote"
        BY <4>1, <4>2 DEF Assign, State
      <4>3. CASE f[m].key # "remote"
        <5> DEFINE e == Assign(p, f[m]).entry
        <5>1. Assign(p, f[m]) = [p EXCEPT !.entry = e]
          BY <1>1, <3>1, <4>3, AssignType
        <5> HIDE DEF e
        <5> QED BY <4>1, <4>3, <5>1 DEF State
      <4> QED BY <4>2, <4>3
    <3>3. q.remote = RemoteAt(f, m + 1)
      BY <2>1, <2>5, <3>1, <3>2, RemoteStep
    <3>4. ASSUME NEW b \in DOMAIN f, b <= m, p.entry = [Meaning(f, b, m - 1) EXCEPT !.mode = NULL]
          PROVE  q.entry = [Meaning(f, b, m) EXCEPT !.mode = NULL]
      <4>1. b \in Nat
        BY Brackets
      <4> QED BY <2>1, <2>5, <3>1, <3>4, <4>1, AssignStep
    <3>5. q.entry # NULL /\ q.mode = p.mode /\ q.list = p.list /\ q.failed = p.failed
      BY <3>1, <3>2
    <3> HIDE DEF q
    <3>6. ReadInv(f, m + 1, q)
      BY <1>2, <1>5, <3>1, <3>3, <3>4, <3>5, PlainStep
    <3> QED BY <3>6 DEF q
  <2> QED BY <1>1, <1>5, <2>3, <2>4, <2>5 DEF Line, Assignment
<1> QED BY <1>3, <1>4, <1>5

\* The variables of the loop stand for what has been read.
LEMMA ReadInvHolds ==
  ASSUME NEW f \in Seq(Line), FlagsApart(f), NEW n \in 0..Len(f)
  PROVE  ReadInv(f, n + 1, After(f)[n])
<1> DEFINE S == {k \in 0..Len(f) : ReadInv(f, k + 1, After(f)[k])}
<1>1. Len(f) \in Nat
  OBVIOUS
<1>2. After(f)[0] = Start /\ \A k \in 1..Len(f) : After(f)[k] = ReadLine(After(f)[k - 1], f[k])
  BY AfterEach
<1>3. 0 \in S
  BY <1>1, <1>2, ReadInvStart
<1>4. ASSUME NEW k \in 0..(Len(f) - 1), k \in S PROVE k + 1 \in S
  <2>1. k + 1 \in 1..Len(f) /\ (k + 1) - 1 = k /\ k \in 0..Len(f) /\ k + 1 \in 0..Len(f)
    BY <1>1
  <2>2. After(f)[k + 1] = ReadLine(After(f)[k], f[k + 1]) /\ k + 1 \in DOMAIN f
    BY <1>2, <2>1
  <2>3. ReadInv(f, k + 1, After(f)[k]) /\ After(f)[k] \in State
    BY <1>4, <2>1, AfterType
  <2>4. ReadInv(f, (k + 1) + 1, After(f)[k + 1])
    BY <2>2, <2>3, ReadInvStep
  <2> QED BY <2>1, <2>4
<1>5. \A k \in 0..Len(f) : k \in S
  <2> HIDE DEF S
  <2>1. \A k \in 0..(Len(f) - 1) : k \in S => k + 1 \in S
    BY <1>4
  <2> QED BY <1>1, <1>3, <2>1, UpTo
<1> QED BY <1>5

\* The parser, which sees one line at a time, returns what the file means.
LEMMA ReadconfigFaithful ==
  ASSUME NEW f \in Seq(Line)
  PROVE  Faithful(f)
<1> SUFFICES ASSUME FlagsApart(f)
             PROVE  Readconfig(f) = IF WellFormed(f) THEN EntriesAt(f, Begins(f)) ELSE NULL
  <2>1. DOMAIN InOrder(Begins(f)) = 1..Cardinality(Begins(f))
    BY DEF InOrder
  <2> QED BY <2>1 DEF Faithful, EntriesAt
<1> DEFINE n == Len(f)
           p == After(f)[n]
<1>1. n \in Nat /\ n \in 0..n /\ DOMAIN f = 1..n /\ (n + 1) - 1 = n
  OBVIOUS
<1>2. ReadInv(f, n + 1, p) /\ p \in State
  BY <1>1, ReadInvHolds, AfterType
<1>3. Readconfig(f) = IF p.failed THEN NULL ELSE IF p.entry = NULL THEN p.list ELSE Close(p).list
  BY DEF Readconfig
<1> HIDE DEF p, n
<1>4. p.failed <=> ~WellFormed(f)
  BY <1>1, <1>2 DEF ReadInv, WellFormed
<1>5. Before(Begins(f), n + 1) = Begins(f)
  <2>1. \A b \in Begins(f) : b < n + 1
    BY <1>1, Brackets DEF n
  <2> QED BY <2>1, Zenon DEF Before
<1>6. ASSUME ~p.failed PROVE Readconfig(f) = EntriesAt(f, Begins(f))
  <2>1. p.list = EntriesAt(f, Finished(f, n + 1)) /\ EntryInv(f, n + 1, p)
    BY <1>2, <1>6 DEF ReadInv
  <2>2. CASE p.entry = NULL /\ ~Within(f, n + 1)
    <3>1. n + 1 \in Nat
      BY <1>1
    <3>2. Finished(f, n + 1) = Begins(f)
      BY <1>5, <2>2, <3>1, AllFinished, FinishedFirst
    <3> QED BY <1>3, <1>6, <2>1, <2>2, <3>2
  <2>3. ASSUME NEW b \in DOMAIN f, p.entry # NULL, Opened(f, n + 1, b),
               p.entry = [Meaning(f, b, (n + 1) - 1) EXCEPT !.mode = NULL], p.mode = ModeAt(f, b)
        PROVE  Readconfig(f) = EntriesAt(f, Begins(f))
    <3> DEFINE e == [p.entry EXCEPT !.mode = p.mode]
               r == Meaning(f, b, n)
    <3>1. Close(p) = [p EXCEPT !.list = Append(p.list, e), !.entry = NULL] /\ e \in Entry
      BY <1>2, <2>3, CloseType
    <3>2. Close(p).list = Append(p.list, e)
      <4> DEFINE grown == Append(p.list, e)
      <4>1. Close(p) = [p EXCEPT !.list = grown, !.entry = NULL]
        BY <3>1
      <4> HIDE DEF grown
      <4>2. Close(p).list = grown
        BY <1>2, <4>1 DEF State
      <4> QED BY <4>2 DEF grown
    <3>3. LastLine(f, b) = n
      <4> DEFINE S == {j \in Ends(f) : j > b} \cup {n + 1}
      <4>1. \A j \in Ends(f) : j < n + 1 /\ j \in Nat
        BY <1>1, Brackets DEF n
      <4>2. \A j \in Ends(f) : j < b /\ b \in Nat
        BY <2>3, <4>1, Brackets DEF Opened, Before
      <4>3. S = {n + 1}
        BY <4>1, <4>2
      <4>4. Min(S) = n + 1
        <5>1. n + 1 \in Nat
          BY <1>1
        <5>2. S \subseteq Nat /\ n + 1 \in S /\ \A y \in S : n + 1 <= y
          BY <4>3, <5>1
        <5> HIDE DEF S
        <5> QED BY <5>2, Least
      <4> QED BY <1>1, <4>4 DEF LastLine, n
    <3>4. e = Meaning(f, b, LastLine(f, b))
      <4>1. r.mode = ModeAt(f, b)
        BY DEF Meaning
      <4>2. r = [prog |-> r.prog, codes |-> r.codes, rep |-> r.rep, config |-> r.config,
                 change |-> r.change, flags |-> r.flags, mode |-> r.mode]
        BY MeaningRecord
      <4>3. p.entry = [r EXCEPT !.mode = NULL]
        BY <1>1, <2>3
      <4> HIDE DEF r
      <4>4. [[r EXCEPT !.mode = NULL] EXCEPT !.mode = r.mode] = r
        BY <4>2
      <4> QED BY <2>3, <3>3, <4>1, <4>3, <4>4 DEF r
    <3> HIDE DEF e
    <3>5. /\ Finished(f, n + 1) \in SUBSET Nat /\ IsFiniteSet(Finished(f, n + 1)) /\ b \in Nat
          /\ \A c \in Finished(f, n + 1) : c < b
      <4>1. n + 1 \in Nat /\ b \in Nat
        BY <1>1
      <4> QED BY <2>3, <4>1, FinishedFirst
    <3>6. EntriesAt(f, Finished(f, n + 1) \cup {b}) = Append(p.list, e)
      <4>1. EntriesAt(f, Finished(f, n + 1)) \in Seq(Entry) /\ Meaning(f, b, LastLine(f, b)) \in Entry
        BY <1>2, <2>1, <3>1, <3>4 DEF State
      <4>2. EntriesAt(f, Finished(f, n + 1) \cup {b}) =
              Append(EntriesAt(f, Finished(f, n + 1)), Meaning(f, b, LastLine(f, b)))
        BY <3>5, <4>1, EntriesStep
      <4> QED BY <2>1, <3>4, <4>2
    <3>7. Finished(f, n + 1) \cup {b} = Begins(f)
      BY <1>5, <2>3 DEF Opened
    <3> QED BY <1>3, <1>6, <2>3, <3>2, <3>6, <3>7
  <2> QED BY <2>1, <2>2, <2>3 DEF EntryInv
<1> QED BY <1>3, <1>4, <1>6

-----------------------------------------------------------------------------
(* The search through the entries.                                         *)

\* Where lirc_code2char is: the entry examined last tells the next one.
ScanInv ==
  /\ entries \in Seq(Entry)
  /\ next \in 0..Len(entries) /\ last \in 0..Len(entries)
  /\ executed \in 0..Len(entries)
  /\ code = NULL => last = 0 /\ executed = 0
  /\ code # NULL => scan \in 0..Len(entries) /\ (scan # 0 => next # 0)
  /\ EachEntryOnce

\* Starting up changes no more than an entry's mode.
LEMMA StartupEntriesType ==
  ASSUME NEW list \in Seq(Entry)
  PROVE  StartupEntries(list) \in Seq(Entry) /\ Len(StartupEntries(list)) = Len(list)
<1>1. ASSUME NEW e \in Entry PROVE [e EXCEPT !.change = NULL] \in Entry
  BY <1>1 DEF Entry
<1>2. StartupEntries(list) \in [1..Len(list) -> Entry]
  BY <1>1 DEF StartupEntries
<1> QED BY <1>2

\* The first entry of a new configuration is where the next line starts.
LEMMA LoadKeepsScanInv ==
  ASSUME NEW list \in Seq(Entry), Load(list), ScanInv, code = NULL, UNCHANGED lookup
  PROVE  ScanInv'
<1>1. entries' \in Seq(Entry) /\ Len(entries') = Len(list)
  BY StartupEntriesType DEF Load
<1>2. next' = FirstEntry(list)
  BY DEF Load
<1>3. list = <<>> <=> entries' = <<>>
  BY <1>1
<1>4. FirstEntry(entries') = FirstEntry(list) /\ FirstEntry(list) \in 0..Len(list)
  BY <1>1, <1>3 DEF FirstEntry
<1> QED BY <1>1, <1>2, <1>4 DEF ScanInv, EachEntryOnce, lookup

\* lirc_code2char goes to the next entry, or to where config->next points after a
\* string.
LEMMA ExamineKeepsScanInv ==
  ASSUME ScanInv, Examine
  PROVE  ScanInv'
<1>1. /\ code' = code /\ code # NULL /\ entries' = entries
      /\ scan \in 1..Len(entries) /\ last' = scan /\ next \in 1..Len(entries)
  BY DEF ScanInv, Examine
<1>2. Succ(scan) \in 0..Len(entries) /\ (Succ(scan) = 0 => scan = Len(entries))
      /\ (Succ(scan) # 0 => Succ(scan) = scan + 1)
  BY <1>1 DEF Succ, ScanInv
<1>3. CASE Iscode(scan) /\ InMode(scan)
  <2>1. /\ next' = IF "quit" \in entries[scan].flags THEN 0 ELSE Succ(scan)
        /\ executed' = scan
    BY <1>3 DEF Examine, Execute
  <2>2. scan' = IF "quit" \in entries[scan].flags THEN 0 ELSE Succ(scan)
    BY <1>3, <2>1 DEF Examine, Continue
  <2> QED BY <1>1, <1>2, <2>1, <2>2 DEF ScanInv, EachEntryOnce
<1>4. CASE ~(Iscode(scan) /\ InMode(scan))
  <2>1. next' = next /\ executed' = 0
    BY <1>4 DEF Examine
  <2>2. scan' = Succ(scan)
    BY <1>1, <1>4, <2>1 DEF Examine, Continue
  <2> QED BY <1>1, <1>2, <2>1, <2>2 DEF ScanInv, EachEntryOnce
<1> QED BY <1>3, <1>4

\* config->first is NULL for an empty list only.
LEMMA FirstEntryType ==
  ASSUME NEW list \in Seq(Entry)
  PROVE  /\ FirstEntry(list) \in 0..Len(list)
         /\ FirstEntry(list) # 0 => FirstEntry(list) = 1
         /\ FirstEntry(list) = 0 => Len(list) = 0
BY EmptySeq, LenProperties DEF FirstEntry

\* After the last entry, config->next is set back.
LEMMA GiveUpKeepsScanInv ==
  ASSUME ScanInv, GiveUp
  PROVE  ScanInv'
<1>1. /\ entries' = entries /\ last' = 0 /\ executed' = 0
      /\ code' = NULL /\ next' = FirstEntry(entries) /\ entries \in Seq(Entry)
  BY DEF GiveUp, ScanInv
<1>2. next' \in 0..Len(entries) /\ 0 \in 0..Len(entries)
  BY <1>1, FirstEntryType
<1> QED BY <1>1, <1>2 DEF ScanInv, EachEntryOnce

\* A line starts at config->next, which is the first entry.
LEMMA LookupKeepsScanInv ==
  ASSUME ScanInv, code = NULL, NEW line, Lookup(line)
  PROVE  ScanInv'
<1>1. /\ entries' = entries /\ last' = 0 /\ executed' = 0 /\ next = FirstEntry(entries)
      /\ next' = next /\ entries \in Seq(Entry)
  BY DEF Lookup, ScanInv, EachEntryOnce
<1>2. code' # NULL => scan' = next
  BY DEF Lookup
<1>3. FirstEntry(entries) \in 0..Len(entries) /\ 0 \in 0..Len(entries)
      /\ (FirstEntry(entries) # 0 => FirstEntry(entries) = 1)
      /\ (FirstEntry(entries) = 0 => Len(entries) = 0)
  BY <1>1, FirstEntryType
<1> QED BY <1>1, <1>2, <1>3 DEF ScanInv, EachEntryOnce

\* Steps of others do not touch the search.
LEMMA UnchangedKeepsScanInv ==
  ASSUME ScanInv, UNCHANGED cvars
  PROVE  ScanInv'
BY DEF ScanInv, EachEntryOnce, cvars, config, lookup, FirstEntry

\* The result of lirc_readconfig, or the empty list that stands for none.
LEMMA ReadTypes ==
  ASSUME NEW f \in Files \cup Shapes, Readconfig(f) # NULL
  PROVE  Readconfig(f) \in Seq(Entry)
BY FilesAssumption, ReadconfigType

\* A configuration that was just read is not being searched.
LEMMA ScanInvInit == Init => ScanInv
<1> SUFFICES ASSUME Init PROVE ScanInv
  OBVIOUS
<1> DEFINE list == IF Reads(file) THEN Readconfig(file) ELSE <<>>
<1>1. list \in Seq(Entry)
  BY ReadTypes DEF Init, Reads
<1>2. entries = StartupEntries(list) /\ next = FirstEntry(list)
  BY DEF Init, ModLircInit, Loaded
<1>3. entries \in Seq(Entry) /\ Len(entries) = Len(list)
  BY <1>1, <1>2, StartupEntriesType
<1> HIDE DEF list
<1>4. FirstEntry(entries) = FirstEntry(list) /\ FirstEntry(list) \in 0..Len(list)
  BY <1>1, <1>3 DEF FirstEntry
<1> QED BY <1>2, <1>3, <1>4 DEF Init, ScanInv, EachEntryOnce

\* Each action keeps the place in the list.
LEMMA ScanInvNext == ScanInv /\ [Next]_vars => ScanInv'
<1> SUFFICES ASSUME ScanInv, [Next]_vars PROVE ScanInv'
  OBVIOUS
<1>1. CASE Code2char
  BY <1>1, ExamineKeepsScanInv, GiveUpKeepsScanInv DEF Code2char
<1>2. CASE PollLine
  BY <1>2, LookupKeepsScanInv DEF PollLine, Idle
<1>3. CASE ModLircReload
  <2>1. CASE UNCHANGED cvars
    BY <2>1, UnchangedKeepsScanInv
  <2>2. ASSUME NEW f \in Edits, Readconfig(f) = NULL, ReadAgain(f), f # NULL, Idle
        PROVE  ScanInv'
    <3>1. Load(<<>>)
      BY <2>2 DEF ReadAgain
    <3> QED BY <1>3, <2>2, <3>1, LoadKeepsScanInv, EmptySeq DEF ModLircReload, Idle
  <2>3. ASSUME NEW f \in Edits, Readconfig(f) # NULL, ReadAgain(f), f # NULL, Idle
        PROVE  ScanInv'
    <3>1. Load(Readconfig(f)) /\ Readconfig(f) \in Seq(Entry)
      BY <2>3, ReadTypes, LircAssumption DEF ReadAgain
    <3> QED BY <1>3, <2>3, <3>1, LoadKeepsScanInv DEF ModLircReload, Idle
  <2>4. ASSUME NEW f, f = NULL, ReadAgain(f) PROVE UNCHANGED cvars
    BY <1>3, <2>4 DEF ModLircReload, ReadAgain, cvars, config
  <2> QED BY <1>3, <2>1, <2>2, <2>3, <2>4 DEF ModLircReload, FreeTwice, cvars, config
<1>4. CASE Send \/ SendRest \/ Hangup
  BY <1>4, UnchangedKeepsScanInv DEF Send, SendRest, Hangup
<1>5. CASE PollCrash \/ PollClosed \/ CrashInIscode \/ ModLircDeinit
  BY <1>5, UnchangedKeepsScanInv DEF PollCrash, PollClosed, CrashInIscode, ModLircDeinit
<1>6. CASE UNCHANGED vars
  BY <1>6, UnchangedKeepsScanInv DEF vars
<1> QED BY <1>1, <1>2, <1>3, <1>4, <1>5, <1>6 DEF Next

\* For any list of entries, each is asked once for a line, in order.
THEOREM EachEntryOnceHolds == Spec => []EachEntryOnce
<1>1. ScanInv => EachEntryOnce
  BY DEF ScanInv
<1> QED BY <1>1, ScanInvInit, ScanInvNext, PTL DEF Spec

-----------------------------------------------------------------------------
(* The stream of lines.                                                    *)

AnyUnit == [nr : Nat, end : BOOLEAN]
Stream == handled \o buffer \o socket
UnitAt(i) == [nr |-> (i + 1) \div 2, end |-> i % 2 = 0]

\* What lircd has sent, in three parts; the first consists of whole lines.
WireInv ==
  /\ handled \in Seq(AnyUnit) /\ buffer \in Seq(AnyUnit) /\ socket \in Seq(AnyUnit)
  /\ sent \in Seq(KeyLine \cup {Note})
  /\ Len(buffer) <= PacketSize
  /\ status # "stopped" =>
       /\ Len(Stream) = 2 * Len(sent) \/ Len(Stream) = 2 * Len(sent) - 1
       /\ \A i \in 1..Len(Stream) : Stream[i] = UnitAt(i)
       /\ Len(handled) % 2 = 0

\* The place of a newline, when there is one.
LEMMA NewlineFound ==
  ASSUME NEW b \in Seq(AnyUnit)
  PROVE  /\ Newline(b) \in 0..Len(b)
         /\ Newline(b) # 0 => b[Newline(b)].end
         /\ Newline(b) = 0 => \A i \in 1..Len(b) : ~b[i].end
<1> DEFINE I == {i \in 1..Len(b) : b[i].end}
<1>1. Newline(b) = IF I # {} THEN Min(I) ELSE 0
  BY DEF Newline, SelectInSeq
<1>2. I \subseteq Nat /\ I \subseteq 1..Len(b) /\ Len(b) \in Nat
  OBVIOUS
<1>3. CASE I # {}
  <2>1. Min(I) \in I
    BY <1>2, <1>3, Smallest
  <2> QED BY <1>1, <1>2, <1>3, <2>1
<1>4. CASE I = {}
  BY <1>1, <1>4, <1>2
<1> QED BY <1>3, <1>4

\* What is read is there, and there is room for it.
LEMMA ArrivingFits ==
  ASSUME Len(buffer) \in Nat, Len(buffer) <= PacketSize, Len(socket) \in Nat
  PROVE  /\ Arriving \in 0..Len(socket)
         /\ Len(buffer) + Arriving <= PacketSize
         /\ socket # <<>> /\ Len(buffer) < PacketSize => Arriving # 0
<1> DEFINE room == PacketSize - Len(buffer)
<1>1. room \in Nat /\ PacketSize \in Nat
  BY LircAssumption
<1>2. Arriving = CHOOSE x \in {Len(socket), room} : \A y \in {Len(socket), room} : x <= y
  BY DEF Arriving, Min
<1>3. \E x \in {Len(socket), room} : \A y \in {Len(socket), room} : x <= y
  BY <1>1
<1>4. Arriving \in {Len(socket), room} /\ Arriving <= Len(socket) /\ Arriving <= room
  BY <1>2, <1>3
<1> QED BY <1>1, <1>4

\* A sequence cut in two, and put together again.
LEMMA CutAnywhere ==
  ASSUME NEW s \in Seq(AnyUnit), NEW k \in 0..Len(s)
  PROVE  LET l == SubSeq(s, 1, k)
             r == SubSeq(s, k + 1, Len(s))
         IN  /\ l \in Seq(AnyUnit) /\ Len(l) = k /\ \A i \in 1..k : l[i] = s[i]
             /\ r \in Seq(AnyUnit) /\ Len(r) = Len(s) - k
             /\ l \o r = s
<1>1. Len(s) \in Nat /\ k \in Nat /\ k <= Len(s)
  OBVIOUS
<1>2. \A i \in 1..Len(s) : s[i] \in AnyUnit
  OBVIOUS
<1>3. /\ SubSeq(s, 1, k) \in Seq(AnyUnit) /\ Len(SubSeq(s, 1, k)) = k
      /\ \A i \in 1..k : SubSeq(s, 1, k)[i] = s[i]
  BY <1>1, <1>2, SubSeqProperties
<1>4. SubSeq(s, k + 1, Len(s)) \in Seq(AnyUnit) /\ Len(SubSeq(s, k + 1, Len(s))) = Len(s) - k
  BY <1>1, <1>2, SubSeqProperties
<1>5. SubSeq(s, 1, k) \o SubSeq(s, k + 1, Len(s)) = SubSeq(s, 1, Len(s))
  <2>1. 1 \in 1..(Len(s) + 1) /\ k \in (1 - 1)..Len(s) /\ Len(s) \in k..Len(s)
    BY <1>1
  <2> QED BY <2>1, ConcatAdjacentSubSeq, Zenon
<1>6. SubSeq(s, 1, Len(s)) = s
  BY SubSeqFull
<1> QED BY <1>3, <1>4, <1>5, <1>6

\* The length and the elements of two sequences put together.
LEMMA Concat ==
  ASSUME NEW s \in Seq(AnyUnit), NEW t \in Seq(AnyUnit)
  PROVE  /\ s \o t \in Seq(AnyUnit) /\ Len(s \o t) = Len(s) + Len(t)
         /\ \A i \in 1..Len(s) : (s \o t)[i] = s[i]
         /\ \A i \in 1..Len(t) : (s \o t)[Len(s) + i] = t[i]
<1>1. /\ s \o t \in Seq(AnyUnit) /\ Len(s \o t) = Len(s) + Len(t)
      /\ \A i \in 1 .. Len(s) + Len(t) : (s \o t)[i] = IF i <= Len(s) THEN s[i] ELSE t[i - Len(s)]
  BY ConcatProperties, Zenon
<1>2. Len(s) \in Nat /\ Len(t) \in Nat
  OBVIOUS
<1> QED BY <1>1, <1>2

\* Where the brackets stand does not matter.
LEMMA Assoc ==
  ASSUME NEW s \in Seq(AnyUnit), NEW t \in Seq(AnyUnit), NEW u \in Seq(AnyUnit)
  PROVE  (s \o t) \o u = s \o (t \o u)
BY ConcatAssociative

\* The first part is the beginning of the stream.
LEMMA FirstIsPrefix ==
  ASSUME NEW h \in Seq(AnyUnit), NEW b \in Seq(AnyUnit), NEW s \in Seq(AnyUnit)
  PROVE  /\ h \o b \o s \in Seq(AnyUnit)
         /\ Len(h \o b \o s) = Len(h) + Len(b) + Len(s)
         /\ \A i \in 1..Len(h) : (h \o b \o s)[i] = h[i]
<1>1. /\ h \o b \in Seq(AnyUnit) /\ Len(h \o b) = Len(h) + Len(b)
      /\ \A i \in 1..Len(h) : (h \o b)[i] = h[i]
  BY Concat
<1> DEFINE hb == h \o b
<1>2. hb \in Seq(AnyUnit) /\ Len(hb) = Len(h) + Len(b) /\ \A i \in 1..Len(h) : hb[i] = h[i]
  BY <1>1
<1>3. Len(h) \in Nat /\ Len(b) \in Nat
  OBVIOUS
<1> HIDE DEF hb
<1>4. /\ hb \o s \in Seq(AnyUnit) /\ Len(hb \o s) = Len(hb) + Len(s)
      /\ \A i \in 1..Len(hb) : (hb \o s)[i] = hb[i]
  BY <1>2, Concat
<1>5. /\ hb \o s \in Seq(AnyUnit)
      /\ Len(hb \o s) = Len(h) + Len(b) + Len(s)
      /\ \A i \in 1..Len(h) : (hb \o s)[i] = h[i]
  BY <1>2, <1>3, <1>4
<1> QED BY <1>5 DEF hb

\* A read and the cut move the bounds of the three parts and nothing else, and
\* what is cut off ends with a newline.
LEMMA TakeKeepsStream ==
  ASSUME WireInv, Take
  PROVE  /\ handled' \in Seq(AnyUnit) /\ buffer' \in Seq(AnyUnit) /\ socket' \in Seq(AnyUnit)
         /\ Len(buffer') <= PacketSize
         /\ Stream' = Stream
         /\ Len(handled') = Len(handled) \/ handled'[Len(handled')].end
         /\ Len(handled') >= Len(handled) /\ Len(handled') <= Len(Stream)
<1> DEFINE a == IF Newline(buffer) # 0 THEN 0 ELSE Arriving
           read == SubSeq(socket, 1, a)
           left == SubSeq(socket, a + 1, Len(socket))
           line == SubSeq(Filled, 1, Newline(Filled))
           rest == SubSeq(Filled, Newline(Filled) + 1, Len(Filled))
<1>1. /\ handled \in Seq(AnyUnit) /\ buffer \in Seq(AnyUnit) /\ socket \in Seq(AnyUnit)
      /\ Len(buffer) <= PacketSize /\ PacketSize \in Nat
      /\ Len(handled) \in Nat /\ Len(buffer) \in Nat /\ Len(socket) \in Nat
  BY LircAssumption DEF WireInv
<1>2. a \in 0..Len(socket) /\ Len(buffer) + a <= PacketSize
  BY <1>1, ArrivingFits
<1>3. read \in Seq(AnyUnit) /\ Len(read) = a /\ left \in Seq(AnyUnit) /\ read \o left = socket
  BY <1>1, <1>2, CutAnywhere
<1>4. Filled = buffer \o read
  <2>1. CASE Newline(buffer) # 0
    <3>1. read = <<>>
      BY <1>3, <2>1, EmptySeq
    <3> QED BY <1>1, <2>1, <3>1, ConcatEmptySeq DEF Filled
  <2>2. CASE Newline(buffer) = 0
    BY <2>2 DEF Filled
  <2> QED BY <2>1, <2>2
<1>5. socket' = left
  <2>1. CASE Newline(buffer) # 0
    BY <1>1, <2>1, SubSeqFull DEF Take
  <2>2. CASE Newline(buffer) = 0
    BY <2>2 DEF Take
  <2> QED BY <2>1, <2>2
<1> HIDE DEF a, read, left
<1>6. Filled \in Seq(AnyUnit) /\ Len(Filled) = Len(buffer) + a
  BY <1>1, <1>3, <1>4, Concat
<1>7. Newline(Filled) \in 0..Len(Filled) /\ (Newline(Filled) # 0 => Filled[Newline(Filled)].end)
  BY <1>6, NewlineFound
<1>8. /\ line \in Seq(AnyUnit) /\ Len(line) = Newline(Filled)
      /\ rest \in Seq(AnyUnit) /\ Len(rest) = Len(Filled) - Newline(Filled)
      /\ line \o rest = Filled
      /\ Newline(Filled) # 0 => line[Newline(Filled)].end
  <2>1. /\ line \in Seq(AnyUnit) /\ Len(line) = Newline(Filled)
        /\ \A i \in 1..Newline(Filled) : line[i] = Filled[i]
        /\ rest \in Seq(AnyUnit) /\ Len(rest) = Len(Filled) - Newline(Filled)
        /\ line \o rest = Filled
    BY <1>6, <1>7, CutAnywhere
  <2>2. Newline(Filled) # 0 => Newline(Filled) \in 1..Newline(Filled)
    BY <1>6, <1>7
  <2> HIDE DEF line, rest
  <2> QED BY <1>7, <2>1, <2>2
<1>9. handled' = handled \o line /\ buffer' = rest
  BY DEF Take
<1> HIDE DEF line, rest
<1>10. /\ handled' \in Seq(AnyUnit) /\ Len(handled') = Len(handled) + Len(line)
       /\ \A i \in 1..Len(line) : handled'[Len(handled) + i] = line[i]
  BY <1>1, <1>8, <1>9, Concat
<1>11. Stream' = Stream
  <2>1. Stream' = (handled \o line) \o rest \o left
    BY <1>5, <1>9 DEF Stream
  <2>2. (handled \o line) \o rest = handled \o Filled
    <3>1. handled \in Seq(AnyUnit) /\ line \in Seq(AnyUnit) /\ rest \in Seq(AnyUnit)
      BY <1>1, <1>8
    <3>2. (handled \o line) \o rest = handled \o (line \o rest)
      BY <3>1, Assoc, Zenon
    <3> QED BY <1>8, <3>2
  <2>3. handled \o Filled = (handled \o buffer) \o read
    <3>1. (handled \o buffer) \o read = handled \o (buffer \o read)
      <4>1. handled \in Seq(AnyUnit) /\ buffer \in Seq(AnyUnit) /\ read \in Seq(AnyUnit)
        BY <1>1, <1>3
      <4> QED BY <4>1, Assoc, Zenon
    <3> QED BY <1>4, <3>1
  <2>4. handled \o buffer \in Seq(AnyUnit)
    BY <1>1
  <2>5. ((handled \o buffer) \o read) \o left = (handled \o buffer) \o socket
    BY <1>3, <2>4, Assoc
  <2> QED BY <2>1, <2>2, <2>3, <2>5 DEF Stream
<1>12. Len(Stream) = Len(handled) + Len(buffer) + Len(socket)
  <2>1. handled \o buffer \in Seq(AnyUnit) /\ Len(handled \o buffer) = Len(handled) + Len(buffer)
    BY <1>1, Concat
  <2> QED BY <1>1, <2>1, Concat DEF Stream
<1>13. Len(handled') <= Len(Stream)
  <2>1. Len(handled') = Len(handled) + Newline(Filled) /\ Newline(Filled) <= Len(buffer) + a
    BY <1>6, <1>7, <1>8, <1>10
  <2>2. a <= Len(socket) /\ a \in Nat /\ Len(handled) \in Nat /\ Len(buffer) \in Nat
        /\ Len(socket) \in Nat /\ Newline(Filled) \in Nat
    BY <1>1, <1>2, <1>6, <1>7
  <2> QED BY <1>12, <2>1, <2>2
<1>14. Len(handled') = Len(handled) \/ handled'[Len(handled')].end
  BY <1>1, <1>7, <1>8, <1>10
<1>15. buffer' \in Seq(AnyUnit) /\ Len(buffer') <= PacketSize
  <2>1. buffer' \in Seq(AnyUnit) /\ Len(buffer') = Len(Filled) - Newline(Filled)
    BY <1>8, <1>9
  <2> DEFINE size == Len(Filled)
             cut == Newline(Filled)
             bytes == Len(buffer)
  <2>2. /\ size \in Nat /\ cut \in 0..size /\ size = bytes + a /\ bytes + a <= PacketSize
        /\ bytes \in Nat /\ a \in Nat /\ PacketSize \in Nat
    BY <1>1, <1>2, <1>6, <1>7
  <2> HIDE DEF size, cut, bytes
  <2>3. size - cut <= PacketSize
    BY <2>2
  <2> QED BY <2>1, <2>3 DEF size, cut
<1>16. Len(handled') >= Len(handled)
  <2>1. Newline(Filled) \in Nat
    BY <1>6, <1>7
  <2>2. Len(handled') = Len(handled) + Newline(Filled)
    BY <1>8, <1>10
  <2> QED BY <1>1, <2>1, <2>2
<1> QED BY <1>3, <1>5, <1>10, <1>11, <1>13, <1>14, <1>15, <1>16

\* lirc_nextcode returns whole lines.
LEMMA TakeKeepsWireInv ==
  ASSUME WireInv, Take, UNCHANGED sent, status = "running"
  PROVE  WireInv'
<1>1. /\ handled' \in Seq(AnyUnit) /\ buffer' \in Seq(AnyUnit) /\ socket' \in Seq(AnyUnit)
      /\ Len(buffer') <= PacketSize /\ Stream' = Stream
      /\ Len(handled') = Len(handled) \/ handled'[Len(handled')].end
      /\ Len(handled') >= Len(handled) /\ Len(handled') <= Len(Stream)
  BY TakeKeepsStream
<1>2. /\ Len(Stream) = 2 * Len(sent) \/ Len(Stream) = 2 * Len(sent) - 1
      /\ \A i \in 1..Len(Stream) : Stream[i] = UnitAt(i)
      /\ Len(handled) % 2 = 0 /\ handled \in Seq(AnyUnit)
      /\ sent \in Seq(KeyLine \cup {Note})
  BY DEF WireInv
<1>3. Len(handled') % 2 = 0
  <2>1. CASE Len(handled') = Len(handled)
    BY <1>2, <2>1
  <2>2. CASE Len(handled') # Len(handled)
    <3> DEFINE k == Len(handled')
    <3>1. k \in Nat /\ k \in 1..Len(Stream) /\ k \in 1..Len(handled') /\ handled'[k].end
      BY <1>1, <1>2, <2>2
    <3>2. Stream'[k] = handled'[k]
      BY <1>1, <3>1, FirstIsPrefix DEF Stream
    <3>3. UnitAt(k).end
      BY <1>1, <1>2, <3>1, <3>2
    <3> QED BY <3>1, <3>3 DEF UnitAt
  <2> QED BY <2>1, <2>2
<1> QED BY <1>1, <1>2, <1>3 DEF WireInv

\* The units of line m + 1 are the next two.
LEMMA UnitsOfLine ==
  ASSUME NEW m \in Nat
  PROVE  /\ UnitAt(2 * m + 1) = [nr |-> m + 1, end |-> FALSE]
         /\ UnitAt(2 * m + 2) = [nr |-> m + 1, end |-> TRUE]
         /\ UnitAt(2 * m + 1) \in AnyUnit /\ UnitAt(2 * m + 2) \in AnyUnit
<1>1. (2 * m + 1 + 1) \div 2 = m + 1 /\ (2 * m + 2 + 1) \div 2 = m + 1
  OBVIOUS
<1>2. (2 * m + 1) % 2 # 0 /\ (2 * m + 2) % 2 = 0
  OBVIOUS
<1>3. ((2 * m + 1) % 2 = 0) = FALSE /\ ((2 * m + 2) % 2 = 0) = TRUE
  BY <1>2
<1>4. UnitAt(2 * m + 1) = [nr |-> m + 1, end |-> FALSE] /\ UnitAt(2 * m + 2) = [nr |-> m + 1, end |-> TRUE]
  BY <1>1, <1>3, Zenon DEF UnitAt
<1>5. m + 1 \in Nat
  OBVIOUS
<1>6. [nr |-> m + 1, end |-> FALSE] \in AnyUnit /\ [nr |-> m + 1, end |-> TRUE] \in AnyUnit
  BY <1>5 DEF AnyUnit
<1> QED BY <1>4, <1>6, Zenon

\* Units behind the last one.
LEMMA GrowsBy ==
  ASSUME WireInv, status = "running", UNCHANGED <<handled, buffer, status>>,
         NEW us \in Seq(AnyUnit), \A i \in 1..Len(us) : us[i] = UnitAt(Len(Stream) + i),
         socket' = socket \o us
  PROVE  /\ socket' \in Seq(AnyUnit) /\ Len(Stream') = Len(Stream) + Len(us)
         /\ \A i \in 1..Len(Stream') : Stream'[i] = UnitAt(i)
<1>1. socket \in Seq(AnyUnit) /\ handled \o buffer \in Seq(AnyUnit)
  BY Concat DEF WireInv
<1>2. Stream' = (handled \o buffer) \o (socket \o us)
  BY DEF Stream
<1>3. Stream' = Stream \o us
  BY <1>1, <1>2, Assoc DEF Stream
<1>4. Stream \in Seq(AnyUnit) /\ \A i \in 1..Len(Stream) : Stream[i] = UnitAt(i)
  BY <1>1, Concat DEF WireInv, Stream
<1>5. /\ Len(Stream') = Len(Stream) + Len(us) /\ Len(Stream) \in Nat /\ Len(us) \in Nat
      /\ \A i \in 1..Len(Stream) : Stream'[i] = UnitAt(i)
      /\ \A i \in 1..Len(us) : Stream'[Len(Stream) + i] = UnitAt(Len(Stream) + i)
  BY <1>3, <1>4, Concat
<1>6. ASSUME NEW i \in 1..Len(Stream') PROVE Stream'[i] = UnitAt(i)
  <2>1. CASE i <= Len(Stream)
    BY <1>5, <2>1
  <2>2. CASE i > Len(Stream)
    <3>1. i - Len(Stream) \in 1..Len(us) /\ i = Len(Stream) + (i - Len(Stream))
      BY <1>5, <2>2
    <3> QED BY <1>5, <3>1
  <2> QED BY <1>5, <2>1, <2>2
<1> QED BY <1>1, <1>5, <1>6, Concat

\* An even number is not one less than an even number.
LEMMA Parity ==
  ASSUME NEW n \in Nat, NEW m \in Nat, n = 2 * m \/ n = 2 * m - 1
  PROVE  n % 2 = 0 <=> n = 2 * m
OBVIOUS

\* Nothing is pending, or a whole line was sent last.
LEMMA CutMeansOdd ==
  ASSUME WireInv, status = "running"
  PROVE  /\ Cut => Len(Stream) = 2 * Len(sent) - 1
         /\ ~Cut => Len(Stream) = 2 * Len(sent)
<1> DEFINE pending == buffer \o socket
<1>1. /\ handled \in Seq(AnyUnit) /\ buffer \in Seq(AnyUnit) /\ socket \in Seq(AnyUnit)
      /\ Len(handled) \in Nat /\ Len(sent) \in Nat /\ Len(handled) % 2 = 0
      /\ Len(Stream) = 2 * Len(sent) \/ Len(Stream) = 2 * Len(sent) - 1
      /\ \A i \in 1..Len(Stream) : Stream[i] = UnitAt(i)
  BY DEF WireInv
<1>2. pending \in Seq(AnyUnit) /\ Stream = handled \o pending
  <2>1. pending \in Seq(AnyUnit)
    BY <1>1, Concat
  <2>2. (handled \o buffer) \o socket = handled \o pending
    BY <1>1, Assoc, Zenon
  <2> QED BY <2>1, <2>2 DEF Stream
<1>3. Cut <=> pending # <<>> /\ ~pending[Len(pending)].end
  BY DEF Cut, Last
<1> HIDE DEF pending
<1>4. /\ Len(Stream) = Len(handled) + Len(pending) /\ Len(pending) \in Nat
      /\ \A i \in 1..Len(pending) : Stream[Len(handled) + i] = pending[i]
  BY <1>1, <1>2, Concat
<1>5. CASE pending = <<>>
  <2>1. Len(Stream) = Len(handled)
    BY <1>1, <1>4, <1>5, EmptySeq
  <2>2. Len(handled) = 2 * Len(sent) \/ Len(handled) = 2 * Len(sent) - 1
    BY <1>1, <2>1
  <2>3. Len(handled) \in Nat /\ Len(sent) \in Nat /\ Len(handled) % 2 = 0
    BY <1>1
  <2>4. Len(handled) = 2 * Len(sent)
    BY <2>2, <2>3, Parity
  <2>5. ~Cut
    BY <1>3, <1>5
  <2> QED BY <2>1, <2>4, <2>5
<1>6. CASE pending # <<>>
  <2>1. Len(pending) \in 1..Len(pending) /\ Len(Stream) \in 1..Len(Stream)
    BY <1>1, <1>2, <1>4, <1>6, EmptySeq
  <2>2. pending[Len(pending)] = UnitAt(Len(Stream))
    BY <1>1, <1>4, <2>1
  <2>3. pending[Len(pending)].end <=> Len(Stream) % 2 = 0
    <3>1. UnitAt(Len(Stream)).end = (Len(Stream) % 2 = 0)
      BY Zenon DEF UnitAt
    <3> QED BY <2>2, <3>1, Zenon
  <2>4. Cut <=> Len(Stream) % 2 # 0
    BY <1>3, <1>6, <2>3, Zenon
  <2>5. Len(Stream) % 2 = 0 <=> Len(Stream) = 2 * Len(sent)
    <3>1. Len(Stream) \in Nat /\ Len(sent) \in Nat
      BY <1>1, <1>4
    <3>2. Len(Stream) = 2 * Len(sent) \/ Len(Stream) = 2 * Len(sent) - 1
      BY <1>1
    <3> QED BY <3>1, <3>2, Parity
  <2> QED BY <1>1, <2>4, <2>5
<1> QED BY <1>5, <1>6

\* A line is one of those that the model knows.
LEMMA NextLineType ==
  ASSUME NEW line \in NextLine
  PROVE  line \in KeyLine \cup {Note}
BY DEF NextLine, Repeated

\* One or both units of line m + 1.
LEMMA UnitsSent ==
  ASSUME NEW m \in Nat, NEW n \in 1..2
  PROVE  LET us == SubSeq(Units(m + 1), 1, n)
         IN  /\ us \in Seq(AnyUnit) /\ Len(us) = n
             /\ \A i \in 1..Len(us) : us[i] = UnitAt(2 * m + i)
<1>1. Units(m + 1) = <<UnitAt(2 * m + 1), UnitAt(2 * m + 2)>>
  BY UnitsOfLine DEF Units
<1> DEFINE first == UnitAt(2 * m + 1)
           second == UnitAt(2 * m + 2)
<1>0. first \in AnyUnit /\ second \in AnyUnit /\ Units(m + 1) = <<first, second>>
  BY <1>1, UnitsOfLine
<1> HIDE DEF first, second
<1>2. /\ Units(m + 1) \in Seq(AnyUnit) /\ Len(Units(m + 1)) = 2
      /\ Units(m + 1)[1] = first /\ Units(m + 1)[2] = second
  BY <1>0
<1>3. n \in 0..Len(Units(m + 1)) /\ (n = 1 \/ n = 2)
  BY <1>2
<1> DEFINE us == SubSeq(Units(m + 1), 1, n)
<1>4. us \in Seq(AnyUnit) /\ Len(us) = n /\ \A i \in 1..n : us[i] = Units(m + 1)[i]
  BY <1>2, <1>3, CutAnywhere
<1> HIDE DEF us
<1>5. \A i \in 1..Len(us) : us[i] = UnitAt(2 * m + i)
  <2> SUFFICES ASSUME NEW i \in 1..Len(us) PROVE us[i] = UnitAt(2 * m + i)
    OBVIOUS
  <2>1. i = 1 \/ i = 2
    BY <1>3, <1>4
  <2> QED BY <1>2, <1>4, <2>1 DEF first, second
<1> QED BY <1>4, <1>5 DEF us

\* lircd sends a line, or half of it, when it has sent the last one to the end.
LEMMA SendKeepsWireInv ==
  ASSUME WireInv, Send
  PROVE  WireInv'
<1>1. PICK line \in NextLine, n \in 1..2 :
        /\ sent' = Append(sent, line)
        /\ socket' = socket \o SubSeq(Units(Len(sent) + 1), 1, n)
  BY DEF Send
<1>2. status = "running" /\ UNCHANGED <<handled, buffer, status>> /\ ~Cut
  BY DEF Send, Pressing, Idle, module
<1>3. Len(sent) \in Nat /\ sent \in Seq(KeyLine \cup {Note}) /\ Len(handled) % 2 = 0
  BY <1>2 DEF WireInv
<1>4. line \in KeyLine \cup {Note}
  BY <1>1, NextLineType
<1>5. sent' \in Seq(KeyLine \cup {Note}) /\ Len(sent') = Len(sent) + 1
  BY <1>1, <1>3, <1>4
<1> DEFINE us == SubSeq(Units(Len(sent) + 1), 1, n)
<1>6. Len(Stream) = 2 * Len(sent)
  BY <1>2, CutMeansOdd
<1>7. /\ us \in Seq(AnyUnit) /\ Len(us) = n
      /\ \A i \in 1..Len(us) : us[i] = UnitAt(Len(Stream) + i)
  BY <1>3, <1>6, UnitsSent
<1>8. socket' = socket \o us
  BY <1>1
<1> HIDE DEF us
<1>9. /\ socket' \in Seq(AnyUnit) /\ Len(Stream') = Len(Stream) + Len(us)
      /\ \A i \in 1..Len(Stream') : Stream'[i] = UnitAt(i)
  BY <1>2, <1>7, <1>8, GrowsBy
<1>10. Len(Stream') = 2 * Len(sent') \/ Len(Stream') = 2 * Len(sent') - 1
  BY <1>3, <1>5, <1>6, <1>7, <1>9
<1> QED BY <1>2, <1>3, <1>5, <1>9, <1>10 DEF WireInv

\* lircd sends the other half.
LEMMA SendRestKeepsWireInv ==
  ASSUME WireInv, SendRest
  PROVE  WireInv'
<1>1. status = "running" /\ UNCHANGED <<handled, buffer, status, sent>> /\ Cut
  BY DEF SendRest, Pressing, Idle, module, outside
<1>2. Len(sent) \in Nat /\ Len(handled) % 2 = 0 /\ Len(Stream) \in Nat
  BY <1>1, FirstIsPrefix DEF WireInv, Stream
<1>3. Len(Stream) = 2 * Len(sent) - 1 /\ Len(sent) - 1 \in Nat
  BY <1>1, <1>2, CutMeansOdd
<1> DEFINE u == [nr |-> Len(sent), end |-> TRUE]
<1>4. UnitAt(2 * (Len(sent) - 1) + 2) = [nr |-> (Len(sent) - 1) + 1, end |-> TRUE]
  BY <1>3, UnitsOfLine
<1>5. u = UnitAt(Len(Stream) + 1) /\ u \in AnyUnit
  <2>1. 2 * (Len(sent) - 1) + 2 = Len(Stream) + 1 /\ (Len(sent) - 1) + 1 = Len(sent)
    BY <1>2, <1>3
  <2> QED BY <1>2, <1>4, <2>1 DEF AnyUnit
<1>6. socket' = Append(socket, u)
  BY DEF SendRest, Units
<1> HIDE DEF u
<1>7. /\ socket' = socket \o <<u>> /\ <<u>> \in Seq(AnyUnit) /\ Len(<<u>>) = 1
      /\ \A i \in 1..Len(<<u>>) : <<u>>[i] = UnitAt(Len(Stream) + i)
  <2>1. socket \in Seq(AnyUnit)
    BY DEF WireInv
  <2>2. socket' = socket \o <<u>>
    BY <1>5, <1>6, <2>1, AppendIsConcat
  <2> QED BY <1>5, <2>2
<1>8. /\ socket' \in Seq(AnyUnit) /\ Len(Stream') = Len(Stream) + Len(<<u>>)
      /\ \A i \in 1..Len(Stream') : Stream'[i] = UnitAt(i)
  BY <1>1, <1>7, GrowsBy
<1>9. Len(Stream') = 2 * Len(sent')
  BY <1>1, <1>2, <1>3, <1>7, <1>8
<1> QED BY <1>1, <1>2, <1>8, <1>9 DEF WireInv

\* Steps that neither send nor read.
LEMMA UnchangedKeepsWireInv ==
  ASSUME WireInv, UNCHANGED <<wire, sent>>, status' = "stopped" \/ status # "stopped"
  PROVE  WireInv'
BY DEF WireInv, wire, Stream

\* Nothing is sent or read at the start.
LEMMA WireInvInit == Init => WireInv
<1> SUFFICES ASSUME Init PROVE WireInv
  OBVIOUS
<1>1. handled = <<>> /\ buffer = <<>> /\ socket = <<>> /\ sent = <<>>
  BY DEF Init
<1>2. /\ <<>> \in Seq(AnyUnit) /\ <<>> \in Seq(KeyLine \cup {Note}) /\ Len(<<>>) = 0
      /\ <<>> \o <<>> = <<>>
  BY EmptySeq, ConcatEmptySeq
<1> QED BY <1>1, <1>2, LircAssumption DEF WireInv, Stream

\* Each action keeps the three parts in order.
LEMMA WireInvNext == WireInv /\ [Next]_vars => WireInv'
<1> SUFFICES ASSUME WireInv, [Next]_vars PROVE WireInv'
  OBVIOUS
<1>1. CASE Send
  BY <1>1, SendKeepsWireInv
<1>2. CASE SendRest
  BY <1>2, SendRestKeepsWireInv
<1>3. CASE PollLine \/ PollCrash
  BY <1>3, TakeKeepsWireInv DEF PollLine, PollCrash, Idle, outside
<1>4. CASE Hangup \/ PollClosed \/ Code2char \/ CrashInIscode \/ ModLircReload
  <2>1. UNCHANGED <<wire, sent>> /\ status # "stopped"
    BY <1>4 DEF Hangup, PollClosed, Code2char, CrashInIscode, ModLircReload, FreeTwice,
      ReadNameless, Pressing, Idle, outside, wire
  <2> QED BY <2>1, UnchangedKeepsWireInv
<1>5. CASE ModLircDeinit
  <2>1. CASE FreeTwice /\ UNCHANGED buffer
    <3>1. UNCHANGED <<wire, sent>> /\ status # "stopped"
      BY <1>5, <2>1 DEF ModLircDeinit, FreeTwice, Idle, outside, wire
    <3> QED BY <3>1, UnchangedKeepsWireInv
  <2>2. CASE status' = "stopped" /\ buffer' = <<>>
    <3>1. UNCHANGED <<handled, socket, sent>>
      BY <1>5 DEF ModLircDeinit, outside
    <3>2. <<>> \in Seq(AnyUnit) /\ Len(<<>>) = 0
      BY EmptySeq
    <3> QED BY <2>2, <3>1, <3>2, LircAssumption DEF WireInv
  <2> QED BY <1>5, <2>1, <2>2 DEF ModLircDeinit
<1>6. CASE UNCHANGED vars
  BY <1>6 DEF vars, module, wire, outside, WireInv, Stream
<1> QED BY <1>1, <1>2, <1>3, <1>4, <1>5, <1>6 DEF Next

\* Whole lines come out of lirc_nextcode, each once and in order, for any number
\* of lines and any room in the buffer.
THEOREM LinesWholeHolds == Spec => []LinesWhole
<1>1. WireInv => LinesWhole
  <2> SUFFICES ASSUME WireInv, status # "stopped" PROVE LinesWhole
    BY DEF LinesWhole
  <2>1. Stream = handled \o buffer \o socket
    BY DEF Stream
  <2>2. Len(Stream) \in {2 * Len(sent), 2 * Len(sent) - 1}
    BY DEF WireInv
  <2>3. \A i \in 1..Len(Stream) : Stream[i] = [nr |-> (i + 1) \div 2, end |-> i % 2 = 0]
    BY DEF WireInv, UnitAt
  <2>4. handled # <<>> => Last(handled).end
    <3> SUFFICES ASSUME handled # <<>> PROVE handled[Len(handled)].end
      BY DEF Last
    <3> DEFINE k == Len(handled)
    <3>1. /\ handled \in Seq(AnyUnit) /\ buffer \in Seq(AnyUnit) /\ socket \in Seq(AnyUnit)
          /\ k % 2 = 0 /\ k \in Nat /\ k # 0
      BY EmptySeq DEF WireInv
    <3>2. k \in 1..k /\ Len(Stream) = k + Len(buffer) + Len(socket)
          /\ Stream[k] = handled[k]
      BY <3>1, FirstIsPrefix DEF Stream
    <3>3. k \in 1..Len(Stream)
      BY <3>1, <3>2
    <3>4. handled[k] = UnitAt(k)
      BY <3>2, <3>3 DEF WireInv
    <3>5. UnitAt(k).end = (k % 2 = 0)
      BY Zenon DEF UnitAt
    <3> QED BY <3>1, <3>4, <3>5, Zenon
  <2> QED BY <2>1, <2>2, <2>3, <2>4 DEF LinesWhole
<1> QED BY <1>1, WireInvInit, WireInvNext, PTL DEF Spec

-----------------------------------------------------------------------------
(* The causes of a crash.                                                  *)

\* Where each entry is in its sequence.
CodesInv ==
  /\ nextCode \in [DOMAIN entries -> Nat]
  /\ \A i \in DOMAIN entries : nextCode[i] <= Len(entries[i].codes)

\* As long as the daemon runs, a pointer to no configuration is due to a reload.
CauseInv ==
  /\ CodesInv
  /\ status = "running" /\ irconfig # "valid" => spoiled
  /\ LircCrashNeedsCause

\* lirc_iscode falls back to a code that it has passed, or to the first.
LEMMA FallbackType ==
  ASSUME NEW s, NEW p \in Nat, NEW press
  PROVE  Fallback(s, p, press) = 1 \/ Fallback(s, p, press) \in 1..p
<1> DEFINE resumes == Resumes(s, p, press)
<1>1. resumes \subseteq 2..p
  BY DEF Resumes
<1>2. CASE resumes = {}
  BY <1>2 DEF Fallback
<1>3. CASE resumes # {}
  <2>1. resumes \subseteq Nat
    BY <1>1
  <2>2. Min(resumes) \in resumes
    BY <1>3, <2>1, Smallest
  <2>3. Min(resumes) \in 2..p
    BY <1>1, <2>2
  <2>4. Fallback(s, p, press) = p - Min(resumes) + 2
    BY <1>3 DEF Fallback
  <2> HIDE DEF resumes
  <2> QED BY <2>3, <2>4
<1> QED BY <1>2, <1>3

\* The places the loop in lirc_iscode looks at.
LEMMA ComparedType ==
  ASSUME NEW s, NEW p \in Nat, NEW press, NEW k \in Compared(s, p, press)
  PROVE  k \in 2..p
<1> DEFINE resumes == Resumes(s, p, press)
<1>1. resumes \subseteq 2..p
  BY DEF Resumes
<1>2. CASE resumes = {}
  BY <1>2 DEF Compared
<1>3. CASE resumes # {}
  <2>1. resumes \subseteq Nat
    BY <1>1
  <2>2. Min(resumes) \in 2..p
    BY <1>1, <1>3, <2>1, Smallest
  <2>3. k \in 2..Min(resumes)
    BY <1>3 DEF Compared
  <2> HIDE DEF resumes
  <2> QED BY <2>2, <2>3
<1> QED BY <1>2, <1>3

\* The codes of an entry in use.
LEMMA CodesType ==
  ASSUME ScanInv, NEW i \in DOMAIN entries
  PROVE  entries[i].codes \in Seq(Code) /\ Len(entries[i].codes) \in Nat
<1>1. entries[i] \in Entry
  BY DEF ScanInv
<1>2. entries[i].codes \in Seq(Code)
  BY <1>1 DEF Entry
<1> QED BY <1>2

\* A wild pointer is met between two codes of one entry.
LEMMA CrashesAtWildcard ==
  ASSUME ScanInv, CodesInv, NEW i \in DOMAIN entries, Crashes(i)
  PROVE  \E a, b \in DOMAIN entries[i].codes :
           a < b /\ WildPointer(entries[i].codes[a], entries[i].codes[b])
<1> DEFINE s == entries[i].codes
           p == nextCode[i]
<1>1. p \in Nat /\ p <= Len(s)
  BY DEF CodesInv
<1>2. s \in Seq(Code) /\ Len(s) \in Nat /\ DOMAIN s = 1..Len(s)
  BY CodesType
<1>3. PICK k \in Compared(s, p, code) : Garbage(s, p, k)
  BY DEF Crashes
<1>4. PICK j \in 1..(p - k) : WildPointer(s[j], s[k + j - 1])
  BY <1>3 DEF Garbage
<1>5. k \in 2..p
  BY <1>1, ComparedType
<1> HIDE DEF s, p
<1>6. j \in 1..Len(s) /\ k + j - 1 \in 1..Len(s) /\ j < k + j - 1
  BY <1>1, <1>2, <1>4, <1>5
<1> QED BY <1>2, <1>4, <1>6 DEF s

\* The position in a sequence stays within it.
LEMMA CodeAfterType ==
  ASSUME ScanInv, CodesInv, NEW i \in DOMAIN entries
  PROVE  CodeAfter(i) \in Nat /\ CodeAfter(i) <= Len(entries[i].codes)
<1> DEFINE s == entries[i].codes
           p == nextCode[i]
<1>1. p \in Nat /\ p <= Len(s) /\ s \in Seq(Code) /\ Len(s) \in Nat
  BY CodesType DEF CodesInv
<1>2. CASE s = <<>>
  BY <1>1, <1>2, EmptySeq DEF CodeAfter
<1>3. CASE s # <<>> /\ Completes(i)
  BY <1>1, <1>3, EmptySeq DEF CodeAfter
<1>4. CASE s # <<>> /\ Advances(i) /\ ~Completes(i)
  <2>1. CodeAfter(i) = p + 1 /\ p # Len(s)
    BY <1>4 DEF CodeAfter, Completes
  <2> QED BY <1>1, <2>1
<1>5. CASE s # <<>> /\ ~Advances(i)
  <2>1. CodeAfter(i) = p \/ CodeAfter(i) = Fallback(s, p, code)
    BY <1>5 DEF CodeAfter, Completes
  <2>2. Fallback(s, p, code) = 1 \/ Fallback(s, p, code) \in 1..p
    BY <1>1, FallbackType
  <2>3. Len(s) # 0
    BY <1>1, <1>5, EmptySeq
  <2> QED BY <1>1, <2>1, <2>2, <2>3
<1> QED BY <1>2, <1>3, <1>4, <1>5

\* A new configuration begins with the first code of each entry.
LEMMA FirstCodesType ==
  ASSUME NEW list \in Seq(Entry), NEW es, es = StartupEntries(list)
  PROVE  /\ FirstCodes(list) \in [DOMAIN es -> Nat]
         /\ \A i \in DOMAIN es : FirstCodes(list)[i] <= Len(es[i].codes)
<1>1. DOMAIN es = DOMAIN list
  BY DEF StartupEntries
<1>2. ASSUME NEW i \in DOMAIN es PROVE list[i] \in Entry /\ es[i].codes = list[i].codes
  <2>1. list[i] \in Entry
    BY <1>1
  <2>2. es[i] = list[i] \/ es[i] = [list[i] EXCEPT !.change = NULL]
    BY <1>1 DEF StartupEntries
  <2>3. [list[i] EXCEPT !.change = NULL].codes = list[i].codes
    BY <2>1 DEF Entry
  <2> QED BY <2>1, <2>2, <2>3
<1>3. ASSUME NEW i \in DOMAIN es
      PROVE  FirstCodes(list)[i] \in Nat /\ FirstCodes(list)[i] <= Len(es[i].codes)
  <2>1. es[i].codes = list[i].codes /\ list[i].codes \in Seq(Code)
    BY <1>2 DEF Entry
  <2>2. FirstCodes(list)[i] = IF list[i].codes = <<>> THEN 0 ELSE 1
    BY <1>1 DEF FirstCodes
  <2> QED BY <2>1, <2>2, EmptySeq
<1>4. FirstCodes(list) \in [DOMAIN es -> Nat]
  BY <1>1, <1>3 DEF FirstCodes
<1> QED BY <1>3, <1>4

\* Reading a configuration again sets every sequence to its beginning.
LEMMA LoadKeepsCodesInv ==
  ASSUME NEW list \in Seq(Entry), Load(list)
  PROVE  CodesInv'
<1>1. entries' = StartupEntries(list) /\ nextCode' = FirstCodes(list)
  BY DEF Load
<1>2. /\ FirstCodes(list) \in [DOMAIN entries' -> Nat]
      /\ \A i \in DOMAIN entries' : FirstCodes(list)[i] <= Len(entries'[i].codes)
  BY <1>1, FirstCodesType
<1> QED BY <1>1, <1>2 DEF CodesInv

\* lirc_iscode keeps next_code within its list.
LEMMA ExamineKeepsCodesInv ==
  ASSUME ScanInv, CodesInv, Examine
  PROVE  CodesInv'
<1>1. /\ entries' = entries /\ scan \in DOMAIN entries
      /\ nextCode' = [nextCode EXCEPT ![scan] = CodeAfter(scan)]
  BY DEF Examine, ScanInv
<1>2. CodeAfter(scan) \in Nat /\ CodeAfter(scan) <= Len(entries[scan].codes)
  BY <1>1, CodeAfterType
<1> QED BY <1>1, <1>2 DEF CodesInv

\* Without a line, what was read stays in the buffer, and it is not empty.
LEMMA PartStays ==
  ASSUME WireInv, Take, Newline(Filled) = 0, Newline(buffer) # 0 \/ socket # <<>>
  PROVE  buffer' # <<>> /\ Newline(buffer') = 0
<1>1. Newline(buffer) = 0 /\ socket # <<>> /\ Filled = buffer \o SubSeq(socket, 1, Arriving)
  BY DEF Filled
<1>2. /\ buffer \in Seq(AnyUnit) /\ Len(buffer) \in Nat /\ Len(buffer) <= PacketSize
      /\ socket \in Seq(AnyUnit) /\ Len(socket) \in Nat
  BY DEF WireInv
<1>3. Arriving \in 0..Len(socket) /\ (Len(buffer) < PacketSize => Arriving # 0)
  BY <1>1, <1>2, ArrivingFits
<1>4. SubSeq(socket, 1, Arriving) \in Seq(AnyUnit) /\ Len(SubSeq(socket, 1, Arriving)) = Arriving
  BY <1>2, <1>3, CutAnywhere
<1>5. Filled \in Seq(AnyUnit) /\ Len(Filled) = Len(buffer) + Arriving
  BY <1>1, <1>2, <1>4, Concat
<1>6. Len(Filled) # 0
  BY <1>2, <1>3, <1>5, LircAssumption
<1>7. buffer' = Filled
  BY <1>5, SubSeqFull DEF Take
<1> QED BY <1>5, <1>6, <1>7, EmptySeq

\* The module runs only with a configuration that could be read.
LEMMA CauseInvInit == Init => CauseInv
<1> SUFFICES ASSUME Init PROVE CauseInv
  OBVIOUS
<1> DEFINE list == IF Reads(file) THEN Readconfig(file) ELSE <<>>
<1>1. list \in Seq(Entry)
  BY ReadTypes DEF Init, Reads
<1>2. entries = StartupEntries(list) /\ nextCode = FirstCodes(list)
  BY DEF Init, ModLircInit, Loaded
<1> HIDE DEF list
<1>3. CodesInv
  BY <1>1, <1>2, FirstCodesType DEF CodesInv
<1>4. (status = "running" => irconfig = "valid") /\ (status = "dead" => file = Unnamed)
  <2>1. CASE Reads(file)
    BY <2>1 DEF Init, ModLircInit
  <2>2. CASE ~Reads(file) /\ file = Unnamed
    BY <2>2 DEF Init, ModLircInit
  <2>3. CASE ~Reads(file) /\ file # Unnamed
    BY <2>3 DEF Init, ModLircInit
  <2> QED BY <2>1, <2>2, <2>3
<1> QED BY <1>3, <1>4 DEF CauseInv, LircCrashNeedsCause

\* Each action that ends the daemon has one of the four causes.
LEMMA CauseInvNext == ScanInv /\ WireInv /\ CauseInv /\ [Next]_vars => CauseInv'
<1> SUFFICES ASSUME ScanInv, WireInv, CauseInv, [Next]_vars PROVE CauseInv'
  OBVIOUS
<1>0. CodesInv /\ LircCrashNeedsCause /\ (status = "running" /\ irconfig # "valid" => spoiled)
  BY DEF CauseInv
<1>1. CASE Send \/ SendRest \/ Hangup \/ PollClosed
  <2>1. UNCHANGED <<entries, nextCode, status, irconfig, spoiled>> /\ status = "running"
    BY <1>1 DEF Send, SendRest, Hangup, PollClosed, Pressing, Idle, cvars, config, module, reading
  <2> QED BY <1>0, <2>1 DEF CauseInv, CodesInv, LircCrashNeedsCause
<1>2. CASE PollLine
  <2>1. UNCHANGED <<entries, nextCode, status, irconfig, spoiled>> /\ status = "running"
    BY <1>2 DEF PollLine, Lookup, Idle, module, reading
  <2> QED BY <1>0, <2>1 DEF CauseInv, CodesInv, LircCrashNeedsCause
<1>3. CASE PollCrash
  <2>1. UNCHANGED <<entries, nextCode, irconfig, spoiled>> /\ status = "running" /\ status' = "dead"
    BY <1>3 DEF PollCrash, Die, Idle, cvars, config, reading
  <2>2. CASE Newline(Filled) = 0
    <3>1. buffer' # <<>> /\ Newline(buffer') = 0
      BY <1>3, <2>2, PartStays DEF PollCrash
    <3> QED BY <1>0, <2>1, <3>1 DEF CauseInv, CodesInv, LircCrashNeedsCause
  <2>3. CASE irconfig # "valid"
    BY <1>0, <2>1, <2>3 DEF CauseInv, CodesInv, LircCrashNeedsCause
  <2> QED BY <1>3, <2>2, <2>3 DEF PollCrash
<1>4. CASE CrashInIscode
  <2>1. UNCHANGED <<entries, nextCode, irconfig, spoiled>> /\ status' = "dead"
    BY <1>4 DEF CrashInIscode, Die, cvars, config, reading
  <2>2. scan \in DOMAIN entries /\ Crashes(scan)
    BY <1>4 DEF CrashInIscode, ScanInv
  <2>3. \E a, b \in DOMAIN entries[scan].codes :
          a < b /\ WildPointer(entries[scan].codes[a], entries[scan].codes[b])
    BY <1>0, <2>2, CrashesAtWildcard
  <2>4. LircCrashNeedsCause'
    BY <2>1, <2>2, <2>3, Zenon DEF LircCrashNeedsCause, WildPointer
  <2> QED BY <1>0, <2>1, <2>4 DEF CauseInv, CodesInv
<1>5. CASE Code2char
  <2>1. UNCHANGED <<status, irconfig, spoiled>> /\ status = "running"
    BY <1>5 DEF Code2char, module, reading
  <2>2. CodesInv'
    <3>1. CASE Examine
      BY <1>0, <3>1, ExamineKeepsCodesInv
    <3>2. CASE GiveUp
      BY <1>0, <3>2 DEF GiveUp, CodesInv
    <3> QED BY <1>5, <3>1, <3>2 DEF Code2char
  <2> QED BY <1>0, <2>1, <2>2 DEF CauseInv, LircCrashNeedsCause
<1>6. CASE ModLircReload
  <2>1. CASE FreeTwice /\ UNCHANGED <<config, seen, file, spoiled>>
    <3>1. UNCHANGED <<entries, nextCode, irconfig, spoiled>> /\ status' = "dead" /\ spoiled
      BY <1>0, <2>1 DEF FreeTwice, Die, Idle, config
    <3> QED BY <1>0, <3>1 DEF CauseInv, CodesInv, LircCrashNeedsCause
  <2>2. ASSUME NEW f \in Edits \cup {NULL}, ReadAgain(f), Idle, UNCHANGED <<status, watched>>
        PROVE  CauseInv'
    <3>1. status' = "running" /\ spoiled' = ~Reads(f)
      BY <2>2 DEF ReadAgain, Idle
    <3>2. CodesInv' /\ (irconfig' # "valid" => ~Reads(f))
      <4>1. CASE f = NULL
        BY <1>0, <2>2, <4>1 DEF ReadAgain, config, CodesInv, Reads
      <4>2. CASE f # NULL /\ Readconfig(f) = NULL
        BY <2>2, <4>2, LoadKeepsCodesInv, EmptySeq DEF ReadAgain, Reads
      <4>3. CASE f # NULL /\ Readconfig(f) # NULL
        <5>1. Readconfig(f) \in Seq(Entry)
          BY <4>3, ReadTypes, LircAssumption
        <5> QED BY <2>2, <4>3, <5>1, LoadKeepsCodesInv DEF ReadAgain
      <4> QED BY <4>1, <4>2, <4>3
    <3>3. irconfig' # "valid" => spoiled'
      BY <3>1, <3>2, Zenon
    <3> QED BY <3>1, <3>2, <3>3 DEF CauseInv, LircCrashNeedsCause
  <2>3. CASE ReadNameless /\ UNCHANGED <<config, seen, spoiled>>
    <3>1. UNCHANGED <<entries, nextCode>> /\ status' = "dead" /\ file' = Unnamed
      BY <2>3 DEF ReadNameless, Die, config
    <3> QED BY <1>0, <3>1 DEF CauseInv, CodesInv, LircCrashNeedsCause
  <2> QED BY <1>6, <2>1, <2>2, <2>3 DEF ModLircReload
<1>7. CASE ModLircDeinit
  <2>1. CASE FreeTwice
    <3>1. UNCHANGED <<entries, nextCode, irconfig, spoiled>> /\ status' = "dead" /\ spoiled
      BY <1>0, <1>7, <2>1 DEF ModLircDeinit, FreeTwice, Die, Idle, cvars, config, reading
    <3> QED BY <1>0, <3>1 DEF CauseInv, CodesInv, LircCrashNeedsCause
  <2>2. CASE status' = "stopped"
    BY <1>0, <1>7, <2>2 DEF ModLircDeinit, cvars, config, CauseInv, CodesInv, LircCrashNeedsCause
  <2> QED BY <1>7, <2>1, <2>2 DEF ModLircDeinit
<1>8. CASE UNCHANGED vars
  BY <1>0, <1>8 DEF vars, cvars, config, module, wire, reading, CauseInv, CodesInv, LircCrashNeedsCause
<1> QED BY <1>1, <1>2, <1>3, <1>4, <1>5, <1>6, <1>7, <1>8 DEF Next

\* The daemon dies by the remote control only in the four ways that the code
\* leaves open, for every configuration and every cut of the lines.
THEOREM LircCrashNeedsCauseHolds == Spec => []LircCrashNeedsCause
<1>1. CauseInv => LircCrashNeedsCause
  BY DEF CauseInv
<1> QED BY <1>1, ScanInvInit, ScanInvNext, WireInvInit, WireInvNext, CauseInvInit, CauseInvNext, PTL
        DEF Spec

-----------------------------------------------------------------------------
(* The sequences of codes.                                                 *)

\* The presses w end with ones that match the first n codes of s.
Suffix(s, w, n) ==
  /\ n <= Len(w)
  /\ \A j \in 1..n : Matches(s[j], w[Len(w) - n + j])

\* After the presses w, p is behind the longest beginning of s they end with.
Longest(s, w, p) ==
  /\ p \in 1..Len(s) /\ Suffix(s, w, p - 1)
  /\ \A n \in 0..(Len(s) - 1) : Suffix(s, w, n) => n <= p - 1

LongestInv ==
  \A i \in DOMAIN entries :
    /\ seen[i] \in Seq(Press)
    /\ entries[i].codes # <<>> => Longest(entries[i].codes, seen[i], nextCode[i])

\* One more press, and one more code.
LEMMA SuffixGrows ==
  ASSUME NEW s, NEW w \in Seq(Press), NEW q \in Press, NEW n \in Nat
  PROVE  Suffix(s, Append(w, q), n + 1) <=> Suffix(s, w, n) /\ Matches(s[n + 1], q)
<1>1. PICK l \in Nat : l = Len(w)
  BY LenProperties
<1> DEFINE v == Append(w, q)
<1>2. Len(v) = l + 1 /\ (\A j \in 1..l : v[j] = w[j]) /\ v[l + 1] = q
  BY <1>1
<1> HIDE DEF v
<1>3. ASSUME Suffix(s, v, n + 1) PROVE Suffix(s, w, n) /\ Matches(s[n + 1], q)
  <2>1. n <= l /\ \A j \in 1..(n + 1) : Matches(s[j], v[l + 1 - (n + 1) + j])
    BY <1>2, <1>3 DEF Suffix
  <2>2. ASSUME NEW j \in 1..n PROVE Matches(s[j], w[l - n + j])
    <3>1. j \in 1..(n + 1) /\ l + 1 - (n + 1) + j = l - n + j /\ l - n + j \in 1..l
      BY <2>1
    <3>2. Matches(s[j], v[l - n + j])
      BY <2>1, <3>1
    <3> QED BY <1>2, <3>1, <3>2
  <2>3. n + 1 \in 1..(n + 1) /\ l + 1 - (n + 1) + (n + 1) = l + 1
    OBVIOUS
  <2>4. Matches(s[n + 1], v[l + 1])
    BY <2>1, <2>3
  <2> QED BY <1>1, <1>2, <2>1, <2>2, <2>4 DEF Suffix
<1>4. ASSUME Suffix(s, w, n), Matches(s[n + 1], q) PROVE Suffix(s, v, n + 1)
  <2>1. n <= l /\ \A j \in 1..n : Matches(s[j], w[l - n + j])
    BY <1>1, <1>4 DEF Suffix
  <2>2. ASSUME NEW j \in 1..(n + 1) PROVE Matches(s[j], v[l + 1 - (n + 1) + j])
    <3>1. CASE j = n + 1
      <4>1. l + 1 - (n + 1) + j = l + 1
        BY <3>1
      <4> QED BY <1>2, <1>4, <3>1, <4>1
    <3>2. CASE j # n + 1
      <4>1. j \in 1..n /\ l + 1 - (n + 1) + j = l - n + j /\ l - n + j \in 1..l
        BY <2>1, <3>2
      <4> QED BY <1>2, <2>1, <4>1
    <3> QED BY <3>1, <3>2
  <2>3. n + 1 <= l + 1
    BY <2>1
  <2> QED BY <1>2, <2>2, <2>3 DEF Suffix
<1> QED BY <1>3, <1>4 DEF v

\* The right press: next_code advances.
LEMMA HitKeepsLongest ==
  ASSUME NEW s, Len(s) \in Nat, NEW w \in Seq(Press), NEW q \in Press, NEW p \in 1..Len(s),
         Longest(s, w, p), Matches(s[p], q), p # Len(s)
  PROVE  Longest(s, Append(w, q), p + 1)
<1>1. Suffix(s, Append(w, q), p)
  <2>1. p - 1 \in Nat /\ (p - 1) + 1 = p
    OBVIOUS
  <2> QED BY <2>1, SuffixGrows DEF Longest
<1>2. ASSUME NEW n \in 0..(Len(s) - 1), Suffix(s, Append(w, q), n) PROVE n <= p
  <2>1. CASE n = 0
    BY <2>1
  <2>2. CASE n # 0
    <3>1. n - 1 \in Nat /\ (n - 1) + 1 = n /\ n - 1 \in 0..(Len(s) - 1)
      BY <2>2
    <3>2. Suffix(s, w, n - 1)
      BY <1>2, <3>1, SuffixGrows
    <3>3. n - 1 <= p - 1
      BY <3>1, <3>2 DEF Longest
    <3> QED BY <3>3
  <2> QED BY <2>1, <2>2
<1>3. p + 1 \in 1..Len(s) /\ (p + 1) - 1 = p
  OBVIOUS
<1> QED BY <1>1, <1>2, <1>3 DEF Longest

\* Two codes that one press matches differ only where the second has a wildcard.
LEMMA BothMatch ==
  ASSUME NEW a, NEW b, NEW q, Matches(a, q), Matches(b, q), ~Same(a, b)
  PROVE  WildPointer(a, b)
BY DEF Matches, Same, WildPointer

\* What matches the second of two codes that are the same matches the first.
LEMMA SameMatches ==
  ASSUME NEW a, NEW b, NEW q, Matches(b, q), Same(a, b)
  PROVE  Matches(a, q)
BY DEF Matches, Same

\* If a beginning of the sequence fits the presses at k, then the codes there
\* agree, or the comparison meets a wildcard.
LEMMA OverlapAgrees ==
  ASSUME NEW s, NEW w \in Seq(Press), NEW p \in Nat, NEW k \in 2..p,
         Suffix(s, w, p - 1), Suffix(s, w, p - k), ~Garbage(s, p, k)
  PROVE  Agree(s, p, k)
<1>1. PICK l \in Nat : l = Len(w)
  BY LenProperties
<1>2. ASSUME NEW j \in 1..(p - k) PROVE Same(s[j], s[k + j - 1]) \/ WildPointer(s[j], s[k + j - 1])
  <2>1. Matches(s[j], w[l - (p - k) + j])
    BY <1>1 DEF Suffix
  <2>2. k + j - 1 \in 1..(p - 1) /\ l - (p - 1) + (k + j - 1) = l - (p - k) + j
    OBVIOUS
  <2>3. Matches(s[k + j - 1], w[l - (p - 1) + (k + j - 1)])
    BY <1>1, <2>2 DEF Suffix
  <2>4. Matches(s[k + j - 1], w[l - (p - k) + j])
    BY <2>2, <2>3
  <2> QED BY <2>1, <2>4, BothMatch
<1> DEFINE D == {j \in 1..(p - k) : ~Same(s[j], s[k + j - 1])}
<1>3. CASE D = {}
  BY <1>3 DEF Agree
<1>4. CASE D # {}
  <2>1. D \subseteq Nat
    OBVIOUS
  <2>2. PICK j \in D : \A i \in D : j <= i
    BY <1>4, <2>1, Smallest
  <2>3. WildPointer(s[j], s[k + j - 1])
    BY <1>2, <2>2
  <2>4. \A i \in 1..(j - 1) : Same(s[i], s[k + i - 1])
    <3> SUFFICES ASSUME NEW i \in 1..(j - 1), ~Same(s[i], s[k + i - 1]) PROVE FALSE
      OBVIOUS
    <3>1. i \in 1..(p - k) /\ ~(j <= i)
      BY <2>1, <2>2
    <3> QED BY <2>2, <3>1
  <2>5. Garbage(s, p, k)
    BY <2>2, <2>3, <2>4 DEF Garbage
  <2> QED BY <2>5
<1> QED BY <1>3, <1>4

\* Where the codes agree, what matched them matches the beginning, too.
LEMMA AgreedMatches ==
  ASSUME NEW s, NEW w \in Seq(Press), NEW p \in Nat, NEW k \in 2..p,
         Suffix(s, w, p - 1), Agree(s, p, k)
  PROVE  Suffix(s, w, p - k)
<1>1. PICK l \in Nat : l = Len(w)
  BY LenProperties
<1>2. p - 1 <= l
  BY <1>1 DEF Suffix
<1>3. ASSUME NEW j \in 1..(p - k) PROVE Matches(s[j], w[l - (p - k) + j])
  <2>1. k + j - 1 \in 1..(p - 1) /\ l - (p - 1) + (k + j - 1) = l - (p - k) + j
    OBVIOUS
  <2>2. Matches(s[k + j - 1], w[l - (p - 1) + (k + j - 1)])
    BY <1>1, <2>1 DEF Suffix
  <2>3. Matches(s[k + j - 1], w[l - (p - k) + j])
    BY <2>1, <2>2
  <2>4. Same(s[j], s[k + j - 1])
    BY DEF Agree
  <2> QED BY <2>3, <2>4, SameMatches
<1>4. p - k <= l
  BY <1>2
<1> QED BY <1>1, <1>3, <1>4 DEF Suffix

\* A wrong press: the first place where the loop of lirc_iscode can resume is that
\* of the longest beginning.
LEMMA MissKeepsLongest ==
  ASSUME NEW s, Len(s) \in Nat, NEW w \in Seq(Press), NEW q \in Press, NEW p \in 1..Len(s),
         Longest(s, w, p), ~Matches(s[p], q),
         \A k \in Compared(s, p, q) : ~Garbage(s, p, k)
  PROVE  Longest(s, Append(w, q), Fallback(s, p, q))
<1> DEFINE R == Resumes(s, p, q)
<1>0. /\ p \in Nat /\ Suffix(s, w, p - 1)
      /\ \A n \in 0..(Len(s) - 1) : Suffix(s, w, n) => n <= p - 1
  BY DEF Longest
\* Every beginning of at least one code that ends with the press is one to resume at.
<1>1. ASSUME NEW n \in 1..(Len(s) - 1), Suffix(s, Append(w, q), n)
      PROVE  /\ n <= p - 1 /\ p - n + 1 \in 2..p
             /\ p - n + 1 \in Compared(s, p, q) => p - n + 1 \in R
  <2>1. n - 1 \in Nat /\ (n - 1) + 1 = n /\ n - 1 \in 0..(Len(s) - 1)
    OBVIOUS
  <2>2. Suffix(s, w, n - 1) /\ Matches(s[n], q)
    <3>1. PICK m \in Nat : m = n - 1 /\ m + 1 = n
      BY <2>1
    <3>2. Suffix(s, Append(w, q), m + 1)
      BY <1>1, <3>1
    <3>3. Suffix(s, w, m) /\ Matches(s[m + 1], q)
      BY <3>2, SuffixGrows
    <3> QED BY <3>1, <3>3
  <2>3. n - 1 <= p - 1
    BY <1>0, <2>1, <2>2
  <2>4. n # p
    BY <2>2
  <2>5. n <= p - 1
    BY <2>3, <2>4
  <2>6. PICK k \in 2..p : k = p - n + 1 /\ p - k = n - 1 /\ p - k + 1 = n
    <3>1. p - n + 1 \in 2..p /\ p - (p - n + 1) = n - 1 /\ p - (p - n + 1) + 1 = n
      BY <2>5
    <3> QED BY <3>1
  <2>7. ASSUME k \in Compared(s, p, q) PROVE k \in R
    <3>1. ~Garbage(s, p, k)
      BY <2>7
    <3>2. Suffix(s, w, p - k)
      BY <2>2, <2>6
    <3>3. Agree(s, p, k)
      BY <1>0, <3>1, <3>2, OverlapAgrees
    <3>4. Matches(s[p - k + 1], q)
      BY <2>2, <2>6
    <3> QED BY <3>3, <3>4 DEF Resumes
  <2> QED BY <2>5, <2>6, <2>7
<1>2. R \subseteq 2..p
  BY DEF Resumes
<1>3. CASE R = {}
  <2>1. Fallback(s, p, q) = 1 /\ Compared(s, p, q) = 2..p
    BY <1>3 DEF Fallback, Compared
  <2>2. ASSUME NEW n \in 0..(Len(s) - 1), Suffix(s, Append(w, q), n) PROVE n <= 0
    <3>1. CASE n = 0
      BY <3>1
    <3>2. CASE n # 0
      <4>1. n \in 1..(Len(s) - 1)
        BY <3>2
      <4>2. p - n + 1 \in R
        BY <1>1, <2>1, <2>2, <4>1
      <4> QED BY <1>3, <4>2
    <3> QED BY <3>1, <3>2
  <2>3. Suffix(s, Append(w, q), 0)
    BY LenProperties DEF Suffix
  <2>4. 1 \in 1..Len(s) /\ 1 - 1 = 0
    OBVIOUS
  <2> QED BY <2>1, <2>2, <2>3, <2>4 DEF Longest
<1>4. CASE R # {}
  <2>1. R \subseteq Nat
    BY <1>2
  <2>2. PICK k \in R : k = Min(R)
    BY <1>4, <2>1, Smallest
  <2>3. Fallback(s, p, q) = p - k + 2 /\ Compared(s, p, q) = 2..k /\ \A y \in R : k <= y
    BY <1>4, <2>1, <2>2, Smallest DEF Fallback, Compared
  <2>4. k \in 2..p /\ Agree(s, p, k) /\ Matches(s[p - k + 1], q)
    BY DEF Resumes
  <2>5. Suffix(s, Append(w, q), p - k + 1)
    <3>1. p - k \in Nat
      BY <2>4
    <3>2. Suffix(s, w, p - k)
      BY <1>0, <2>4, AgreedMatches
    <3> QED BY <2>4, <3>1, <3>2, SuffixGrows
  <2>6. ASSUME NEW n \in 0..(Len(s) - 1), Suffix(s, Append(w, q), n) PROVE n <= p - k + 1
    <3>1. CASE n = 0
      BY <2>4, <3>1
    <3>2. CASE n # 0
      <4>1. n \in 1..(Len(s) - 1)
        BY <3>2
      <4>2. p - n + 1 \in 2..p /\ (p - n + 1 \in 2..k => p - n + 1 \in R)
        BY <1>1, <2>3, <2>6, <4>1
      <4>3. p - n + 1 \in 2..k => k <= p - n + 1
        BY <2>3, <4>2
      <4> HIDE DEF R
      <4> QED BY <2>4, <4>1, <4>2, <4>3
    <3> QED BY <3>1, <3>2
  <2>7. p - k + 2 \in 1..Len(s) /\ (p - k + 2) - 1 = p - k + 1
    BY <2>4
  <2> QED BY <2>3, <2>5, <2>6, <2>7 DEF Longest
<1> QED BY <1>3, <1>4

\* At the beginning, and after a match, nothing has been seen.
LEMMA NothingIsLongest ==
  ASSUME NEW s, Len(s) \in Nat \ {0}
  PROVE  Longest(s, <<>>, 1)
<1>1. Suffix(s, <<>>, 0) /\ \A n \in 0..(Len(s) - 1) : Suffix(s, <<>>, n) => n <= 0
  BY EmptySeq DEF Suffix
<1>2. 1 \in 1..Len(s) /\ 1 - 1 = 0
  OBVIOUS
<1> QED BY <1>1, <1>2 DEF Longest

\* The position in each sequence, the string to return next and the mode.
UseInv ==
  /\ DOMAIN nextCode = DOMAIN entries /\ DOMAIN nextConfig = DOMAIN entries
  /\ DOMAIN seen = DOMAIN entries
  /\ \A i \in DOMAIN entries :
       /\ nextCode[i] = 0 <=> entries[i].codes = <<>>
       /\ nextConfig[i] \in 0..Len(entries[i].config)
       /\ nextConfig[i] = 0 <=> entries[i].config = <<>>
  /\ entered \subseteq DOMAIN entries
  /\ currentMode \in Names \cup {NULL}

\* What lirc_readconfig returns, as entries in use.
LEMMA LoadedUse ==
  ASSUME NEW list \in Seq(Entry), NEW es, es = StartupEntries(list)
  PROVE  /\ DOMAIN FirstCodes(list) = DOMAIN es /\ DOMAIN FirstConfigs(list) = DOMAIN es
         /\ DOMAIN NothingSeen(list) = DOMAIN es
         /\ \A i \in DOMAIN es :
              /\ FirstCodes(list)[i] = 0 <=> es[i].codes = <<>>
              /\ FirstConfigs(list)[i] \in 0..Len(es[i].config)
              /\ FirstConfigs(list)[i] = 0 <=> es[i].config = <<>>
              /\ NothingSeen(list)[i] \in Seq(Press)
              /\ es[i].codes # <<>> => Longest(es[i].codes, NothingSeen(list)[i], FirstCodes(list)[i])
         /\ StartupOnce(list) \subseteq DOMAIN es
         /\ StartupMode(list) \in Names \cup {NULL}
<1>1. DOMAIN es = DOMAIN list
  BY DEF StartupEntries
<1>2. ASSUME NEW i \in DOMAIN es
      PROVE  /\ list[i] \in Entry /\ es[i].codes = list[i].codes /\ es[i].config = list[i].config
             /\ es[i].codes \in Seq(Code) /\ es[i].config \in Seq(Names)
  <2>1. list[i] \in Entry
    BY <1>1
  <2>2. es[i] = list[i] \/ es[i] = [list[i] EXCEPT !.change = NULL]
    BY <1>1 DEF StartupEntries
  <2>3. /\ [list[i] EXCEPT !.change = NULL].codes = list[i].codes
        /\ [list[i] EXCEPT !.change = NULL].config = list[i].config
    BY <2>1 DEF Entry
  <2>4. list[i].codes \in Seq(Code) /\ list[i].config \in Seq(Names)
    BY <2>1 DEF Entry
  <2> QED BY <2>1, <2>2, <2>3, <2>4
<1>3. ASSUME NEW i \in DOMAIN es
      PROVE  /\ FirstCodes(list)[i] = 0 <=> es[i].codes = <<>>
             /\ FirstConfigs(list)[i] \in 0..Len(es[i].config)
             /\ FirstConfigs(list)[i] = 0 <=> es[i].config = <<>>
             /\ NothingSeen(list)[i] \in Seq(Press)
             /\ es[i].codes # <<>> => Longest(es[i].codes, NothingSeen(list)[i], FirstCodes(list)[i])
  <2>1. /\ FirstCodes(list)[i] = IF es[i].codes = <<>> THEN 0 ELSE 1
        /\ FirstConfigs(list)[i] = IF es[i].config = <<>> THEN 0 ELSE 1
        /\ NothingSeen(list)[i] = <<>>
    BY <1>1, <1>2 DEF FirstCodes, FirstConfigs, NothingSeen
  <2>2. es[i].codes # <<>> => Len(es[i].codes) \in Nat \ {0}
    BY <1>2, EmptySeq, LenProperties
  <2>3. Len(es[i].config) \in Nat /\ (es[i].config # <<>> => Len(es[i].config) # 0)
    BY <1>2, EmptySeq, LenProperties
  <2>4. FirstConfigs(list)[i] \in 0..Len(es[i].config)
    BY <2>1, <2>3
  <2>5. es[i].codes # <<>> => Longest(es[i].codes, <<>>, 1)
    BY <2>2, NothingIsLongest
  <2>6. <<>> \in Seq(Press)
    BY EmptySeq
  <2> QED BY <2>1, <2>4, <2>5, <2>6
<1>4. StartupMode(list) \in Names \cup {NULL}
  <2>1. CASE StartupEntry(list) # 0
    <3> DEFINE I == {i \in 1..Len(list) : "startup_mode" \in list[i].flags /\ list[i].change # NULL}
    <3>1. StartupEntry(list) = IF I # {} THEN Min(I) ELSE 0
      BY DEF StartupEntry, SelectInSeq
    <3>2. I # {} /\ I \subseteq Nat
      BY <2>1, <3>1
    <3>3. Min(I) \in I
      BY <3>2, Smallest
    <3>4. StartupEntry(list) \in 1..Len(list)
      BY <3>1, <3>2, <3>3
    <3>5. list[StartupEntry(list)] \in Entry
      BY <3>4
    <3>6. list[StartupEntry(list)].change \in Names \cup {NULL}
      BY <3>5 DEF Entry
    <3> QED BY <2>1, <3>6 DEF StartupMode
  <2>2. CASE StartupEntry(list) = 0
    BY <2>2, LircNames DEF StartupMode
  <2> QED BY <2>1, <2>2
<1>5. StartupOnce(list) \subseteq DOMAIN es
  BY <1>1 DEF StartupOnce
<1>6. /\ DOMAIN FirstCodes(list) = DOMAIN es /\ DOMAIN FirstConfigs(list) = DOMAIN es
      /\ DOMAIN NothingSeen(list) = DOMAIN es
  BY <1>1 DEF FirstCodes, FirstConfigs, NothingSeen
<1> QED BY <1>3, <1>4, <1>5, <1>6

\* A press looked up is one that the user may make.
LEMMA PressOfCode ==
  ASSUME code \in KeyLine
  PROVE  /\ [remote |-> code.remote, button |-> code.button] \in Press /\ code.rep \in Nat
         /\ \A c : Matches(c, code) <=>
                     Matches(c, [remote |-> code.remote, button |-> code.button])
<1>1. PICK p \in Press, n \in 0..MaxHeld :
        code = [key |-> TRUE, remote |-> p.remote, button |-> p.button, rep |-> n]
  BY DEF KeyLine
<1>2. p \in Code
  BY LircAssumption
<1>3. [remote |-> p.remote, button |-> p.button] = p
  BY <1>2 DEF Code
<1>4. code.remote = p.remote /\ code.button = p.button /\ code.rep = n
  BY <1>1
<1> QED BY <1>3, <1>4 DEF Matches

\* lirc_iscode keeps next_code behind the longest beginning of every sequence.
LEMMA ExamineKeepsLongest ==
  ASSUME ScanInv, CodesInv, UseInv, LongestInv, Examine, code \in KeyLine
  PROVE  LongestInv'
<1> DEFINE s == entries[scan].codes
           p == nextCode[scan]
           w == seen[scan]
           q == [remote |-> code.remote, button |-> code.button]
<1>1. /\ entries' = entries /\ scan \in DOMAIN entries /\ ~Crashes(scan)
      /\ nextCode' = [nextCode EXCEPT ![scan] = CodeAfter(scan)]
      /\ seen' = [seen EXCEPT ![scan] = SeenAfter(scan)]
  BY DEF Examine, ScanInv
<1>2. /\ q \in Press /\ code.rep \in Nat
      /\ \A c : Matches(c, code) <=> Matches(c, q)
  BY PressOfCode
<1>3. s \in Seq(Code) /\ Len(s) \in Nat /\ w \in Seq(Press) /\ p \in Nat /\ p <= Len(s)
  BY <1>1, CodesType DEF CodesInv, LongestInv
<1>4. s # <<>> => Longest(s, w, p)
  BY <1>1 DEF LongestInv
<1>5. Append(w, q) \in Seq(Press) /\ <<>> \in Seq(Press)
  BY <1>2, <1>3, EmptySeq
<1>6. CASE s = <<>>
  <2>1. SeenAfter(scan) = w \/ SeenAfter(scan) = Append(w, q)
    BY <1>6 DEF SeenAfter
  <2>2. SeenAfter(scan) \in Seq(Press)
    BY <1>3, <1>5, <2>1
  <2> QED BY <1>1, <1>6, <2>2 DEF LongestInv, UseInv
<1>7. CASE s # <<>>
  <2>1. p \in 1..Len(s) /\ Longest(s, w, p) /\ Len(s) \in Nat \ {0}
    BY <1>3, <1>4, <1>7, EmptySeq DEF Longest
  <2>2. Expected(scan) <=> Matches(s[p], q)
    BY <1>2, <1>7 DEF Expected
  <2>3. SeenAfter(scan) \in Seq(Press) /\ Longest(s, SeenAfter(scan), CodeAfter(scan))
    <3>1. CASE Completes(scan)
      <4>1. SeenAfter(scan) = <<>> /\ CodeAfter(scan) = 1
        BY <1>7, <3>1 DEF SeenAfter, CodeAfter
      <4> QED BY <1>5, <2>1, <4>1, NothingIsLongest
    <3>2. CASE ~Completes(scan) /\ code.rep # 0
      <4>1. ~Advances(scan)
        <5>1. Len(s) = 1 => p = Len(s)
          BY <2>1
        <5> QED BY <3>2, <5>1 DEF Advances, Completes
      <4>2. SeenAfter(scan) = w /\ CodeAfter(scan) = p
        BY <1>7, <3>2, <4>1 DEF SeenAfter, CodeAfter
      <4> QED BY <1>3, <2>1, <4>2
    <3>3. CASE ~Completes(scan) /\ code.rep = 0 /\ Expected(scan)
      <4>1. Advances(scan) /\ p # Len(s)
        BY <3>3 DEF Advances, Completes
      <4>2. SeenAfter(scan) = Append(w, q) /\ CodeAfter(scan) = p + 1
        BY <1>7, <3>3, <4>1 DEF SeenAfter, CodeAfter
      <4>3. Longest(s, Append(w, q), p + 1)
        <5> HIDE DEF s, p, w, q
        <5> QED BY <1>2, <1>3, <2>1, <2>2, <3>3, <4>1, HitKeepsLongest
      <4> QED BY <1>5, <4>2, <4>3
    <3>4. CASE ~Completes(scan) /\ code.rep = 0 /\ ~Expected(scan)
      <4>1. ~Advances(scan)
        BY <3>4 DEF Advances
      <4>2. SeenAfter(scan) = Append(w, q) /\ CodeAfter(scan) = Fallback(s, p, code)
        BY <1>7, <3>4, <4>1 DEF SeenAfter, CodeAfter
      <4>3. Resumes(s, p, code) = Resumes(s, p, q)
        BY <1>2 DEF Resumes
      <4>4. Fallback(s, p, code) = Fallback(s, p, q) /\ Compared(s, p, code) = Compared(s, p, q)
        BY <4>3 DEF Fallback, Compared
      <4>5. \A k \in Compared(s, p, q) : ~Garbage(s, p, k)
        BY <1>1, <3>4, <4>4 DEF Crashes
      <4>6. Longest(s, Append(w, q), Fallback(s, p, q))
        <5> HIDE DEF s, p, w, q
        <5> QED BY <1>2, <1>3, <2>1, <2>2, <3>4, <4>5, MissKeepsLongest
      <4> QED BY <1>5, <4>2, <4>4, <4>6
    <3> QED BY <1>2, <3>1, <3>2, <3>3, <3>4
  <2>4. nextCode'[scan] = CodeAfter(scan) /\ seen'[scan] = SeenAfter(scan)
    BY <1>1 DEF UseInv
  <2>5. \A i \in DOMAIN entries : i # scan => nextCode'[i] = nextCode[i] /\ seen'[i] = seen[i]
    BY <1>1 DEF UseInv
  <2> QED BY <1>1, <2>3, <2>4, <2>5 DEF LongestInv
<1> QED BY <1>6, <1>7

\* lirc_execute goes round the strings of an entry, and to modes of the file.
LEMMA ExamineKeepsUseInv ==
  ASSUME ScanInv, CodesInv, UseInv, LongestInv, LongestInv', Examine
  PROVE  UseInv'
<1>1. /\ entries' = entries /\ scan \in DOMAIN entries
      /\ nextCode' = [nextCode EXCEPT ![scan] = CodeAfter(scan)]
      /\ seen' = [seen EXCEPT ![scan] = SeenAfter(scan)]
  BY DEF Examine, ScanInv
<1>2. entries[scan] \in Entry
  BY <1>1 DEF ScanInv
<1>3. \A i \in DOMAIN entries : nextCode'[i] = 0 <=> entries[i].codes = <<>>
  <2>1. ASSUME entries[scan].codes = <<>> PROVE nextCode'[scan] = 0
    BY <1>1, <2>1 DEF CodeAfter, UseInv
  <2>2. ASSUME entries[scan].codes # <<>> PROVE nextCode'[scan] # 0
    <3>1. Longest(entries[scan].codes, seen'[scan], nextCode'[scan])
      BY <1>1, <2>2 DEF LongestInv
    <3> QED BY <1>1, <3>1, CodesType DEF Longest
  <2>3. \A i \in DOMAIN entries : i # scan => nextCode'[i] = nextCode[i]
    BY <1>1 DEF UseInv
  <2> QED BY <2>1, <2>2, <2>3 DEF UseInv
<1>4. CASE ~(Iscode(scan) /\ InMode(scan))
  BY <1>1, <1>3, <1>4 DEF Examine, UseInv
<1>5. CASE Iscode(scan) /\ InMode(scan)
  <2>1. Execute(scan)
    BY <1>5 DEF Examine
  <2>2. entered' \subseteq DOMAIN entries
    BY <1>1, <2>1 DEF Execute, Cleared, UseInv
  <2>3. currentMode' \in Names \cup {NULL}
    <3>1. entries[scan].change \in Names \cup {NULL}
      BY <1>2 DEF Entry
    <3> QED BY <2>1, <3>1 DEF Execute, ModeAfter, UseInv
  <2>4. /\ DOMAIN nextConfig' = DOMAIN entries
        /\ \A i \in DOMAIN entries :
             /\ nextConfig'[i] \in 0..Len(entries[i].config)
             /\ nextConfig'[i] = 0 <=> entries[i].config = <<>>
    <3>1. CASE ~Returns(scan)
      BY <2>1, <3>1 DEF Execute, UseInv
    <3>2. CASE Returns(scan)
      <4> DEFINE l == Len(entries[scan].config)
                 c == nextConfig[scan]
      <4>1. entries[scan].config \in Seq(Names) /\ l \in Nat
        BY <1>2 DEF Entry
      <4>2. c \in 0..l /\ c # 0 /\ entries[scan].config # <<>>
        BY <1>1, <3>2 DEF Returns, UseInv
      <4>3. nextConfig' = [nextConfig EXCEPT ![scan] = (c % l) + 1]
        BY <2>1, <3>2 DEF Execute
      <4> HIDE DEF l, c
      <4>4. (c % l) + 1 \in 1..l
        <5>1. l \in Nat \ {0} /\ c \in Nat
          BY <4>1, <4>2
        <5>2. c % l \in 0..(l - 1)
          BY <5>1
        <5> QED BY <5>1, <5>2
      <4>5. \A i \in DOMAIN entries : nextConfig'[i] = IF i = scan THEN (c % l) + 1 ELSE nextConfig[i]
        BY <4>3 DEF UseInv
      <4>6. DOMAIN nextConfig' = DOMAIN entries
        BY <4>3 DEF UseInv
      <4>7. nextConfig'[scan] \in 0..l /\ nextConfig'[scan] # 0
        BY <1>1, <4>1, <4>4, <4>5
      <4> QED BY <1>1, <4>2, <4>5, <4>6, <4>7 DEF l, UseInv
    <3> QED BY <3>1, <3>2
  <2> QED BY <1>1, <1>3, <2>2, <2>3, <2>4 DEF UseInv
<1> QED BY <1>4, <1>5

-----------------------------------------------------------------------------
(* The type invariant.                                                     *)

\* The rest of the module and what is outside.  A finished lookup has come to the
\* end of the list.
RestInv ==
  /\ file \in Files \cup Shapes \cup {NULL, Unnamed}
  /\ status \in {"running", "stopped", "dead", "off"}
  /\ irconfig \in {"valid", "null", "freed"} /\ watched \in BOOLEAN
  /\ code \in KeyLine \cup {NULL} /\ executed \in {0, last}
  /\ code = NULL => scan = 0
  /\ status = "stopped" => buffer = <<>> /\ socket \in Seq(Unit) /\ handled \in Seq(Unit)
  /\ open \in BOOLEAN /\ Len(sent) <= MaxLines
  /\ reloads \in 0..MaxReloads /\ spoiled \in BOOLEAN

\* The parts of the inductive invariant together.
LircInv == ScanInv /\ WireInv /\ CauseInv /\ UseInv /\ LongestInv /\ RestInv

\* A unit in one of the three parts belongs to a line that was sent.
LEMMA UnitsTyped ==
  ASSUME WireInv, status # "stopped", Len(sent) <= MaxLines
  PROVE  /\ buffer \in Seq(Unit) /\ socket \in Seq(Unit) /\ handled \in Seq(Unit)
         /\ \A i \in 1..Len(Stream) : Stream[i].nr \in 1..Len(sent)
<1>1. /\ handled \in Seq(AnyUnit) /\ buffer \in Seq(AnyUnit) /\ socket \in Seq(AnyUnit)
      /\ Len(handled) \in Nat /\ Len(buffer) \in Nat /\ Len(socket) \in Nat /\ Len(sent) \in Nat
  BY LenProperties DEF WireInv
<1> DEFINE hb == handled \o buffer
<1>2. /\ hb \in Seq(AnyUnit) /\ Len(hb) = Len(handled) + Len(buffer)
      /\ \A i \in 1..Len(handled) : hb[i] = handled[i]
      /\ \A i \in 1..Len(buffer) : hb[Len(handled) + i] = buffer[i]
  BY <1>1, Concat
<1>3. Stream = hb \o socket
  BY DEF Stream
<1> HIDE DEF hb
<1>4. /\ Len(Stream) = Len(hb) + Len(socket)
      /\ \A i \in 1..Len(hb) : Stream[i] = hb[i]
      /\ \A i \in 1..Len(socket) : Stream[Len(hb) + i] = socket[i]
  <2>1. hb \in Seq(AnyUnit) /\ socket \in Seq(AnyUnit)
    BY <1>1, <1>2
  <2>2. /\ Len(hb \o socket) = Len(hb) + Len(socket)
        /\ \A i \in 1..Len(hb) : (hb \o socket)[i] = hb[i]
        /\ \A i \in 1..Len(socket) : (hb \o socket)[Len(hb) + i] = socket[i]
    BY <2>1, Concat
  <2> QED BY <1>3, <2>2
<1>5. ASSUME NEW i \in 1..Len(Stream) PROVE Stream[i].nr \in 1..Len(sent) /\ Stream[i] \in Unit
  <2>1. Stream[i] = UnitAt(i) /\ Len(Stream) <= 2 * Len(sent) /\ Len(Stream) \in Nat
    BY <1>1, <1>2, <1>4 DEF WireInv
  <2>2. (i + 1) \div 2 \in 1..Len(sent)
    BY <1>1, <2>1
  <2>3. (i + 1) \div 2 \in 1..MaxLines
    BY <1>1, <2>2, LircAssumption
  <2>4. UnitAt(i).nr = (i + 1) \div 2
    BY DEF UnitAt
  <2>5. UnitAt(i) \in Unit
    <3>1. (i % 2 = 0) \in BOOLEAN
      OBVIOUS
    <3> QED BY <2>3, <3>1, Zenon DEF UnitAt, Unit
  <2> QED BY <2>1, <2>2, <2>4, <2>5
<1>6. /\ \A i \in 1..Len(handled) : handled[i] = Stream[i] /\ i \in 1..Len(Stream)
      /\ \A i \in 1..Len(buffer) :
           buffer[i] = Stream[Len(handled) + i] /\ Len(handled) + i \in 1..Len(Stream)
      /\ \A i \in 1..Len(socket) :
           socket[i] = Stream[Len(hb) + i] /\ Len(hb) + i \in 1..Len(Stream)
  <2>1. /\ \A i \in 1..Len(handled) : i \in 1..Len(hb)
        /\ \A i \in 1..Len(buffer) : Len(handled) + i \in 1..Len(hb)
        /\ \A i \in 1..Len(hb) : i \in 1..Len(Stream)
        /\ \A i \in 1..Len(socket) : Len(hb) + i \in 1..Len(Stream)
    BY <1>1, <1>2, <1>4
  <2>2. \A i \in 1..Len(handled) : handled[i] = Stream[i]
    BY <1>2, <1>4, <2>1
  <2>3. \A i \in 1..Len(buffer) : buffer[i] = Stream[Len(handled) + i]
    BY <1>2, <1>4, <2>1
  <2> QED BY <1>4, <2>1, <2>2, <2>3
<1>7. /\ \A i \in 1..Len(handled) : handled[i] \in Unit /\ handled[i].nr \in 1..Len(sent)
      /\ \A i \in 1..Len(buffer) : buffer[i] \in Unit
      /\ \A i \in 1..Len(socket) : socket[i] \in Unit
  BY <1>5, <1>6
<1>8. /\ handled = [i \in 1..Len(handled) |-> handled[i]]
      /\ buffer = [i \in 1..Len(buffer) |-> buffer[i]]
      /\ socket = [i \in 1..Len(socket) |-> socket[i]]
  BY <1>1, LenProperties
<1>9. handled \in Seq(Unit) /\ buffer \in Seq(Unit) /\ socket \in Seq(Unit)
  <2>1. \A s : Len(s) \in Nat /\ s \in [1..Len(s) -> Unit] => s \in Seq(Unit)
    BY SeqDef
  <2>2. /\ handled \in [1..Len(handled) -> Unit] /\ buffer \in [1..Len(buffer) -> Unit]
        /\ socket \in [1..Len(socket) -> Unit]
    BY <1>7, <1>8
  <2> QED BY <1>1, <2>1, <2>2
<1> QED BY <1>5, <1>9

\* A line that lirc_nextcode returns is one that lircd has sent.
LEMMA NextlineType ==
  ASSUME WireInv, status # "stopped", Len(sent) <= MaxLines, Take, Newline(Filled) # 0
  PROVE  Nextline \in KeyLine \cup {Note}
<1>1. handled \in Seq(AnyUnit) /\ Len(handled) \in Nat
  BY LenProperties DEF WireInv
<1>2. Filled \in Seq(AnyUnit)
  <2>1. /\ buffer \in Seq(AnyUnit) /\ Len(buffer) \in Nat /\ Len(buffer) <= PacketSize
        /\ socket \in Seq(AnyUnit) /\ Len(socket) \in Nat
    BY DEF WireInv
  <2>2. Arriving \in 0..Len(socket)
    BY <2>1, ArrivingFits
  <2>3. SubSeq(socket, 1, Arriving) \in Seq(AnyUnit)
    BY <2>1, <2>2, CutAnywhere
  <2> QED BY <2>1, <2>3, Concat DEF Filled
<1> DEFINE n == Newline(Filled)
           line == SubSeq(Filled, 1, n)
<1>3. n \in 1..Len(Filled) /\ Len(Filled) \in Nat
  BY <1>2, NewlineFound
<1>4. line \in Seq(AnyUnit) /\ Len(line) = n /\ line[n] = Filled[n]
  BY <1>2, <1>3, CutAnywhere
<1>5. handled' = handled \o line
  BY DEF Take
<1> HIDE DEF line, n
<1>6. Len(handled') = Len(handled) + n /\ handled'[Len(handled) + n] = line[n]
  <2>1. n \in 1..Len(line)
    BY <1>3, <1>4
  <2> QED BY <1>1, <1>4, <1>5, <2>1, Concat
<1>7. PICK k \in Nat : k = Len(handled') /\ k = Len(handled) + n /\ k \in 1..Len(handled')
  BY <1>1, <1>3, <1>6
<1>8. Stream[k] = Filled[n] /\ k \in 1..Len(Stream)
  <2>1. /\ handled' \in Seq(AnyUnit) /\ buffer' \in Seq(AnyUnit) /\ socket' \in Seq(AnyUnit)
        /\ Stream' = Stream /\ Len(handled') <= Len(Stream)
    BY TakeKeepsStream
  <2>2. Stream'[k] = handled'[k]
    <3>1. \A i \in 1..Len(handled') : (handled' \o buffer' \o socket')[i] = handled'[i]
      BY <2>1, FirstIsPrefix
    <3> QED BY <1>7, <3>1 DEF Stream
  <2>3. Len(Stream) \in Nat
    BY FirstIsPrefix, LenProperties DEF WireInv, Stream
  <2>4. k \in 1..Len(Stream)
    BY <1>7, <2>1, <2>3
  <2> QED BY <1>4, <1>6, <1>7, <2>1, <2>2, <2>4
<1>9. Filled[n].nr \in 1..Len(sent)
  BY <1>8, UnitsTyped
<1>10. sent[Filled[n].nr] \in KeyLine \cup {Note}
  BY <1>9, ElementOfSeq DEF WireInv
<1> QED BY <1>10 DEF Nextline, n

\* Each action keeps the types of what is no configuration.
LEMMA RestStep ==
  ASSUME ScanInv, WireInv, RestInv, [Next]_vars
  PROVE  RestInv'
<1> USE DEF RestInv
<1>1. CASE Send
  <2>1. Len(sent') = Len(sent) + 1 /\ Len(sent) < MaxLines
    BY <1>1, NextLineType DEF Send, WireInv
  <2>2. Len(sent') <= MaxLines
    BY <2>1, LircAssumption, LenProperties DEF WireInv
  <2> QED BY <1>1, <2>2 DEF Send, Pressing, Idle, cvars, lookup, module, reading
<1>2. CASE SendRest \/ Hangup
  BY <1>2 DEF SendRest, Hangup, Pressing, Idle, cvars, lookup, module, reading, outside
<1>3. CASE PollLine
  <2>1. Nextline \in KeyLine \cup {Note}
    BY <1>3, NextlineType DEF PollLine, Idle
  <2>2. ~Note.key
    BY DEF Note
  <2>3. /\ code' \in KeyLine \cup {NULL} /\ (code' = NULL => scan' = 0)
        /\ UNCHANGED <<last, executed>>
    BY <1>3, <2>1, <2>2, NullAssumption DEF PollLine, Lookup, Idle
  <2> QED BY <1>3, <2>3 DEF PollLine, Idle, module, outside, reading
<1>4. CASE PollCrash \/ PollClosed \/ CrashInIscode
  BY <1>4 DEF PollCrash, PollClosed, CrashInIscode, Idle, Die, cvars, lookup, wire, outside, reading
<1>5. CASE Code2char
  <2>1. /\ code' = code \/ (code' = NULL /\ scan' = 0)
        /\ code' = code => code # NULL
        /\ executed' \in {0, last'}
    BY <1>5 DEF Code2char, Examine, GiveUp
  <2> QED BY <1>5, <2>1 DEF Code2char, module, wire, outside, reading
<1>6. CASE ModLircReload
  <2>1. reloads' \in 0..MaxReloads
    BY <1>6, LircAssumption DEF ModLircReload
  <2>2. CASE FreeTwice /\ UNCHANGED <<config, seen, file, spoiled>>
    BY <1>6, <2>1, <2>2 DEF ModLircReload, FreeTwice, Die, lookup, wire, outside
  <2>3. ASSUME NEW f \in Edits \cup {NULL}, file' = f, ReadAgain(f), Idle, UNCHANGED <<status, watched>>
        PROVE  RestInv'
    <3>1. file' \in Files \cup {NULL}
      BY <2>3, LircAssumption
    <3>2. irconfig' \in {"valid", "null", "freed"}
      BY <2>3 DEF ReadAgain
    <3>3. spoiled' \in BOOLEAN
      BY <2>3 DEF ReadAgain, Reads
    <3> QED BY <1>6, <2>1, <2>3, <3>1, <3>2, <3>3 DEF ModLircReload, Idle, lookup, wire, outside
  <2>4. CASE ReadNameless /\ UNCHANGED <<config, seen, spoiled>>
    BY <1>6, <2>1, <2>4 DEF ModLircReload, ReadNameless, Die, Idle, lookup, wire, outside
  <2> QED BY <1>6, <2>2, <2>3, <2>4 DEF ModLircReload
<1>7. CASE ModLircDeinit
  <2>1. CASE FreeTwice /\ UNCHANGED buffer
    BY <1>7, <2>1 DEF ModLircDeinit, FreeTwice, Die, Idle, cvars, lookup, reading, outside
  <2>2. CASE Idle /\ status' = "stopped" /\ watched' = FALSE /\ buffer' = <<>>
             /\ irconfig' = IF irconfig = "null" THEN "null" ELSE "freed"
    <3>1. socket \in Seq(Unit) /\ handled \in Seq(Unit)
      BY <2>2, UnitsTyped DEF Idle
    <3> QED BY <1>7, <2>2, <3>1 DEF ModLircDeinit, cvars, lookup, reading, outside
  <2> QED BY <1>7, <2>1, <2>2 DEF ModLircDeinit
<1>8. CASE UNCHANGED vars
  BY <1>8 DEF vars, cvars, lookup, module, wire, outside, reading
<1> QED BY <1>1, <1>2, <1>3, <1>4, <1>5, <1>6, <1>7, <1>8 DEF Next

\* A configuration that is read again starts as the first one did.
LEMMA LoadKeepsUse ==
  ASSUME NEW list \in Seq(Entry), Load(list)
  PROVE  UseInv' /\ LongestInv'
<1>1. /\ entries' = StartupEntries(list) /\ nextCode' = FirstCodes(list)
      /\ nextConfig' = FirstConfigs(list) /\ seen' = NothingSeen(list)
      /\ entered' = StartupOnce(list) /\ currentMode' = StartupMode(list)
  BY DEF Load
<1> QED BY <1>1, LoadedUse DEF UseInv, LongestInv

\* Each action keeps the entries' positions.
LEMMA UseStep ==
  ASSUME ScanInv, CodesInv, UseInv, LongestInv, RestInv, [Next]_vars
  PROVE  UseInv' /\ LongestInv'
<1>a. ASSUME UNCHANGED <<entries, nextCode, nextConfig, entered, currentMode, seen>>
      PROVE  UseInv' /\ LongestInv'
  BY <1>a DEF UseInv, LongestInv
<1>1. CASE Code2char
  <2>1. CASE Examine
    <3>1. code \in KeyLine
      BY <2>1 DEF Examine, RestInv
    <3>2. LongestInv'
      BY <2>1, <3>1, ExamineKeepsLongest
    <3> QED BY <2>1, <3>2, ExamineKeepsUseInv
  <2>2. CASE GiveUp
    BY <1>a, <2>2 DEF GiveUp
  <2> QED BY <1>1, <2>1, <2>2 DEF Code2char
<1>2. CASE PollLine
  BY <1>a, <1>2 DEF PollLine, Lookup
<1>3. CASE ModLircReload
  <2>1. CASE UNCHANGED <<config, seen>>
    BY <1>a, <2>1 DEF config
  <2>2. ASSUME NEW f \in Edits \cup {NULL}, ReadAgain(f), f # NULL
        PROVE  UseInv' /\ LongestInv'
    <3>1. PICK list \in Seq(Entry) : Load(list)
      <4>1. CASE Readconfig(f) = NULL
        BY <2>2, <4>1, EmptySeq DEF ReadAgain
      <4>2. CASE Readconfig(f) # NULL
        <5>1. Load(Readconfig(f)) /\ Readconfig(f) \in Seq(Entry)
          BY <2>2, <4>2, ReadTypes, LircAssumption DEF ReadAgain
        <5> QED BY <5>1
      <4> QED BY <4>1, <4>2
    <3> QED BY <3>1, LoadKeepsUse
  <2>3. ASSUME ReadAgain(NULL) PROVE UNCHANGED <<config, seen>>
    BY <2>3 DEF ReadAgain
  <2> QED BY <1>3, <2>1, <2>2, <2>3 DEF ModLircReload
<1>4. CASE Send \/ SendRest \/ Hangup
  BY <1>a, <1>4 DEF Send, SendRest, Hangup, cvars, config
<1>5. CASE PollCrash \/ PollClosed \/ CrashInIscode \/ ModLircDeinit
  BY <1>a, <1>5 DEF PollCrash, PollClosed, CrashInIscode, ModLircDeinit, cvars, config
<1>6. CASE UNCHANGED vars
  BY <1>a, <1>6 DEF vars, cvars, config
<1> QED BY <1>1, <1>2, <1>3, <1>4, <1>5, <1>6 DEF Next

\* A module that has just started, with or without a configuration.
LEMMA UseInvInit == Init => UseInv /\ LongestInv /\ RestInv
<1> SUFFICES ASSUME Init PROVE UseInv /\ LongestInv /\ RestInv
  OBVIOUS
<1> DEFINE list == IF Reads(file) THEN Readconfig(file) ELSE <<>>
<1>1. list \in Seq(Entry)
  BY ReadTypes, EmptySeq DEF Init, Reads
<1>2. /\ entries = StartupEntries(list) /\ nextCode = FirstCodes(list)
      /\ nextConfig = FirstConfigs(list) /\ seen = NothingSeen(list)
      /\ entered = StartupOnce(list) /\ currentMode = StartupMode(list)
  BY DEF Init, ModLircInit, Loaded
<1> HIDE DEF list
<1>3. UseInv /\ LongestInv
  BY <1>1, <1>2, LoadedUse DEF UseInv, LongestInv
<1>4. watched \in BOOLEAN /\ status \in {"running", "off", "dead"} /\ irconfig \in {"valid", "null"}
  <2>1. watched \in BOOLEAN /\ irconfig \in {"valid", "null"}
    BY DEF Init, ModLircInit, Reads
  <2>2. CASE Reads(file)
    BY <2>2 DEF Init, ModLircInit
  <2>3. CASE ~Reads(file)
    <3>1. status = (CASE Reads(file) -> "running" [] file = Unnamed -> "dead" [] OTHER -> "off")
      BY DEF Init, ModLircInit
    <3>2. file = Unnamed => status = "dead"
      BY <2>3, <3>1
    <3>3. file # Unnamed => status = "off"
      BY <2>3, <3>1
    <3> QED BY <2>1, <3>2, <3>3
  <2> QED BY <2>1, <2>2, <2>3
<1>5. file \in Files \cup Shapes \cup {NULL, Unnamed}
  BY DEF Init
<1>6. sent = <<>> /\ Len(sent) <= MaxLines
  BY LircAssumption, EmptySeq DEF Init
<1>7. code = NULL /\ scan = 0 /\ executed \in {0, last} /\ open \in BOOLEAN
  BY DEF Init
<1>8. reloads \in 0..MaxReloads /\ spoiled \in BOOLEAN
  <2>1. reloads = 0 /\ spoiled = FALSE
    BY DEF Init
  <2>2. 0 \in 0..MaxReloads
    BY LircAssumption
  <2> QED BY <2>1, <2>2
<1>9. status # "stopped"
  BY <1>4
<1>10. RestInv
  BY <1>4, <1>5, <1>6, <1>7, <1>8, <1>9 DEF RestInv
<1> QED BY <1>3, <1>10

\* All invariants of the module hold together.
LEMMA LircInvHolds == Spec => []LircInv
<1>1. Init => LircInv
  BY ScanInvInit, WireInvInit, CauseInvInit, UseInvInit DEF LircInv
<1>2. LircInv /\ [Next]_vars => LircInv'
  <2> SUFFICES ASSUME ScanInv, WireInv, CauseInv, UseInv, LongestInv, RestInv, [Next]_vars
               PROVE  LircInv'
    BY DEF LircInv
  <2>1. CodesInv
    BY DEF CauseInv
  <2> QED BY <2>1, ScanInvNext, WireInvNext, CauseInvNext, UseStep, RestStep DEF LircInv
<1> QED BY <1>1, <1>2, PTL DEF Spec

\* Every variable of the module and of lirc_client keeps its type, whatever is
\* pressed, however the lines are cut and whatever a reload finds.
THEOREM LircTypeCorrect == Spec => []LircTypeOK
<1>1. LircInv => LircTypeOK
  <2> SUFFICES ASSUME ScanInv, WireInv, CauseInv, UseInv, LongestInv, RestInv PROVE LircTypeOK
    BY DEF LircInv
  <2>1. \A i \in DOMAIN entries :
          /\ nextCode[i] \in 0..Len(entries[i].codes)
          /\ seen[i] \in Seq(Press)
    BY CodesType DEF CauseInv, CodesInv, LongestInv
  <2>2. buffer \in Seq(Unit) /\ socket \in Seq(Unit) /\ handled \in Seq(Unit)
    BY UnitsTyped, EmptySeq DEF RestInv
  <2>3. /\ entries \in Seq(Entry) /\ next \in 0..Len(entries) /\ scan \in 0..Len(entries)
        /\ last \in 0..Len(entries)
    BY DEF ScanInv, RestInv
  <2>4. Len(buffer) <= PacketSize /\ sent \in Seq(KeyLine \cup {Note})
    BY DEF WireInv
  <2> QED BY <2>1, <2>2, <2>3, <2>4 DEF LircTypeOK, UseInv, RestInv
<1> QED BY <1>1, LircInvHolds, PTL

\* lirc_iscode, which has no record of the presses, never falls behind them: for
\* any sequence of codes, next_code is where its longest beginning ends.
THEOREM LongestMatchHolds == Spec => []LongestMatch
<1>1. LircInv => LongestMatch
  <2> SUFFICES ASSUME ScanInv, LongestInv, NEW i \in DOMAIN entries, entries[i].codes # <<>>
               PROVE  nextCode[i] = 1 + Max({n \in 0..(Len(entries[i].codes) - 1) :
                        Suffix(entries[i].codes, seen[i], n)})
    BY DEF LircInv, LongestMatch, Suffix
  <2> DEFINE s == entries[i].codes
             p == nextCode[i]
             S == {n \in 0..(Len(s) - 1) : Suffix(s, seen[i], n)}
  <2>1. Len(s) \in Nat /\ Longest(s, seen[i], p)
    BY CodesType DEF LongestInv
  <2> HIDE DEF s, p
  <2>2. p \in 1..Len(s) /\ p - 1 \in S /\ \A y \in S : y <= p - 1
    BY <2>1 DEF Longest
  <2>3. Max(S) = p - 1
    <3>1. S \subseteq Nat
      BY <2>1
    <3> HIDE DEF S
    <3> QED BY <2>2, <3>1, Greatest
  <2>4. p = 1 + Max(S)
    BY <2>2, <2>3
  <2> QED BY <2>4 DEF s, p
<1> QED BY <1>1, LircInvHolds, PTL

\* A configuration file that is read is read as it is written, whatever its lines:
\* the line-by-line parser of lirc_readconfig, which keeps one open entry and one
\* current mode, returns the entries that the file as a whole describes.
THEOREM ParsedAsWrittenHolds == Spec => []ParsedAsWritten
<1>1. LircInv => ParsedAsWritten
  BY FilesAssumption, ReadconfigFaithful DEF LircInv, RestInv, ParsedAsWritten
<1> QED BY <1>1, LircInvHolds, PTL
=============================================================================
