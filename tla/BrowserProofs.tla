--------------------------- MODULE BrowserProofs ---------------------------
(***************************************************************************)
(* Proofs about Browser: the elements, the mark and the window fit the     *)
(* directory for any databases, keys and displays.                         *)
(***************************************************************************)
EXTENDS Browser, FiniteSetTheorems, SequenceTheorems, TLAPS

Entries == [path : Seq(Names), dir : BOOLEAN]

\* Entries of one directory of a finite database.
Listed(entries, path) ==
  /\ path \in Seq(Names) /\ IsFiniteSet(entries) /\ entries \subseteq Entries
  /\ \A e \in entries : Len(e.path) = Len(path) + 1 /\ Parent(e.path) = path

-----------------------------------------------------------------------------
(* The order of the elements.                                              *)

\* What MPD answers for a directory.
LEMMA ListingType ==
  ASSUME tree \in Trees, NEW path \in Seq(Names), NEW entries \in SUBSET Listing(path)
  PROVE  Listed(entries, path)
<1>1. IsFiniteSet(tree) /\ tree \subseteq Entries
  BY BrowserAssumption DEF Entries
<1>2. entries \in SUBSET tree
  BY DEF Listing
<1>3. IsFiniteSet(entries)
  BY <1>1, <1>2, FS_Subset
<1> QED BY <1>1, <1>2, <1>3 DEF Listed, Listing

\* A path is its parent and its name.
LEMMA PathOf ==
  ASSUME NEW p \in Seq(Names), NEW q \in Seq(Names), NEW path \in Seq(Names),
         Len(p) = Len(path) + 1, Len(q) = Len(path) + 1, Parent(p) = path, Parent(q) = path,
         NameOf(p) = NameOf(q)
  PROVE  p = q
<1>1. Len(path) \in Nat
  OBVIOUS
<1>2. /\ \A i \in 1..Len(path) : path[i] = p[i]
      /\ \A i \in 1..Len(path) : path[i] = q[i]
  BY <1>1 DEF Parent
<1>3. p # Root /\ q # Root
  BY <1>1, EmptySeq DEF Root
<1>4. p[Len(p)] = q[Len(q)]
  BY <1>3 DEF NameOf
<1>5. \A i \in 1..Len(p) : p[i] = q[i]
  BY <1>1, <1>2, <1>4
<1> QED BY <1>5, SeqEqual

\* Directories and songs are in a strict order.
LEMMA ListingOrder ==
  ASSUME NEW entries, NEW path, Listed(entries, path)
  PROVE  /\ \A e \in entries : ~Precedes(e, e)
         /\ \A e, f \in entries : e = f \/ Precedes(e, f) \/ Precedes(f, e)
         /\ \A e, f, g \in entries : Precedes(e, f) /\ Precedes(f, g) => Precedes(e, g)
<1>1. \A e \in entries : e.path \in Seq(Names) /\ e.path # Root /\ e.dir \in BOOLEAN
  BY EmptySeq DEF Listed, Entries, Root
<1>2. \A e \in entries : NameOf(e.path) \in Nat
  <2>1. \A e \in entries : Len(e.path) \in 1..Len(e.path)
    BY <1>1 DEF Root
  <2>2. \A e \in entries : e.path[Len(e.path)] \in Names
    BY <1>1, <2>1
  <2>3. \A e \in entries : NameOf(e.path) \in Names
    BY <1>1, <2>2 DEF NameOf
  <2> QED BY <2>3, BrowserAssumption
<1>3. \A e \in entries : ~Precedes(e, e)
  BY <1>2 DEF Precedes
<1>4. ASSUME NEW e \in entries, NEW f \in entries
      PROVE  e = f \/ Precedes(e, f) \/ Precedes(f, e)
  <2>1. CASE e.dir = f.dir /\ NameOf(e.path) = NameOf(f.path)
    <3>1. e.path = f.path
      BY <1>1, <2>1, PathOf DEF Listed
    <3>2. e \in Entries /\ f \in Entries
      BY DEF Listed
    <3> QED BY <2>1, <3>1, <3>2 DEF Entries
  <2>2. CASE e.dir = f.dir /\ NameOf(e.path) # NameOf(f.path)
    <3>1. NameOf(e.path) < NameOf(f.path) \/ NameOf(f.path) < NameOf(e.path)
      BY <1>2, <2>2
    <3> QED BY <2>2, <3>1 DEF Precedes
  <2>3. CASE e.dir # f.dir
    BY <1>1, <2>3, Zenon DEF Precedes
  <2> QED BY <2>1, <2>2, <2>3
<1>5. ASSUME NEW e \in entries, NEW f \in entries, NEW g \in entries,
             Precedes(e, f), Precedes(f, g)
      PROVE  Precedes(e, g)
  <2>1. CASE e.dir = f.dir /\ f.dir = g.dir
    <3>1. NameOf(e.path) < NameOf(f.path) /\ NameOf(f.path) < NameOf(g.path)
      BY <1>5, <2>1 DEF Precedes
    <3>2. NameOf(e.path) < NameOf(g.path)
      BY <1>2, <3>1
    <3> QED BY <2>1, <3>2 DEF Precedes
  <2>2. CASE e.dir = f.dir /\ f.dir # g.dir
    BY <1>5, <2>2, Zenon DEF Precedes
  <2>3. CASE e.dir # f.dir
    BY <1>1, <1>5, <2>3, Zenon DEF Precedes
  <2> QED BY <2>1, <2>2, <2>3
<1> QED BY <1>3, <1>4, <1>5

\* Every number below the length of a directory is the place of one entry, and
\* every entry has a place.
LEMMA Places ==
  ASSUME NEW entries, NEW path, Listed(entries, path)
  PROVE  /\ Cardinality(entries) \in Nat
         /\ \A i \in 0..(Cardinality(entries) - 1) : Nth(entries, i) \in entries
         /\ \A e \in entries : \E i \in 0..(Cardinality(entries) - 1) : Nth(entries, i) = e
<1> DEFINE n == Cardinality(entries)
           Below(e) == {f \in entries : Precedes(f, e)}
           place == [e \in entries |-> Cardinality(Below(e))]
<1>1. IsFiniteSet(entries) /\ n \in Nat
  BY FS_CardinalityType DEF Listed
<1>2. \A e \in entries : Below(e) \in SUBSET entries /\ IsFiniteSet(Below(e)) /\ e \notin Below(e)
  BY <1>1, FS_Subset, ListingOrder
<1>3. ASSUME NEW e \in entries PROVE place[e] \in 0..(n - 1)
  <2>1. Cardinality(Below(e)) \in Nat
    BY <1>2, FS_CardinalityType
  <2>2. Cardinality(Below(e)) <= n /\ Cardinality(Below(e)) # n
    BY <1>1, <1>2, FS_Subset
  <2> QED BY <1>1, <2>1, <2>2
<1>4. ASSUME NEW e \in entries, NEW f \in entries, Precedes(e, f)
      PROVE  place[e] < place[f]
  <2>1. Below(e) \in SUBSET Below(f) /\ e \in Below(f)
    BY <1>4, ListingOrder
  <2>2. Below(e) # Below(f)
    BY <1>2, <2>1
  <2>3. Cardinality(Below(e)) <= Cardinality(Below(f)) /\ Cardinality(Below(e)) # Cardinality(Below(f))
    BY <1>2, <2>1, <2>2, FS_Subset
  <2>4. place[e] \in Nat /\ place[f] \in Nat
    BY <1>3
  <2> QED BY <2>3, <2>4
<1>5. ASSUME NEW e \in entries, NEW f \in entries, place[e] = place[f]
      PROVE  e = f
  <2>1. place[e] \in Nat /\ ~(place[e] < place[f]) /\ ~(place[f] < place[e])
    BY <1>3, <1>5
  <2> QED BY <1>4, <2>1, ListingOrder
<1>6. place \in Injection(entries, 0..(n - 1))
  BY <1>3, <1>5 DEF Injection, IsInjective
<1>7. IsFiniteSet(0..(n - 1)) /\ Cardinality(0..(n - 1)) = n
  BY <1>1, FS_Interval
<1>8. place \in Surjection(entries, 0..(n - 1))
  BY <1>6, <1>7, FS_Injection
<1>9. \A i \in 0..(n - 1) : \E e \in entries : place[e] = i
  BY <1>8 DEF Surjection
<1>10. \A i \in 0..(n - 1) : Nth(entries, i) \in entries /\ place[Nth(entries, i)] = i
  BY <1>9 DEF Nth
<1>11. \A e \in entries : Nth(entries, place[e]) = e
  BY <1>3, <1>5, <1>10
<1> QED BY <1>1, <1>3, <1>10, <1>11

\* A path is a name's and its parent's, also when there is no parent.
LEMMA NameType ==
  ASSUME NEW path \in Seq(Names)
  PROVE  NameOf(path) \in Names \cup {0} /\ (path # Root => Parent(path) \in Seq(Names))
<1>1. CASE path = Root
  BY <1>1 DEF NameOf
<1>2. CASE path # Root
  <2>1. Len(path) \in 1..Len(path) /\ Len(path) \in Nat
    BY <1>2, EmptySeq DEF Root
  <2>2. path[Len(path)] \in Names
    BY <2>1
  <2>3. Parent(path) \in Seq(Names)
    <3>1. \A i \in 1..(Len(path) - 1) : path[i] \in Names
      BY <2>1
    <3> QED BY <2>1, <3>1, SubSeqProperties DEF Parent
  <2> QED BY <1>2, <2>2, <2>3 DEF NameOf
<1> QED BY <1>1, <1>2

-----------------------------------------------------------------------------
(* Reading a directory.                                                    *)

\* The browser as it starts: nothing has been read.
Unread ==
  /\ currentDir = Root /\ headline = 0
  /\ count = 0 /\ display = 0 /\ cursor \in {-1, 0}

BrowserInv ==
  /\ BrowserTypeOK
  /\ elements[0] = NULL => Unread
  /\ ShowsDirectory /\ MarkVisible /\ CrashIsNotSound

\* The first slot.
LEMMA FirstSlot == 0 \in Slots /\ MaxEntries \in Nat \ {0}
BY BrowserAssumption DEF Slots

\* What reading a directory leaves in the slots is a directory, and never
\* nothing in the first one.
LEMMA ReadType ==
  ASSUME BrowserTypeOK, NEW path \in Seq(Names), NEW entries \in SUBSET Listing(path),
         ~ReadCrashes(entries), Read(path, entries)
  PROVE  /\ currentDir' \in Seq(Names)
         /\ elements' \in [Slots -> Elements \cup {NULL}] /\ elements'[0] # NULL
         /\ count' \in 0..MaxEntries
         /\ Cardinality(entries) \in Nat
         /\ entries # {} /\ ~Overfull(entries) =>
              /\ count' = Cardinality(entries) /\ count' > 0
              /\ \A i \in 0..(count' - 1) : elements'[i] = Element(Nth(entries, i))
<1>1. Listed(entries, path)
  BY ListingType DEF BrowserTypeOK
<1>2. IsFiniteSet(entries) /\ Cardinality(entries) \in Nat
      /\ (Cardinality(entries) = 0 <=> entries = {})
  BY <1>1, FS_CardinalityType, FS_EmptySet DEF Listed
<1>3. \A i \in 0..(Cardinality(entries) - 1) : Nth(entries, i) \in Entries
  BY <1>1, Places DEF Listed
<1>4. \A e \in Entries : Element(e) \in Elements
  BY DEF Element, Elements, Entries
<1>5. \A i \in Slots : i < Cardinality(entries) => Element(Nth(entries, i)) \in Elements
  BY <1>2, <1>3, <1>4, FirstSlot DEF Slots
<1>6. entries = {} => [elements[0] EXCEPT !.type = "undefined"] \in Elements
  <2>1. SUFFICES ASSUME entries = {} PROVE [elements[0] EXCEPT !.type = "undefined"] \in Elements
    OBVIOUS
  <2>2. elements[0] \in Elements
    BY <2>1, FirstSlot DEF ReadCrashes, BrowserTypeOK
  <2> QED BY <2>2 DEF Elements
<1>7. elements' = Stored(entries) /\ currentDir' = path
      /\ count' = IF Overfull(entries) THEN 0 ELSE Cardinality(entries)
  BY DEF Read
<1>8. \A i \in Slots : Stored(entries)[i] =
        IF i < Cardinality(entries) THEN Element(Nth(entries, i))
        ELSE IF entries = {} /\ i = 0 THEN [elements[0] EXCEPT !.type = "undefined"]
        ELSE IF i = Cardinality(entries) THEN NULL
        ELSE elements[i]
  BY DEF Stored
<1>9. \A i \in Slots : elements[i] \in Elements \cup {NULL}
  BY DEF BrowserTypeOK
<1>10. \A i \in Slots : Stored(entries)[i] \in Elements \cup {NULL}
  BY <1>5, <1>6, <1>8, <1>9
<1>11. elements' \in [Slots -> Elements \cup {NULL}]
  BY <1>7, <1>10 DEF Stored
<1>12. elements'[0] \in Elements
  <2>1. CASE entries = {}
    BY <1>2, <1>6, <1>7, <1>8, <2>1, FirstSlot
  <2>2. CASE entries # {}
    <3>1. 0 < Cardinality(entries)
      BY <1>2, <2>2
    <3> QED BY <1>5, <1>7, <1>8, <3>1, FirstSlot
  <2> QED BY <2>1, <2>2
<1>13. count' \in 0..MaxEntries
  BY <1>2, <1>7, FirstSlot DEF Overfull
<1>14. ASSUME entries # {}, ~Overfull(entries)
       PROVE  /\ count' = Cardinality(entries) /\ count' > 0
              /\ \A i \in 0..(count' - 1) : elements'[i] = Element(Nth(entries, i))
  <2>1. count' = Cardinality(entries) /\ count' > 0 /\ count' <= MaxEntries
    BY <1>2, <1>7, <1>14, FirstSlot DEF Overfull
  <2>2. \A i \in 0..(count' - 1) : i \in Slots /\ i < Cardinality(entries)
    BY <1>2, <2>1, FirstSlot DEF Slots
  <2> QED BY <1>7, <1>8, <2>1, <2>2
<1> QED BY <1>2, <1>7, <1>11, <1>12, <1>13, <1>14, NullAssumption

\* A directory that is read as it should be does not crash the browser.
LEMMA OrdinaryReads ==
  ASSUME BrowserTypeOK, NEW path, NEW entries, Ordinary(path, entries)
  PROVE  ~ReadCrashes(entries) /\ ~Overfull(entries)
BY DEF Ordinary, ReadCrashes
-----------------------------------------------------------------------------
(* The window.                                                             *)

\* The middle of the display, without the division.
LEMMA MiddleBounds ==
  ASSUME height \in Heights
  PROVE  height \in Nat /\ Middle \in Nat /\ Middle > 1 /\ height > 1
         /\ height + 1 <= 2 * Middle /\ 2 * Middle <= height + 2
BY BrowserAssumption DEF Middle

\* The lines that the marked entry may be away from the first one.
LEMMA AboveBounds ==
  ASSUME height \in Heights, NEW target \in Int, cursor \in Int
  PROVE  \E above \in Nat :
           /\ above \in {Middle, Middle - 1} /\ above > 0
           /\ Window(target) =
                LET first == IF target + 1 <= above THEN 0
                             ELSE IF target + 1 - above + height < count THEN target + 1 - above
                             ELSE count - height
                IN  IF target - first >= Middle - 1 THEN first + 1 ELSE first
<1> DEFINE above == Middle - (IF target > cursor THEN 0 ELSE 1)
<1>1. above \in {Middle, Middle - 1}
  BY MiddleBounds
<1>2. above \in Nat /\ above > 0
  BY <1>1, MiddleBounds
<1>3. Window(target) =
        LET first == IF target + 1 <= above THEN 0
                     ELSE IF target + 1 - above + height < count THEN target + 1 - above
                     ELSE count - height
        IN  IF target - first >= Middle - 1 THEN first + 1 ELSE first
  BY DEF Window
<1> HIDE DEF above
<1> QED BY <1>1, <1>2, <1>3

\* The window of a position in the directory shows it, unless it begins before
\* the array; it does that only on a large display and in a short directory.
LEMMA WindowShows ==
  ASSUME height \in Heights, cursor \in Int, count \in Nat,
         NEW target \in 0..(count - 1)
  PROVE  /\ Window(target) \in Int /\ Window(target) <= target
         /\ height > 2 => target <= Window(target) + height - 2
         /\ Window(target) < 0 => height > 4 /\ count + 1 < height
<1>1. PICK above \in Nat :
           /\ above \in {Middle, Middle - 1} /\ above > 0
           /\ Window(target) =
                LET first == IF target + 1 <= above THEN 0
                             ELSE IF target + 1 - above + height < count THEN target + 1 - above
                             ELSE count - height
                IN  IF target - first >= Middle - 1 THEN first + 1 ELSE first
  BY AboveBounds
<1>2. /\ height \in Nat /\ Middle \in Nat /\ Middle > 1 /\ height > 1
      /\ height + 1 <= 2 * Middle /\ 2 * Middle <= height + 2
  BY MiddleBounds
<1>3. CASE target + 1 <= above
  <2>1. Window(target) = IF target >= Middle - 1 THEN 1 ELSE 0
    BY <1>1, <1>2, <1>3
  <2> QED BY <1>1, <1>2, <1>3, <2>1
<1>4. CASE target + 1 > above /\ target + 1 - above + height < count
  <2>1. Window(target) = IF above - 1 >= Middle - 1 THEN target + 2 - above
                         ELSE target + 1 - above
    BY <1>1, <1>2, <1>4
  <2> QED BY <1>1, <1>2, <1>4, <2>1
<1>5. CASE target + 1 > above /\ target + 1 - above + height >= count
  <2>1. Window(target) = IF target - (count - height) >= Middle - 1 THEN count - height + 1
                         ELSE count - height
    BY <1>1, <1>2, <1>5
  <2> QED BY <1>1, <1>2, <1>5, <2>1
<1> QED BY <1>1, <1>2, <1>3, <1>4, <1>5

\* A browser in which nothing has been read shows nothing.
LEMMA WindowUnread ==
  ASSUME height \in Heights, cursor \in Int, NEW target \in {-1, 0}
  PROVE  Window(target) = 0
<1>1. PICK above \in Nat :
           /\ above \in {Middle, Middle - 1} /\ above > 0
           /\ Window(target) =
                LET first == IF target + 1 <= above THEN 0
                             ELSE IF target + 1 - above + height < count THEN target + 1 - above
                             ELSE count - height
                IN  IF target - first >= Middle - 1 THEN first + 1 ELSE first
  BY AboveBounds
<1>2. Middle \in Nat /\ Middle > 1
  BY MiddleBounds
<1>3. target + 1 <= above /\ ~(target >= Middle - 1)
  BY <1>1, <1>2
<1> QED BY <1>1, <1>2, <1>3

\* Where the cursor keys lead to.
LEMMA TargetsType ==
  ASSUME BrowserTypeOK, NEW move \in Moves, NEW target \in Targets(move)
  PROVE  /\ target \in Int /\ target >= -1 /\ target < MaxEntries
         /\ target \in {-1, 0} \/ target < count
         /\ count > 0 /\ cursor < count => target >= 0 /\ target < count
         /\ count = 0 /\ move.kind # "letter" => target \in {-1, 0}
<1>1. cursor \in Int /\ cursor >= -1 /\ count \in Nat /\ count <= MaxEntries
  BY FirstSlot DEF BrowserTypeOK
<1>2. MaxEntries \in Nat /\ MaxEntries > 0
  BY FirstSlot
<1>3. move.kind \in {"letter", "relative", "absolute"} /\ move.step \in Int
  BY BrowserAssumption
<1>4. CASE move.kind = "letter"
  <2>1. target \in Letter(move.step)
    BY <1>4 DEF Targets
  <2>2. CASE move.step > 0
    BY <1>1, <1>2, <1>4, <2>1, <2>2 DEF Letter
  <2>3. CASE ~(move.step > 0)
    <3>1. \/ cursor <= count /\ target \in 0..(cursor - 1)
          \/ target = count - 1
      BY <2>1, <2>3 DEF Letter
    <3>2. CASE cursor <= count /\ target \in 0..(cursor - 1)
      BY <1>1, <1>2, <1>4, <3>2
    <3>3. CASE target = count - 1
      BY <1>1, <1>2, <1>4, <3>3
    <3> QED BY <3>1, <3>2, <3>3
  <2> QED BY <2>2, <2>3
<1>5. CASE move.kind # "letter"
  <2>1. PICK from \in {cursor, 0} : target = Wrapped(from, move.step)
    BY <1>3, <1>5 DEF Targets
  <2>2. from \in Int
    BY <1>1, <2>1
  <2>3. \/ from + move.step < 0 /\ target = count - 1
        \/ from + move.step > count - 1 /\ target = 0
        \/ ~(from + move.step < 0) /\ ~(from + move.step > count - 1) /\ target = from + move.step
    BY <2>1 DEF Wrapped
  <2> QED BY <1>1, <1>2, <1>3, <1>5, <2>2, <2>3
<1> QED BY <1>4, <1>5

\* The window never begins behind the array.
LEMMA WindowType ==
  ASSUME BrowserTypeOK, NEW target \in Int, target >= -1, target < MaxEntries,
         target \in {-1, 0} \/ target < count, ~(Window(target) < 0)
  PROVE  Window(target) \in 0..MaxEntries
<1>1. cursor \in Int /\ count \in Nat /\ count <= MaxEntries /\ height \in Heights
      /\ MaxEntries \in Nat /\ MaxEntries > 0
  BY FirstSlot DEF BrowserTypeOK
<1>2. CASE target \in {-1, 0}
  BY <1>1, <1>2, WindowUnread
<1>3. CASE target \notin {-1, 0}
  <2>1. target \in 0..(count - 1)
    BY <1>1, <1>3
  <2>2. Window(target) \in Int /\ Window(target) <= target
    BY <1>1, <2>1, WindowShows
  <2> QED BY <1>1, <2>2
<1> QED BY <1>2, <1>3
-----------------------------------------------------------------------------
(* Steps.                                                                  *)

\* A step that leaves the menu alone.
LEMMA MenuKept ==
  ASSUME BrowserInv, status' \in {"active", "inactive"},
         UNCHANGED <<menu, height, dead, tree, sound>>
  PROVE  BrowserInv'
<1>1. UNCHANGED <<currentDir, elements, count, cursor, display, headline>>
  BY DEF menu, position
<1>2. BrowserTypeOK'
  BY <1>1 DEF BrowserInv, BrowserTypeOK
<1>3. (elements[0] = NULL => Unread)'
  BY <1>1 DEF BrowserInv, Unread
<1>4. ShowsDirectory' /\ MarkVisible' /\ CrashIsNotSound'
  BY <1>1 DEF BrowserInv, ShowsDirectory, MarkVisible, CrashIsNotSound, Listing
<1> QED BY <1>2, <1>3, <1>4 DEF BrowserInv

\* A crash, which a sound directory does not cause unless it is too short for
\* a large display.
LEMMA CrashKept ==
  ASSUME BrowserInv, Crash, sound' \in BOOLEAN,
         sound' => sound /\ height > 4 /\ count + 1 < height
  PROVE  BrowserInv'
<1>1. UNCHANGED <<status, currentDir, elements, count, cursor, display, headline, height, tree>>
      /\ dead' = TRUE
  BY DEF Crash, menu, position
<1>2. BrowserTypeOK'
  BY <1>1 DEF BrowserInv, BrowserTypeOK
<1>3. (elements[0] = NULL => Unread)'
  BY <1>1 DEF BrowserInv, Unread
<1>4. ShowsDirectory' /\ MarkVisible' /\ CrashIsNotSound'
  BY <1>1 DEF BrowserInv, ShowsDirectory, MarkVisible, CrashIsNotSound, Listing
<1> QED BY <1>2, <1>3, <1>4 DEF BrowserInv

\* A directory is read: what is on the display is right if the mark and the
\* headline are set as they should be.
LEMMA ReadKept ==
  ASSUME BrowserInv, ~dead, NEW path \in Seq(Names), NEW entries \in SUBSET Listing(path),
         ~ReadCrashes(entries), Read(path, entries),
         UNCHANGED <<height, dead, tree>>,
         status' \in {"active", "inactive"}, sound' \in BOOLEAN,
         cursor' \in -1..MaxEntries, display' \in 0..MaxEntries, headline' \in Names \cup {0},
         sound' => /\ Ordinary(path, entries)
                   /\ headline' = NameOf(path)
                   /\ cursor' \in 0..(count' - 1) /\ display' <= cursor'
                   /\ height > 2 => cursor' <= display' + height - 2
  PROVE  BrowserInv'
<1>1. BrowserTypeOK
  BY DEF BrowserInv
<1>2. /\ currentDir' \in Seq(Names)
      /\ elements' \in [Slots -> Elements \cup {NULL}] /\ elements'[0] # NULL
      /\ count' \in 0..MaxEntries
      /\ entries # {} /\ ~Overfull(entries) =>
           /\ count' = Cardinality(entries) /\ count' > 0
           /\ \A i \in 0..(count' - 1) : elements'[i] = Element(Nth(entries, i))
  BY <1>1, ReadType
<1>3. BrowserTypeOK'
  BY <1>1, <1>2 DEF BrowserTypeOK
<1>4. ShowsDirectory'
  <2>1. SUFFICES ASSUME sound'
                 PROVE  /\ count' = Cardinality(Listing(currentDir)')
                        /\ \A i \in 0..(count' - 1) :
                             elements'[i] = Element(Nth(Listing(currentDir)', i))
                        /\ headline' = NameOf(currentDir')
    BY DEF ShowsDirectory
  <2>2. Listing(currentDir)' = entries
    BY <2>1 DEF Ordinary, Read, Listing
  <2>3. entries # {} /\ ~Overfull(entries) /\ headline' = NameOf(currentDir')
    BY <2>1 DEF Ordinary, Read
  <2> QED BY <1>2, <2>2, <2>3
<1>5. MarkVisible' /\ CrashIsNotSound'
  BY DEF MarkVisible, CrashIsNotSound
<1> QED BY <1>2, <1>3, <1>4, <1>5 DEF BrowserInv

\* The start.
LEMMA InitInv == BrowserInit => BrowserInv
<1>1. SUFFICES ASSUME BrowserInit PROVE BrowserInv
  OBVIOUS
<1>2. BrowserTypeOK
  <2>1. currentDir \in Seq(Names)
    BY <1>1 DEF BrowserInit, Root
  <2> QED BY <1>1, <2>1, FirstSlot DEF BrowserInit, BrowserTypeOK
<1> QED BY <1>1, <1>2 DEF BrowserInit, BrowserInv, Unread, ShowsDirectory, MarkVisible,
                         CrashIsNotSound

\* mod_browser_open.
LEMMA OpenInv == ASSUME BrowserInv, Open PROVE BrowserInv'
<1>1. /\ BrowserTypeOK /\ ShowsDirectory /\ MarkVisible /\ CrashIsNotSound
      /\ AtStart => Unread
      /\ ~dead /\ currentDir \in Seq(Names)
  BY DEF BrowserInv, Open, AtStart, BrowserTypeOK
<1>2. PICK entries \in SUBSET Listing(currentDir) :
       /\ sound' = (Ordinary(currentDir, entries) /\ (sound \/ AtStart))
       /\ \/ /\ ReadCrashes(entries) \/ Overfull(entries)
             /\ Crash
          \/ /\ ~ReadCrashes(entries)
             /\ Read(currentDir, entries)
             /\ CASE Overfull(entries) -> MoveTo(MaxEntries, 0)
                  [] Cardinality(entries) = MaxEntries -> MoveTo(0, 0)
                  [] OTHER -> UNCHANGED position
             /\ status' = "active"
             /\ UNCHANGED <<headline, height, dead, tree>>
  BY Zenon DEF Open
<1>3. sound' \in BOOLEAN
  BY <1>2, Zenon DEF Ordinary, BrowserTypeOK, AtStart
<1>4. CASE (ReadCrashes(entries) \/ Overfull(entries)) /\ Crash
  <2>1. ~sound'
    BY <1>1, <1>2, <1>4, OrdinaryReads
  <2> QED BY <1>3, <1>4, <2>1, CrashKept
<1>5. CASE /\ ~ReadCrashes(entries)
           /\ Read(currentDir, entries)
           /\ CASE Overfull(entries) -> MoveTo(MaxEntries, 0)
                [] Cardinality(entries) = MaxEntries -> MoveTo(0, 0)
                [] OTHER -> UNCHANGED position
           /\ status' = "active"
           /\ UNCHANGED <<headline, height, dead, tree>>
  <2>1. \/ Overfull(entries) /\ cursor' = MaxEntries /\ display' = 0
        \/ cursor' = 0 /\ display' = 0
        \/ cursor' = cursor /\ display' = display
    BY <1>5 DEF MoveTo, position
  <2>2. headline' = headline
    BY <1>5
  <2>3. cursor' \in -1..MaxEntries /\ display' \in 0..MaxEntries /\ headline' \in Names \cup {0}
    BY <1>1, <2>1, <2>2, FirstSlot DEF BrowserTypeOK
  <2>4. ASSUME sound'
        PROVE  /\ Ordinary(currentDir, entries)
               /\ headline' = NameOf(currentDir)
               /\ cursor' \in 0..(count' - 1) /\ display' <= cursor'
               /\ height > 2 => cursor' <= display' + height - 2
    <3>1. Ordinary(currentDir, entries) /\ (sound \/ AtStart)
      BY <1>2, <2>4
    <3>2. ~Overfull(entries) /\ entries # {} /\ entries = Listing(currentDir)
      BY <3>1 DEF Ordinary
    <3>3. count' = Cardinality(entries) /\ count' > 0 /\ count' \in Nat
      BY <1>1, <1>5, <3>2, ReadType
    <3>0. height \in Int /\ height > 1 /\ cursor \in Int /\ display \in Int
      BY <1>1, MiddleBounds DEF BrowserTypeOK
    <3>4. CASE sound
      <4>1. count' = count /\ headline' = NameOf(currentDir)
        BY <1>1, <2>2, <3>2, <3>3, <3>4 DEF ShowsDirectory
      <4>2. /\ cursor \in 0..(count - 1) /\ display <= cursor
            /\ height > 2 => cursor <= display + height - 2
        BY <1>1, <3>4 DEF MarkVisible
      <4>3. \/ cursor' = 0 /\ display' = 0
            \/ cursor' = cursor /\ display' = display
        BY <2>1, <3>2, Zenon
      <4> QED BY <3>0, <3>1, <3>3, <4>1, <4>2, <4>3
    <3>5. CASE AtStart
      <4>1. cursor = 0 /\ display = 0 /\ headline = NameOf(currentDir)
        BY <1>1, <3>5 DEF AtStart, Unread, NameOf
      <4>2. cursor' = 0 /\ display' = 0
        BY <2>1, <3>2, <4>1
      <4> QED BY <2>2, <3>0, <3>1, <3>3, <4>1, <4>2
    <3> QED BY <3>1, <3>4, <3>5
  <2> QED BY <1>1, <1>3, <1>5, <2>3, <2>4, ReadKept
<1> QED BY <1>2, <1>4, <1>5, Zenon

\* The cursor keys.
LEMMA CursorInv == ASSUME BrowserInv, Cursor PROVE BrowserInv'
<1>1. /\ BrowserTypeOK /\ ShowsDirectory /\ MarkVisible /\ CrashIsNotSound
      /\ elements[0] = NULL => Unread
      /\ ~dead /\ sound' = sound
      /\ height \in Heights /\ cursor \in Int /\ count \in Nat /\ 0 \in Slots
  BY FirstSlot DEF BrowserInv, Cursor, Active, BrowserTypeOK
<1>2. PICK move \in Moves :
       /\ move.kind = "letter" => Marked
       /\ \E target \in Targets(move) :
            IF Window(target) < 0 THEN Crash
            ELSE /\ MoveTo(target, Window(target))
                 /\ UNCHANGED <<status, currentDir, elements, count, headline, height, dead, tree>>
  BY DEF Cursor
<1>3. PICK target \in Targets(move) :
            IF Window(target) < 0 THEN Crash
            ELSE /\ MoveTo(target, Window(target))
                 /\ UNCHANGED <<status, currentDir, elements, count, headline, height, dead, tree>>
  BY <1>2
<1>4. /\ target \in Int /\ target >= -1 /\ target < MaxEntries
      /\ target \in {-1, 0} \/ target < count
      /\ count > 0 /\ cursor < count => target >= 0 /\ target < count
      /\ count = 0 /\ move.kind # "letter" => target \in {-1, 0}
  BY <1>1, TargetsType
<1>5. ASSUME sound
      PROVE  /\ target \in 0..(count - 1)
             /\ Window(target) \in Int /\ Window(target) <= target
             /\ height > 2 => target <= Window(target) + height - 2
             /\ Window(target) < 0 => height > 4 /\ count + 1 < height
  <2>1. cursor \in 0..(count - 1)
    BY <1>1, <1>5 DEF MarkVisible
  <2>2. target \in 0..(count - 1)
    BY <1>1, <1>4, <2>1
  <2> QED BY <1>1, <2>2, WindowShows
<1>6. CASE Window(target) < 0
  <2>1. Crash /\ sound' \in BOOLEAN
    BY <1>1, <1>3, <1>6 DEF BrowserTypeOK
  <2> QED BY <1>1, <1>5, <1>6, <2>1, CrashKept
<1>7. CASE ~(Window(target) < 0)
  <2>1. /\ cursor' = target /\ display' = Window(target)
        /\ UNCHANGED <<status, currentDir, elements, count, headline, height, dead, tree>>
    BY <1>3, <1>7 DEF MoveTo
  <2>2. Window(target) \in 0..MaxEntries
    BY <1>1, <1>4, <1>7, WindowType
  <2>3. BrowserTypeOK'
    <3>1. target \in -1..MaxEntries
      BY <1>4, FirstSlot
    <3> QED BY <1>1, <2>1, <2>2, <3>1 DEF BrowserTypeOK
  <2>4. ASSUME elements'[0] = NULL PROVE Unread'
    <3>1. Unread /\ cursor \in {-1, 0}
      BY <1>1, <2>1, <2>4 DEF Unread
    <3>2. ~Marked
      <4>1. SUFFICES ASSUME Marked PROVE FALSE
        OBVIOUS
      <4>2. cursor \in Slots /\ elements[cursor] # NULL
        BY <4>1 DEF Marked
      <4> QED BY <2>1, <2>4, <3>1, <4>2 DEF Slots
    <3>3. target \in {-1, 0}
      BY <1>2, <1>4, <3>1, <3>2 DEF Unread
    <3>4. Window(target) = 0
      BY <1>1, <3>3, WindowUnread
    <3> QED BY <2>1, <3>1, <3>3, <3>4 DEF Unread
  <2>5. ShowsDirectory' /\ CrashIsNotSound'
    BY <1>1, <2>1 DEF ShowsDirectory, CrashIsNotSound, Listing
  <2>6. MarkVisible'
    BY <1>1, <1>5, <2>1 DEF MarkVisible
  <2> QED BY <2>3, <2>4, <2>5, <2>6 DEF BrowserInv
<1> QED BY <1>6, <1>7

\* Into a directory.
LEMMA IntoInv == ASSUME BrowserInv, Into PROVE BrowserInv'
<1> DEFINE path == elements[cursor].path
<1>1. /\ BrowserTypeOK /\ ~dead /\ path \in Seq(Names)
  <2>1. elements[cursor] \in Elements
    BY DEF BrowserInv, BrowserTypeOK, Into, Marked
  <2> QED BY <2>1 DEF BrowserInv, Into, Active, Elements
<1>2. PICK entries \in SUBSET Listing(path) :
           /\ sound' = Ordinary(path, entries)
           /\ IF ReadCrashes(entries) THEN Crash
              ELSE /\ Read(path, entries)
                   /\ IF entries = {}
                      THEN UNCHANGED <<position, headline>>
                      ELSE MoveTo(0, 0) /\ headline' = NameOf(path)
                   /\ UNCHANGED <<status, height, dead, tree>>
  BY Zenon DEF Into
<1> HIDE DEF path
<1>3. sound' \in BOOLEAN
  BY <1>2, Zenon DEF Ordinary
<1>4. CASE ReadCrashes(entries)
  <2>1. ~sound' /\ Crash
    BY <1>1, <1>2, <1>4, OrdinaryReads
  <2> QED BY <1>3, <2>1, CrashKept
<1>5. CASE ~ReadCrashes(entries)
  <2>1. /\ Read(path, entries)
        /\ IF entries = {} THEN UNCHANGED <<cursor, display, headline>>
           ELSE cursor' = 0 /\ display' = 0 /\ headline' = NameOf(path)
        /\ UNCHANGED <<status, height, dead, tree>>
    BY <1>2, <1>5 DEF MoveTo, position
  <2>2. cursor' \in -1..MaxEntries /\ display' \in 0..MaxEntries /\ headline' \in Names \cup {0}
        /\ status' \in {"active", "inactive"}
    BY <1>1, <2>1, NameType, FirstSlot DEF BrowserTypeOK
  <2>3. ASSUME sound'
        PROVE  /\ Ordinary(path, entries)
               /\ headline' = NameOf(path)
               /\ cursor' \in 0..(count' - 1) /\ display' <= cursor'
               /\ height > 2 => cursor' <= display' + height - 2
    <3>1. Ordinary(path, entries) /\ entries # {} /\ ~Overfull(entries)
      BY <1>2, <2>3 DEF Ordinary
    <3>2. count' > 0 /\ count' \in Nat
      BY <1>1, <1>5, <2>1, <3>1, ReadType
    <3>3. height \in Int
      BY <1>1, BrowserAssumption DEF BrowserTypeOK
    <3> QED BY <2>1, <3>1, <3>2, <3>3
  <2> QED BY <1>1, <1>3, <1>5, <2>1, <2>2, <2>3, ReadKept
<1> QED BY <1>4, <1>5

\* Back to the parent directory.
LEMMA BackInv == ASSUME BrowserInv, Back PROVE BrowserInv'
<1> DEFINE path == Parent(currentDir)
<1>1. /\ BrowserTypeOK /\ ~dead /\ path \in Seq(Names)
  BY NameType DEF BrowserInv, BrowserTypeOK, Back, Active
<1>2. PICK entries \in SUBSET Listing(path) :
       /\ sound' = Ordinary(path, entries)
       /\ IF ReadCrashes(entries) THEN Crash
          ELSE /\ Read(path, entries)
               /\ IF entries = {}
                  THEN UNCHANGED <<position, headline>>
                  ELSE /\ headline' = NameOf(path)
                       /\ cursor' \in IF Found = {} THEN {0} ELSE Found
                       /\ display' = IF cursor' > 0 /\ height > 2 THEN cursor' - 1 ELSE 0
               /\ UNCHANGED <<status, height, dead, tree>>
  BY Zenon DEF Back
<1> HIDE DEF path
<1>3. sound' \in BOOLEAN
  BY <1>2, Zenon DEF Ordinary
<1>4. CASE ReadCrashes(entries)
  <2>1. ~sound' /\ Crash
    BY <1>1, <1>2, <1>4, OrdinaryReads
  <2> QED BY <1>3, <2>1, CrashKept
<1>5. CASE ~ReadCrashes(entries)
  <2>1. /\ Read(path, entries)
        /\ \/ entries = {} /\ UNCHANGED <<cursor, display, headline>>
           \/ /\ headline' = NameOf(path)
              /\ cursor' = 0 \/ cursor' \in 0..(count' - 1)
              /\ \/ cursor' > 0 /\ height > 2 /\ display' = cursor' - 1
                 \/ ~(cursor' > 0 /\ height > 2) /\ display' = 0
        /\ UNCHANGED <<status, height, dead, tree>>
    BY <1>2, <1>5 DEF position, Found
  <2>2. count' \in 0..MaxEntries /\ MaxEntries \in Nat /\ height \in Int
    BY <1>1, <1>5, <2>1, ReadType, FirstSlot, BrowserAssumption DEF BrowserTypeOK
  <2>3. cursor' \in -1..MaxEntries /\ display' \in 0..MaxEntries /\ headline' \in Names \cup {0}
        /\ status' \in {"active", "inactive"}
    <3>1. CASE entries = {} /\ UNCHANGED <<cursor, display, headline>>
      BY <1>1, <2>1, <3>1 DEF BrowserTypeOK
    <3>2. CASE /\ headline' = NameOf(path)
               /\ cursor' = 0 \/ cursor' \in 0..(count' - 1)
               /\ \/ cursor' > 0 /\ height > 2 /\ display' = cursor' - 1
                  \/ ~(cursor' > 0 /\ height > 2) /\ display' = 0
      <4>1. cursor' \in 0..MaxEntries
        BY <2>2, <3>2
      <4>2. display' \in 0..MaxEntries
        BY <2>2, <3>2, <4>1
      <4> QED BY <1>1, <2>1, <2>2, <3>2, <4>1, <4>2, NameType DEF BrowserTypeOK
    <3> QED BY <2>1, <3>1, <3>2
  <2>4. ASSUME sound'
        PROVE  /\ Ordinary(path, entries)
               /\ headline' = NameOf(path)
               /\ cursor' \in 0..(count' - 1) /\ display' <= cursor'
               /\ height > 2 => cursor' <= display' + height - 2
    <3>1. Ordinary(path, entries) /\ entries # {} /\ ~Overfull(entries)
      BY <1>2, <2>4 DEF Ordinary
    <3>2. count' > 0 /\ count' \in Nat
      BY <1>1, <1>5, <2>1, <3>1, ReadType
    <3>3. /\ headline' = NameOf(path)
          /\ cursor' \in 0..(count' - 1)
          /\ \/ cursor' > 0 /\ height > 2 /\ display' = cursor' - 1
             \/ ~(cursor' > 0 /\ height > 2) /\ display' = 0
      BY <2>1, <3>1, <3>2
    <3>4. cursor' \in Nat /\ height \in Int
      BY <2>2, <3>2, <3>3
    <3>5. CASE cursor' > 0 /\ height > 2 /\ display' = cursor' - 1
      <4>1. \A c \in Nat, h \in Int : h > 2 => c - 1 <= c /\ c <= (c - 1) + h - 2
        OBVIOUS
      <4>2. display' <= cursor' /\ cursor' <= display' + height - 2
        BY <3>4, <3>5, <4>1, Zenon
      <4> QED BY <3>1, <3>3, <4>2
    <3>6. CASE ~(cursor' > 0 /\ height > 2) /\ display' = 0
      <4>1. display' <= cursor' /\ (height > 2 => cursor' <= display' + height - 2)
        BY <2>2, <3>2, <3>4, <3>6
      <4> QED BY <3>1, <3>3, <4>1
    <3> QED BY <3>3, <3>5, <3>6
  <2> QED BY <1>1, <1>3, <1>5, <2>1, <2>3, <2>4, ReadKept
<1> QED BY <1>4, <1>5

\* Keys that need a marked element.
LEMMA UseNothingInv == ASSUME BrowserInv, UseNothing PROVE BrowserInv'
<1>1. ~sound
  <2>1. SUFFICES ASSUME sound PROVE FALSE
    OBVIOUS
  <2>2. cursor \in 0..(count - 1) /\ count \in 0..MaxEntries /\ MaxEntries \in Nat
    BY <2>1, FirstSlot DEF BrowserInv, MarkVisible, BrowserTypeOK
  <2>3. cursor \in Slots
    BY <2>2 DEF Slots
  <2>4. elements[cursor] = Element(Nth(Listing(currentDir), cursor))
    BY <2>1, <2>2 DEF BrowserInv, ShowsDirectory
  <2>5. Nth(Listing(currentDir), cursor) \in Listing(currentDir)
    <3>1. tree \in Trees /\ currentDir \in Seq(Names)
      BY DEF BrowserInv, BrowserTypeOK
    <3>2. Listed(Listing(currentDir), currentDir)
      BY <3>1, ListingType
    <3>3. count = Cardinality(Listing(currentDir))
      BY <2>1 DEF BrowserInv, ShowsDirectory
    <3> QED BY <2>2, <3>2, <3>3, Places
  <2>6. Nth(Listing(currentDir), cursor) \in Entries
    BY <2>5, BrowserAssumption DEF BrowserInv, BrowserTypeOK, Listing, Entries
  <2>7. elements[cursor] \in Elements
    BY <2>4, <2>6 DEF Element, Elements, Entries
  <2> QED BY <2>3, <2>7, NullAssumption DEF UseNothing, Marked
<1>2. sound' = sound /\ sound \in BOOLEAN /\ Crash
  BY DEF UseNothing, BrowserInv, BrowserTypeOK
<1>3. sound' \in BOOLEAN /\ ~sound'
  BY <1>1, <1>2, Zenon
<1> QED BY <1>2, <1>3, CrashKept

\* MPD's database changes.
LEMMA RescanInv == ASSUME BrowserInv, Rescan PROVE BrowserInv'
<1>1. /\ UNCHANGED <<status, currentDir, elements, count, cursor, display, headline, height, dead>>
      /\ tree' \in Trees /\ sound' = FALSE
  BY DEF Rescan, menu, position
<1>2. BrowserTypeOK'
  BY <1>1 DEF BrowserInv, BrowserTypeOK
<1>3. (elements[0] = NULL => Unread)'
  BY <1>1 DEF BrowserInv, Unread
<1>4. ShowsDirectory' /\ MarkVisible' /\ CrashIsNotSound'
  BY <1>1 DEF ShowsDirectory, MarkVisible, CrashIsNotSound
<1> QED BY <1>2, <1>3, <1>4 DEF BrowserInv

\* BrowserInv is inductive.
LEMMA NextInv == BrowserInv /\ [BrowserNext]_bvars => BrowserInv'
<1>1. SUFFICES ASSUME BrowserInv, [BrowserNext]_bvars PROVE BrowserInv'
  OBVIOUS
<1>2. status \in {"active", "inactive"}
  BY <1>1 DEF BrowserInv, BrowserTypeOK
<1>3. CASE Remove \/ Show \/ Reload \/ Add
  <2>1. status' \in {"active", "inactive"} /\ UNCHANGED <<menu, height, dead, tree, sound>>
    BY <1>3 DEF Remove, Show, Reload, Add
  <2> QED BY <1>1, <2>1, MenuKept
<1>4. CASE UNCHANGED bvars
  <2>1. status' \in {"active", "inactive"} /\ UNCHANGED <<menu, height, dead, tree, sound>>
    BY <1>2, <1>4 DEF bvars
  <2> QED BY <1>1, <2>1, MenuKept
<1> QED BY <1>1, <1>3, <1>4, UseNothingInv, OpenInv, CursorInv, IntoInv, BackInv, RescanInv
        DEF BrowserNext
-----------------------------------------------------------------------------
(* Back to the root.                                                       *)

\* The elements of a sound directory are entries that MPD lists in it.
LEMMA MarkedEntry ==
  ASSUME BrowserInv, sound
  PROVE  \E e \in Listing(currentDir) :
           /\ e \in Entries /\ Len(e.path) = Len(currentDir) + 1 /\ Parent(e.path) = currentDir
           /\ elements[cursor].path = e.path
<1> DEFINE e == Nth(Listing(currentDir), cursor)
<1>1. /\ BrowserTypeOK /\ ShowsDirectory /\ MarkVisible
      /\ tree \in Trees /\ currentDir \in Seq(Names)
  BY DEF BrowserInv, BrowserTypeOK
<1>2. Listed(Listing(currentDir), currentDir)
  BY <1>1, ListingType
<1>3. cursor \in 0..(Cardinality(Listing(currentDir)) - 1) /\ elements[cursor] = Element(e)
  BY <1>1 DEF ShowsDirectory, MarkVisible
<1>4. e \in Listing(currentDir)
  BY <1>2, <1>3, Places
<1>5. elements[cursor].path = e.path
  BY <1>3 DEF Element
<1> HIDE DEF e
<1> QED BY <1>2, <1>4, <1>5 DEF Listed

\* Into never leads to the root.
LEMMA IntoGoesDown ==
  ASSUME BrowserInv, sound, Into, currentDir' = Root, currentDir # Root
  PROVE  FALSE
<1>1. \/ currentDir' = currentDir
      \/ currentDir' = elements[cursor].path
  BY DEF Into, Crash, Read, menu
<1>2. currentDir \in Seq(Names)
  BY DEF BrowserInv, BrowserTypeOK
<1>3. PICK e \in Listing(currentDir) :
        /\ e \in Entries /\ Len(e.path) = Len(currentDir) + 1
        /\ elements[cursor].path = e.path
  BY MarkedEntry
<1>4. Len(e.path) > 0 /\ Len(Root) = 0
  BY <1>2, <1>3 DEF Root
<1> QED BY <1>1, <1>3, <1>4

\* A path whose parent is the root is a single name.
LEMMA OneName ==
  ASSUME NEW path \in Seq(Names), path # Root, Parent(path) = Root
  PROVE  Len(path) = 1 /\ path = <<NameOf(path)>>
<1>1. PICK n \in Nat : n = Len(path)
  OBVIOUS
<1>2. n # 0
  BY <1>1, EmptySeq DEF Root
<1>3. Len(path) = 1
  <2>1. CASE n = 1
    BY <1>1, <2>1
  <2>2. CASE n > 1
    <3>1. \A i \in 1..(n - 1) : path[i] \in Names
      BY <1>1
    <3>2. Len(Parent(path)) = n - 1 - 1 + 1
      BY <1>1, <2>2, <3>1, SubSeqProperties DEF Parent
    <3>3. Len(Root) = 0
      BY DEF Root
    <3> QED BY <2>2, <3>2, <3>3
  <2> QED BY <1>2, <2>1, <2>2
<1>4. NameOf(path) = path[1]
  BY <1>3 DEF NameOf
<1>5. path = <<path[1]>>
  BY <1>3
<1> QED BY <1>3, <1>4, <1>5

\* The search for the name finds the directory, if the root is read completely.
LEMMA BackFinds ==
  ASSUME BrowserInv, sound, Back, sound', currentDir' = Root
  PROVE  cursor' \in Slots /\ elements'[cursor'].path = currentDir
<1> DEFINE origin == [path |-> currentDir, dir |-> TRUE]
<1>1. /\ BrowserTypeOK /\ currentDir # Root /\ currentDir \in Seq(Names) /\ tree \in Trees
      /\ MaxEntries \in Nat
  BY FirstSlot DEF BrowserInv, BrowserTypeOK, Back
<1>2. PICK entries \in SUBSET Listing(Parent(currentDir)) :
       /\ sound' = Ordinary(Parent(currentDir), entries)
       /\ IF ReadCrashes(entries) THEN Crash
          ELSE /\ Read(Parent(currentDir), entries)
               /\ IF entries = {}
                  THEN UNCHANGED <<position, headline>>
                  ELSE /\ headline' = NameOf(Parent(currentDir))
                       /\ cursor' \in IF Found = {} THEN {0} ELSE Found
                       /\ display' = IF cursor' > 0 /\ height > 2 THEN cursor' - 1 ELSE 0
               /\ UNCHANGED <<status, height, dead, tree>>
  BY Zenon DEF Back
<1>3. Ordinary(Parent(currentDir), entries) /\ ~ReadCrashes(entries)
      /\ entries = Listing(Parent(currentDir)) /\ entries # {} /\ ~Overfull(entries)
  BY <1>1, <1>2, OrdinaryReads DEF Ordinary
<1>4. /\ Read(Parent(currentDir), entries)
      /\ cursor' \in IF Found = {} THEN {0} ELSE Found
  BY <1>2, <1>3
<1>5. Parent(currentDir) = Root /\ Root \in Seq(Names)
  BY <1>4 DEF Read, Root
<1>6. Len(currentDir) = 1 /\ currentDir = <<NameOf(currentDir)>>
  BY <1>1, <1>5, OneName
<1>7. origin \in entries
  <2>1. PICK e \in Listing(currentDir) : Len(e.path) = Len(currentDir) + 1 /\ Parent(e.path) = currentDir
    BY MarkedEntry
  <2>2. e \in tree /\ Len(e.path) > 1
    BY <1>6, <2>1 DEF Listing
  <2>3. origin \in tree
    BY <1>1, <2>1, <2>2, TreeAssumption
  <2>4. Len(origin.path) = Len(Root) + 1 /\ Parent(origin.path) = Root
    BY <1>5, <1>6 DEF Root
  <2> QED BY <1>3, <1>5, <2>3, <2>4 DEF Listing
<1>8. Listed(entries, Root)
  BY <1>1, <1>5, ListingType
<1>9. /\ count' = Cardinality(entries) /\ count' \in 0..MaxEntries
      /\ \A i \in 0..(count' - 1) : elements'[i] = Element(Nth(entries, i))
  BY <1>1, <1>3, <1>4, <1>5, ReadType
<1>10. PICK i \in 0..(count' - 1) : Nth(entries, i) = origin
  BY <1>7, <1>8, <1>9, Places
<1>11. elements'[i].path = <<NameOf(currentDir)>>
  <2>1. elements'[i] = Element(origin)
    BY <1>9, <1>10
  <2>2. elements'[i].path = currentDir
    BY <2>1 DEF Element
  <2> QED BY <1>6, <2>2, Zenon
<1>12. cursor' \in 0..(count' - 1) /\ elements'[cursor'].path = <<NameOf(currentDir)>>
  BY <1>4, <1>10, <1>11 DEF Found
<1>13. cursor' \in Slots
  BY <1>1, <1>9, <1>12 DEF Slots
<1> QED BY <1>6, <1>12, <1>13

\* Only Back leads to the root.
LEMMA StepMarksOrigin ==
  BrowserInv /\ [BrowserNext]_bvars
    => (sound /\ sound' /\ currentDir # Root /\ currentDir' = Root
          => cursor' \in Slots /\ elements'[cursor'].path = currentDir)
<1>1. SUFFICES ASSUME BrowserInv, [BrowserNext]_bvars,
                      sound, sound', currentDir # Root, currentDir' = Root
               PROVE  cursor' \in Slots /\ elements'[cursor'].path = currentDir
  OBVIOUS
<1>2. ~UNCHANGED currentDir
  BY <1>1
<1>3. ~UNCHANGED menu
  BY <1>2 DEF menu
<1>4. ~(UseNothing \/ Remove \/ Show \/ Reload \/ Add \/ Rescan \/ UNCHANGED bvars)
  BY <1>3 DEF UseNothing, Crash, Remove, Show, Reload, Add, Rescan, bvars
<1>5. ~Open
  BY <1>2, <1>3 DEF Open, Crash, Read
<1>6. ~Cursor
  BY <1>2, <1>3 DEF Cursor, Crash
<1>7. ~Into
  BY <1>1, IntoGoesDown
<1> QED BY <1>1, <1>4, <1>5, <1>6, <1>7, BackFinds DEF BrowserNext

-----------------------------------------------------------------------------
(* Theorems.                                                               *)

\* BrowserInv always holds.
LEMMA Invariance == BrowserSpec => []BrowserInv
<1> QED BY InitInv, NextInv, PTL DEF BrowserSpec

\* The counter, the mark and the window are within the array or right behind
\* it, and every slot holds nothing or an element, whatever MPD answers, whatever
\* keys are configured, and whatever display LCDd announces.
THEOREM BrowserTypeCorrect == BrowserSpec => []BrowserTypeOK
<1>1. BrowserInv => BrowserTypeOK
  BY DEF BrowserInv
<1> QED BY <1>1, Invariance, PTL

\* mod_browser only crashes over a directory that it has not read properly, or
\* on a display of more than four lines over one that does not fill it.
THEOREM CrashIsNotSoundHolds == BrowserSpec => []CrashIsNotSound
<1>1. BrowserInv => CrashIsNotSound
  BY DEF BrowserInv
<1> QED BY <1>1, Invariance, PTL

\* The marked entry exists and is on the display: the arithmetic of
\* mod_browser_cursor, for every height and every step of a key.
THEOREM MarkVisibleHolds == BrowserSpec => []MarkVisible
<1>1. BrowserInv => MarkVisible
  BY DEF BrowserInv
<1> QED BY <1>1, Invariance, PTL

\* What is in the slots is the directory in the order of mod_browser's
\* comparison, under its own headline.
THEOREM ShowsDirectoryHolds == BrowserSpec => []ShowsDirectory
<1>1. BrowserInv => ShowsDirectory
  BY DEF BrowserInv
<1> QED BY <1>1, Invariance, PTL

\* Back to the root marks the directory that the user comes from: the root, read
\* anew, has it, and mod_browser_find_element finds it.
THEOREM BackMarksOriginHolds == BrowserSpec => BackMarksOrigin
<1>1. BrowserInv /\ [BrowserNext]_bvars
        => [sound /\ sound' /\ currentDir # Root /\ currentDir' = Root
              => cursor' \in Slots /\ elements'[cursor'].path = currentDir]_bvars
  BY StepMarksOrigin
<1> QED BY <1>1, Invariance, PTL DEF BrowserSpec, BackMarksOrigin
=============================================================================
