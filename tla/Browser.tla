------------------------------ MODULE Browser ------------------------------
(***************************************************************************)
(* mod_browser: walking through MPD's database on the display.  The struct *)
(* browser holds the directory that was read last, one element per entry,  *)
(* the marked element, and the element on the first line under the         *)
(* headline.  Names are numbers in the order of the comparison function;   *)
(* a path is a sequence of names.  The elements stay in their slots when a *)
(* shorter directory is read, and nothing checks a slot before it is used. *)
(***************************************************************************)
EXTENDS Integers, Sequences, FiniteSets

CONSTANTS
  Names,       \* names of entries
  Trees,       \* the databases MPD may have
  Heights,     \* display_hgt, from LCDd's connect line
  MaxEntries,  \* MOD_BROWSER_MAXENTRY
  Moves,       \* what "browser cursor" is configured with
  NULL

ASSUME BrowserAssumption ==
  /\ Names \subseteq Nat \ {0}
  /\ \A t \in Trees : IsFiniteSet(t) /\ t \subseteq [path : Seq(Names), dir : BOOLEAN]
  /\ Heights \subseteq Nat /\ \A h \in Heights : h > 1
  /\ MaxEntries \in Nat \ {0}
  /\ Moves \subseteq [kind : {"letter", "relative", "absolute"}, step : Int]

VARIABLES
  status,      \* browser.status: "active" or "inactive"
  currentDir,
  elements,    \* pElements
  count,       \* ElementCount
  cursor,      \* CursorPos
  display,     \* DisplayPos
  headline,    \* HeadLineFixed; 0 is the root's
  height,      \* display_hgt
  dead,        \* the process has crashed
  tree,        \* MPD's database: its directories and songs
  sound        \* history: the last directory read was read completely, was
               \* neither empty nor too long, has not changed since, and the
               \* cursor belongs to it

position == <<cursor, display>>
menu == <<currentDir, elements, count, position, headline>>
bvars == <<status, menu, height, dead, tree, sound>>

Root == <<>>
Parent(path) == SubSeq(path, 1, Len(path) - 1)
NameOf(path) == IF path = Root THEN 0 ELSE path[Len(path)]
Slots == 0..(MaxEntries - 1)
Elements == [path : Seq(Names), sub : BOOLEAN, type : {"directory", "song", "undefined"}]

ASSUME NullAssumption == NULL \notin Elements

\* What MPD lists in a directory other than the root belongs to a directory
\* that it lists, too.
ASSUME TreeAssumption ==
  \A t \in Trees : \A e \in t :
    Len(e.path) > 1 => [path |-> Parent(e.path), dir |-> TRUE] \in t

BrowserTypeOK ==
  /\ status \in {"active", "inactive"}
  /\ currentDir \in Seq(Names)
  /\ elements \in [Slots -> Elements \cup {NULL}]
  /\ count \in 0..MaxEntries
  /\ cursor \in -1..MaxEntries
  /\ display \in 0..MaxEntries
  /\ headline \in Names \cup {0}
  /\ height \in Heights
  /\ dead \in BOOLEAN
  /\ tree \in Trees
  /\ sound \in BOOLEAN

-----------------------------------------------------------------------------
(* Reading a directory.                                                    *)

Listing(path) == {e \in tree : Len(e.path) = Len(path) + 1 /\ Parent(e.path) = path}

\* Directories come first, then songs, each in the order of their names.
Precedes(a, b) ==
  IF a.dir # b.dir THEN a.dir ELSE NameOf(a.path) < NameOf(b.path)

Nth(entries, i) ==
  CHOOSE e \in entries : Cardinality({f \in entries : Precedes(f, e)}) = i

Element(e) ==
  [path |-> e.path, sub |-> e.dir, type |-> IF e.dir THEN "directory" ELSE "song"]

\* An empty directory renames the first element and keeps the rest of it.
\* The element behind the last one is cleared, if there is a slot for it.
Stored(entries) ==
  [i \in Slots |->
     IF i < Cardinality(entries) THEN Element(Nth(entries, i))
     ELSE IF entries = {} /\ i = 0 THEN [elements[0] EXCEPT !.type = "undefined"]
     ELSE IF i = Cardinality(entries) THEN NULL
     ELSE elements[i]]

Overfull(entries) == Cardinality(entries) > MaxEntries

\* DisplayPos and CursorPos lie behind the array.  One entry too many uses
\* them as a pointer, which is valid only if malloc has to provide it.
ReadCrashes(entries) ==
  \/ entries = {} /\ elements[0] = NULL
  \/ Overfull(entries) /\ position # <<0, 0>>

Ordinary(path, entries) == entries = Listing(path) /\ entries # {} /\ ~Overfull(entries)

\* Mutant: the elements are left in the order in which MPD sends them.
ReadUnsorted(path, entries) ==
  /\ currentDir' = path
  /\ elements' = [i \in Slots |->
       LET n == Cardinality(entries)
       IN  IF i < n THEN Element(Nth(entries, n - 1 - i)) ELSE Stored(entries)[i]]
  /\ count' = IF Overfull(entries) THEN 0 ELSE Cardinality(entries)

\* The clearing of the element behind the array's last but one clears the
\* counter again when the directory is too long; it is not sorted then, and
\* MPD is taken to have sent it in order.
Read(path, entries) ==
  /\ currentDir' = path
  /\ elements' = Stored(entries)
  /\ count' = IF Overfull(entries) THEN 0 ELSE Cardinality(entries)

MoveTo(target, first) == cursor' = target /\ display' = first

Crash ==
  /\ dead' = TRUE
  /\ UNCHANGED <<status, menu, height, tree>>

-----------------------------------------------------------------------------
(* Messages.                                                               *)

BrowserInit ==
  /\ status = "inactive"
  /\ currentDir = Root
  /\ elements = [i \in Slots |-> NULL]
  /\ count = 0 /\ cursor = 0 /\ display = 0
  /\ headline = 0
  /\ height \in Heights
  /\ dead = FALSE
  /\ tree \in Trees
  /\ sound = FALSE

Active == ~dead /\ status = "active"

\* into, add, play and the search for a letter follow the marked element.
Marked == cursor \in {i \in Slots : elements[i] # NULL}

UseNothing ==
  /\ Active /\ ~Marked
  /\ Crash
  /\ UNCHANGED sound

AtStart == cursor = 0 /\ elements[0] = NULL

\* mod_browser_open: the cursor stays where it was.  A directory that just
\* fits clears it, one that is too long leaves a pointer in its place.
Open ==
  /\ ~dead /\ status = "inactive"
  /\ \E entries \in SUBSET Listing(currentDir) :
       /\ sound' = (Ordinary(currentDir, entries) /\ (sound \/ AtStart))
       /\ \/ /\ ReadCrashes(entries) \/ Overfull(entries)
             /\ Crash
          \/ /\ ~ReadCrashes(entries)
             /\ Read(currentDir, entries)
             /\ CASE Overfull(entries) -> MoveTo(MaxEntries, 0)
                  [] Cardinality(entries) = MaxEntries -> MoveTo(0, 0)
                  [] OTHER -> UNCHANGED position
             /\ status' = "active"
             /\ UNCHANGED <<headline, height, dead, tree>>

\* "activate" once more, "deactivate", and the display's timeout.
Remove ==
  /\ Active
  /\ status' = "inactive"
  /\ UNCHANGED <<menu, height, dead, tree, sound>>

\* "show" and "setpwd" draw the browser, which makes it active.
Show ==
  /\ ~dead
  /\ status' = "active"
  /\ UNCHANGED <<menu, height, dead, tree, sound>>

Reload ==
  /\ ~dead
  /\ status' \in {"active", "inactive"}
  /\ UNCHANGED <<menu, height, dead, tree, sound>>

\* The search stops at the first other letter; at the end it starts again at
\* the other end.  Letters are left out.
Letter(step) ==
  IF step > 0 THEN (cursor + 1)..(count - 1) \cup {0}
  ELSE (IF cursor <= count THEN 0..(cursor - 1) ELSE {}) \cup {count - 1}

\* Mutant: the cursor may be moved to before the first position.
WrappedAtEndOnly(from, step) == IF from + step > count - 1 THEN 0 ELSE from + step

Wrapped(from, step) ==
  IF from + step < 0 THEN count - 1
  ELSE IF from + step > count - 1 THEN 0
  ELSE from + step

Targets(move) ==
  CASE move.kind = "letter" -> Letter(move.step)
    [] move.kind = "relative" -> {Wrapped(cursor, move.step)}
    [] move.kind = "absolute" -> {Wrapped(0, move.step)}

Middle == (height + 2) \div 2

\* Mutant: the headline's line is forgotten.
WindowWithoutHeadline(target) ==
  LET above == Middle - (IF target > cursor THEN 0 ELSE 1)
  IN  IF target + 1 <= above THEN 0
      ELSE IF target + 1 - above + height < count THEN target + 1 - above
      ELSE count - height

\* The first entry shown: the cursor is kept near the middle, except at both
\* ends of the directory; the headline takes one line.
Window(target) ==
  LET above == Middle - (IF target > cursor THEN 0 ELSE 1)
      first == IF target + 1 <= above THEN 0
               ELSE IF target + 1 - above + height < count THEN target + 1 - above
               ELSE count - height
  IN  IF target - first >= Middle - 1 THEN first + 1 ELSE first

\* Drawing follows the pointers from the first entry shown: before the array
\* there is none.
Cursor ==
  /\ Active
  /\ \E move \in Moves :
       /\ move.kind = "letter" => Marked
       /\ \E target \in Targets(move) :
            IF Window(target) < 0 THEN Crash
            ELSE /\ MoveTo(target, Window(target))
                 /\ UNCHANGED <<status, currentDir, elements, count, headline, height, dead, tree>>
  /\ UNCHANGED sound

\* Mutant: the position in the parent directory is kept.
IntoKeepsPosition ==
  /\ Active /\ Marked /\ elements[cursor].sub
  /\ LET path == elements[cursor].path
     IN  \E entries \in SUBSET Listing(path) :
           /\ sound' = Ordinary(path, entries)
           /\ IF ReadCrashes(entries) THEN Crash
              ELSE /\ Read(path, entries)
                   /\ headline' = IF entries = {} THEN headline ELSE NameOf(path)
                   /\ UNCHANGED <<position, status, height, dead, tree>>

\* If nothing could be read, headline and cursor stay.
Into ==
  /\ Active /\ Marked /\ elements[cursor].sub
  /\ LET path == elements[cursor].path
     IN  \E entries \in SUBSET Listing(path) :
           /\ sound' = Ordinary(path, entries)
           /\ IF ReadCrashes(entries) THEN Crash
              ELSE /\ Read(path, entries)
                   /\ IF entries = {}
                      THEN UNCHANGED <<position, headline>>
                      ELSE MoveTo(0, 0) /\ headline' = NameOf(path)
                   /\ UNCHANGED <<status, height, dead, tree>>

\* Mutant: the name is looked for before the parent directory is read.
FoundTooEarly == {i \in 0..(count - 1) : elements[i].path = <<NameOf(currentDir)>>}

\* mod_browser_find_element compares whole paths with the name of the
\* directory left behind.
Found == {i \in 0..(count' - 1) : elements'[i].path = <<NameOf(currentDir)>>}

Back ==
  /\ Active /\ currentDir # Root
  /\ \E entries \in SUBSET Listing(Parent(currentDir)) :
       /\ sound' = Ordinary(Parent(currentDir), entries)
       /\ IF ReadCrashes(entries) THEN Crash
          ELSE /\ Read(Parent(currentDir), entries)
               /\ IF entries = {}
                  THEN UNCHANGED <<position, headline>>
                  ELSE /\ headline' = NameOf(Parent(currentDir))
                       /\ cursor' \in IF Found = {} THEN {0} ELSE Found
                       /\ display' = IF cursor' > 0 /\ height > 2 THEN cursor' - 1 ELSE 0
               /\ UNCHANGED <<status, height, dead, tree>>

\* add and play: something was added, so the browser is removed.
Add ==
  /\ Active /\ Marked
  /\ elements[cursor].type # "undefined"
  /\ status' = "inactive"
  /\ UNCHANGED <<menu, height, dead, tree, sound>>

-----------------------------------------------------------------------------
(* MPD's database is updated.                                              *)

Rescan ==
  /\ ~dead
  /\ tree' \in Trees \ {tree}
  /\ sound' = FALSE
  /\ UNCHANGED <<status, menu, height, dead>>

BrowserNext ==
  \/ UseNothing \/ Open \/ Remove \/ Show \/ Reload
  \/ Cursor \/ Into \/ Back \/ Add
  \/ Rescan

BrowserSpec == BrowserInit /\ [][BrowserNext]_bvars

-----------------------------------------------------------------------------
(* Properties.                                                             *)

\* A sound directory never crashes the browser, whatever is pressed: the
\* process dies only over a directory that is empty, too long, incomplete,
\* changed or not read at all, and on displays of more than four lines also
\* over one that with its headline does not fill the display.
CrashIsNotSound == dead => ~sound \/ (height > 4 /\ count + 1 < height)

\* The marked entry is inside the directory and, if there are three lines, on
\* the display, which shows height - 1 entries under the headline: after moves
\* in both directions, with and without wrapping, and after directories of
\* different lengths.
MarkVisible ==
  sound =>
    /\ cursor \in 0..(count - 1)
    /\ display <= cursor
    /\ height > 2 => cursor <= display + height - 2

\* The elements are the directory of the database, in order, and the headline
\* is its name, however the user got there.
ShowsDirectory ==
  sound =>
    /\ count = Cardinality(Listing(currentDir))
    /\ \A i \in 0..(count - 1) : elements[i] = Element(Nth(Listing(currentDir), i))
    /\ headline = NameOf(currentDir)

\* Back to the root, the cursor marks the directory that was left, although
\* the root is read again and has been in the same slots before.
BackMarksOrigin ==
  [][sound /\ sound' /\ currentDir # Root /\ currentDir' = Root
       => cursor' \in Slots /\ elements'[cursor'].path = currentDir]_bvars
=============================================================================
