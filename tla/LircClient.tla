----------------------------- MODULE LircClient -----------------------------
(***************************************************************************)
(* The configuration in use and what lirc_client.c does with one line of   *)
(* lircd: lirc_code2char goes through the entries, lirc_iscode follows     *)
(* the sequences of codes, lirc_execute changes the mode and chooses the   *)
(* string.  One step is one entry; mod_lirc_poll calls lirc_code2char for  *)
(* the same line until it returns no string.                               *)
(***************************************************************************)
EXTENDS LircConfig

VARIABLES
  entries,      \* the list of entries, without what changes in use:
  nextCode,     \* position of each entry's next_code, 0 for NULL
  nextConfig,   \* position of each entry's next_config, 0 for NULL
  entered,      \* the entries whose flag ecno is set
  currentMode,
  next,         \* config->next: the entry to go on with, 0 for NULL
  code,         \* the line being looked up, NULL between two lines
  scan,         \* the entry to be examined, 0 for NULL
  seen,         \* history: the presses each entry has seen since it matched
  last,         \* history: the entry examined last for this line, 0 for none
  executed      \* history: the same entry if it was executed, else 0

config == <<entries, nextCode, nextConfig, entered, currentMode, next>>
lookup == <<code, scan, last, executed>>
cvars == <<config, seen, lookup>>

\* What lirc_readconfig returns for a list of entries.
FirstCodes(list) == [i \in DOMAIN list |-> IF list[i].codes = <<>> THEN 0 ELSE 1]
FirstConfigs(list) == [i \in DOMAIN list |-> IF list[i].config = <<>> THEN 0 ELSE 1]
FirstEntry(list) == IF list = <<>> THEN 0 ELSE 1
NothingSeen(list) == [i \in DOMAIN list |-> <<>>]

Loaded(list) ==
  /\ entries = StartupEntries(list) /\ nextCode = FirstCodes(list) /\ nextConfig = FirstConfigs(list)
  /\ entered = StartupOnce(list) /\ currentMode = StartupMode(list)
  /\ next = FirstEntry(list) /\ seen = NothingSeen(list)

Load(list) ==
  /\ entries' = StartupEntries(list) /\ nextCode' = FirstCodes(list) /\ nextConfig' = FirstConfigs(list)
  /\ entered' = StartupOnce(list) /\ currentMode' = StartupMode(list)
  /\ next' = FirstEntry(list) /\ seen' = NothingSeen(list)

Succ(i) == IF i < Len(entries) THEN i + 1 ELSE 0

-----------------------------------------------------------------------------
(* lirc_iscode                                                             *)

\* A code of the configuration against a press.
Matches(c, press) ==
  /\ c.remote = ALL \/ c.remote = press.remote
  /\ c.button = ALL \/ c.button = press.button

\* One code against another, a and b in the loop being prev and next.  Only a's
\* wildcards are looked for: strcasecmp gets b's as a pointer.
Same(a, b) == (a.remote = ALL \/ a.remote = b.remote) /\ (a.button = ALL \/ a.button = b.button)

WildPointer(a, b) ==
  \/ a.remote # ALL /\ b.remote = ALL
  \/ (a.remote = ALL \/ a.remote = b.remote) /\ a.button # ALL /\ b.button = ALL

\* The codes s[1..p-k] agree with s[k..p-1], those matched last.
Agree(s, p, k) == \A j \in 1..(p - k) : Same(s[j], s[k + j - 1])

\* The comparison of the two meets a wildcard before it finds a difference.
Garbage(s, p, k) ==
  \E j \in 1..(p - k) : WildPointer(s[j], s[k + j - 1]) /\ \A i \in 1..(j - 1) : Same(s[i], s[k + i - 1])

\* Where the sequence can be resumed after a wrong press.
Resumes(s, p, press) == {k \in 2..p : Agree(s, p, k) /\ Matches(s[p - k + 1], press)}

\* Mutant: starts one code too late.
FallbackLate(s, p, press) ==
  LET resumes == Resumes(s, p, press) \ {2} IN IF resumes = {} THEN 1 ELSE p - Min(resumes) + 2

Fallback(s, p, press) ==
  LET resumes == Resumes(s, p, press) IN IF resumes = {} THEN 1 ELSE p - Min(resumes) + 2

\* The places the loop looks at before it returns.
Compared(s, p, press) ==
  LET resumes == Resumes(s, p, press) IN IF resumes = {} THEN 2..p ELSE 2..Min(resumes)

Expected(i) == entries[i].codes = <<>> \/ Matches(entries[i].codes[nextCode[i]], code)

\* The press is read through a wild pointer.
Crashes(i) ==
  /\ ~Expected(i) /\ code.rep = 0
  /\ \E k \in Compared(entries[i].codes, nextCode[i], code) : Garbage(entries[i].codes, nextCode[i], k)

\* A held key does not advance a sequence, and counts for a single code if the
\* entry's repeat allows it.
Advances(i) == Expected(i) /\ (Len(entries[i].codes) = 1 \/ code.rep = 0)
Completes(i) == Advances(i) /\ nextCode[i] = Len(entries[i].codes)

Iscode(i) ==
  \/ entries[i].codes = <<>>
  \/ /\ entries[i].codes # <<>> /\ Completes(i)
     /\ \/ Len(entries[i].codes) > 1
        \/ IF entries[i].rep = 0 THEN code.rep = 0 ELSE code.rep % entries[i].rep = 0

\* Mutant: next_code is not set back after a match.
CodeAfterPastEnd(i) ==
  CASE entries[i].codes = <<>> -> 0
    [] entries[i].codes # <<>> /\ Advances(i) -> nextCode[i] + 1
    [] OTHER -> IF Expected(i) \/ code.rep # 0 THEN nextCode[i]
                ELSE Fallback(entries[i].codes, nextCode[i], code)

\* next_code after the call.
CodeAfter(i) ==
  CASE entries[i].codes = <<>> -> 0
    [] entries[i].codes # <<>> /\ Completes(i) -> 1
    [] entries[i].codes # <<>> /\ Advances(i) /\ ~Completes(i) -> nextCode[i] + 1
    [] OTHER -> IF Expected(i) \/ code.rep # 0 THEN nextCode[i]
                ELSE Fallback(entries[i].codes, nextCode[i], code)

\* History: a repeat is no press, a match begins again.
SeenAfter(i) ==
  IF entries[i].codes # <<>> /\ Completes(i) THEN <<>>
  ELSE IF code.rep # 0 THEN seen[i]
  ELSE Append(seen[i], [remote |-> code.remote, button |-> code.button])

-----------------------------------------------------------------------------
(* lirc_execute and lirc_clearmode                                         *)

\* The flags after lirc_clearmode, when the entry asks for it.
Cleared(e) ==
  IF "mode" \in e.flags /\ currentMode # NULL
  THEN {i \in entered : entries[i].change # currentMode} ELSE entered

ModeAfter(e) ==
  CASE e.change # NULL -> e.change
    [] e.change = NULL /\ "mode" \in e.flags -> NULL
    [] OTHER -> currentMode

\* Entered already: its string waits until the mode is left.
Held(i) == entries[i].change # NULL /\ "once" \in entries[i].flags /\ i \in Cleared(entries[i])

Returns(i) == nextConfig[i] # 0 /\ entries[i].prog = Prog /\ ~Held(i)

\* Mutant: config->next stays at the entry.
ExecuteStays(i) ==
  /\ next' = IF "quit" \in entries[i].flags THEN 0 ELSE i
  /\ UNCHANGED <<entered, currentMode, nextConfig>>

Execute(i) ==
  LET e == entries[i]
      entering == IF e.change # NULL /\ "once" \in e.flags THEN {i} ELSE {}
  IN  /\ next' = IF "quit" \in e.flags THEN 0 ELSE Succ(i)
      /\ entered' = Cleared(e) \cup entering
      /\ currentMode' = ModeAfter(e)
      /\ nextConfig' = IF Returns(i) THEN [nextConfig EXCEPT ![i] = (@ % Len(e.config)) + 1]
                       ELSE nextConfig

-----------------------------------------------------------------------------
(* lirc_code2char                                                          *)

InMode(i) == entries[i].mode = NULL \/ entries[i].mode = currentMode

\* The next entry; after a string, lirc_code2char is called again and goes on
\* with config->next.
Continue(i) ==
  scan' = IF Returns(i) /\ Iscode(i) /\ InMode(i) THEN next' ELSE IF next' # 0 THEN Succ(i) ELSE 0

Examine ==
  /\ code # NULL /\ scan # 0
  /\ ~Crashes(scan)
  /\ nextCode' = [nextCode EXCEPT ![scan] = CodeAfter(scan)]
  /\ seen' = [seen EXCEPT ![scan] = SeenAfter(scan)]
  /\ last' = scan
  /\ IF Iscode(scan) /\ InMode(scan)
     THEN Execute(scan) /\ executed' = scan
     ELSE UNCHANGED <<next, entered, currentMode, nextConfig>> /\ executed' = 0
  /\ Continue(scan)
  /\ UNCHANGED <<entries, code>>

\* Mutant: config->next is left where the search ended.
GiveUpHere ==
  /\ code # NULL /\ scan = 0
  /\ code' = NULL /\ last' = 0 /\ executed' = 0
  /\ UNCHANGED <<config, seen, scan>>

\* No entry is left: no string, and the next line starts at the first entry.
GiveUp ==
  /\ code # NULL /\ scan = 0
  /\ next' = FirstEntry(entries) /\ code' = NULL /\ last' = 0 /\ executed' = 0
  /\ UNCHANGED <<entries, nextCode, nextConfig, entered, currentMode, seen, scan>>

\* The first call for a line; one that sscanf does not take for a key press ends
\* the search before it begins.
Lookup(line) ==
  /\ IF line.key
     THEN code' = line /\ scan' = next /\ UNCHANGED <<next, last, executed>>
     ELSE next' = FirstEntry(entries) /\ UNCHANGED <<code, scan, last, executed>>
  /\ UNCHANGED <<entries, nextCode, nextConfig, entered, currentMode, seen>>
=============================================================================
