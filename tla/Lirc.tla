-------------------------------- MODULE Lirc --------------------------------
(***************************************************************************)
(* mod_lirc and lirc_nextcode, with lircd at the other end of the socket   *)
(* and a user who presses keys and edits the configuration file.  A line   *)
(* of lircd is two units, which the socket may deliver one by one; a read  *)
(* takes what is there, up to the room in the buffer.                      *)
(***************************************************************************)
EXTENDS LircClient

CONSTANTS
  Files,       \* configuration files with which keys are pressed
  Edits,       \* those the file may be changed to
  Shapes,      \* more files, which are only read at the start
  Unnamed,     \* no file: neither lirc_config nor HOME is set
  Press,       \* the presses a user may make: remote and button
  MaxLines,    \* lines sent by lircd
  MaxHeld,     \* repetitions of a press that is held
  MaxReloads,
  PacketSize   \* units that fit into lirc_buffer

ASSUME LircAssumption ==
  /\ Edits \subseteq Files /\ Press \subseteq Code
  /\ MaxLines \in Nat /\ MaxHeld \in Nat /\ MaxReloads \in Nat
  /\ PacketSize \in Nat \ {0, 1}

ASSUME FilesAssumption == Files \cup Shapes \subseteq Seq(Line)

ASSUME UnnamedAssumption == Unnamed \notin Files \cup Shapes \cup {NULL}

VARIABLES
  file,        \* the configuration file, which may be the one of HOME; NULL
               \* when it cannot be opened
  status,      \* "running", "stopped", "dead", or "off" without the module
  irconfig,    \* what mod_lirc_irconfig points to: "valid", "null" or "freed"
  watched,     \* the socket is in mod_lirc_fdset
  buffer,      \* lirc_buffer; end_len is its length
  socket,      \* units sent and not read
  open,        \* lircd has not closed the connection
  reloads,     \* how many there were
  spoiled,     \* history: the last of them failed
  sent,        \* history: the lines lircd has begun to send
  handled      \* history: the units that lirc_nextcode has returned

module == <<status, irconfig, watched>>
wire == <<buffer, socket, handled>>
outside == <<open, sent>>
reading == <<file, reloads, spoiled>>
vars == <<cvars, module, wire, outside, reading>>

Note == [key |-> FALSE]
KeyLine == {[key |-> TRUE, remote |-> p.remote, button |-> p.button, rep |-> n] :
              p \in Press, n \in 0..MaxHeld}
Unit == [nr : 1..MaxLines, end : BOOLEAN]

ASSUME NullAssumption == NULL \notin KeyLine

\* The two units of line number n.
Units(n) == <<[nr |-> n, end |-> FALSE], [nr |-> n, end |-> TRUE]>>

Idle == status = "running" /\ code = NULL

-----------------------------------------------------------------------------
(* mod_lirc_init                                                           *)

\* The file has a name, could be opened and was accepted.
Reads(f) == f \notin {NULL, Unnamed} /\ Readconfig(f) # NULL

\* Mutant: the result of lirc_readconfig is not looked at.
ModLircInitUnchecked ==
  /\ Loaded(IF Reads(file) THEN Readconfig(file) ELSE <<>>)
  /\ irconfig = (IF Reads(file) THEN "valid" ELSE "null")
  /\ status = "running" /\ watched = TRUE

\* lircd accepts the connection.  The module is registered when the file could
\* be read.  Without a name for it, strlen is given the NULL of getenv("HOME").
ModLircInit ==
  /\ Loaded(IF Reads(file) THEN Readconfig(file) ELSE <<>>)
  /\ irconfig = (IF Reads(file) THEN "valid" ELSE "null")
  /\ status = (CASE Reads(file) -> "running" [] file = Unnamed -> "dead" [] OTHER -> "off")
  /\ watched = Reads(file)

Init ==
  /\ file \in Files \cup Shapes \cup {NULL, Unnamed}
  /\ ModLircInit
  /\ code = NULL /\ scan = 0 /\ last = 0 /\ executed = 0
  /\ buffer = <<>> /\ socket = <<>> /\ handled = <<>>
  /\ open = TRUE /\ sent = <<>>
  /\ reloads = 0 /\ spoiled = FALSE

-----------------------------------------------------------------------------
(* lircd and the user                                                      *)

Repeated(line) ==
  {l \in KeyLine : line.key /\ l.remote = line.remote /\ l.button = line.button /\ l.rep = line.rep + 1}

\* What lircd may send: something else than a key, a press, the last press held.
NextLine ==
  {Note} \cup {l \in KeyLine : l.rep = 0} \cup IF sent = <<>> THEN {} ELSE Repeated(Last(sent))

\* Only half of the last line has been sent.
Cut ==
  LET pending == buffer \o socket IN pending # <<>> /\ ~Last(pending).end

\* What lircd sends during a lookup it may as well send before or after it: the
\* socket is looked at between two lookups only.
Pressing == open /\ Idle /\ file \in Files \cup {NULL}

\* A line, or its first unit.
Send ==
  /\ Pressing /\ Len(sent) < MaxLines /\ ~Cut
  /\ \E line \in NextLine, n \in 1..2 :
       /\ sent' = Append(sent, line)
       /\ socket' = socket \o SubSeq(Units(Len(sent) + 1), 1, n)
  /\ UNCHANGED <<cvars, module, reading, buffer, handled, open>>

SendRest ==
  /\ Pressing /\ Cut
  /\ socket' = Append(socket, Units(Len(sent))[2])
  /\ UNCHANGED <<cvars, module, reading, outside, buffer, handled>>

Hangup ==
  /\ Pressing /\ open' = FALSE
  /\ UNCHANGED <<cvars, module, reading, wire, sent>>

-----------------------------------------------------------------------------
(* lirc_nextcode                                                           *)

\* The place of the first newline in b, 0 for none.
Newline(b) == SelectInSeq(b, LAMBDA u : u.end)

Arriving == Min({Len(socket), PacketSize - Len(buffer)})

\* The buffer when lirc_nextcode looks for a line the last time: nothing is read
\* as long as it holds one.
Filled == IF Newline(buffer) # 0 THEN buffer ELSE buffer \o SubSeq(socket, 1, Arriving)

\* Mutant: what is behind the first line is dropped.
TakeDropsRest ==
  /\ buffer' = <<>>
  /\ handled' = handled \o SubSeq(Filled, 1, Newline(Filled))
  /\ socket' = IF Newline(buffer) # 0 THEN socket ELSE SubSeq(socket, Arriving + 1, Len(socket))

\* The first line is cut off; without one, the beginning stays in the buffer.
Take ==
  /\ buffer' = SubSeq(Filled, Newline(Filled) + 1, Len(Filled))
  /\ handled' = handled \o SubSeq(Filled, 1, Newline(Filled))
  /\ socket' = IF Newline(buffer) # 0 THEN socket ELSE SubSeq(socket, Arriving + 1, Len(socket))

-----------------------------------------------------------------------------
(* mod_lirc                                                                *)

Readable == socket # <<>> \/ ~open
Nextline == sent[Filled[Newline(Filled)].nr]
Die == status' = "dead" /\ UNCHANGED <<irconfig, watched>>

\* A line, looked up in the configuration.
PollLine ==
  /\ Idle /\ watched /\ Readable /\ Newline(Filled) # 0
  /\ Take /\ irconfig # "null"
  /\ Lookup(Nextline)
  /\ UNCHANGED <<module, outside, reading>>

\* Without a line code is NULL, and sscanf reads it; without a configuration,
\* lirc_code2char reads config->next all the same.  A freed one may have been
\* overwritten, or not (PollLine).
PollCrash ==
  /\ Idle /\ watched /\ (Newline(buffer) # 0 \/ socket # <<>>) /\ Readable
  /\ Take /\ (Newline(Filled) = 0 \/ irconfig # "valid")
  /\ Die
  /\ UNCHANGED <<cvars, outside, reading>>

\* Nothing to read and nothing in the buffer: lircd has closed the connection and
\* the socket is not watched any more.
PollClosed ==
  /\ Idle /\ watched /\ Readable /\ Newline(buffer) = 0 /\ socket = <<>>
  /\ watched' = FALSE
  /\ UNCHANGED <<cvars, wire, outside, reading, status, irconfig>>

\* strcasecmp is given LIRC_ALL.
CrashInIscode ==
  /\ status = "running" /\ code # NULL /\ scan # 0 /\ Crashes(scan)
  /\ Die
  /\ UNCHANGED <<cvars, wire, outside, reading>>

Code2char == status = "running" /\ (Examine \/ GiveUp) /\ UNCHANGED <<module, wire, outside, reading>>

\* lirc_freeconfig on a configuration that is freed already.
FreeTwice == Idle /\ irconfig = "freed" /\ Die

\* Mutant: a file that cannot be read leaves the old configuration in use, which
\* was freed before.
ReloadForgets(f) ==
  /\ Load(IF Reads(f) THEN Readconfig(f) ELSE <<>>)
  /\ irconfig' = IF Reads(f) THEN "valid" ELSE "null"
  /\ spoiled' = FALSE

\* The old configuration is freed.  lirc_readconfig returns a new one, or NULL for
\* a bad file, or leaves the pointer alone when it cannot open the file.
ReadAgain(f) ==
  /\ CASE f = NULL -> UNCHANGED <<config, seen>>
       [] f # NULL /\ Readconfig(f) = NULL -> Load(<<>>)
       [] OTHER -> Load(Readconfig(f))
  /\ irconfig' = CASE f = NULL -> IF irconfig = "null" THEN "null" ELSE "freed"
                   [] f # NULL /\ Readconfig(f) = NULL -> "null"
                   [] OTHER -> "valid"
  /\ spoiled' = ~Reads(f)

\* The old configuration is freed, and then there is no file to read.
ReadNameless == Idle /\ file' = Unnamed /\ Die

\* On SIGHUP; the file may have been edited, removed or put back, and
\* lirc_config may be gone, as when the daemon's own file cannot be read.
ModLircReload ==
  /\ reloads < MaxReloads /\ reloads' = reloads + 1
  /\ \/ FreeTwice /\ UNCHANGED <<config, seen, file, spoiled>>
     \/ /\ Idle /\ file \in Files \cup {NULL}
        /\ \E f \in Edits \cup {NULL} : file' = f /\ ReadAgain(f)
        /\ UNCHANGED <<status, watched>>
     \/ ReadNameless /\ UNCHANGED <<config, seen, spoiled>>
  /\ UNCHANGED <<lookup, wire, outside>>

\* On SIGTERM; the buffer is freed too.
ModLircDeinit ==
  /\ \/ FreeTwice /\ UNCHANGED buffer
     \/ /\ Idle /\ status' = "stopped" /\ watched' = FALSE /\ buffer' = <<>>
        /\ irconfig' = IF irconfig = "null" THEN "null" ELSE "freed"
  /\ UNCHANGED <<cvars, reading, outside, socket, handled>>

-----------------------------------------------------------------------------

Next ==
  \/ Send \/ SendRest \/ Hangup
  \/ PollLine \/ PollCrash \/ PollClosed
  \/ Code2char \/ CrashInIscode
  \/ ModLircReload \/ ModLircDeinit

Spec == Init /\ [][Next]_vars

\* The daemon's program goes on: lirc_code2char does not wait for anything.
FairSpec == Spec /\ WF_vars(Code2char) /\ WF_vars(CrashInIscode)

-----------------------------------------------------------------------------
(* Properties                                                              *)

LircTypeOK ==
  /\ file \in Files \cup Shapes \cup {NULL, Unnamed}
  /\ status \in {"running", "stopped", "dead", "off"}
  /\ irconfig \in {"valid", "null", "freed"} /\ watched \in BOOLEAN
  /\ entries \in Seq(Entry)
  /\ DOMAIN nextCode = DOMAIN entries /\ DOMAIN nextConfig = DOMAIN entries
  /\ DOMAIN seen = DOMAIN entries
  /\ \A i \in DOMAIN entries :
       /\ nextCode[i] \in 0..Len(entries[i].codes)
       /\ nextCode[i] = 0 <=> entries[i].codes = <<>>
       /\ nextConfig[i] \in 0..Len(entries[i].config)
       /\ nextConfig[i] = 0 <=> entries[i].config = <<>>
       /\ seen[i] \in Seq(Press)
  /\ entered \subseteq DOMAIN entries
  /\ next \in 0..Len(entries) /\ scan \in 0..Len(entries) /\ last \in 0..Len(entries)
  /\ currentMode \in Names \cup {NULL}
  /\ code \in KeyLine \cup {NULL} /\ executed \in {0, last}
  /\ buffer \in Seq(Unit) /\ Len(buffer) <= PacketSize
  /\ socket \in Seq(Unit) /\ handled \in Seq(Unit)
  /\ open \in BOOLEAN /\ sent \in Seq(KeyLine \cup {Note}) /\ Len(sent) <= MaxLines
  /\ reloads \in 0..MaxReloads /\ spoiled \in BOOLEAN

\* The parser's few variables give each entry what its lines say, and a file is
\* refused exactly when its brackets do not fit (lirc_readconfig, lirc_mode).
\* Every file is one to start with.
ParsedAsWritten == file \notin {NULL, Unnamed} /\ reloads = 0 /\ sent = <<>> => Faithful(file)

\* A sequence of codes is never a press behind: next_code is where the longest
\* beginning of the sequence ends with which the presses seen since the last
\* match end.  The loop in lirc_iscode has no record of the presses and
\* compares the sequence with itself.
LongestMatch ==
  \A i \in DOMAIN entries : entries[i].codes # <<>> =>
    LET s == entries[i].codes
        EndsWith(n) ==
          /\ n <= Len(seen[i])
          /\ \A j \in 1..n : Matches(s[j], seen[i][Len(seen[i]) - n + j])
    IN  nextCode[i] = 1 + Max({n \in 0..(Len(s) - 1) : EndsWith(n)})

\* Each entry is asked once for a line and in the order of the file, up to the end or to
\* an entry with quit, although lirc_code2char returns at every string and finds
\* its place again in config->next; the next line starts at the first entry.
EachEntryOnce ==
  LET quits == executed # 0 /\ "quit" \in entries[executed].flags
  IN  /\ code = NULL => next = FirstEntry(entries)
      /\ code # NULL /\ scan # 0 => scan = last + 1 /\ ~quits
      /\ code # NULL /\ scan = 0 => last = Len(entries) \/ quits

\* lirc_nextcode neither loses nor repeats a part of a line, and returns whole
\* lines, however read cuts what lircd sends.
LinesWhole ==
  status # "stopped" =>
    LET got == handled \o buffer \o socket
    IN  /\ Len(got) \in {2 * Len(sent), 2 * Len(sent) - 1}
        /\ \A i \in 1..Len(got) : got[i] = [nr |-> (i + 1) \div 2, end |-> i % 2 = 0]
        /\ handled # <<>> => Last(handled).end

\* As long as its texts fit their buffers, the daemon dies by the remote control
\* in four ways only: part of a line was all there was to read; the last reload
\* failed; a wildcard stands in a sequence behind a code that is none; the
\* configuration names no file and the environment no home to look for one.
LircCrashNeedsCause ==
  status = "dead" =>
    \/ buffer # <<>> /\ Newline(buffer) = 0
    \/ spoiled
    \/ \E i \in DOMAIN entries : \E a, b \in DOMAIN entries[i].codes :
         a < b /\ WildPointer(entries[i].codes[a], entries[i].codes[b])
    \/ file = Unnamed

\* The loop of mod_lirc_poll ends for every line: lirc_code2char does not find the same
\* strings again and again.
LookupEnds == code # NULL ~> (code = NULL \/ status = "dead")
=============================================================================
