------------------------------ MODULE Terminal ------------------------------
(***************************************************************************)
(* The byte streams between a terminal and the tools, none of which sees   *)
(* where the other side cut them.                                          *)
(*                                                                         *)
(* Output: the recorder reads the pseudo-terminal in chunks, cast.Writer   *)
(* turns each into an event without splitting a character, and the tools   *)
(* read the events: the player's scrollback (lineBuf), its command list    *)
(* (buildChapters), and `tail` (lineRing).                                 *)
(* Input: the player decodes what the terminal sends it (inputParser).     *)
(*                                                                         *)
(* Data: a byte is one of a few that the code tells apart.  "x" is any     *)
(* printable byte, "L2", "L3" and "L4" lead a character of two, three and  *)
(* four bytes, "C" continues one; the prompt of a shell is the byte "$".   *)
(***************************************************************************)
EXTENDS Naturals, Sequences, FiniteSets, SequencesExt

CONSTANTS
  Programs,        \* what a program may write: a set of [bytes, max] records
  MaxScrollLines,  \* maxScrollLines of the scrollback
  MaxLineBytes,    \* maxLineBytes of the scrollback
  TailLines,       \* the -n of tail
  Keys,            \* a function: what a keyboard or terminal sends in one go ->
                   \* what it means to the player, and where the sequence in it ends
  MaxItems         \* bound: items sent

ASSUME TerminalAssumption ==
  /\ MaxScrollLines \in Nat /\ MaxLineBytes \in Nat /\ MaxItems \in Nat
  /\ TailLines \in Nat \ {0}      \* newLineRing raises n to 1

VARIABLES
  side,     \* "output", "closed" or "input": which stream this behaviour is about
  program,  \* the program that writes: its bytes, and how many at most
  raw,      \* history: every byte written so far
  writer,   \* cast.Writer: the bytes it holds back
  events,   \* the data of the events of the recording
  scroll,   \* the player's lineBuf after these events
  ring,     \* tail's lineRing after these events
  sent,     \* history: the items sent to the player
  coming,   \* the bytes of the last item that have not arrived yet
  parser,   \* inputParser: its state and its CSI buffer
  got       \* the events it has emitted

terminalVars == <<side, program, raw, writer, events, scroll, ring, sent, coming, parser, got>>

----------------------------------------------------------------------------
(* cast.Writer.                                                             *)

RuneStart(b) == b # "C"
runeLen(b) == CASE b = "L2" -> 2 [] b = "L3" -> 3 [] b = "L4" -> 4 [] OTHER -> 1
UTFMax == 4

\* Mutant: a character that lacks only its last byte is taken for complete.
completeUTF8Len_offByOne(b) ==
  LET starts == {i \in DOMAIN b : RuneStart(b[i]) /\ i > Len(b) - UTFMax}
      start == IF starts = {} THEN 0 ELSE Max(starts) IN
  IF start > 0 /\ runeLen(b[start]) > 1 /\ start + runeLen(b[start]) - 2 > Len(b)
  THEN start - 1 ELSE Len(b)
\* The length of b up to its last complete character: the last lead byte among
\* the last four, if what it leads is not all there, is held back.
completeUTF8Len(b) ==
  LET starts == {i \in DOMAIN b : RuneStart(b[i]) /\ i > Len(b) - UTFMax}
      start == IF starts = {} THEN 0 ELSE Max(starts) IN
  IF start > 0 /\ runeLen(b[start]) > 1 /\ start + runeLen(b[start]) - 1 > Len(b)
  THEN start - 1 ELSE Len(b)

Take(s, n) == SubSeq(s, 1, n)
Drop(s, n) == SubSeq(s, n + 1, Len(s))

----------------------------------------------------------------------------
(* The scrollback: lines, the line being built, an escape cut by the chunk. *)

FirstOf(s, from, S) == SelectInSubSeq(s, from, Len(s), LAMBDA b : b \in S)
Finals == {"m", "H", "[", "]", "\\"}   \* bytes 0x40..0x7e that end a CSI sequence

\* escComplete and parseESC: the length of the escape sequence that d starts
\* with, 0 when d ends before it does.
EscLen(d) ==
  CASE Len(d) = 1 -> 0
    [] Len(d) > 1 /\ d[2] = "[" -> FirstOf(d, 3, Finals)
    [] Len(d) > 1 /\ d[2] = "]" ->
         LET j == FirstOf(d, 3, {"BEL", "ESC"}) IN
         CASE j = 0 -> 0
           [] j > 0 /\ d[j] = "BEL" -> j
           [] OTHER -> IF j < Len(d) /\ d[j + 1] = "\\" THEN j + 1 ELSE 0
    [] OTHER -> 2
IsSGR(seq) == seq[2] = "[" /\ Last(seq) = "m"
isVerticalMove(seq) == seq[2] = "[" /\ Last(seq) = "H"

\* commit: the line is finished; past twice the cap only the newest are kept.
commit(b) ==
  LET lines == Append(b.lines, b.cur) IN
  [b EXCEPT !.cur = <<>>,
            !.lines = IF Len(lines) > 2 * MaxScrollLines
                      THEN Drop(lines, Len(lines) - MaxScrollLines) ELSE lines]
writeCur(b, s) == IF Len(b.cur) + Len(s) > MaxLineBytes THEN b ELSE [b EXCEPT !.cur = @ \o s]

\* One turn of feed's loop, on the bytes of data still to come.
FeedStep(b) ==
  LET d == b.pending
      on(n, c) == [c EXCEPT !.pending = Drop(d, n)] IN
  IF d = <<>> \/ b.stuck THEN b
  ELSE CASE d[1] = "LF" -> on(1, commit(b))
         [] d[1] = "CR" -> IF Len(d) > 1 /\ d[2] = "LF" THEN on(1, b) ELSE on(1, [b EXCEPT !.cur = <<>>])
         [] d[1] = "ESC" ->
              LET n == EscLen(d)
                  seq == Take(d, n) IN
              CASE n = 0 -> [b EXCEPT !.stuck = TRUE]
                [] n > 0 /\ IsSGR(seq) -> on(n, writeCur(b, seq))
                [] n > 0 /\ isVerticalMove(seq) /\ b.cur # <<>> -> on(n, commit(b))
                [] OTHER -> on(n, b)
         [] d[1] = "BEL" -> on(1, b)
         [] OTHER -> on(1, writeCur(b, <<d[1]>>))

\* Mutant: the rest of a chunk that ends inside an escape sequence is dropped.
feed_forgets(b, data) ==
  LET turn[n \in 0..Len(data)] ==
        IF n = 0 THEN [b EXCEPT !.pending = data, !.stuck = FALSE] ELSE FeedStep(turn[n - 1])
  IN turn[Len(data)]
\* feed: what an escape sequence cut by the last chunk left goes in front.
feed(b, data) ==
  LET all == b.pending \o data
      turn[n \in 0..Len(all)] ==
        IF n = 0 THEN [b EXCEPT !.pending = all, !.stuck = FALSE] ELSE FeedStep(turn[n - 1])
  IN turn[Len(all)]

EmptyScroll == [lines |-> <<>>, cur |-> <<>>, pending |-> <<>>, stuck |-> FALSE]

----------------------------------------------------------------------------
(* tail's ring of the last lines, and the player's list of commands.        *)

pushLine(r) ==
  IF r.count < TailLines
  THEN [r EXCEPT !.lines[(r.start + r.count) % TailLines] = r.partial, !.count = @ + 1, !.partial = <<>>]
  ELSE [r EXCEPT !.lines[r.start] = r.partial, !.start = (@ + 1) % TailLines, !.partial = <<>>]
addByte(r, b) == IF b = "LF" THEN pushLine(r) ELSE [r EXCEPT !.partial = Append(@, b)]
add(r, data) ==
  LET upTo[n \in 0..Len(data)] == IF n = 0 THEN r ELSE addByte(upTo[n - 1], data[n])
  IN upTo[Len(data)]

\* lineRing.String: a partial line counts towards the N.
RingString(r) ==
  LET skip == IF r.partial # <<>> /\ r.count = TailLines THEN 1 ELSE 0
      line(i) == Append(r.lines[(r.start + i) % TailLines], "LF") IN
  FlattenSeq([k \in 1..(r.count - skip) |-> line(skip + k - 1)]) \o r.partial

EmptyRing == [lines |-> [i \in 0..(TailLines - 1) |-> <<>>], start |-> 0, count |-> 0, partial |-> <<>>]

\* The command on a finished line, <<>> if it has none: what follows the prompt
\* in the last thing painted after a carriage return.
CommandOf(line) ==
  LET n == SelectLastInSeq(line, LAMBDA b : b # "CR")
      text == Take(line, n)
      paint == Drop(text, SelectLastInSeq(text, LAMBDA b : b = "CR"))
      at == SelectInSeq(paint, LAMBDA b : b = "$") IN
  IF at = 0 THEN <<>> ELSE Drop(paint, at)

\* buildChapters: each command with the (index of the) event that finished it.
chapterByte(c, k, b) ==
  IF b # "LF" THEN [c EXCEPT !.line = Append(@, b)]
  ELSE [line |-> <<>>,
        found |-> IF CommandOf(c.line) = <<>> THEN c.found
                  ELSE Append(c.found, [t |-> k, label |-> CommandOf(c.line)])]
chapterEvent(c, k, data) ==
  LET upTo[n \in 0..Len(data)] == IF n = 0 THEN c ELSE chapterByte(upTo[n - 1], k, data[n])
  IN upTo[Len(data)]
buildChapters(evs) ==
  LET upTo[k \in 0..Len(evs)] ==
        IF k = 0 THEN [line |-> <<>>, found |-> <<>>] ELSE chapterEvent(upTo[k - 1], k, evs[k])
  IN upTo[Len(evs)].found

----------------------------------------------------------------------------
(* inputParser.                                                             *)

Arrows == {"A", "B"}
Ev(kind, b) == [kind |-> kind, b |-> b]
Kinds == {"byte", "arrow", "scroll", "mouse"}

\* dispatchCSI, for the parameters that the code tells apart: none, a shifted
\* arrow, page up, the wheel, a left click, a drag, and anything else.
dispatchCSI(buf, final) ==
  CASE final \in Arrows /\ buf = <<"1;2">> -> <<Ev("scroll", final)>>
    [] final \in Arrows /\ buf # <<"1;2">> -> <<Ev("arrow", final)>>
    [] final = "~" -> IF buf = <<"5">> THEN <<Ev("scroll", "A")>> ELSE <<>>
    [] final \in {"M", "m"} /\ buf # <<>> ->
         CASE buf = <<"<64">> -> <<Ev("scroll", "A")>>
           [] buf = <<"<0">> -> <<Ev("mouse", IF final = "M" THEN "press" ELSE "other")>>
           [] buf = <<"<32">> -> <<Ev("mouse", "other")>>
           [] OTHER -> <<>>
    [] OTHER -> <<>>

\* Bytes 0x40..0x7e.
FinalBytes == Arrows \cup {"~", "M", "m", "c", "R", "[", "]", "\\", "O", "P", "q", "x"}
To(p, st) == [p EXCEPT !.state = st]

\* Mutant: the buffer of the last sequence is not emptied for the next.
OpensCSI_keepsBuffer(p) == To(p, "CSI")
OpensCSI(p) == [state |-> "CSI", buf |-> <<>>]

\* inputParser.feed: the state after byte b and the events it emits.
FeedKey(p, b) ==
  LET esc == CASE b = "[" -> OpensCSI(p)
               [] b = "O" -> To(p, "SS3")
               [] b = "]" -> To(p, "OSC")
               [] OTHER -> To(p, "ground") IN
  CASE p.state = "ground" -> IF b = "ESC" THEN <<To(p, "esc"), <<>>>> ELSE <<p, <<Ev("byte", b)>>>>
    [] p.state = "esc" -> <<esc, <<>>>>
    [] p.state = "CSI" -> IF b \in FinalBytes THEN <<To(p, "ground"), dispatchCSI(p.buf, b)>>
                          ELSE <<[p EXCEPT !.buf = Append(@, b)], <<>>>>
    [] p.state = "SS3" -> <<To(p, "ground"), IF b \in Arrows THEN <<Ev("arrow", b)>> ELSE <<>>>>
    [] p.state = "OSC" -> <<CASE b = "BEL" -> To(p, "ground") [] b = "ESC" -> To(p, "OSCesc")
                              [] OTHER -> p, <<>>>>
    [] p.state = "OSCesc" -> <<IF b = "\\" THEN To(p, "ground") ELSE esc, <<>>>>

\* The sequences the parser knows, and what they mean: a plain key, a key with
\* Alt, a function key, a CSI sequence, an OSC reply.
Alone(k, means) ==
  \/ Len(k) = 1 /\ k[1] # "ESC" /\ means = <<Ev("byte", k[1])>>
  \/ /\ Len(k) > 1 /\ k[1] = "ESC"
     /\ \/ Len(k) = 2 /\ k[2] \notin {"[", "O", "]"} /\ means = <<>>
        \/ Len(k) = 3 /\ k[2] = "O" /\ means = IF k[3] \in Arrows THEN <<Ev("arrow", k[3])>> ELSE <<>>
        \/ /\ Len(k) > 2 /\ k[2] = "[" /\ means = dispatchCSI(SubSeq(k, 3, Len(k) - 1), k[Len(k)])
           /\ \A i \in 3..Len(k) : k[i] \in FinalBytes <=> i = Len(k)
        \/ /\ k[2] = "]" /\ means = <<>>
           /\ \E end \in 3..Len(k) :
                /\ \A i \in 3..(end - 1) : k[i] \notin {"BEL", "ESC"}
                /\ \/ end = Len(k) /\ k[end] = "BEL"
                   \/ end = Len(k) - 1 /\ k[end] = "ESC" /\ k[Len(k)] = "\\"

\* What is sent in one go: such a sequence; the Esc key; or one that goes on where
\* the parser takes it to be over: a reply in a string (DCS), a click in the form
\* of X10, a function key of the Linux console.  None of these is for the player.
Esc == <<"ESC">>
STLen(k) == IF Len(k) > 3 /\ k[Len(k) - 1] = "ESC" THEN 2 ELSE 0     \* of ESC \ at its end
InOneGo(k, means, head) ==
  /\ \/ k = Esc /\ head = 1 /\ means = <<>>
     \/ head = Len(k) /\ Alone(k, means)
     \/ head \in 2..(Len(k) - 1) /\ head <= Len(k) - STLen(k) /\ means = <<>> /\ Alone(Take(k, head), <<>>)
  /\ \A i \in 2..(Len(k) - STLen(k)) : k[i] # "ESC"
  /\ STLen(k) = 2 => k[Len(k)] = "\\"
ASSUME KeysAssumption ==
  \A k \in DOMAIN Keys :
    /\ k \in Seq(STRING) /\ Keys[k] \in [means : Seq([kind : Kinds, b : STRING]), head : Nat]
    /\ InOneGo(k, Keys[k].means, Keys[k].head)

----------------------------------------------------------------------------

TerminalInit ==
  /\ side \in {"output", "input"}
  /\ program \in Programs
  /\ raw = <<>> /\ writer = <<>> /\ events = <<>>
  /\ scroll = EmptyScroll /\ ring = EmptyRing
  /\ sent = <<>> /\ coming = <<>>
  /\ parser = [state |-> "ground", buf |-> <<>>]
  /\ got = <<>>

\* One event more: every tool that follows the recording is fed its data.
Emit(data) ==
  IF data = <<>> THEN UNCHANGED <<events, scroll, ring>>
  ELSE /\ events' = Append(events, data)
       /\ scroll' = feed(scroll, data)
       /\ ring' = add(ring, data)

\* WriteOutput: a read of the pseudo-terminal, of any size.
WriteOutput ==
  /\ side = "output"
  /\ \E size \in 1..(program.max - Len(raw)) : \E data \in [1..size -> program.bytes] :
       LET all == writer \o data
           n == completeUTF8Len(all) IN
       /\ raw' = raw \o data
       /\ writer' = Drop(all, n)
       /\ Emit(Take(all, n))
  /\ UNCHANGED <<side, program, sent, coming, parser, got>>

\* Close: what is still held back is written as it is.
Close ==
  /\ side = "output"
  /\ side' = "closed"
  /\ Emit(writer)
  /\ writer' = <<>>
  /\ UNCHANGED <<program, raw, sent, coming, parser, got>>

\* The keyboard or the terminal sends the next item.
Send ==
  /\ side = "input" /\ coming = <<>> /\ Len(sent) < MaxItems
  /\ \E i \in DOMAIN Keys : sent' = Append(sent, i) /\ coming' = i
  /\ UNCHANGED <<side, program, raw, writer, events, scroll, ring, parser, got>>

\* readInput hands the parser one byte.
ReadByte ==
  /\ coming # <<>>
  /\ LET r == FeedKey(parser, coming[1]) IN parser' = r[1] /\ got' = got \o r[2]
  /\ coming' = Tail(coming)
  /\ UNCHANGED <<side, program, raw, writer, events, scroll, ring, sent>>

TerminalNext == WriteOutput \/ Close \/ Send \/ ReadByte
TerminalSpec == TerminalInit /\ [][TerminalNext]_terminalVars

----------------------------------------------------------------------------
(* Properties.                                                              *)

\* The recording holds every byte in order, and no character that was written
\* whole is split between two of its events, however the reads cut it
\* (cast.Writer: encoding/json would replace both halves).
EndOf(k) == Len(FlattenSeq(Take(events, k)))     \* where event k ends in raw
Characters == {c \in (DOMAIN raw) \X (DOMAIN raw) :
                 /\ c[1] <= c[2] /\ c[2] = c[1] + runeLen(raw[c[1]]) - 1
                 /\ \A i \in (c[1] + 1)..c[2] : raw[i] = "C"}
RecordingKeepsCharacters ==
  /\ FlattenSeq(events) \o writer = raw
  /\ \A c \in Characters, k \in DOMAIN events : ~(c[1] <= EndOf(k) /\ EndOf(k) < c[2])
  /\ side = "closed" => writer = <<>>

\* The last TailLines lines of d, a last one without a newline counting.
LastLines(d) ==
  LET starts == ({0} \cup {i \in DOMAIN d : d[i] = "LF"}) \ {Len(d)} IN
  IF Cardinality(starts) <= TailLines THEN d
  ELSE Drop(d, CHOOSE i \in starts : Cardinality({j \in starts : j >= i}) = TailLines)

Labels(evs) == [i \in DOMAIN buildChapters(evs) |-> buildChapters(evs)[i].label]
CutsLineEnd == \E k \in DOMAIN events :
                 /\ k < Len(events) /\ Last(events[k]) = "CR" /\ events[k + 1][1] = "LF"

\* Where the events cut the stream shows nowhere: tail prints the last lines of
\* the whole output, the player's command list and its scrollback are those of
\* the output in one piece, unless a line end was cut between CR and LF.
ViewsSeeOneStream ==
  LET all == FlattenSeq(events) IN
  /\ RingString(ring) = LastLines(all)
  /\ Labels(events) = Labels(<<all>>)
  /\ scroll = feed(EmptyScroll, all) \/ CutsLineEnd

\* What the parser reads of an item: its meaning, or, behind the place where it
\* takes it to be over, one plain key for each byte.
Typing(bytes) == [i \in DOMAIN bytes |-> Ev("byte", bytes[i])]
Parsed(k) ==
  IF Keys[k].head = Len(k) THEN Keys[k].means
  ELSE Typing(SubSeq(k, Keys[k].head + 1, Len(k) - STLen(k)))
\* And of one behind a lone Esc, which takes its first byte with it.
AfterEsc(k) == Typing(SubSeq(k, 2, Len(k) - STLen(k)))

\* After n items an Esc is open: their last Escs, up to another item, are odd in
\* number.
EscOpen(items, n) ==
  \E m \in 0..n :
    /\ m = 0 \/ items[m] # Esc
    /\ \A i \in (m + 1)..n : items[i] = Esc
    /\ (n - m) % 2 = 1
Account(items) ==
  [i \in DOMAIN items |-> IF EscOpen(items, i - 1) THEN AfterEsc(items[i]) ELSE Parsed(items[i])]

\* With no Esc open in front of a key that makes a sequence of it (on a terminal
\* the two are one), each item is read by itself, wherever the input is cut and
\* whatever came before: arrows, wheel, clicks, plain keys, and the replies to
\* queries in the recording that are swallowed.  What is read wrongly (see
\* RepliesSwallowed) costs its own bytes, and an Esc the next item's first one, and
\* nothing after it (inputParser).
Merged(items) ==
  \E i \in DOMAIN items : EscOpen(items, i - 1) /\ items[i][1] \in {"[", "O", "]"}
KeysRead ==
  coming = <<>> /\ side = "input" /\ ~Merged(sent) =>
    /\ parser.state = IF EscOpen(sent, Len(sent)) THEN "esc" ELSE "ground"
    /\ got = FlattenSeq(Account(sent))

\* Refuted: "recognises the keys the player needs and swallows every other escape
\* sequence - notably the terminal's own replies" (input.go:47-50).  The player
\* acts on the bytes of a DCS reply, and misses the key behind an Esc.
RepliesSwallowed ==
  coming = <<>> /\ side = "input" => got = FlattenSeq([i \in DOMAIN sent |-> Keys[sent[i]].means])

\* Refuted: a line end cut between CR and LF erases its line from the scrollback
\* (lineBuf.feed takes the CR for one that overwrites the line).
ScrollbackSeesOneStream == scroll = feed(EmptyScroll, FlattenSeq(events))
=============================================================================
