------------------------------- MODULE Player -------------------------------
(***************************************************************************)
(* The interactive player (play.playInteractive): one loop that emits the  *)
(* recording's events as their time comes and takes keys, mouse, resizes   *)
(* and SIGTERM in between; a goroutine that reads the keyboard into a      *)
(* bounded channel; and the way out, which must leave the terminal to the  *)
(* shell.  loop is the loop's local state, and each of its closures is an  *)
(* operator from one such state to the next.                               *)
(*                                                                         *)
(* Data: times are whole units, an output event is one line of scrollback, *)
(* the text of the goto prompt is the time it is read as.  The bar's       *)
(* colours and its healing after a cursor save are left out.               *)
(***************************************************************************)
EXTENDS Integers, Sequences, FiniteSets, FiniteSetsExt, Folds, Functions

CONSTANTS
  Recordings,  \* the casts played: sequences of [t, type, cmd]
  MaxIdle,     \* --idle
  MaxWait,     \* maxWaitSeconds
  SeekStep, ScrollStep, MaxSpeed,
  Height,      \* rows of the terminal
  Events,      \* what the input parser may emit
  Cap,         \* capacity of the event channel (256)
  MaxEvents    \* bound: events and resizes in all

ASSUME PlayerAssumption ==
  /\ {MaxIdle, MaxWait, SeekStep, ScrollStep, MaxSpeed, MaxEvents} \subseteq Nat
  /\ MaxWait > 0 /\ MaxSpeed > 0 /\ Height \in Nat \ {0} /\ Cap \in Nat \ {0}
  /\ Recordings \subseteq Seq([t : Int, type : STRING, cmd : BOOLEAN])
  /\ Events \subseteq [kind : STRING, b : STRING, at : Int]

VARIABLES
  played,   \* the recording as played
  loop,     \* the loop's state
  pc,       \* "running", "stopping" (the deferred calls) or "returned"
  input,    \* the input goroutine: "polling", "blocked" on the channel, "exited"
  queued,   \* events in the channel
  budget    \* events and resizes still to come

playerVars == <<played, loop, pc, input, queued, budget>>

----------------------------------------------------------------------------
(* The timeline.                                                            *)

NaN == -100
PosInf == 100    \* and every negative time stands for itself or -Inf

\* sanitizeEvents: finite, non-negative, non-decreasing times.
sane(last, t) ==
  LET u == IF t = NaN THEN last ELSE IF t = PosInf THEN last + MaxWait ELSE IF t < 0 THEN 0 ELSE t
  IN IF u < last THEN last ELSE u
sanitizeEvents(raw) ==
  LET clean[i \in 0..Len(raw)] == IF i = 0 THEN 0 ELSE sane(clean[i - 1], raw[i].t) IN
  [i \in DOMAIN raw |-> [raw[i] EXCEPT !.t = clean[i]]]

\* clampIdleGaps: gaps above MaxIdle are cut to it, later events moved up.
gap(evs, i) == evs[i].t - IF i = 1 THEN 0 ELSE evs[i - 1].t
excess(evs, i) == IF gap(evs, i) > MaxIdle THEN gap(evs, i) - MaxIdle ELSE 0
clampIdleGaps(evs) ==
  LET cut[i \in 0..Len(evs)] == IF i = 0 THEN 0 ELSE cut[i - 1] + excess(evs, i) IN
  IF MaxIdle = 0 THEN evs ELSE [i \in DOMAIN evs |-> [evs[i] EXCEPT !.t = @ - cut[i]]]

Outputs == {i \in DOMAIN played : played[i].type = "o"}
lastOut == Max(Outputs \cup {0})
lastT == IF Outputs = {} THEN 0 ELSE played[lastOut].t
\* buildChapters: the times of the commands in the recording.
Chapters == {i \in Outputs : played[i].cmd}
chapterTime(k) == played[CHOOSE i \in Chapters : Cardinality({j \in Chapters : j <= i}) = k].t

clampSeek(target) == Max({0, Min({target, lastT})})
\* clampWait, in recorded time: an hour of waiting at most.
clampWait(seconds, speed) == Max({0, Min({seconds, MaxWait * speed})})

----------------------------------------------------------------------------
(* The closures of the loop.                                                *)

frozen(q) == q.paused \/ q.inGoto \/ q.list > 0 \/ q.scroll
displayTime(q) == IF frozen(q) THEN q.vt ELSE Min({q.vt + q.ahead, lastT})
syncClock(q) == [q EXCEPT !.vt = displayTime(q), !.ahead = 0]

\* The members of S from i up to j, in order.
InOrder(S, i, j) ==
  LET out[k \in i..j] == IF k = i THEN <<>>
                         ELSE IF k - 1 \in S THEN Append(out[k - 1], k - 1) ELSE out[k - 1]
  IN out[j]
\* The outputs from event i up to event j.
Between(i, j) == InOrder(Outputs, i, j)
\* emitForward: the events from idx up to the first one after target.
emitForward(q, target) ==
  LET stop == Min({i \in q.idx..Len(played) : played[i].t > target} \cup {Len(played) + 1})
  IN [q EXCEPT !.idx = stop, !.shown = @ \o Between(q.idx, stop)]
renderTo(q, target) == emitForward([q EXCEPT !.idx = 1, !.shown = <<>>], target)

\* Mutant: a seek backwards does not redraw.
seek_forwardOnly(q, target) ==
  [emitForward(q, clampSeek(target)) EXCEPT !.vt = clampSeek(target), !.ahead = 0]
seek(q, target) ==
  LET t == clampSeek(target) IN
  [(IF t < q.vt THEN renderTo(q, t) ELSE emitForward(q, t)) EXCEPT !.vt = t, !.ahead = 0]

enterScroll(q) == [syncClock(q) EXCEPT !.paused = TRUE, !.scroll = TRUE, !.offset = 0]
exitScroll(q) == renderTo([q EXCEPT !.scroll = FALSE, !.region = "bar"], q.vt)
contentH == Max({Height - 1, 1})
scrollUp(q) ==
  IF ~q.scroll THEN enterScroll(q)
  ELSE [q EXCEPT !.offset = Min({@ + ScrollStep, Max({Len(q.shown) - contentH, 0})})]
scrollDown(q) ==
  LET down == [q EXCEPT !.offset = Max({@ - ScrollStep, 0})] IN
  IF ~q.scroll THEN q ELSE IF down.offset = 0 THEN exitScroll(down) ELSE down

Region(q) == IF q.barHidden THEN "full" ELSE "bar"
resize(q) == IF q.scroll THEN q ELSE renderTo([q EXCEPT !.region = Region(q)], displayTime(q))
toggleBar(q) ==
  LET s == [syncClock(q) EXCEPT !.barHidden = ~@] IN renderTo([s EXCEPT !.region = Region(s)], s.vt)

\* chapterAt: the latest command at or before t, the first one if there is none.
chapterAt(t) == Max({1, Cardinality({i \in Chapters : played[i].t <= t})})
openGotoList(q) ==
  LET s == syncClock(q) IN
  IF Chapters = {} THEN [s EXCEPT !.inGoto = TRUE] ELSE [s EXCEPT !.list = chapterAt(s.vt)]
exitList(q, target, jump) ==
  LET s == [q EXCEPT !.list = 0, !.ahead = 0, !.vt = IF jump THEN clampSeek(target) ELSE @]
  IN renderTo(s, s.vt)

\* chapterWindow: how many rows of the list are shown, and from which one.
rows == Max({Height - 2, 1})
top(sel) == Max({sel - rows, 0})

----------------------------------------------------------------------------
(* Input.                                                                   *)

Input(kind, b, at) == [kind |-> kind, b |-> b, at |-> at]

dispatchList(q, ev) ==
  LET move(d) == [q EXCEPT !.list = Max({1, Min({@ + d, Cardinality(Chapters)})})]
      clicked == top(q.list) + ev.at - 1 IN
  CASE ev.kind = "mouse" -> IF ev.at >= 2 /\ clicked <= Cardinality(Chapters)
                            THEN exitList([q EXCEPT !.list = clicked], chapterTime(clicked), TRUE) ELSE q
    [] ev.b \in {"A", "k"} -> move(-1)
    [] ev.b \in {"B", "j"} -> move(1)
    [] ev.b = "enter" -> exitList(q, chapterTime(q.list), TRUE)
    [] ev.b = "t" -> renderTo([q EXCEPT !.list = 0, !.inGoto = TRUE], q.vt)
    [] ev.b = "q" -> exitList(q, 0, FALSE)
    [] OTHER -> q

\* handleByte in the goto prompt: enter seeks, unless what was typed is no
\* time (-1); a digit stays in the prompt; any other key cancels it.
gotoByte(q, ev) ==
  LET left(s) == [s EXCEPT !.inGoto = FALSE, !.ahead = 0] IN
  CASE ev.b = "enter" -> left(IF ev.at >= 0 THEN seek(q, ev.at) ELSE q)
    [] ev.b = "0" -> q
    [] OTHER -> left(q)

setSpeed(q, s) == [syncClock(q) EXCEPT !.speed = s]
handleByte(q, b) ==
  CASE b = " " -> IF q.paused THEN [q EXCEPT !.paused = FALSE, !.ahead = 0]
                  ELSE [syncClock(q) EXCEPT !.paused = TRUE]
    [] b \in {"h", "D"} -> seek(syncClock(q), displayTime(q) - SeekStep)
    [] b \in {"l", "C"} -> seek(syncClock(q), displayTime(q) + SeekStep)
    [] b \in {"+", "A"} -> setSpeed(q, Min({2 * q.speed, MaxSpeed}))
    [] b \in {"-", "B"} -> setSpeed(q, Max({q.speed \div 2, 1}))
    [] b = "0" -> seek(q, 0)
    [] b = "g" -> openGotoList(q)
    [] b = "b" -> toggleBar(q)
    [] OTHER -> q

dispatch(q, ev) ==
  CASE q.list > 0 -> IF ev.kind = "scroll" THEN q ELSE dispatchList(q, ev)
    [] q.list = 0 /\ ev.kind = "scroll" -> IF ev.b = "A" THEN scrollUp(q) ELSE scrollDown(q)
    [] q.list = 0 /\ ev.kind # "scroll" /\ q.scroll -> exitScroll(q)
    [] q.list = 0 /\ ev.kind = "mouse" /\ ~q.scroll ->
         IF q.inGoto \/ q.barHidden THEN q ELSE seek(syncClock(q), ev.at)
    [] OTHER -> IF q.inGoto THEN IF ev.kind = "arrow" THEN q ELSE gotoByte(q, ev)
                ELSE handleByte(q, ev.b)
\* The one event that ends the loop.
quits(q, ev) == ev = Input("byte", "q", 0) /\ q.list = 0 /\ ~q.scroll /\ ~q.inGoto

\* The top of the loop: at the end of the output, hold on the last frame.
\* Mutant: the hold waits for the last record of any kind.
Settle_lastRecord(q) == IF ~frozen(q) /\ q.idx > Len(played) THEN [q EXCEPT !.paused = TRUE, !.vt = lastT] ELSE q
Settle(q) == IF ~frozen(q) /\ q.idx > lastOut THEN [q EXCEPT !.paused = TRUE, !.vt = lastT] ELSE q

----------------------------------------------------------------------------

PlayerInit ==
  /\ played \in {clampIdleGaps(sanitizeEvents(r)) : r \in Recordings}
  /\ loop = Settle([idx |-> 1, vt |-> 0, ahead |-> 0, speed |-> 1, paused |-> FALSE, inGoto |-> FALSE,
                 list |-> 0, scroll |-> FALSE, offset |-> 0, barHidden |-> FALSE, region |-> "bar",
                 shown |-> <<>>])
  /\ pc = "running" /\ input = "polling" /\ queued = 0
  /\ budget = MaxEvents

\* Time passes while the loop waits; what the clock shows is capped at lastT.
Tick ==
  /\ pc = "running" /\ loop.vt + loop.ahead < lastT
  /\ loop' = [loop EXCEPT !.ahead = @ + loop.speed]
  /\ UNCHANGED <<played, pc, input, queued, budget>>

\* The timer of the next event.
Fire ==
  /\ pc = "running" /\ ~frozen(loop)
  /\ loop.ahead >= clampWait(played[loop.idx].t - loop.vt, loop.speed)
  /\ loop' = Settle([loop EXCEPT !.vt = played[loop.idx].t, !.ahead = 0, !.idx = @ + 1,
                           !.shown = @ \o Between(loop.idx, loop.idx + 1)])
  /\ UNCHANGED <<played, pc, input, queued, budget>>

\* An event from the channel.
Dispatch(ev) ==
  /\ pc = "running" /\ queued > 0
  /\ queued' = queued - 1
  /\ IF quits(loop, ev) THEN pc' = "stopping" /\ UNCHANGED loop
     ELSE loop' = Settle(dispatch(loop, ev)) /\ UNCHANGED pc
  /\ UNCHANGED <<played, input, budget>>

\* SIGWINCH.
Resize ==
  /\ pc = "running" /\ budget > 0
  /\ loop' = Settle(resize(loop))
  /\ budget' = budget - 1
  /\ UNCHANGED <<played, pc, input, queued>>

\* SIGTERM, or the channel closed and drained.
Stop ==
  /\ pc = "running" /\ pc' = "stopping"
  /\ UNCHANGED <<played, loop, input, queued, budget>>
Closed == input = "exited" /\ queued = 0 /\ Stop

\* readInput decodes one more event, and blocks when the channel is full.
Typed ==
  /\ input = "polling" /\ pc # "returned" /\ budget > 0
  /\ budget' = budget - 1
  /\ IF queued < Cap THEN queued' = queued + 1 /\ UNCHANGED input
     ELSE input' = "blocked" /\ UNCHANGED queued
  /\ UNCHANGED <<played, loop, pc>>
Unblock ==
  /\ input = "blocked" /\ queued < Cap
  /\ input' = "polling" /\ queued' = queued + 1
  /\ UNCHANGED <<played, loop, pc, budget>>
\* It stops at the end of its input, or when the deferred close(inputDone) is seen.
InputStops ==
  /\ input = "polling" /\ input' = "exited"
  /\ UNCHANGED <<played, loop, pc, queued, budget>>

\* The deferred wait for it, 250 ms at most: a poll takes 100, so the bound
\* runs out only on a goroutine that is blocked on a full channel.
Return_unbounded ==   \* Mutant: the wait has no bound.
  /\ pc = "stopping" /\ input = "exited" /\ pc' = "returned"
  /\ UNCHANGED <<played, loop, input, queued, budget>>
Return ==
  /\ pc = "stopping" /\ (input = "exited" \/ (input = "blocked" /\ queued = Cap))
  /\ pc' = "returned"
  /\ UNCHANGED <<played, loop, input, queued, budget>>

PlayerNext ==
  \/ Tick \/ Fire \/ Resize \/ Stop \/ Closed \/ Typed \/ Unblock \/ InputStops \/ Return
  \/ \E ev \in Events : Dispatch(ev)
PlayerSpec == PlayerInit /\ [][PlayerNext]_playerVars
\* The clock and the loop's timers run, the goroutine polls every 100 ms, and a
\* channel that has an event delivers it.
FairPlayerSpec ==
  /\ PlayerSpec /\ WF_playerVars(Tick) /\ WF_playerVars(Fire) /\ WF_playerVars(Return)
  /\ WF_playerVars(pc = "stopping" /\ InputStops) /\ WF_playerVars(Closed) /\ WF_playerVars(Unblock)
  /\ WF_playerVars(\E ev \in Events : Dispatch(ev))

----------------------------------------------------------------------------
(* Properties.                                                              *)

Upto(t) == InOrder({i \in Outputs : played[i].t <= t}, 1, Len(played) + 1)
OnScreen(q) == q.list = 0 /\ ~q.scroll     \* the recording, and no overlay

\* Nothing is shown before its time.  Refuted as an invariant: a resize while an
\* event is due shows it and leaves the clock behind; `0`, the one key that does
\* not bring the clock up first, then leaves the event on screen at 0.
NothingEarly == OnScreen(loop) => Len(loop.shown) <= Len(Upto(displayTime(loop)))

\* Wherever a key or a click moves the clock, back or forth, what is on screen
\* is the output up to the new time: none missing, none left over (seek,
\* exitList, toggleBar, exitScroll).
JumpIsExact ==
  [][NothingEarly /\ (\E ev \in Events : Dispatch(ev)) /\ (loop'.vt < loop.vt \/ loop'.vt > displayTime(loop))
       => OnScreen(loop') /\ loop'.shown = Upto(loop'.vt)]_playerVars

\* Nothing is on screen that the loop has not passed, and nothing it has passed
\* is missing, whatever redraws, overlays and resizes lie between; the loop
\* never waits for an event that is not there.
ScreenFollowsLoop ==
  /\ loop.shown = Between(1, loop.idx)
  /\ frozen(loop) \/ loop.idx <= lastOut

\* Left alone, playback comes to rest: the loop ends or holds on a frame, and a
\* loop that was told to stop returns.
PlaybackRests == <>[](pc = "returned" \/ (pc = "running" /\ frozen(loop)))

\* From any mode, overlay or prompt, three times q leaves the player.
Q == Input("byte", "q", 0)
ThreeTimesQuits ==
  LET after(q) == Settle(dispatch(q, Q)) IN
  quits(loop, Q) \/ quits(after(loop), Q) \/ quits(after(after(loop)), Q)

\* "Hiding releases the reserved row so the recording renders full-height"
\* (play.go:604): refuted, leaving the scrollback reserves it again.
HiddenBarLeavesTheRow == OnScreen(loop) /\ loop.barHidden => loop.region = "full"

\* "The goroutine can't steal a byte after we've quit" (play.go:350): refuted,
\* the wait is bounded and a goroutine blocked on a full channel outlives it.
StdinReleased == pc = "returned" => input = "exited"

\* "Both agree on which chapter a given screen row maps to" (chapters.go:95):
\* refuted for the footer row, a click on which jumps to a command not shown.
RowsAgree == \A sel \in 1..Cardinality(Chapters), my \in 2..Height : my - 1 <= rows
=============================================================================
