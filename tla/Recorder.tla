------------------------------ MODULE Recorder ------------------------------
(***************************************************************************)
(* `ghostshell rec` (internal/record/record.go: openSink, recHandshake,    *)
(* Run, pumpOutput) and the two scripts that start it at login             *)
(* (scripts/profile.d/ghostshell-autorec.sh, scripts/ghostshell-ssh-wrap). *)
(*                                                                         *)
(* Goroutines: Run's own (rec), pumpOutput (pump), the one that copies     *)
(* stdin and the one that forwards SIGHUP, which both end in a signal to   *)
(* the child's process group (sig[g]).  The daemon, the child and whoever  *)
(* else holds the terminal's slave end are the environment: the daemon may *)
(* answer late, stop answering ("wedged") or die at any moment.            *)
(*                                                                         *)
(* Output is counted in chunks, one per read of the PTY; a chunk is        *)
(* buffered (buf), sent (sock, the socket's buffer) and stored.            *)
(***************************************************************************)
EXTENDS Naturals

CONSTANTS
  MaxOutput,   \* bound: chunks of output the child's terminal sees
  SockCap      \* chunks that fit between the recorder and the daemon

ASSUME MaxOutputAssumption == MaxOutput \in Nat
ASSUME SockCapAssumption == SockCap \in Nat \ {0}

VARIABLES
  entry,      \* who started the recorder: "profile", "sshd" or a user with -o
  login,      \* what the script did when the recorder returned
  rec,        \* control state of Run
  sink,       \* where the recording goes
  code,       \* exit status of the recorder
  daemon,     \* "up", "wedged" or "dead"
  session,    \* the daemon's side of the conn: "none", "open", "closed"
  ack,        \* the answer to REC on its way to the recorder
  connOpen,   \* the recorder has not closed its end of the conn
  child,      \* "none", "running", "exited" (a zombie), "reaped"
  childExited,\* the flag Run sets after cmd.Wait
  slaveHeld,  \* somebody besides the child holds the terminal's slave end
  ptmxOpen,   \* the PTY master is open
  heldUp,     \* history: what has kept pumpOutput from the end of the PTY
  produced,   \* chunks written to the terminal since the start
  pty,        \* of those, the ones not read from the PTY yet
  pump,       \* control state of pumpOutput
  buf,        \* chunks in the cast.Writer's buffer
  sock,       \* chunks the daemon has not read from the socket
  stored,     \* chunks in the central store
  local,      \* chunks in the user-local file
  full,       \* a write to it has failed: the buffer keeps the error for good
  screen,     \* the user's own terminal "flows" or is "stalled"
  sig         \* control state of the two signalling goroutines

daemonVars == <<daemon, session, ack, sock, stored>>
childVars == <<child, slaveHeld, produced>>
pumpVars == <<pump, buf, local, full>>
ptyVars == <<ptmxOpen, heldUp>>
loginVars == <<entry, login>>
runVars == <<rec, sink, code, connOpen, childExited>>
vars == <<loginVars, runVars, daemonVars, childVars, pumpVars, ptyVars, pty, sig, screen>>

RunStates == {"dial", "handshake", "local", "header", "start", "wait", "flag",
              "drain", "join", "close", "exit"}

Init ==
  /\ entry \in {"profile", "sshd", "explicit"}
  /\ login = "recording"
  /\ rec = IF entry = "explicit" THEN "local" ELSE "dial"
  /\ sink = "none"
  /\ code = 0
  /\ daemon \in {"up", "wedged", "dead"}
  /\ session = "none" /\ ack = "none"
  /\ connOpen = FALSE
  /\ child = "none" /\ childExited = FALSE
  /\ slaveHeld = FALSE
  /\ ptmxOpen = FALSE /\ heldUp = "nothing"
  /\ produced = 0 /\ pty = 0
  /\ pump = "off" /\ buf = 0
  /\ sock = 0 /\ stored = 0 /\ local = 0
  /\ full = FALSE /\ screen = "flows"
  /\ sig = [g \in {"stdin", "hup"} |-> "off"]

Goto(next) == rec' = next
-----------------------------------------------------------------------------
(* openSink and recHandshake.                                               *)

\* A daemon that is wedged still has a listening socket.  The dial may also
\* time out.
Dial ==
  /\ rec = "dial"
  /\ \/ daemon # "dead" /\ connOpen' = TRUE /\ Goto("handshake")
     \/ Goto("local") /\ UNCHANGED connOpen
  /\ UNCHANGED <<loginVars, sink, code, childExited, daemonVars, childVars, pumpVars, ptyVars, pty, sig, screen>>

HandshakeOK ==
  /\ rec = "handshake" /\ ack = "OK"
  /\ sink' = "central"
  /\ Goto("header")
  /\ UNCHANGED <<loginVars, code, connOpen, childExited, daemonVars, childVars, pumpVars, ptyVars, pty, sig, screen>>

\* An ERR, the end of the conn, or a deadline that passes while the answer may
\* be on its way: the conn is closed and the recording stays with the user.
HandshakeFails_noDeadline ==
  /\ rec = "handshake"
  /\ ack = "ERR" \/ daemon = "dead"
  /\ connOpen' = FALSE
  /\ Goto("local")
  /\ UNCHANGED <<loginVars, sink, code, childExited, daemonVars, childVars, pumpVars, ptyVars, pty, sig, screen>>
HandshakeFails ==
  /\ rec = "handshake"
  /\ connOpen' = FALSE
  /\ Goto("local")
  /\ UNCHANGED <<loginVars, sink, code, childExited, daemonVars, childVars, pumpVars, ptyVars, pty, sig, screen>>

OpenLocal ==
  /\ rec = "local"
  /\ sink' = "local"
  /\ Goto("header")
  /\ UNCHANGED <<loginVars, code, connOpen, childExited, daemonVars, childVars, pumpVars, ptyVars, pty, sig, screen>>

\* Run returns an error and there is no child: no local file, no header (the
\* disk is full, the daemon died after its OK) or no PTY.
GiveUp ==
  /\ \/ rec = "local"
     \/ rec = "header" /\ (sink = "central" => daemon = "dead")
     \/ rec = "start"
  /\ code' = 1
  /\ connOpen' = FALSE
  /\ Goto("exit")
  /\ UNCHANGED <<loginVars, sink, childExited, daemonVars, childVars, pumpVars, ptyVars, pty, sig, screen>>

\* The header fits in the socket's buffer whatever the daemon does.
WriteHeader ==
  /\ rec = "header" /\ ~(sink = "central" /\ daemon = "dead")
  /\ Goto("start")
  /\ UNCHANGED <<loginVars, sink, code, connOpen, childExited, daemonVars, childVars, pumpVars, ptyVars, pty, sig, screen>>

\* pty.Start, and the goroutines.
StartChild ==
  /\ rec = "start"
  /\ child' = "running"
  /\ ptmxOpen' = TRUE
  /\ pump' = "read"
  /\ sig' = [g \in {"stdin", "hup"} |-> "idle"]
  /\ Goto("wait")
  /\ UNCHANGED <<loginVars, sink, code, connOpen, childExited, daemonVars, slaveHeld, produced, buf, local, full, heldUp, pty, screen>>

-----------------------------------------------------------------------------
(* Run after the child has started.                                         *)

\* cmd.Wait reaps the child; only the next statement sets childExited.
Reap ==
  /\ rec = "wait" /\ child = "exited"
  /\ child' = "reaped"
  /\ Goto("flag")
  /\ UNCHANGED <<loginVars, sink, code, connOpen, childExited, daemonVars, slaveHeld, produced, pumpVars, ptyVars, pty, sig, screen>>

\* The drain begins, with whatever is there to hold the pump up; what comes
\* later counts if there was nothing.
Obstacle ==
  CASE slaveHeld -> "writer"
    [] ~slaveHeld /\ sink = "central" /\ daemon = "wedged" -> "daemon"
    [] ~slaveHeld /\ ~(sink = "central" /\ daemon = "wedged") /\ screen = "stalled" -> "screen"
    [] OTHER -> "nothing"
HeldUpBy(c) == IF heldUp = "nothing" THEN c ELSE heldUp
SetExited ==
  /\ rec = "flag"
  /\ childExited' = TRUE
  /\ heldUp' = HeldUpBy(Obstacle)
  /\ Goto("drain")
  /\ UNCHANGED <<loginVars, sink, code, connOpen, daemonVars, childVars, pumpVars, ptmxOpen, pty, sig, screen>>

\* The PTY master is closed only once the reader has seen its end ...
Drained_atOnce ==
  /\ rec = "drain"
  /\ ptmxOpen' = FALSE
  /\ Goto("join")
  /\ UNCHANGED <<loginVars, sink, code, connOpen, childExited, daemonVars, childVars, pumpVars, heldUp, pty, sig, screen>>
Drained ==
  /\ rec = "drain" /\ pump = "done"
  /\ ptmxOpen' = FALSE
  /\ Goto("close")
  /\ UNCHANGED <<loginVars, sink, code, connOpen, childExited, daemonVars, childVars, pumpVars, heldUp, pty, sig, screen>>

\* ... or after drainGrace, with what is left in it.  Two seconds are enough
\* for a reader that nothing has held up.
DrainGrace_never == FALSE /\ UNCHANGED vars
DrainGrace ==
  /\ rec = "drain" /\ pump # "done" /\ heldUp # "nothing"
  /\ ptmxOpen' = FALSE
  /\ Goto("join")
  /\ UNCHANGED <<loginVars, sink, code, connOpen, childExited, daemonVars, childVars, pumpVars, heldUp, pty, sig, screen>>

JoinPump ==
  /\ rec = "join" /\ pump = "done"
  /\ Goto("close")
  /\ UNCHANGED <<loginVars, sink, code, connOpen, childExited, daemonVars, childVars, pumpVars, ptyVars, pty, sig, screen>>

\* cw.Close, sink.Close, and the child's status for an exit status.
Return ==
  /\ rec = "close"
  /\ connOpen' = FALSE
  /\ code' \in {0, 1}
  /\ Goto("exit")
  /\ UNCHANGED <<loginVars, sink, childExited, daemonVars, childVars, pumpVars, ptyVars, pty, sig, screen>>

-----------------------------------------------------------------------------
(* pumpOutput.                                                              *)

PumpRead ==
  /\ pump = "read" /\ ptmxOpen /\ pty > 0
  /\ pty' = pty - 1
  /\ pump' = "show"
  /\ UNCHANGED <<loginVars, runVars, daemonVars, childVars, ptyVars, buf, local, full, sig, screen>>

\* The chunk is written to the user's terminal, for as long as that takes, and
\* buffered.
ShowChunk ==
  /\ pump = "show" /\ screen = "flows"
  /\ buf' = buf + 1
  /\ pump' \in {"read", "flush"}   \* flushInterval has passed or not
  /\ UNCHANGED <<loginVars, runVars, daemonVars, childVars, ptyVars, pty, local, full, sig, screen>>

\* The read fails: every slave end is closed and all is read, or the master
\* has been closed, with what is left in it.
PumpEOF ==
  /\ pump = "read"
  /\ ~ptmxOpen \/ (pty = 0 /\ child \in {"exited", "reaped"} /\ ~slaveHeld)
  /\ pump' = "final"
  /\ UNCHANGED <<loginVars, runVars, daemonVars, childVars, ptyVars, pty, buf, local, full, sig, screen>>

\* cw.Flush, chunk after chunk; its error is ignored.  A write to the socket
\* waits for room as long as the daemon lives; once a write to the local file
\* has failed, because the disk is full, bufio writes nothing more.
FlushChunk ==
  /\ pump \in {"flush", "final"} /\ buf > 0
  /\ buf' = buf - 1
  /\ \/ sink = "local" /\ ~full /\ local' = local + 1 /\ UNCHANGED <<sock, full>>
     \/ sink = "local" /\ full' = TRUE /\ UNCHANGED <<sock, local>>
     \/ sink = "central" /\ daemon # "dead" /\ sock < SockCap /\ sock' = sock + 1 /\ UNCHANGED <<local, full>>
     \/ sink = "central" /\ daemon = "dead" /\ UNCHANGED <<sock, local, full>>
  /\ UNCHANGED <<loginVars, runVars, daemon, session, ack, stored, childVars, pump, ptyVars, pty, sig, screen>>

Flushed ==
  /\ pump \in {"flush", "final"} /\ buf = 0
  /\ pump' = IF pump = "final" THEN "done" ELSE "read"
  /\ UNCHANGED <<loginVars, runVars, daemonVars, childVars, buf, local, full, ptyVars, pty, sig, screen>>

-----------------------------------------------------------------------------
(* The goroutines that signal the child.                                    *)

\* stdin ends, or SIGHUP arrives.
Hangup(g) ==
  /\ sig[g] = "idle" /\ rec # "exit"
  /\ sig' = [sig EXCEPT ![g] = IF g = "stdin" THEN "eofGrace" ELSE "check"]
  /\ UNCHANGED <<loginVars, runVars, daemonVars, childVars, pumpVars, ptyVars, pty, screen>>

\* After EOFGrace the PTY master is closed, if it is still open.
EOFGrace ==
  /\ sig["stdin"] = "eofGrace" /\ rec # "exit"
  /\ ptmxOpen' = FALSE
  /\ heldUp' = IF ptmxOpen THEN "stdin" ELSE heldUp
  /\ sig' = [sig EXCEPT !["stdin"] = "check"]
  /\ UNCHANGED <<loginVars, runVars, daemonVars, childVars, pumpVars, pty, screen>>

CheckExited(g) ==
  /\ sig[g] = "check" /\ rec # "exit"
  /\ sig' = [sig EXCEPT ![g] = IF childExited THEN "done" ELSE "kill"]
  /\ UNCHANGED <<loginVars, runVars, daemonVars, childVars, pumpVars, ptyVars, pty, screen>>

\* The child need not die of it.
Kill(g) ==
  /\ sig[g] = "kill" /\ rec # "exit"
  /\ sig' = [sig EXCEPT ![g] = "done"]
  /\ child' \in IF child = "running" THEN {"running", "exited"} ELSE {child}
  /\ UNCHANGED <<loginVars, runVars, daemonVars, slaveHeld, produced, pumpVars, ptyVars, pty, screen>>

-----------------------------------------------------------------------------
(* The child, its descendants, and the daemon.                              *)

\* A job in the background keeps the slave end, and lets go of it.
HoldSlave ==
  /\ child = "running" /\ ~slaveHeld
  /\ slaveHeld' = TRUE
  /\ UNCHANGED <<loginVars, runVars, daemonVars, child, produced, pumpVars, ptyVars, pty, sig, screen>>
ReleaseSlave ==
  /\ slaveHeld
  /\ slaveHeld' = FALSE
  /\ UNCHANGED <<loginVars, runVars, daemonVars, child, produced, pumpVars, ptyVars, pty, sig, screen>>

Output ==
  /\ (child = "running" \/ slaveHeld) /\ ptmxOpen
  /\ produced < MaxOutput
  /\ produced' = produced + 1
  /\ pty' = pty + 1
  /\ UNCHANGED <<loginVars, runVars, daemonVars, child, slaveHeld, pumpVars, ptyVars, sig, screen>>

ChildExits ==
  /\ child = "running"
  /\ child' = "exited"
  /\ UNCHANGED <<loginVars, runVars, daemonVars, slaveHeld, produced, pumpVars, ptyVars, pty, sig, screen>>

\* handleRec opens the session and answers, or refuses.
DaemonAnswers ==
  /\ daemon = "up" /\ connOpen /\ session = "none"
  /\ \/ session' = "open" /\ ack' = "OK"
     \/ session' = "closed" /\ ack' = "ERR"
  /\ UNCHANGED <<loginVars, runVars, daemon, sock, stored, childVars, pumpVars, ptyVars, pty, sig, screen>>

DaemonReads ==
  /\ daemon = "up" /\ session = "open" /\ sock > 0
  /\ sock' = sock - 1
  /\ stored' = stored + 1
  /\ UNCHANGED <<loginVars, runVars, daemon, session, ack, childVars, pumpVars, ptyVars, pty, sig, screen>>

\* The recorder has closed the conn and everything it sent is read.
DaemonEnds ==
  /\ daemon = "up" /\ session = "open" /\ ~connOpen /\ sock = 0
  /\ session' = "closed"
  /\ UNCHANGED <<loginVars, runVars, daemon, ack, sock, stored, childVars, pumpVars, ptyVars, pty, sig, screen>>

\* What was in the socket is gone with the daemon.
DaemonFails ==
  /\ daemon # "dead"
  /\ \/ daemon' = "dead" /\ sock' = 0
     \/ daemon = "up" /\ daemon' = "wedged" /\ UNCHANGED sock
  /\ heldUp' = IF rec = "drain" /\ sink = "central" /\ daemon' = "wedged" THEN HeldUpBy("daemon") ELSE heldUp
  /\ UNCHANGED <<loginVars, runVars, session, ack, stored, childVars, pumpVars, ptmxOpen, pty, sig, screen>>

\* The user's terminal, or the network on the way to it, takes nothing.
ScreenChanges ==
  /\ screen' = IF screen = "flows" THEN "stalled" ELSE "flows"
  /\ heldUp' = IF rec = "drain" THEN HeldUpBy("screen") ELSE heldUp
  /\ UNCHANGED <<loginVars, runVars, daemonVars, childVars, pumpVars, ptmxOpen, pty, sig>>

-----------------------------------------------------------------------------
(* The scripts.                                                             *)

\* `ghostshell rec && exit` of the login hook; the ForceCommand wrapper has
\* exec'ed the recorder, whose end is the end of the connection.
ScriptContinues ==
  /\ rec = "exit" /\ login = "recording"
  /\ login' = IF entry = "profile" /\ code # 0 THEN "plainShell" ELSE "loggedOut"
  /\ UNCHANGED <<entry, runVars, daemonVars, childVars, pumpVars, ptyVars, pty, sig, screen>>
-----------------------------------------------------------------------------

RunStep ==
  Dial \/ HandshakeOK \/ HandshakeFails \/ OpenLocal \/ GiveUp \/ WriteHeader \/ StartChild
    \/ Reap \/ SetExited \/ Drained \/ DrainGrace \/ JoinPump \/ Return \/ ScriptContinues
PumpStep == PumpRead \/ ShowChunk \/ PumpEOF \/ FlushChunk \/ Flushed
SignalStep(g) == CheckExited(g) \/ Kill(g) \/ (g = "stdin" /\ EOFGrace)
DaemonStep == DaemonAnswers \/ DaemonReads \/ DaemonEnds
Environment ==
  HoldSlave \/ ReleaseSlave \/ Output \/ ChildExits \/ DaemonFails \/ ScreenChanges
    \/ \E g \in {"stdin", "hup"} : Hangup(g)

Next ==
  RunStep \/ PumpStep \/ DaemonStep \/ Environment
    \/ \E g \in {"stdin", "hup"} : SignalStep(g)

Spec == Init /\ [][Next]_vars

\* The recorder's goroutines and a daemon that is up are scheduled, timers
\* fire.  Nothing is assumed of the child, its terminal, or the user.
FairSpec ==
  /\ Spec
  /\ WF_vars(RunStep)
  /\ WF_vars(PumpStep)
  /\ WF_vars(DaemonStep)
  /\ \A g \in {"stdin", "hup"} : WF_vars(SignalStep(g))
-----------------------------------------------------------------------------
(* What must hold.                                                          *)

TypeOK ==
  /\ entry \in {"profile", "sshd", "explicit"}
  /\ login \in {"recording", "loggedOut", "plainShell"}
  /\ rec \in RunStates
  /\ sink \in {"none", "central", "local"}
  /\ code \in {0, 1}
  /\ daemon \in {"up", "wedged", "dead"}
  /\ session \in {"none", "open", "closed"}
  /\ ack \in {"none", "OK", "ERR"}
  /\ connOpen \in BOOLEAN
  /\ child \in {"none", "running", "exited", "reaped"}
  /\ childExited \in BOOLEAN /\ slaveHeld \in BOOLEAN /\ ptmxOpen \in BOOLEAN
  /\ heldUp \in {"nothing", "writer", "daemon", "screen", "stdin"}
  /\ produced \in 0..MaxOutput /\ pty \in 0..MaxOutput
  /\ pump \in {"off", "read", "show", "flush", "final", "done"}
  /\ buf \in 0..MaxOutput
  /\ sock \in 0..SockCap
  /\ stored \in 0..MaxOutput /\ local \in 0..MaxOutput
  /\ full \in BOOLEAN /\ screen \in {"flows", "stalled"}
  /\ sig \in [{"stdin", "hup"} -> {"off", "idle", "eofGrace", "check", "kill", "done"}]

\* Chunks that are somewhere on their way into a recording.
Accounted == pty + (IF pump = "show" THEN 1 ELSE 0) + buf + sock + stored + local

\* With a daemon that stays up, or a local file on a disk that has room, no
\* output is dropped on the way: all that is read from the PTY is recorded when
\* Run returns.  It has read to the PTY's end, the last command's output
\* included, unless something held it up: the end of stdin, whose grace closes
\* the master, or, for drainGrace, a process with the slave end or the user's own
\* terminal that stalls (TailKept, below).
SinkWorks == IF sink = "local" THEN ~full ELSE daemon = "up"
OutputKept ==
  SinkWorks =>
    /\ Accounted = produced
    /\ rec = "exit" =>
         /\ stored + sock + local + pty = produced
         /\ pty > 0 => heldUp # "nothing"

\* A recording has one home: a session the daemon opened for a recorder that
\* had stopped waiting gets nothing, and a local file gets everything.
OneHome == stored + sock > 0 => sink = "central" /\ local = 0

\* A login is never blocked by the daemon's trouble before the shell runs, and
\* when there can be no recording the login hook still gives a shell.
LoginNotBlocked ==
  (rec = "dial") ~>
    \/ child # "none"
    \/ rec = "exit" /\ (entry = "profile" => login = "plainShell")

\* Run returns once the child has, a job holding the terminal or not, on a full
\* disk as well, unless the daemon hangs or the user's terminal stalls.
RunReturnsUnlessWedged ==
  (child = "exited") ~>
    (rec = "exit" \/ (daemon = "wedged" /\ sink = "central") \/ screen = "stalled")
-----------------------------------------------------------------------------
(* What the documentation says and the code does not do; TLC refutes each    *)
(* (README, "Where the code and its documentation part").                    *)

\* "a recording is never silently lost" (README): all that the terminal showed
\* is in the store, on its way there, or in a local file when Run has returned.
NeverSilentlyLost ==
  rec = "exit" /\ pty = 0 => stored + sock + local = produced

\* "pumpOutput finishes on its own and records the last command's final bytes"
\* (Run): with a sink that works and nobody else on the terminal, nothing is
\* left in the PTY, though the user's own terminal may stall.
TailKept ==
  SinkWorks /\ rec = "exit" /\ heldUp \notin {"stdin", "writer"} => pty = 0

\* "signals must be gated on childExited to avoid hitting a reused PID"
\* (Run): no signal is sent once the child has been reaped.
NoSignalAfterReap ==
  [][\A g \in {"stdin", "hup"} : sig[g] = "kill" /\ sig'[g] = "done" => child # "reaped"]_vars

\* "logs out when the recorded shell exits" (autorec.sh).
LoggedOutWithShell ==
  login = "plainShell" => child = "none"

\* "fall through to a normal shell on any error" (README, of the hook and the
\* wrapper): the user gets a shell, recorded or not.
UserGetsShell == login # "recording" /\ entry # "explicit" => child # "none" \/ login = "plainShell"

\* "so Run can never hang" (the comment of the drain).
RunReturns == (child = "exited") ~> (rec = "exit")
=============================================================================
