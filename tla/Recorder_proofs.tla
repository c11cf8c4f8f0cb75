--------------------------- MODULE Recorder_proofs --------------------------
(***************************************************************************)
(* Output is not dropped on its way into a recording, and a recording has  *)
(* one home, for any amount of output and any socket buffer.               *)
(*                                                                         *)
(* OutputKept is not inductive: that nothing is left in the PTY when Run   *)
(* returns, if nothing held it up, rests on the pump's having seen the     *)
(* PTY's end, which with the master still open means that nobody can write *)
(* to it any more.                                                         *)
(*                                                                         *)
(* The last parts are about what may happen to the recording then          *)
(* (AuditTools), for any number of recordings and processes: prune removes *)
(* none whose recorder is running, unless the clock and its local time are *)
(* too far off, search finds it, whatever is recorded meanwhile, incoming  *)
(* puts it in the run it is of, tree prints each span of a trace once,     *)
(* below the one it names, and what analyze says does not depend on the    *)
(* order in which spans were stored and gives each failure the end of the  *)
(* output of its stretch.                                                  *)
(***************************************************************************)
EXTENDS Recorder, AuditTools, SequenceTheorems, FiniteSetTheorems, WellFoundedInduction, TLAPS

Counters == {produced, pty, buf, sock, stored, local}

Types ==
  /\ produced \in Nat /\ pty \in Nat /\ buf \in Nat
  /\ sock \in Nat /\ stored \in Nat /\ local \in Nat
  /\ ptmxOpen \in BOOLEAN /\ slaveHeld \in BOOLEAN /\ full \in BOOLEAN
  /\ daemon \in {"up", "wedged", "dead"}
  /\ pump \in {"off", "read", "show", "flush", "final", "done"}

\* Run starts the pump with the child, once it has a sink, and goes on to its
\* end when the pump is done.
RunInv ==
  /\ rec \in {"dial", "handshake", "local", "header", "start"} => pump = "off"
  /\ rec \in {"close", "exit"} => pump \in {"off", "done"}
  /\ rec \in {"dial", "handshake", "local"} => sink = "none"
  /\ rec \in {"header", "start"} \/ pump # "off" => sink # "none"
  /\ pump = "off" =>
       /\ \A n \in Counters : n = 0
       /\ child = "none" /\ ~slaveHeld /\ ~ptmxOpen

\* The pump ends with an empty buffer and, unless something held it up until
\* the master was closed, an empty PTY nobody can write to.
PumpInv ==
  /\ pump \in {"off", "done"} => buf = 0
  /\ ~ptmxOpen => heldUp # "nothing" \/ pump \in {"off", "done"}
  /\ pump \in {"final", "done"} /\ heldUp = "nothing" =>
       pty = 0 /\ child \in {"exited", "reaped"} /\ ~slaveHeld

\* The two homes.
HomeInv ==
  /\ sink # "central" => sock = 0 /\ stored = 0
  /\ sink # "local" => local = 0

IInv == Types /\ RunInv /\ PumpInv /\ HomeInv /\ (SinkWorks => Accounted = produced)
-----------------------------------------------------------------------------
\* Nothing has been produced when Run begins, and it has no sink.
LEMMA InitInv == Init => IInv
<1> SUFFICES ASSUME Init PROVE IInv
  OBVIOUS
<1>1. Types /\ PumpInv /\ HomeInv
  BY DEF Init, Types, PumpInv, HomeInv
<1>2. RunInv
  BY DEF Init, RunInv, Counters
<1>3. Accounted = produced
  BY DEF Init, Accounted
<1> QED
  BY <1>1, <1>2, <1>3 DEF IInv

\* The types.
LEMMA TypesStep == IInv /\ [Next]_vars => Types'
<1> SUFFICES ASSUME IInv, [Next]_vars PROVE Types'
  OBVIOUS
<1> USE DEF IInv, Types, SinkWorks, loginVars, runVars, daemonVars,
      childVars, pumpVars, ptyVars
<1>1. CASE Dial BY <1>1 DEF Dial, Goto
<1>2. CASE HandshakeOK BY <1>2 DEF HandshakeOK, Goto
<1>3. CASE HandshakeFails BY <1>3 DEF HandshakeFails, Goto
<1>4. CASE OpenLocal BY <1>4 DEF OpenLocal, Goto
<1>5. CASE GiveUp BY <1>5 DEF GiveUp, Goto
<1>6. CASE WriteHeader BY <1>6 DEF WriteHeader, Goto
<1>7. CASE StartChild BY <1>7 DEF StartChild, Goto
<1>8. CASE Reap BY <1>8 DEF Reap, Goto
<1>9. CASE SetExited BY <1>9 DEF SetExited, Goto
<1>10. CASE Drained BY <1>10 DEF Drained, Goto
<1>11. CASE DrainGrace BY <1>11 DEF DrainGrace, Goto
<1>12. CASE JoinPump BY <1>12 DEF JoinPump, Goto
<1>13. CASE Return BY <1>13 DEF Return, Goto
<1>14. CASE ScriptContinues BY <1>14 DEF ScriptContinues
<1>15. CASE PumpRead BY <1>15 DEF PumpRead
<1>16. CASE ShowChunk BY <1>16 DEF ShowChunk
<1>17. CASE PumpEOF BY <1>17 DEF PumpEOF
<1>18. CASE FlushChunk
  <2>1. buf' \in Nat
    BY <1>18 DEF FlushChunk
  <2>2. sock' \in {sock, sock + 1} /\ local' \in {local, local + 1}
    BY <1>18 DEF FlushChunk
  <2>3. full' = TRUE \/ full' = full
    BY <1>18 DEF FlushChunk
  <2>4. sock' \in Nat /\ local' \in Nat
    BY <2>2
  <2>5. full' \in BOOLEAN
    BY <2>3, Zenon
  <2>6. UNCHANGED <<produced, pty, stored, ptmxOpen, heldUp, slaveHeld, daemon, pump>>
    BY <1>18 DEF FlushChunk
  <2> QED
    BY <2>1, <2>4, <2>5, <2>6
<1>19. CASE Flushed BY <1>19 DEF Flushed
<1>20. ASSUME NEW g \in {"stdin", "hup"}, CheckExited(g) PROVE Types'
  BY <1>20 DEF CheckExited
<1>21. ASSUME NEW g \in {"stdin", "hup"}, Kill(g) PROVE Types'
  BY <1>21 DEF Kill
<1>22. CASE EOFGrace BY <1>22 DEF EOFGrace
<1>23. CASE DaemonAnswers BY <1>23 DEF DaemonAnswers
<1>24. CASE DaemonReads BY <1>24 DEF DaemonReads
<1>25. CASE DaemonEnds BY <1>25 DEF DaemonEnds
<1>26. CASE HoldSlave BY <1>26 DEF HoldSlave
<1>27. CASE ReleaseSlave BY <1>27 DEF ReleaseSlave
<1>28. CASE Output BY <1>28 DEF Output
<1>29. CASE ChildExits BY <1>29 DEF ChildExits
<1>30. CASE DaemonFails BY <1>30 DEF DaemonFails
<1>31. CASE ScreenChanges BY <1>31 DEF ScreenChanges
<1>32. ASSUME NEW g \in {"stdin", "hup"}, Hangup(g) PROVE Types'
  BY <1>32 DEF Hangup
<1>33. CASE UNCHANGED vars BY <1>33 DEF vars
<1> QED
  BY <1>1, <1>2, <1>3, <1>4, <1>5, <1>6, <1>7, <1>8, <1>9, <1>10, <1>11, <1>12, <1>13,
     <1>14, <1>15, <1>16, <1>17, <1>18, <1>19, <1>20, <1>21, <1>22, <1>23, <1>24,
     <1>25, <1>26, <1>27, <1>28, <1>29, <1>30, <1>31, <1>32, <1>33
  DEF Next, RunStep, PumpStep, DaemonStep, Environment, SignalStep

\* Run.
LEMMA RunStepInv == IInv /\ [Next]_vars => RunInv'
<1> SUFFICES ASSUME IInv, [Next]_vars PROVE RunInv'
  OBVIOUS
<1> USE DEF IInv, Types, RunInv, Counters, loginVars, runVars, daemonVars,
      childVars, pumpVars, ptyVars
<1>1. CASE Dial BY <1>1 DEF Dial, Goto
<1>2. CASE HandshakeOK BY <1>2 DEF HandshakeOK, Goto
<1>3. CASE HandshakeFails BY <1>3 DEF HandshakeFails, Goto
<1>4. CASE OpenLocal BY <1>4 DEF OpenLocal, Goto
<1>5. CASE GiveUp BY <1>5 DEF GiveUp, Goto
<1>6. CASE WriteHeader BY <1>6 DEF WriteHeader, Goto
<1>7. CASE StartChild BY <1>7 DEF StartChild, Goto
<1>8. CASE Reap BY <1>8 DEF Reap, Goto
<1>9. CASE SetExited BY <1>9 DEF SetExited, Goto
<1>10. CASE Drained BY <1>10 DEF Drained, Goto
<1>11. CASE DrainGrace BY <1>11 DEF DrainGrace, Goto
<1>12. CASE JoinPump BY <1>12 DEF JoinPump, Goto
<1>13. CASE Return BY <1>13 DEF Return, Goto
<1>14. CASE ScriptContinues BY <1>14 DEF ScriptContinues
<1>15. CASE PumpRead BY <1>15 DEF PumpRead
<1>16. CASE ShowChunk BY <1>16 DEF ShowChunk
<1>17. CASE PumpEOF BY <1>17 DEF PumpEOF
<1>18. CASE FlushChunk BY <1>18 DEF FlushChunk
<1>19. CASE Flushed BY <1>19 DEF Flushed
<1>20. ASSUME NEW g \in {"stdin", "hup"}, CheckExited(g) PROVE RunInv'
  BY <1>20 DEF CheckExited
<1>21. ASSUME NEW g \in {"stdin", "hup"}, Kill(g) PROVE RunInv'
  BY <1>21 DEF Kill
<1>22. CASE EOFGrace BY <1>22 DEF EOFGrace
<1>23. CASE DaemonAnswers BY <1>23 DEF DaemonAnswers
<1>24. CASE DaemonReads BY <1>24 DEF DaemonReads
<1>25. CASE DaemonEnds BY <1>25 DEF DaemonEnds
<1>26. CASE HoldSlave BY <1>26 DEF HoldSlave
<1>27. CASE ReleaseSlave BY <1>27 DEF ReleaseSlave
<1>28. CASE Output BY <1>28 DEF Output
<1>29. CASE ChildExits BY <1>29 DEF ChildExits
<1>30. CASE DaemonFails BY <1>30 DEF DaemonFails
<1>31. CASE ScreenChanges BY <1>31 DEF ScreenChanges
<1>32. ASSUME NEW g \in {"stdin", "hup"}, Hangup(g) PROVE RunInv'
  BY <1>32 DEF Hangup
<1>33. CASE UNCHANGED vars BY <1>33 DEF vars
<1> QED
  BY <1>1, <1>2, <1>3, <1>4, <1>5, <1>6, <1>7, <1>8, <1>9, <1>10, <1>11, <1>12, <1>13,
     <1>14, <1>15, <1>16, <1>17, <1>18, <1>19, <1>20, <1>21, <1>22, <1>23, <1>24,
     <1>25, <1>26, <1>27, <1>28, <1>29, <1>30, <1>31, <1>32, <1>33
  DEF Next, RunStep, PumpStep, DaemonStep, Environment, SignalStep

\* The pump.
LEMMA PumpStepInv == IInv /\ [Next]_vars => PumpInv'
<1> SUFFICES ASSUME IInv, [Next]_vars PROVE PumpInv'
  OBVIOUS
<1> USE DEF IInv, Types, RunInv, PumpInv, Counters, loginVars, runVars, daemonVars,
      childVars, pumpVars, ptyVars
<1>1. CASE Dial BY <1>1 DEF Dial, Goto
<1>2. CASE HandshakeOK BY <1>2 DEF HandshakeOK, Goto
<1>3. CASE HandshakeFails BY <1>3 DEF HandshakeFails, Goto
<1>4. CASE OpenLocal BY <1>4 DEF OpenLocal, Goto
<1>5. CASE GiveUp BY <1>5 DEF GiveUp, Goto
<1>6. CASE WriteHeader BY <1>6 DEF WriteHeader, Goto
<1>7. CASE StartChild BY <1>7 DEF StartChild, Goto
<1>8. CASE Reap BY <1>8 DEF Reap, Goto
<1>9. CASE SetExited BY <1>9 DEF SetExited, HeldUpBy, Goto
<1>10. CASE Drained BY <1>10 DEF Drained, Goto
<1>11. CASE DrainGrace BY <1>11 DEF DrainGrace, Goto
<1>12. CASE JoinPump BY <1>12 DEF JoinPump, Goto
<1>13. CASE Return BY <1>13 DEF Return, Goto
<1>14. CASE ScriptContinues BY <1>14 DEF ScriptContinues
<1>15. CASE PumpRead BY <1>15 DEF PumpRead
<1>16. CASE ShowChunk BY <1>16 DEF ShowChunk
<1>17. CASE PumpEOF BY <1>17 DEF PumpEOF
<1>18. CASE FlushChunk BY <1>18 DEF FlushChunk
<1>19. CASE Flushed BY <1>19 DEF Flushed
<1>20. ASSUME NEW g \in {"stdin", "hup"}, CheckExited(g) PROVE PumpInv'
  BY <1>20 DEF CheckExited
<1>21. ASSUME NEW g \in {"stdin", "hup"}, Kill(g) PROVE PumpInv'
  BY <1>21 DEF Kill
<1>22. CASE EOFGrace BY <1>22 DEF EOFGrace
<1>23. CASE DaemonAnswers BY <1>23 DEF DaemonAnswers
<1>24. CASE DaemonReads BY <1>24 DEF DaemonReads
<1>25. CASE DaemonEnds BY <1>25 DEF DaemonEnds
<1>26. CASE HoldSlave BY <1>26 DEF HoldSlave
<1>27. CASE ReleaseSlave BY <1>27 DEF ReleaseSlave
<1>28. CASE Output BY <1>28 DEF Output
<1>29. CASE ChildExits BY <1>29 DEF ChildExits
<1>30. CASE DaemonFails BY <1>30 DEF DaemonFails, HeldUpBy
<1>31. CASE ScreenChanges BY <1>31 DEF ScreenChanges, HeldUpBy
<1>32. ASSUME NEW g \in {"stdin", "hup"}, Hangup(g) PROVE PumpInv'
  BY <1>32 DEF Hangup
<1>33. CASE UNCHANGED vars BY <1>33 DEF vars
<1> QED
  BY <1>1, <1>2, <1>3, <1>4, <1>5, <1>6, <1>7, <1>8, <1>9, <1>10, <1>11, <1>12, <1>13,
     <1>14, <1>15, <1>16, <1>17, <1>18, <1>19, <1>20, <1>21, <1>22, <1>23, <1>24,
     <1>25, <1>26, <1>27, <1>28, <1>29, <1>30, <1>31, <1>32, <1>33
  DEF Next, RunStep, PumpStep, DaemonStep, Environment, SignalStep

\* A sink is chosen before there is output, and once.
LEMMA HomeStep == IInv /\ [Next]_vars => HomeInv'
<1> SUFFICES ASSUME IInv, [Next]_vars PROVE HomeInv'
  OBVIOUS
<1> USE DEF IInv, Types, RunInv, HomeInv, Counters, loginVars, runVars, daemonVars,
      childVars, pumpVars, ptyVars
<1>1. CASE Dial BY <1>1 DEF Dial, Goto
<1>2. CASE HandshakeOK BY <1>2 DEF HandshakeOK, Goto
<1>3. CASE HandshakeFails BY <1>3 DEF HandshakeFails, Goto
<1>4. CASE OpenLocal BY <1>4 DEF OpenLocal, Goto
<1>5. CASE GiveUp BY <1>5 DEF GiveUp, Goto
<1>6. CASE WriteHeader BY <1>6 DEF WriteHeader, Goto
<1>7. CASE StartChild BY <1>7 DEF StartChild, Goto
<1>8. CASE Reap BY <1>8 DEF Reap, Goto
<1>9. CASE SetExited BY <1>9 DEF SetExited, Goto
<1>10. CASE Drained BY <1>10 DEF Drained, Goto
<1>11. CASE DrainGrace BY <1>11 DEF DrainGrace, Goto
<1>12. CASE JoinPump BY <1>12 DEF JoinPump, Goto
<1>13. CASE Return BY <1>13 DEF Return, Goto
<1>14. CASE ScriptContinues BY <1>14 DEF ScriptContinues
<1>15. CASE PumpRead BY <1>15 DEF PumpRead
<1>16. CASE ShowChunk BY <1>16 DEF ShowChunk
<1>17. CASE PumpEOF BY <1>17 DEF PumpEOF
<1>18. CASE FlushChunk BY <1>18 DEF FlushChunk
<1>19. CASE Flushed BY <1>19 DEF Flushed
<1>20. ASSUME NEW g \in {"stdin", "hup"}, CheckExited(g) PROVE HomeInv'
  BY <1>20 DEF CheckExited
<1>21. ASSUME NEW g \in {"stdin", "hup"}, Kill(g) PROVE HomeInv'
  BY <1>21 DEF Kill
<1>22. CASE EOFGrace BY <1>22 DEF EOFGrace
<1>23. CASE DaemonAnswers BY <1>23 DEF DaemonAnswers
<1>24. CASE DaemonReads BY <1>24 DEF DaemonReads
<1>25. CASE DaemonEnds BY <1>25 DEF DaemonEnds
<1>26. CASE HoldSlave BY <1>26 DEF HoldSlave
<1>27. CASE ReleaseSlave BY <1>27 DEF ReleaseSlave
<1>28. CASE Output BY <1>28 DEF Output
<1>29. CASE ChildExits BY <1>29 DEF ChildExits
<1>30. CASE DaemonFails BY <1>30 DEF DaemonFails
<1>31. CASE ScreenChanges BY <1>31 DEF ScreenChanges
<1>32. ASSUME NEW g \in {"stdin", "hup"}, Hangup(g) PROVE HomeInv'
  BY <1>32 DEF Hangup
<1>33. CASE UNCHANGED vars BY <1>33 DEF vars
<1> QED
  BY <1>1, <1>2, <1>3, <1>4, <1>5, <1>6, <1>7, <1>8, <1>9, <1>10, <1>11, <1>12, <1>13,
     <1>14, <1>15, <1>16, <1>17, <1>18, <1>19, <1>20, <1>21, <1>22, <1>23, <1>24,
     <1>25, <1>26, <1>27, <1>28, <1>29, <1>30, <1>31, <1>32, <1>33
  DEF Next, RunStep, PumpStep, DaemonStep, Environment, SignalStep

\* No step drops a chunk while the sink works; and a sink that works did so
\* before, or is chosen before there is output.
LEMMA ConserveStep == IInv /\ [Next]_vars => (SinkWorks => Accounted = produced)'
<1> SUFFICES ASSUME IInv, [Next]_vars PROVE (SinkWorks => Accounted = produced)'
  OBVIOUS
<1> USE DEF IInv, Types, RunInv, HomeInv,
      Counters, SinkWorks, Accounted, loginVars, runVars, daemonVars,
      childVars, pumpVars, ptyVars
<1>1. CASE Dial BY <1>1 DEF Dial, Goto
<1>2. CASE HandshakeOK BY <1>2 DEF HandshakeOK, Goto
<1>3. CASE HandshakeFails BY <1>3 DEF HandshakeFails, Goto
<1>4. CASE OpenLocal BY <1>4 DEF OpenLocal, Goto
<1>5. CASE GiveUp BY <1>5 DEF GiveUp, Goto
<1>6. CASE WriteHeader BY <1>6 DEF WriteHeader, Goto
<1>7. CASE StartChild BY <1>7 DEF StartChild, Goto
<1>8. CASE Reap BY <1>8 DEF Reap, Goto
<1>9. CASE SetExited BY <1>9 DEF SetExited, Goto
<1>10. CASE Drained BY <1>10 DEF Drained, Goto
<1>11. CASE DrainGrace BY <1>11 DEF DrainGrace, Goto
<1>12. CASE JoinPump BY <1>12 DEF JoinPump, Goto
<1>13. CASE Return BY <1>13 DEF Return, Goto
<1>14. CASE ScriptContinues BY <1>14 DEF ScriptContinues
<1>15. CASE PumpRead BY <1>15 DEF PumpRead
<1>16. CASE ShowChunk BY <1>16 DEF ShowChunk
<1>17. CASE PumpEOF BY <1>17 DEF PumpEOF
<1>18. CASE FlushChunk BY <1>18 DEF FlushChunk
<1>19. CASE Flushed BY <1>19 DEF Flushed
<1>20. ASSUME NEW g \in {"stdin", "hup"}, CheckExited(g) PROVE (SinkWorks => Accounted = produced)'
  BY <1>20 DEF CheckExited
<1>21. ASSUME NEW g \in {"stdin", "hup"}, Kill(g) PROVE (SinkWorks => Accounted = produced)'
  BY <1>21 DEF Kill
<1>22. CASE EOFGrace BY <1>22 DEF EOFGrace
<1>23. CASE DaemonAnswers BY <1>23 DEF DaemonAnswers
<1>24. CASE DaemonReads BY <1>24 DEF DaemonReads
<1>25. CASE DaemonEnds BY <1>25 DEF DaemonEnds
<1>26. CASE HoldSlave BY <1>26 DEF HoldSlave
<1>27. CASE ReleaseSlave BY <1>27 DEF ReleaseSlave
<1>28. CASE Output BY <1>28 DEF Output
<1>29. CASE ChildExits BY <1>29 DEF ChildExits
<1>30. CASE DaemonFails BY <1>30 DEF DaemonFails
<1>31. CASE ScreenChanges BY <1>31 DEF ScreenChanges
<1>32. ASSUME NEW g \in {"stdin", "hup"}, Hangup(g) PROVE (SinkWorks => Accounted = produced)'
  BY <1>32 DEF Hangup
<1>33. CASE UNCHANGED vars BY <1>33 DEF vars
<1> QED
  BY <1>1, <1>2, <1>3, <1>4, <1>5, <1>6, <1>7, <1>8, <1>9, <1>10, <1>11, <1>12, <1>13,
     <1>14, <1>15, <1>16, <1>17, <1>18, <1>19, <1>20, <1>21, <1>22, <1>23, <1>24,
     <1>25, <1>26, <1>27, <1>28, <1>29, <1>30, <1>31, <1>32, <1>33
  DEF Next, RunStep, PumpStep, DaemonStep, Environment, SignalStep

-----------------------------------------------------------------------------
\* The inductive invariant of Run and pumpOutput beside a daemon that may hang
\* or die, jobs that hold the terminal, and a disk that may be full.
THEOREM Invariance == Spec => []IInv
<1>1. IInv /\ [Next]_vars => IInv'
  BY TypesStep, RunStepInv, PumpStepInv, HomeStep, ConserveStep DEF IInv
<1> QED
  BY InitInv, <1>1, PTL DEF Spec

\* While the sink works, what pumpOutput reads reaches the daemon or the local
\* file, and what Run leaves in the PTY when it returns (record.go:316-319) it
\* leaves only if stdin had ended, or something held the pump up until then: a
\* process with the slave end, a daemon, or a screen that takes nothing.
THEOREM OutputIsKept == Spec => []OutputKept
<1>1. IInv => OutputKept
  BY DEF IInv, Types, RunInv, PumpInv, Counters, SinkWorks, Accounted, OutputKept
<1> QED
  BY Invariance, <1>1, PTL

\* A session opened for a recorder that had fallen back (recHandshake's
\* deadline) gets no output, and a local file gets all of it.
THEOREM OneHomeEach == Spec => []OneHome
<1>1. IInv => OneHome
  BY DEF IInv, Types, HomeInv, OneHome
<1> QED
  BY Invariance, <1>1, PTL
-----------------------------------------------------------------------------
(* prune                                                                     *)

\* A recording that was made, and a process that records.
Made(n) == n \in Names /\ files[n].started > 0
Records(n) == procs[Recordings[n].pid].of = n

\* The record that is kept of a file, and the same without its name.
IsFile(f) ==
  f = [linked |-> f.linked, open |-> f.open, started |-> f.started, header |-> f.header,
       ts |-> f.ts, hits |-> f.hits, cut |-> f.cut]
Unlinked(f) ==
  [linked |-> FALSE, open |-> f.open, started |-> f.started, header |-> f.header,
   ts |-> f.ts, hits |-> f.hits, cut |-> f.cut]

\* The records that the store is made of, and one of the commands typed.
StoreTypes ==
  /\ now \in Nat \ {0} /\ shift \in Nat /\ cmd \in Commands
  /\ DOMAIN files = Names /\ DOMAIN procs = Pids
  /\ \A n \in Names :
       /\ IsFile(files[n])
       /\ files[n].started \in Nat
  /\ \A q \in Pids :
       /\ procs[q] = [comm |-> procs[q].comm, of |-> procs[q].of, start |-> procs[q].start]
       /\ procs[q].start \in Nat

\* One file changes.
Only(n) == DOMAIN files' = Names /\ \A m \in Names : m # n => files'[m] = files[m]

\* A file is made.
LEMMA RecordFile ==
  ASSUME StoreTypes, NEW n \in Names, Record(n)
  PROVE  /\ Only(n) /\ IsFile(files'[n]) /\ files'[n].linked = TRUE /\ files'[n].started = now + shift
         /\ files'[n].hits = files[n].hits /\ files'[n].ts = files[n].ts /\ files'[n].header = files[n].header
<1>1. DOMAIN files = Names /\ IsFile(files[n])
  BY DEF StoreTypes
<1>2. files' = [files EXCEPT ![n].linked = TRUE, ![n].open = TRUE, ![n].started = now + shift]
  BY DEF Record
<1>3. Only(n) /\ files'[n] = [files[n] EXCEPT !.linked = TRUE, !.open = TRUE, !.started = now + shift]
  BY <1>1, <1>2 DEF Only
<1> DEFINE f == files[n]
           g == files'[n]
           x == now + shift
<1>4. IsFile(f) /\ g = [f EXCEPT !.linked = TRUE, !.open = TRUE, !.started = x]
  BY <1>1, <1>3
<1> HIDE DEF f, g, x
<1>5. IsFile(g) /\ g.linked = TRUE /\ g.started = x /\ g.hits = f.hits /\ g.ts = f.ts /\ g.header = f.header
  BY <1>4 DEF IsFile
<1> QED
  BY <1>3, <1>5 DEF f, g, x

\* Its header is written.
LEMMA HeaderFile ==
  ASSUME StoreTypes, NEW n \in Names, Header(n)
  PROVE  /\ Only(n) /\ IsFile(files'[n]) /\ files'[n].header = TRUE /\ ~files[n].header
         /\ files'[n].linked = files[n].linked /\ files'[n].started = files[n].started /\ files'[n].hits = files[n].hits
         /\ files'[n].ts \in Int
<1>1. DOMAIN files = Names /\ IsFile(files[n])
  BY DEF StoreTypes
<1>2. PICK ts \in files[n].started..(now + shift) : files' = [files EXCEPT ![n].header = TRUE, ![n].ts = ts]
  BY DEF Header
<1>3. Only(n) /\ files'[n] = [files[n] EXCEPT !.header = TRUE, !.ts = ts]
  BY <1>1, <1>2 DEF Only
<1>4. ~files[n].header /\ ts \in Int
  BY DEF Header, StoreTypes
<1> DEFINE f == files[n]
           g == files'[n]
<1>5. IsFile(f) /\ g = [f EXCEPT !.header = TRUE, !.ts = ts]
  BY <1>1, <1>3
<1> HIDE DEF f, g
<1>6. IsFile(g) /\ g.header = TRUE /\ g.ts = ts /\ g.linked = f.linked /\ g.started = f.started /\ g.hits = f.hits
  BY <1>5 DEF IsFile
<1> QED
  BY <1>3, <1>4, <1>6 DEF f, g

\* An event is written, or it is closed.
LEMMA OutputFile ==
  ASSUME StoreTypes, NEW n \in Names, Write(n) \/ CloseSession(n)
  PROVE  /\ Only(n) /\ IsFile(files'[n]) /\ files'[n].linked = files[n].linked /\ files'[n].started = files[n].started
         /\ files'[n].header = files[n].header /\ files'[n].ts = files[n].ts
         /\ files'[n].hits \in {files[n].hits, files[n].hits + 1}
<1>1. DOMAIN files = Names /\ IsFile(files[n])
  BY DEF StoreTypes
<1>2. \/ files' = [files EXCEPT ![n].hits = @ + 1] \/ files' = [files EXCEPT ![n].cut = TRUE]
      \/ files' = [files EXCEPT ![n].open = FALSE]
  BY DEF Write, CloseSession
<1>3. /\ Only(n)
      /\ \/ files'[n] = [files[n] EXCEPT !.hits = @ + 1] \/ files'[n] = [files[n] EXCEPT !.cut = TRUE]
         \/ files'[n] = [files[n] EXCEPT !.open = FALSE]
  BY <1>1, <1>2 DEF Only
<1> DEFINE f == files[n]
           g == files'[n]
<1>4. IsFile(f) /\ (g = [f EXCEPT !.hits = @ + 1] \/ g = [f EXCEPT !.cut = TRUE] \/ g = [f EXCEPT !.open = FALSE])
  BY <1>1, <1>3
<1> HIDE DEF f, g
<1>5. /\ IsFile(g) /\ g.linked = f.linked /\ g.started = f.started /\ g.header = f.header /\ g.ts = f.ts
      /\ g.hits \in {f.hits, f.hits + 1}
  BY <1>4 DEF IsFile
<1> QED
  BY <1>3, <1>5 DEF f, g

\* What is in the store was made, and a recorder no later than its recording.
StoreInv ==
  /\ \A n \in Names : files[n].linked => files[n].started > 0
  /\ \A n \in Names : Records(n) =>
       LET q == procs[Recordings[n].pid] IN q.comm = "ghostshell" /\ files[n].started > 0 /\ q.start <= files[n].started

\* A recording that may be removed: it was made, and nothing records it any
\* more, unless the clock and the reading of its name make its recorder younger.
Spared(n) == Made(n) /\ (shift + Misread(n) > Slack \/ ~Records(n))

\* Where prune is, and what it holds there.
PruneInv ==
  /\ pc \in {"start", "gate", "ask"} => names = <<>>
  /\ pc \in {"gate", "ask", "confirm"} => cmd.name = "prune"
  /\ pc = "load" => cmd.name \in {"tree", "analyze"}
  /\ pc = "walk" => names \in Seq(Names) /\ \A i \in 1..Len(names) : Made(names[i])
  /\ pc = "delete" => names \in Seq(Names) /\ \A i \in 1..Len(names) : Spared(names[i])
  /\ cmd.name = "prune" => got \in Seq(Names) /\ \A i \in 1..Len(got) : Spared(got[i])

SpareInv == StoreTypes /\ StoreInv /\ PruneInv

\* A non-empty set of numbers has a least member.
LEMMA Least ==
  ASSUME NEW T, T \subseteq Nat, T # {}
  PROVE \E x \in T : \A y \in T : x <= y
<1>1. IsWellFoundedOn(OpToRel(<,Nat), Nat)
  BY NatLessThanWellFounded
<1>2. \A x, y \in Nat : y < x => <<y,x>> \in OpToRel(<,Nat)
  BY DEF OpToRel
<1>3. PICK x \in T : \A y \in T : ~ (<<y, x>> \in OpToRel(<,Nat))
  BY <1>1, WFMin
<1>4. \A y \in T : ~(y < x)
  BY <1>2, <1>3
<1>5. \A y \in T : x <= y
  <2> SUFFICES ASSUME NEW y \in T PROVE x <= y
    OBVIOUS
  <2>1. x \in Nat /\ y \in Nat /\ ~(y < x)
    BY <1>4
  <2> QED
    BY <2>1
<1> QED
  BY <1>5

\* f lists the recordings of user.
Lists(f, user) ==
  f = [n \in 0..Len(Recordings) |->
         IF n = 0 THEN <<>>
         ELSE IF Recordings[n].user = user /\ files[n].linked THEN Append(f[n - 1], n) ELSE f[n - 1]]

\* There is such a function.
LEMMA ListExists ==
  ASSUME NEW user
  PROVE  \E f : Lists(f, user)
<1> DEFINE L == Len(Recordings)
           More(f, n) == IF Recordings[n].user = user /\ files[n].linked THEN Append(f[n - 1], n) ELSE f[n - 1]
           Good(f, k) == \A n \in 0..k : f[n] = IF n = 0 THEN <<>> ELSE More(f, n)
           Missing == {k \in 0..L : ~\E f : DOMAIN f = 0..L /\ f = [n \in 0..L |-> f[n]] /\ Good(f, k)}
<1>0. L \in Nat
  BY ToolsAssumption
<1> HIDE DEF L
<1>1. ASSUME Missing # {} PROVE FALSE
  <2>1. PICK m \in Missing : \A k \in Missing : m <= k
    <3>1. Missing \subseteq Nat
      BY <1>0
    <3> HIDE DEF Missing
    <3> QED
      BY <1>1, <3>1, Least
  <2>2. m \in 0..L /\ ~\E f : DOMAIN f = 0..L /\ f = [n \in 0..L |-> f[n]] /\ Good(f, m)
    OBVIOUS
  <2>3. m # 0
    <3> DEFINE e == [n \in 0..L |-> <<>>]
    <3>1. DOMAIN e = 0..L /\ e = [n \in 0..L |-> e[n]] /\ e[0] = <<>>
      BY <1>0
    <3> HIDE DEF e
    <3>2. Good(e, 0)
      BY <3>1
    <3> QED
      BY <2>2, <3>1, <3>2
  <2>4. m - 1 \in 0..L /\ ~(m <= m - 1) /\ m \in 1..L /\ m \in Nat
    BY <1>0, <2>2, <2>3
  <2>5. PICK f : DOMAIN f = 0..L /\ f = [n \in 0..L |-> f[n]] /\ Good(f, m - 1)
    <3>1. m - 1 \notin Missing
      <4> HIDE DEF Missing
      <4> QED
        BY <2>1, <2>4
    <3> QED
      BY <2>4, <3>1
  <2> DEFINE g == [n \in 0..L |-> IF n = m THEN More(f, m) ELSE f[n]]
  <2>6. DOMAIN g = 0..L /\ g = [n \in 0..L |-> g[n]]
    OBVIOUS
  <2>7. Good(g, m)
    <3> SUFFICES ASSUME NEW n \in 0..m PROVE g[n] = IF n = 0 THEN <<>> ELSE More(g, n)
      OBVIOUS
    <3>1. n \in 0..L /\ (n # m => n \in 0..(m - 1)) /\ (n # 0 => n - 1 \in 0..L /\ n - 1 # m)
      BY <1>0, <2>4
    <3>2. (n # 0 => g[n - 1] = f[n - 1]) /\ g[n] = IF n = m THEN More(f, m) ELSE f[n]
      BY <3>1
    <3>3. n # m => f[n] = IF n = 0 THEN <<>> ELSE More(f, n)
      BY <2>5, <3>1
    <3> HIDE DEF g
    <3> QED
      BY <2>4, <3>2, <3>3
  <2> QED
    BY <2>2, <2>6, <2>7
<1>2. PICK f : DOMAIN f = 0..L /\ f = [n \in 0..L |-> f[n]] /\ Good(f, L)
  <2>0. Missing = {}
    BY <1>1
  <2>1. L \in 0..L /\ L \notin Missing
    <3> HIDE DEF Missing
    <3> QED
      BY <1>0, <2>0
  <2> QED
    BY <2>1
<1>3. f = [n \in 0..L |-> IF n = 0 THEN <<>> ELSE More(f, n)]
  BY <1>2
<1> QED
  BY <1>3 DEF Lists, L

\* Names are numbers from 1, and each has a process.
LEMMA NamesArePositive == Names \subseteq Nat \ {0} /\ \A n \in Names : Recordings[n].pid \in Pids
BY ToolsAssumption DEF Names, Pids

\* A list of recordings, of those up to k: the ones of user that are in the store, in order.
Lines(s, user, k) ==
  /\ s \in Seq(Names)
  /\ \A i \in 1..Len(s) : s[i] <= k /\ Recordings[s[i]].user = user /\ files[s[i]].linked
  /\ \A i, j \in 1..Len(s) : i < j => s[i] < s[j]
  /\ \A n \in Names : n <= k /\ Recordings[n].user = user /\ files[n].linked => \E i \in 1..Len(s) : s[i] = n

\* One name more: it is listed if its file is there and it is the user's.
LEMMA LinesMore ==
  ASSUME NEW user, NEW s, NEW m \in Names, Lines(s, user, m - 1)
  PROVE  Lines(IF Recordings[m].user = user /\ files[m].linked THEN Append(s, m) ELSE s, user, m)
<1>0. Names \subseteq Nat \ {0} /\ s \in Seq(Names) /\ Len(s) \in Nat /\ \A i \in 1..Len(s) : s[i] \in Names
  BY NamesArePositive DEF Lines
<1>1. \A n \in Names : n <= m => n = m \/ n <= m - 1
  BY <1>0
<1>2. \A n \in Names : n <= m - 1 => n <= m /\ n < m
  BY <1>0
<1>3. CASE Recordings[m].user = user /\ files[m].linked
  <2> DEFINE t == Append(s, m)
  <2>1. /\ t \in Seq(Names) /\ Len(t) = Len(s) + 1 /\ t[Len(s) + 1] = m
        /\ \A i \in 1..Len(s) : t[i] = s[i]
    BY <1>0
  <2>2. \A i \in 1..Len(t) : i \in 1..Len(s) \/ i = Len(s) + 1
    BY <1>0, <2>1
  <2>3. \A i \in 1..Len(s) : i \in 1..Len(t) /\ i < Len(s) + 1 /\ ~(Len(s) + 1 < i)
    BY <1>0, <2>1
  <2>3a. Len(s) + 1 \in 1..Len(t) /\ m <= m
    BY <1>0, <2>1
  <2> HIDE DEF t
  <2>4. \A i \in 1..Len(t) : t[i] <= m /\ Recordings[t[i]].user = user /\ files[t[i]].linked
    <3>1. \A i \in 1..Len(s) : t[i] <= m /\ Recordings[t[i]].user = user /\ files[t[i]].linked
      BY <1>0, <1>2, <2>1 DEF Lines
    <3>2. \A i \in 1..Len(t) : i \notin 1..Len(s) => t[i] = m
      BY <2>1, <2>2
    <3> QED
      BY <1>3, <2>3a, <3>1, <3>2
  <2>5. \A i, j \in 1..Len(t) : i < j => t[i] < t[j]
    <3> SUFFICES ASSUME NEW i \in 1..Len(t), NEW j \in 1..Len(t), i < j PROVE t[i] < t[j]
      OBVIOUS
    <3>1. i \in 1..Len(s)
      BY <1>0, <2>1, <2>2
    <3>2. CASE j \in 1..Len(s)
      BY <2>1, <3>1, <3>2 DEF Lines
    <3>3. CASE j = Len(s) + 1
      BY <1>0, <1>2, <2>1, <3>1, <3>3 DEF Lines
    <3> QED
      BY <2>2, <3>2, <3>3
  <2>6. \A n \in Names : n <= m /\ Recordings[n].user = user /\ files[n].linked => \E i \in 1..Len(t) : t[i] = n
    <3> SUFFICES ASSUME NEW n \in Names, n <= m, Recordings[n].user = user, files[n].linked
                 PROVE  \E i \in 1..Len(t) : t[i] = n
      OBVIOUS
    <3>1. CASE n = m
      BY <2>1, <2>3a, <3>1
    <3>2. CASE n <= m - 1
      <4>1. PICK i \in 1..Len(s) : s[i] = n
        BY <3>2 DEF Lines
      <4> QED
        BY <2>1, <2>3, <4>1
    <3> QED
      BY <1>1, <3>1, <3>2
  <2>7. Lines(t, user, m)
    BY <2>1, <2>4, <2>5, <2>6 DEF Lines
  <2> QED
    BY <1>3, <2>7 DEF t
<1>4. CASE ~(Recordings[m].user = user /\ files[m].linked)
  <2>1. Lines(s, user, m)
    BY <1>0, <1>1, <1>2, <1>4 DEF Lines
  <2> QED
    BY <1>4, <2>1
<1> QED
  BY <1>3, <1>4

\* What castsIn returns are the user's files that are there, in their order.
LEMMA ListedLines ==
  ASSUME NEW user
  PROVE  Lines(castsIn(user), user, Len(Recordings))
<1> DEFINE L == Len(Recordings)
           f == CHOOSE h : Lists(h, user)
           Missing == {k \in 0..L : ~Lines(f[k], user, k)}
<1>0. L \in Nat /\ Names = 1..L
  BY ToolsAssumption DEF Names
<1>1. Lists(f, user)
  BY ListExists
<1>2. castsIn(user) = f[L]
  BY DEF castsIn, Lists
<1> HIDE DEF f
<1>3. \A n \in 0..L : f[n] = IF n = 0 THEN <<>>
                             ELSE IF Recordings[n].user = user /\ files[n].linked
                                  THEN Append(f[n - 1], n) ELSE f[n - 1]
  BY <1>1 DEF Lists
<1> HIDE DEF L
<1>4. ASSUME Missing # {} PROVE FALSE
  <2>1. PICK m \in Missing : \A k \in Missing : m <= k
    <3>1. Missing \subseteq Nat
      BY <1>0
    <3> HIDE DEF Missing
    <3> QED
      BY <1>4, <3>1, Least
  <2>2. m \in 0..L /\ ~Lines(f[m], user, m)
    OBVIOUS
  <2>3. m # 0
    <3>1. 0 \in 0..L /\ \A n \in Names : ~(n <= 0)
      BY <1>0
    <3>2. f[0] = <<>>
      BY <1>3, <3>1
    <3>3. <<>> \in Seq(Names) /\ \A i : i \notin 1..Len(<<>>)
      OBVIOUS
    <3>4. Lines(<<>>, user, 0)
      BY <3>1, <3>3 DEF Lines
    <3> QED
      BY <2>2, <3>2, <3>4
  <2>4. m - 1 \in 0..L /\ ~(m <= m - 1) /\ m \in Names
    BY <1>0, <2>2, <2>3
  <2>5. Lines(f[m - 1], user, m - 1)
    <3>1. m - 1 \notin Missing
      <4> HIDE DEF Missing
      <4> QED
        BY <2>1, <2>4
    <3> QED
      BY <2>4, <3>1
  <2>6. f[m] = IF Recordings[m].user = user /\ files[m].linked THEN Append(f[m - 1], m) ELSE f[m - 1]
    BY <1>3, <2>2, <2>3
  <2>7. Lines(f[m], user, m)
    BY <2>4, <2>5, <2>6, LinesMore
  <2> QED
    BY <2>2, <2>7
<1>5. L \in 0..L /\ L \notin Missing
  <2>1. Missing = {}
    BY <1>4
  <2> HIDE DEF Missing
  <2> QED
    BY <1>0, <2>1
<1> QED
  BY <1>2, <1>5 DEF L

\* What is listed of a user is in the store.
LEMMA ListedLinked ==
  ASSUME NEW user
  PROVE  castsIn(user) \in Seq({n \in Names : files[n].linked})
<1> DEFINE s == castsIn(user)
           S == {n \in Names : files[n].linked}
<1>1. s \in Seq(Names) /\ \A i \in 1..Len(s) : s[i] \in Names /\ files[s[i]].linked
  BY ListedLines DEF Lines
<1> HIDE DEF s
<1>2. s \in Seq(S)
  <2>1. DOMAIN s = 1..Len(s) /\ Len(s) \in Nat
    BY <1>1
  <2>2. \A i \in 1..Len(s) : s[i] \in S
    BY <1>1
  <2>3. s = [i \in 1..Len(s) |-> s[i]]
    BY <1>1, <2>1
  <2> HIDE DEF S
  <2> QED
    BY <2>1, <2>2, <2>3, IsASeq
<1> QED
  BY <1>2 DEF s, S

\* What was recorded before the command is there, and nothing records.
LEMMA ToolsInitInv == ToolsInit => SpareInv
<1> SUFFICES ASSUME ToolsInit PROVE SpareInv
  OBVIOUS
<1>0. /\ files = [n \in Names |-> LET r == Recordings[n] IN
                    [linked |-> r.ts >= 0, open |-> FALSE, started |-> IF r.ts >= 0 THEN 1 ELSE 0,
                     header |-> r.ts >= 0, ts |-> Max({r.ts, 0}), hits |-> r.hits, cut |-> FALSE]]
      /\ procs = [q \in Pids |-> [comm |-> "none", of |-> 0, start |-> 0]]
      /\ now = 1 /\ shift = 0 /\ pc = "start" /\ names = <<>> /\ got = <<>> /\ cmd \in Commands
  BY DEF ToolsInit, NoProc
<1>a. \A n \in Names :
        files[n] = [linked |-> Recordings[n].ts >= 0, open |-> FALSE, started |-> IF Recordings[n].ts >= 0 THEN 1 ELSE 0,
                    header |-> Recordings[n].ts >= 0, ts |-> Max({Recordings[n].ts, 0}), hits |-> Recordings[n].hits,
                    cut |-> FALSE]
  BY <1>0
<1>b. \A n \in Names :
        /\ IsFile(files[n])
        /\ files[n].started \in Nat
        /\ files[n].linked => files[n].started > 0
  <2> SUFFICES ASSUME NEW n \in Names
               PROVE  /\ IsFile(files[n])
                      /\ files[n].started \in Nat
                      /\ files[n].linked => files[n].started > 0
    OBVIOUS
  <2> DEFINE old == Recordings[n].ts >= 0
             t == Max({Recordings[n].ts, 0})
  <2> HIDE DEF old, t
  <2>1. files[n] = [linked |-> old, open |-> FALSE, started |-> IF old THEN 1 ELSE 0, header |-> old, ts |-> t,
                    hits |-> Recordings[n].hits, cut |-> FALSE]
    BY <1>a DEF old, t
  <2> QED
    BY <2>1 DEF IsFile
<1>1. StoreTypes
  <2>1. DOMAIN files = Names /\ DOMAIN procs = Pids /\ now \in Nat \ {0} /\ shift \in Nat /\ cmd \in Commands
    BY <1>0
  <2>2. \A q \in Pids : procs[q] = [comm |-> "none", of |-> 0, start |-> 0]
    BY <1>0
  <2> QED
    BY <1>b, <2>1, <2>2 DEF StoreTypes
<1>2. StoreInv
  <2>1. \A n \in Names : files[n].linked => files[n].started > 0
    BY <1>b
  <2>2. \A n \in Names : ~Records(n)
    BY <1>0, NamesArePositive DEF Records
  <2> QED
    BY <2>1, <2>2 DEF StoreInv
<1>3. PruneInv
  BY <1>0 DEF PruneInv
<1> QED
  BY <1>1, <1>2, <1>3 DEF SpareInv

\* How much too early a name is read is a number.
LEMMA MisreadIsInt ==
  ASSUME StoreTypes, NEW n \in Names
  PROVE  Misread(n) \in Int
<1>1. cmd.zone \in Int /\ Recordings[n].fold \in Int
  BY ToolsAssumption DEF StoreTypes, Names
<1> QED
  BY <1>1 DEF Misread

\* What is selected may be removed: its recorder, if there is one, is active
\* unless it is made to look younger than its name.
LEMMA SelectedSpared ==
  ASSUME StoreTypes, StoreInv, NEW n \in Names, Made(n), ~isActive(n)
  PROVE  Spared(n)
<1> SUFFICES ASSUME ~(shift + Misread(n) > Slack), Records(n) PROVE FALSE
  BY DEF Spared
<1> DEFINE q == procs[Recordings[n].pid]
<1>1. q.comm = "ghostshell" /\ q.start <= files[n].started
  BY DEF StoreInv
<1>2. shift \in Nat /\ files[n].started \in Nat /\ q.start \in Nat /\ Slack \in Nat
  BY NamesArePositive, ToolsAssumption DEF StoreTypes
<1>a. Misread(n) \in Int
  BY MisreadIsInt
<1>3. isActive(n) <=> q.comm = "ghostshell" /\ q.start + shift <= files[n].started - Misread(n) + Slack
  BY DEF isActive, NameTime
<1> HIDE DEF q
<1> QED
  BY <1>1, <1>2, <1>a, <1>3

\* A step leaves what was made made, and what may be removed so.
Keeps ==
  /\ \A n \in Names : Made(n) => Made(n)'
  /\ \A n \in Names : Spared(n) => Spared(n)'

\* The command itself records nothing: it may remove, and moves no clock.
LEMMA CommandKeeps ==
  ASSUME StoreTypes, StoreInv, UNCHANGED <<procs, now, shift, cmd>>,
         DOMAIN files' = Names,
         \A n \in Names : files'[n] = files[n] \/ files'[n] = Unlinked(files[n])
  PROVE  StoreTypes' /\ StoreInv' /\ Keeps
<1>1. \A n \in Names : /\ files'[n].started = files[n].started
                       /\ files'[n].linked => files[n].linked
                       /\ IsFile(files'[n])
  BY DEF StoreTypes, IsFile, Unlinked
<1>2. StoreTypes'
  BY <1>1 DEF StoreTypes
<1>3. StoreInv'
  BY <1>1 DEF StoreInv, Records
<1>4. Keeps
  BY <1>1 DEF Keeps, Made, Spared, Records, Misread
<1> QED
  BY <1>2, <1>3, <1>4

\* A step that leaves the command's lists alone.
LEMMA ListsKept ==
  ASSUME PruneInv, Keeps, UNCHANGED <<cmd, pc, names, got>>
  PROVE  PruneInv'
<1>1. \A i \in 1..Len(names) : names \in Seq(Names) => names[i] \in Names
  OBVIOUS
<1>2. \A i \in 1..Len(got) : got \in Seq(Names) => got[i] \in Names
  OBVIOUS
<1>3. \A n \in Names : (Made(n) => Made(n)') /\ (Spared(n) => Spared(n)')
  BY DEF Keeps
<1>4. /\ pc' \in {"start", "gate", "ask"} => names' = <<>>
      /\ pc' \in {"gate", "ask", "confirm"} => cmd'.name = "prune"
      /\ pc' = "load" => cmd'.name \in {"tree", "analyze"}
  BY DEF PruneInv
<1>5. pc' = "walk" => names' \in Seq(Names) /\ \A i \in 1..Len(names') : Made(names[i])'
  BY <1>1, <1>3 DEF PruneInv
<1>6. pc' = "delete" => names' \in Seq(Names) /\ \A i \in 1..Len(names') : Spared(names[i])'
  BY <1>1, <1>3 DEF PruneInv
<1>7. cmd'.name = "prune" => got' \in Seq(Names) /\ \A i \in 1..Len(got') : Spared(got[i])'
  BY <1>2, <1>3 DEF PruneInv
<1> QED
  BY <1>4, <1>5, <1>6, <1>7 DEF PruneInv

\* The recorders, the daemon, the kernel and the clock.
EveryoneElse ==
  \/ \E n \in Names : Record(n) \/ Header(n) \/ Write(n) \/ Die(n) \/ CloseSession(n)
  \/ \E q \in Pids, comm \in {"ghostshell", "other"} : ReusePid(q, comm)
  \/ Tick \/ SetClock
  \/ \E c \in ChunkIds, lines \in Trace : StoreChunk(c, lines)

\* A recorder starts only on a recording that was not made yet, and one that
\* ends or a pid that is used again records nothing that was made.
LEMMA EveryoneElseStep ==
  ASSUME SpareInv, EveryoneElse
  PROVE  StoreTypes' /\ StoreInv' /\ Keeps /\ UNCHANGED <<cmd, pc, names, got>>
<1>0. UNCHANGED <<cmd, pc, names, got>>
  BY DEF EveryoneElse, Others, Record, Header, Write, Die, CloseSession, ReusePid, Tick, SetClock, StoreChunk
<1>1. StoreTypes /\ StoreInv
  BY DEF SpareInv
<1> USE NamesArePositive
<1>2. ASSUME NEW n \in Names, Record(n) PROVE StoreTypes' /\ StoreInv' /\ Keeps
  <2> DEFINE pid == Recordings[n].pid
             made == files'[n]
             new == [comm |-> "ghostshell", of |-> n, start |-> now]
  <2>1. /\ files[n].started = 0 /\ procs[pid] = NoProc /\ pid \in Pids
        /\ procs' = [procs EXCEPT ![pid] = new] /\ now' = now /\ shift' = shift
    BY <1>2 DEF Record
  <2>a. Only(n) /\ IsFile(made) /\ made.started = now + shift
    BY <1>1, <1>2, RecordFile
  <2>2. made.started \in Nat /\ made.started > 0 /\ new.start \in Nat /\ now <= made.started
    BY <1>1, <2>a DEF StoreTypes
  <2> HIDE DEF new, pid
  <2>3. /\ DOMAIN files' = Names /\ DOMAIN procs' = Pids /\ files'[n] = made /\ procs'[pid] = new
        /\ \A m \in Names : m # n => files'[m] = files[m]
        /\ \A q \in Pids : q # pid => procs'[q] = procs[q]
    BY <1>1, <2>1, <2>a DEF StoreTypes, Only
  <2> HIDE DEF made
  <2>4. StoreTypes'
    <3>2. new = [comm |-> new.comm, of |-> new.of, start |-> new.start]
      BY DEF new
    <3> QED
      BY <1>0, <1>1, <2>1, <2>2, <2>3, <2>a, <3>2 DEF StoreTypes
  <2>5. \A m \in Names : m # n => (Records(m)' <=> Records(m) /\ Recordings[m].pid # pid)
    <3> SUFFICES ASSUME NEW m \in Names, m # n PROVE Records(m)' <=> Records(m) /\ Recordings[m].pid # pid
      OBVIOUS
    <3>1. CASE Recordings[m].pid = pid
      BY <2>3, <3>1 DEF Records, new
    <3>2. CASE Recordings[m].pid # pid
      BY <2>3, <3>2 DEF Records
    <3> QED
      BY <3>1, <3>2
  <2>6. StoreInv'
    <3>1. \A m \in Names : files'[m].linked => files'[m].started > 0
      BY <1>1, <2>2, <2>3 DEF StoreInv
    <3>2. ASSUME NEW m \in Names, Records(m)'
          PROVE  LET q == procs'[Recordings[m].pid]
                 IN  q.comm = "ghostshell" /\ files'[m].started > 0 /\ q.start <= files'[m].started
      <4>1. CASE m = n
        BY <2>2, <2>3, <4>1 DEF pid, new
      <4>2. CASE m # n
        <5>1. Records(m) /\ Recordings[m].pid # pid
          BY <2>5, <3>2, <4>2
        <5> QED
          BY <1>1, <2>3, <4>2, <5>1 DEF StoreInv
      <4> QED
        BY <4>1, <4>2
    <3> QED
      BY <3>1, <3>2 DEF StoreInv
  <2>7. Keeps
    <3>1. ~Made(n)
      BY <2>1 DEF Made
    <3>2. \A m \in Names : m # n => (Made(m) => Made(m)')
      BY <2>3 DEF Made
    <3> QED
      BY <1>0, <2>1, <2>5, <3>1, <3>2 DEF Keeps, Spared, Misread
  <2> QED
    BY <2>4, <2>6, <2>7
<1>3. ASSUME NEW n \in Names, Header(n) \/ Write(n) \/ CloseSession(n) PROVE StoreTypes' /\ StoreInv' /\ Keeps
  <2>1. procs' = procs /\ now' = now /\ shift' = shift
    BY <1>3 DEF Header, Write, CloseSession
  <2>2. /\ DOMAIN files' = Names
        /\ \A m \in Names :
             IsFile(files'[m]) /\ files'[m].started = files[m].started /\ files'[m].linked = files[m].linked
    <3>1. \A m \in Names : IsFile(files[m])
      BY <1>1 DEF StoreTypes
    <3>2. /\ Only(n) /\ IsFile(files'[n])
          /\ files'[n].started = files[n].started /\ files'[n].linked = files[n].linked
      BY <1>1, <1>3, HeaderFile, OutputFile
    <3> QED
      BY <3>1, <3>2 DEF Only
  <2> QED
    BY <1>0, <1>1, <2>1, <2>2 DEF StoreTypes, StoreInv, Keeps, Made, Spared, Records, Misread
<1>4. ASSUME NEW pid \in Pids, NEW new, procs' = [procs EXCEPT ![pid] = new],
             new = [comm |-> new.comm, of |-> 0, start |-> new.start], new.start \in Nat,
             UNCHANGED <<files, now, shift>>
      PROVE  StoreTypes' /\ StoreInv' /\ Keeps
  <2>1. /\ DOMAIN procs' = Pids /\ procs'[pid] = new /\ new.of = 0
        /\ \A q \in Pids : q # pid => procs'[q] = procs[q]
    BY <1>1, <1>4 DEF StoreTypes
  <2>2. StoreTypes'
    BY <1>0, <1>1, <1>4, <2>1 DEF StoreTypes
  <2>3. \A m \in Names : Records(m)' => Records(m) /\ Recordings[m].pid # pid
    BY <2>1 DEF Records
  <2>4. StoreInv'
    BY <1>1, <1>4, <2>1, <2>3 DEF StoreInv
  <2>5. Keeps
    BY <1>0, <1>4, <2>3 DEF Keeps, Spared, Made, Misread
  <2> QED
    BY <2>2, <2>4, <2>5
<1>5. ASSUME NEW n \in Names, Die(n) PROVE StoreTypes' /\ StoreInv' /\ Keeps
  <2> DEFINE new == [comm |-> "none", of |-> 0, start |-> 0]
  <2>1. procs' = [procs EXCEPT ![Recordings[n].pid] = new] /\ UNCHANGED <<files, now, shift>> /\ Recordings[n].pid \in Pids
    BY <1>5 DEF Die, NoProc
  <2>2. new = [comm |-> new.comm, of |-> 0, start |-> new.start] /\ new.start \in Nat
    OBVIOUS
  <2> HIDE DEF new
  <2> QED
    BY <1>4, <2>1, <2>2
<1>6. ASSUME NEW q \in Pids, NEW comm \in {"ghostshell", "other"}, ReusePid(q, comm) PROVE StoreTypes' /\ StoreInv' /\ Keeps
  <2> DEFINE new == [comm |-> comm, of |-> 0, start |-> now]
  <2>1. procs' = [procs EXCEPT ![q] = new] /\ UNCHANGED <<files, now, shift>>
    BY <1>6 DEF ReusePid
  <2>2. new = [comm |-> new.comm, of |-> 0, start |-> new.start] /\ new.start \in Nat
    BY <1>1 DEF StoreTypes
  <2> HIDE DEF new
  <2> QED
    BY <1>4, <2>1, <2>2
<1>c. ASSUME UNCHANGED <<files, procs>>, now' \in Nat \ {0}, shift' \in Nat, shift <= shift'
      PROVE  StoreTypes' /\ StoreInv' /\ Keeps
  <2>1. StoreTypes'
    BY <1>0, <1>1, <1>c DEF StoreTypes
  <2>2. StoreInv'
    BY <1>1, <1>c DEF StoreInv, Records
  <2>3. Keeps
    <3>1. \A n \in Names : Misread(n) \in Int /\ Misread(n)' = Misread(n)
      BY <1>0, <1>1, MisreadIsInt DEF Misread
    <3>2. \A n \in Names : shift + Misread(n) > Slack => shift' + Misread(n)' > Slack
      BY <1>1, <1>c, <3>1, ToolsAssumption DEF StoreTypes
    <3> QED
      BY <1>c, <3>2 DEF Keeps, Made, Spared, Records
  <2> QED
    BY <2>1, <2>2, <2>3
<1>7. CASE Tick
  <2>1. UNCHANGED <<files, procs, shift>> /\ now' = now + 1
    BY <1>7 DEF Tick
  <2>2. now' \in Nat \ {0} /\ shift' \in Nat
    BY <1>1, <2>1 DEF StoreTypes
  <2>3. shift <= shift'
    BY <2>1, <2>2
  <2>4. UNCHANGED <<files, procs>>
    BY <2>1
  <2> QED
    BY <1>0, <1>c, <2>2, <2>3, <2>4
<1>8. CASE SetClock
  <2>1. shift = 0 /\ shift' \in Nat /\ UNCHANGED <<files, procs, now>> /\ Slack \in Nat
    BY <1>8, ToolsAssumption DEF SetClock
  <2>2. now' \in Nat \ {0}
    BY <1>1, <2>1 DEF StoreTypes
  <2>3. UNCHANGED <<files, procs>>
    BY <2>1
  <2>4. shift <= shift'
    BY <2>1
  <2> QED
    BY <1>0, <1>c, <2>1, <2>2, <2>3, <2>4
<1>9. ASSUME NEW c \in ChunkIds, NEW lines \in Trace, StoreChunk(c, lines) PROVE StoreTypes' /\ StoreInv' /\ Keeps
  <2>1. UNCHANGED <<files, procs, now, shift>>
    BY <1>9 DEF StoreChunk
  <2> QED
    BY <1>0, <1>1, <2>1 DEF StoreTypes, StoreInv, Keeps, Made, Spared, Records, Misread
<1> QED
  BY <1>0, <1>2, <1>3, <1>5, <1>6, <1>7, <1>8, <1>9 DEF EveryoneElse

\* Nobody else removes a recording.
LEMMA NobodyElseRemoves ==
  ASSUME StoreTypes, EveryoneElse
  PROVE  \A n \in Names : files[n].linked => files'[n].linked
<1>1. ASSUME NEW m \in Names, Record(m) PROVE \A n \in Names : files[n].linked => files'[n].linked
  BY <1>1, RecordFile DEF Only
<1>2. ASSUME NEW m \in Names, Header(m) \/ Write(m) \/ CloseSession(m)
      PROVE  \A n \in Names : files'[n].linked = files[n].linked
  BY <1>2, HeaderFile, OutputFile DEF Only
<1>3. \/ UNCHANGED files
      \/ \E m \in Names : Record(m) \/ Header(m) \/ Write(m) \/ CloseSession(m)
  BY DEF EveryoneElse, Die, ReusePid, Tick, SetClock, StoreChunk
<1> QED
  BY <1>1, <1>2, <1>3

\* A step of the command, which reads the store.
LEMMA CommandStep ==
  ASSUME SpareInv,
         \/ Begin \/ NextUser \/ Visit \/ Walked \/ Pruned \/ PrintBlocks \/ GroupRuns \/ Load \/ Loaded
         \/ \E i \in DOMAIN work : Spawn(i) \/ Scan(i) \/ Release(i)
         \/ \E typed \in {"right", "wrong"} : Gate(typed)
         \/ \E u \in users \cup {0, -1} : Ask(u)
         \/ \E yes \in BOOLEAN : Confirm(yes \/ cmd.yes)
  PROVE  SpareInv' /\ UNCHANGED files
<1>0. StoreTypes /\ StoreInv /\ PruneInv
  BY DEF SpareInv
<1>1. UNCHANGED <<files, procs, now, shift, cmd>>
  BY DEF Begin, NextUser, Visit, Walked, Pruned, Gate, Ask, Confirm, PrintBlocks, GroupRuns, Load, Loaded,
         Spawn, Scan, Release, Reads, store
<1>2. StoreTypes' /\ StoreInv'
  BY <1>0, <1>1 DEF StoreTypes, StoreInv, Records
<1>3. \A n : (Made(n)' <=> Made(n)) /\ (Spared(n)' <=> Spared(n))
  BY <1>1 DEF Made, Spared, Records, Misread
<1> DEFINE AllMade(s) == s \in Seq(Names) /\ \A i \in 1..Len(s) : Made(s[i])
           AllSpared(s) == s \in Seq(Names) /\ \A i \in 1..Len(s) : Spared(s[i])
<1>4. ASSUME pc' \in {"start", "gate", "ask"} => names' = <<>>,
             pc' \in {"gate", "ask", "confirm"} => cmd.name = "prune",
             pc' = "load" => cmd.name \in {"tree", "analyze"},
             pc' = "walk" => AllMade(names'), pc' = "delete" => AllSpared(names'),
             cmd.name = "prune" => AllSpared(got')
      PROVE  SpareInv'
  <2>1. PruneInv'
    BY <1>1, <1>3, <1>4 DEF PruneInv
  <2> QED
    BY <1>2, <2>1 DEF SpareInv
<1>5. /\ pc = "walk" => AllMade(names)
      /\ pc = "delete" => AllSpared(names)
      /\ cmd.name = "prune" => AllSpared(got)
      /\ pc \in {"gate", "ask", "confirm"} => cmd.name = "prune"
      /\ pc = "load" => cmd.name \in {"tree", "analyze"}
      /\ pc \in {"start", "gate", "ask"} => names = <<>>
  BY <1>0 DEF PruneInv
<1>6. AllMade(<<>>) /\ AllSpared(<<>>)
  OBVIOUS
<1>7. ASSUME NEW s \in Seq(Names), s # <<>>
      PROVE  /\ AllMade(s) => AllMade(Tail(s)) /\ Made(Head(s)) /\ Head(s) \in Names
             /\ AllSpared(s) => AllSpared(Tail(s)) /\ Spared(Head(s))
             /\ \A n \in Names : AllSpared(s) /\ Spared(n) => AllSpared(Append(s, n))
  <2>1. /\ Tail(s) \in Seq(Names) /\ Head(s) = s[1] /\ 1 \in 1..Len(s) /\ s[1] \in Names
        /\ \A i \in 1..Len(Tail(s)) : Tail(s)[i] = s[i + 1] /\ i + 1 \in 1..Len(s)
    BY <1>7
  <2>2. \A n \in Names : /\ Append(s, n) \in Seq(Names) /\ Len(Append(s, n)) = Len(s) + 1
                         /\ \A i \in 1..(Len(s) + 1) : Append(s, n)[i] = IF i = Len(s) + 1 THEN n ELSE s[i]
    BY <1>7
  <2>3. \A i \in 1..(Len(s) + 1) : i = Len(s) + 1 \/ i \in 1..Len(s)
    BY <1>7
  <2> QED
    BY <2>1, <2>2, <2>3
<1> HIDE DEF AllMade, AllSpared
<1>8. ASSUME Begin PROVE SpareInv'
  <2>1. pc = "start" /\ got' = got
        /\ pc' = IF cmd.name \in {"tree", "analyze"} THEN "load" ELSE IF cmd.name = "prune" THEN "gate" ELSE "walk"
    BY <1>8 DEF Begin, Go
  <2>2. names' = IF cmd.name \in {"tree", "analyze"} THEN ReadDir(chunks) ELSE <<>>
    BY <1>8 DEF Begin
  <2>3. CASE cmd.name \in {"tree", "analyze"}
    BY <1>4, <1>5, <2>1, <2>3
  <2>4. CASE cmd.name \notin {"tree", "analyze"}
    BY <1>4, <1>5, <1>6, <2>1, <2>2, <2>4
  <2> QED
    BY <2>3, <2>4
<1>9. ASSUME NEW typed, Gate(typed) PROVE SpareInv'
  <2>1. pc = "gate" /\ names' = names /\ got' = got /\ pc' \in {"ask", "done"}
    BY <1>9 DEF Gate, Go
  <2> QED
    BY <1>4, <1>5, <2>1
<1>10. ASSUME NEW u, Ask(u) PROVE SpareInv'
  <2>1. pc = "ask" /\ names' = names /\ got' = got /\ pc' \in {"walk", "done"}
    BY <1>10 DEF Ask, Go
  <2> QED
    BY <1>4, <1>5, <1>6, <2>1
<1>11. ASSUME NextUser PROVE SpareInv'
  <2>1. pc = "walk" /\ pc' = pc /\ got' = got /\ names' = castsIn(Min(users))
    BY <1>11 DEF NextUser
  <2>2. AllMade(castsIn(Min(users)))
    <3> DEFINE S == {n \in Names : files[n].linked}
               s == castsIn(Min(users))
    <3>1. s \in Seq(S)
      BY ListedLinked
    <3>2. S \subseteq Names /\ \A n \in S : Made(n)
      BY <1>0 DEF StoreInv, Made
    <3> HIDE DEF S, s
    <3>3. s \in Seq(Names) /\ \A i \in 1..Len(s) : s[i] \in S
      BY <3>1, <3>2
    <3> QED
      BY <3>2, <3>3 DEF AllMade, s
  <2> QED
    BY <1>4, <1>5, <2>1, <2>2
<1>12. ASSUME Visit PROVE SpareInv'
  <2>1. pc = "walk" /\ pc' = pc /\ names # <<>> /\ names' = Tail(names) /\ names \in Seq(Names)
    BY <1>5, <1>12 DEF Visit, AllMade
  <2>2. AllMade(names') /\ Made(Head(names)) /\ Head(names) \in Names
    BY <1>5, <1>7, <2>1
  <2>3. ASSUME cmd.name = "prune" PROVE AllSpared(got')
    <3>1. got' = IF Selected(Head(names)) THEN Append(got, Head(names)) ELSE got
      BY <1>12, <2>3 DEF Visit
    <3>2. CASE Selected(Head(names))
      <4>1. Spared(Head(names))
        BY <1>0, <2>2, <3>2, SelectedSpared DEF Selected
      <4>2. AllSpared(Append(got, Head(names)))
        <5>1. AllSpared(got) /\ got \in Seq(Names)
          BY <1>5, <2>3 DEF AllSpared
        <5>2. CASE got = <<>>
          <6> DEFINE h == Head(names)
                     t == Append(got, h)
          <6>1. t \in Seq(Names) /\ Len(t) = 1 /\ t[1] = h
            BY <2>2, <5>2
          <6> HIDE DEF t, h
          <6>2. \A i \in 1..Len(t) : t[i] = h
            BY <6>1
          <6> QED
            BY <4>1, <6>1, <6>2 DEF AllSpared, t, h
        <5> QED
          BY <1>7, <2>2, <4>1, <5>1, <5>2
      <4> QED
        BY <3>1, <3>2, <4>2
    <3> QED
      BY <1>5, <2>3, <3>1, <3>2
  <2> QED
    BY <1>4, <2>1, <2>2, <2>3
<1>13. ASSUME Walked PROVE SpareInv'
  <2>1. /\ pc = "walk" /\ names' = names /\ got' = got
        /\ pc' = IF cmd.name = "search" THEN "scan" ELSE IF cmd.name = "prune" /\ got # <<>> THEN "confirm" ELSE "done"
    BY <1>13 DEF Walked, Go
  <2> QED
    BY <1>4, <1>5, <2>1
<1>14. ASSUME NEW yes, Confirm(yes) PROVE SpareInv'
  <2>1. pc = "confirm" /\ got' = got /\ pc' \in {"delete", "done"} /\ (pc' = "delete" => names' = got)
    BY <1>14 DEF Confirm, Go
  <2> QED
    BY <1>4, <1>5, <2>1
<1>15. ASSUME Pruned PROVE SpareInv'
  <2>1. pc' = "done" /\ got' = got
    BY <1>15 DEF Pruned, Go
  <2> QED
    BY <1>4, <1>5, <2>1
<1>16. ASSUME PrintBlocks \/ \E i \in DOMAIN work : Spawn(i) \/ Scan(i) \/ Release(i) PROVE SpareInv'
  <2>1. names' = names /\ got' = got /\ pc' \in {pc, "done"}
    BY <1>16 DEF PrintBlocks, Spawn, Scan, Release, Go
  <2> QED
    BY <1>4, <1>5, <2>1
<1>17. ASSUME GroupRuns PROVE SpareInv'
  <2>1. names' = names /\ cmd.name = "incoming" /\ pc' = pc
    BY <1>17 DEF GroupRuns
  <2> QED
    BY <1>4, <1>5, <2>1
<1>18. ASSUME Load \/ Loaded PROVE SpareInv'
  <2>1. pc = "load" /\ pc' \in {"load", "done"}
    BY <1>18 DEF Load, Loaded, Go
  <2> QED
    BY <1>4, <1>5, <2>1
<1> QED
  BY <1>1, <1>8, <1>9, <1>10, <1>11, <1>12, <1>13, <1>14, <1>15, <1>16, <1>17, <1>18

\* The removal of one recording, of those that may be removed.
LEMMA DeleteStep ==
  ASSUME SpareInv, Delete
  PROVE  /\ SpareInv'
         /\ \A n \in Names : files[n].linked /\ ~files'[n].linked =>
              shift + Misread(n) > Slack \/ procs[Recordings[n].pid].of # n
<1> DEFINE m == Head(names)
<1>1. StoreTypes /\ StoreInv /\ PruneInv /\ pc = "delete" /\ pc' = "delete" /\ names # <<>> /\ names' = Tail(names)
      /\ UNCHANGED <<procs, now, shift, cmd, got>>
  BY DEF SpareInv, Delete
<1>2. names \in Seq(Names) /\ \A i \in 1..Len(names) : Spared(names[i])
  BY <1>1 DEF PruneInv
<1>3. /\ Tail(names) \in Seq(Names) /\ m = names[1] /\ 1 \in 1..Len(names) /\ m \in Names
      /\ \A i \in 1..Len(Tail(names)) : Tail(names)[i] = names[i + 1] /\ i + 1 \in 1..Len(names) /\ names[i + 1] \in Names
  BY <1>1, <1>2
<1> HIDE DEF m
<1>4. files' = files \/ files' = [files EXCEPT ![m].linked = FALSE]
  BY DEF Delete, m
<1>a. DOMAIN files' = Names /\ \A n \in Names \ {m} : files'[n] = files[n]
  BY <1>1, <1>4 DEF StoreTypes
<1>b. files'[m] = files[m] \/ files'[m] = Unlinked(files[m])
  <2>1. CASE files' = [files EXCEPT ![m].linked = FALSE]
    <3>1. files'[m] = [files[m] EXCEPT !.linked = FALSE]
      BY <1>1, <1>3, <2>1 DEF StoreTypes
    <3>2. IsFile(files[m])
      BY <1>1, <1>3 DEF StoreTypes
    <3> QED
      BY <3>1, <3>2 DEF IsFile, Unlinked
  <2> QED
    BY <1>4, <2>1
<1>5. /\ DOMAIN files' = Names
      /\ \A n \in Names : files'[n] = files[n] \/ (n = m /\ files'[n] = Unlinked(files[n]))
  BY <1>a, <1>b
<1>6. StoreTypes' /\ StoreInv' /\ Keeps
  BY <1>1, <1>5, CommandKeeps
<1>7. PruneInv'
  <2>1. names' \in Seq(Names) /\ \A i \in 1..Len(names') : Spared(names[i])'
    BY <1>1, <1>2, <1>3, <1>6 DEF Keeps
  <2>2. cmd'.name = "prune" => got' \in Seq(Names) /\ \A i \in 1..Len(got') : Spared(got[i])'
    <3>1. got \in Seq(Names) => \A i \in 1..Len(got) : got[i] \in Names
      OBVIOUS
    <3> QED
      BY <1>1, <1>6, <3>1 DEF Keeps, PruneInv
  <2> QED
    BY <1>1, <2>1, <2>2 DEF PruneInv
<1>8. Spared(m)
  BY <1>2, <1>3
<1> QED
  BY <1>5, <1>6, <1>7, <1>8 DEF SpareInv, Spared, Records

\* A step of anyone's, and what it may remove.
SparesRunning == \A n \in Names : files[n].linked /\ ~files'[n].linked =>
                   shift + Misread(n) > Slack \/ procs[Recordings[n].pid].of # n

\* Each step keeps what prune holds stopped, and removes no running recording.
LEMMA SpareStep ==
  ASSUME SpareInv, [ToolsNext]_toolsVars
  PROVE  SpareInv' /\ SparesRunning
<1>1. CASE EveryoneElse
  <2>1. SpareInv'
    BY <1>1, EveryoneElseStep, ListsKept DEF SpareInv
  <2>2. SparesRunning
    BY <1>1, NobodyElseRemoves DEF SpareInv, SparesRunning
  <2> QED
    BY <2>1, <2>2
<1>2. CASE Delete
  BY <1>2, DeleteStep DEF SparesRunning
<1>3. CASE \/ Main \/ Operator \/ Pruned
           \/ \E i \in DOMAIN work : Scan(i) \/ Release(i)
  <2>1. SpareInv' /\ UNCHANGED files
    BY <1>3, CommandStep DEF Main, Operator
  <2> QED
    BY <2>1 DEF SparesRunning
<1>4. CASE UNCHANGED toolsVars
  <2>1. UNCHANGED <<files, procs, now, shift, cmd, pc, names, got>>
    BY <1>4 DEF toolsVars, store
  <2> QED
    BY <2>1 DEF SpareInv, StoreTypes, StoreInv, PruneInv, Made, Spared, Records, Misread, SparesRunning
<1> QED
  BY <1>1, <1>2, <1>3, <1>4 DEF ToolsNext, EveryoneElse

\* prune removes no recording whose recorder is running, unless the clock was set
\* forward and the local time in its name is read as too early by more than Slack
\* together: for any number of recordings, whatever happens while the operator
\* decides (isActive, collectPruneTargets, deleteTargets).
THEOREM PruneSpares == ToolsSpec => PruneSparesRunning
<1>1. SpareInv /\ [ToolsNext]_toolsVars => SpareInv' /\ SparesRunning
  BY SpareStep
<1>2. SparesRunning => [SparesRunning]_toolsVars
  OBVIOUS
<1> QED
  BY <1>1, <1>2, ToolsInitInv, PTL DEF ToolsSpec, PruneSparesRunning, SparesRunning
-----------------------------------------------------------------------------
(* search                                                                    *)

\* The sequences of s, one behind the other: what the fold that defines it computes.
Flat(s) == FlattenSeq(s)

\* f flattens s.
Flattens(f, s) == f = [i \in 1..Len(s) |-> IF i = 1 THEN s[i] ELSE f[i - 1] \o s[i]]

\* Flat(s) is the last value of a function that flattens s.
LEMMA FlatIs ==
  ASSUME NEW s
  PROVE  Flat(s) = IF Len(s) = 0 THEN s ELSE (CHOOSE f : Flattens(f, s))[Len(s)]
BY DEF Flat, FlattenSeq, Flattens

\* There is such a function.
LEMMA FlatExists ==
  ASSUME NEW B, NEW s \in Seq(Seq(B))
  PROVE  \E f \in [1..Len(s) -> Seq(B)] : Flattens(f, s)
<1> DEFINE n == Len(s)
           Good(f, k) == \A i \in 1..k : f[i] = IF i = 1 THEN s[i] ELSE f[i - 1] \o s[i]
           Missing == {k \in 0..n : ~\E f \in [1..n -> Seq(B)] : Good(f, k)}
<1>0. n \in Nat /\ \A i \in 1..n : s[i] \in Seq(B)
  OBVIOUS
<1>1. ASSUME Missing # {} PROVE FALSE
  <2>1. PICK m \in Missing : \A k \in Missing : m <= k
    <3>1. Missing \subseteq Nat
      BY <1>0
    <3> HIDE DEF Missing
    <3> QED
      BY <1>1, <3>1, Least
  <2>2. m \in 0..n /\ ~\E f \in [1..n -> Seq(B)] : Good(f, m)
    OBVIOUS
  <2>3. m # 0
    <3>1. [i \in 1..n |-> s[i]] \in [1..n -> Seq(B)]
      BY <1>0
    <3>2. Good([i \in 1..n |-> s[i]], 0)
      OBVIOUS
    <3> QED
      BY <2>2, <3>1, <3>2
  <2>4. m - 1 \in 0..n /\ ~(m <= m - 1) /\ m \in 1..n
    BY <1>0, <2>2, <2>3
  <2>4a. m - 1 \in Nat /\ m \in Nat /\ m <= n
    BY <1>0, <2>4
  <2>5. PICK f \in [1..n -> Seq(B)] : Good(f, m - 1)
    <3>1. m - 1 \notin Missing
      <4> HIDE DEF Missing
      <4> QED
        BY <2>1, <2>4
    <3> QED
      BY <2>4, <3>1
  <2> DEFINE g == [i \in 1..n |-> IF i = m THEN IF m = 1 THEN s[m] ELSE f[m - 1] \o s[m] ELSE f[i]]
  <2>6. g \in [1..n -> Seq(B)]
    <3>1. m # 1 => m - 1 \in 1..n /\ f[m - 1] \in Seq(B)
      <4>1. m # 1 => m - 1 \in 1..n
        <5> HIDE DEF Missing
        <5> QED
          BY <1>0, <2>4, <2>4a
      <4> QED
        BY <4>1
    <3>2. m # 1 => f[m - 1] \o s[m] \in Seq(B)
      BY <1>0, <2>4, <3>1
    <3> QED
      BY <1>0, <2>4, <3>2
  <2>7. Good(g, m)
    <3> SUFFICES ASSUME NEW i \in 1..m PROVE g[i] = IF i = 1 THEN s[i] ELSE g[i - 1] \o s[i]
      OBVIOUS
    <3>1. i \in 1..n /\ (i # m => i \in 1..(m - 1)) /\ (i # 1 => i - 1 \in 1..n /\ i - 1 # m)
      BY <1>0, <2>4
    <3> QED
      BY <2>5, <3>1
  <2> QED
    BY <2>2, <2>6, <2>7
<1>2. PICK f \in [1..n -> Seq(B)] : Good(f, n)
  <2>0. Missing = {}
    BY <1>1
  <2>1. n \in 0..n /\ n \notin Missing
    <3> HIDE DEF Missing
    <3> QED
      BY <1>0, <2>0
  <2> QED
    BY <2>1
<1> QED
  BY <1>2 DEF Flattens

\* s and t begin with the same n.
Alike(s, t, n) == \A i \in 1..n : s[i] = t[i]

\* v is what the first k of the blocks s hold, each none or one, in their order.
Picked(v, s, k) ==
  /\ \A j \in 1..Len(v) : \E i \in 1..k : s[i] = <<v[j]>>
  /\ \A i \in 1..k : s[i] # <<>> => \E j \in 1..Len(v) : s[i] = <<v[j]>>
  /\ \A j, l \in 1..Len(v) : j < l => \E i, m \in 1..k : i < m /\ s[i] = <<v[j]>> /\ s[m] = <<v[l]>>

\* A block more.
LEMMA PickedMore ==
  ASSUME NEW B, NEW v \in Seq(B), NEW s, NEW k \in Nat, Picked(v, s, k),
         s[k + 1] = <<>> \/ \E b \in B : s[k + 1] = <<b>>
  PROVE  v \o s[k + 1] \in Seq(B) /\ Picked(v \o s[k + 1], s, k + 1)
<1>0. Len(v) \in Nat
  OBVIOUS
<1>1. \A i \in 1..(k + 1) : i \in 1..k \/ i = k + 1
  OBVIOUS
<1>2. k + 1 \in 1..(k + 1) /\ \A i \in 1..k : i \in 1..(k + 1) /\ i < k + 1
  OBVIOUS
<1>3. CASE s[k + 1] = <<>>
  <2>1. v \o s[k + 1] = v
    BY <1>3, ConcatEmptySeq
  <2>2. \A j \in 1..Len(v) : \E i \in 1..(k + 1) : s[i] = <<v[j]>>
    BY <1>2 DEF Picked
  <2>3. \A i \in 1..(k + 1) : s[i] # <<>> => \E j \in 1..Len(v) : s[i] = <<v[j]>>
    BY <1>1, <1>3 DEF Picked
  <2>4. ASSUME NEW j \in 1..Len(v), NEW l \in 1..Len(v), j < l
        PROVE  \E i, m \in 1..(k + 1) : i < m /\ s[i] = <<v[j]>> /\ s[m] = <<v[l]>>
    <3>1. PICK i \in 1..k, m \in 1..k : i < m /\ s[i] = <<v[j]>> /\ s[m] = <<v[l]>>
      BY <2>4 DEF Picked
    <3> QED
      BY <1>2, <3>1
  <2>5. Picked(v, s, k + 1)
    BY <2>2, <2>3, <2>4 DEF Picked
  <2> QED
    BY <2>1, <2>5
<1>4. ASSUME NEW b \in B, s[k + 1] = <<b>> PROVE v \o s[k + 1] \in Seq(B) /\ Picked(v \o s[k + 1], s, k + 1)
  <2> DEFINE w == v \o <<b>>
             q == Len(v) + 1
  <2>1. w \in Seq(B) /\ Len(w) = q /\ w[q] = b /\ \A j \in 1..Len(v) : w[j] = v[j]
    OBVIOUS
  <2>2. /\ q \in 1..q /\ \A j \in 1..Len(v) : j \in 1..q /\ ~(q < j)
        /\ \A j \in 1..q : j \in 1..Len(v) \/ j = q
    BY <1>0
  <2>2a. ~(q < q)
    BY <1>0
  <2> HIDE DEF w, q
  <2>3. \A j \in 1..q : \E i \in 1..(k + 1) : s[i] = <<w[j]>>
    <3> SUFFICES ASSUME NEW j \in 1..q PROVE \E i \in 1..(k + 1) : s[i] = <<w[j]>>
      OBVIOUS
    <3>1. CASE j = q
      BY <1>2, <1>4, <2>1, <3>1
    <3>2. CASE j \in 1..Len(v)
      <4>1. PICK i \in 1..k : s[i] = <<v[j]>>
        BY <3>2 DEF Picked
      <4> QED
        BY <1>2, <2>1, <3>2, <4>1
    <3> QED
      BY <2>2, <3>1, <3>2
  <2>4. \A i \in 1..(k + 1) : s[i] # <<>> => \E j \in 1..q : s[i] = <<w[j]>>
    <3> SUFFICES ASSUME NEW i \in 1..(k + 1), s[i] # <<>> PROVE \E j \in 1..q : s[i] = <<w[j]>>
      OBVIOUS
    <3>1. CASE i = k + 1
      BY <1>4, <2>1, <2>2, <3>1
    <3>2. CASE i \in 1..k
      <4>1. PICK j \in 1..Len(v) : s[i] = <<v[j]>>
        BY <3>2 DEF Picked
      <4> QED
        BY <2>1, <2>2, <4>1
    <3> QED
      BY <1>1, <3>1, <3>2
  <2>5. ASSUME NEW j \in 1..q, NEW l \in 1..q, j < l
        PROVE  \E i, m \in 1..(k + 1) : i < m /\ s[i] = <<w[j]>> /\ s[m] = <<w[l]>>
    <3>1. j \in 1..Len(v)
      BY <2>2, <2>2a, <2>5
    <3>2. CASE l \in 1..Len(v)
      <4>1. PICK i \in 1..k, m \in 1..k : i < m /\ s[i] = <<v[j]>> /\ s[m] = <<v[l]>>
        BY <2>5, <3>1, <3>2 DEF Picked
      <4> QED
        BY <1>2, <2>1, <3>1, <3>2, <4>1
    <3>3. CASE l = q
      <4>1. PICK i \in 1..k : s[i] = <<v[j]>>
        BY <3>1 DEF Picked
      <4> QED
        BY <1>2, <1>4, <2>1, <3>1, <3>3, <4>1
    <3> QED
      BY <2>2, <3>2, <3>3
  <2>6. Picked(w, s, k + 1)
    BY <2>1, <2>3, <2>4, <2>5 DEF Picked
  <2> QED
    BY <1>4, <2>1, <2>6 DEF w
<1> QED
  BY <1>3, <1>4

\* One behind the other, the blocks are what they hold.
LEMMA FlatPicked ==
  ASSUME NEW B, NEW s \in Seq(Seq(B)),
         \A i \in 1..Len(s) : s[i] = <<>> \/ \E b \in B : s[i] = <<b>>
  PROVE  Flat(s) \in Seq(B) /\ Picked(Flat(s), s, Len(s))
<1> DEFINE n == Len(s)
           f == CHOOSE h : Flattens(h, s)
           Missing == {k \in 1..n : ~(f[k] \in Seq(B) /\ Picked(f[k], s, k))}
<1>0. n \in Nat
  OBVIOUS
<1>1. Flat(s) = IF n = 0 THEN s ELSE f[n]
  BY FlatIs
<1>2. Flattens(f, s)
  BY FlatExists
<1> HIDE DEF f
<1>n. <<>> \in Seq(B) /\ Picked(<<>>, s, 0)
  BY DEF Picked
<1>3. \A k \in 1..n : f[k] = IF k = 1 THEN s[k] ELSE f[k - 1] \o s[k]
  BY <1>2 DEF Flattens
<1>4. ASSUME Missing # {} PROVE FALSE
  <2>1. PICK m \in Missing : \A k \in Missing : m <= k
    <3>1. Missing \subseteq Nat
      BY <1>0
    <3> HIDE DEF Missing
    <3> QED
      BY <1>4, <3>1, Least
  <2>2. m \in 1..n /\ ~(f[m] \in Seq(B) /\ Picked(f[m], s, m))
    OBVIOUS
  <2>3. m - 1 \in Nat /\ (m - 1) + 1 = m /\ ~(m <= m - 1)
    BY <1>0, <2>2
  <2>4. s[m] = <<>> \/ \E b \in B : s[m] = <<b>>
    BY <2>2
  <2>5. CASE m = 1
    <3>1. <<>> \o s[1] = s[1] /\ f[1] = s[1]
      <4>1. s[1] \in Seq(B)
        BY <2>2, <2>5
      <4> QED
        BY <1>3, <2>2, <2>5, <4>1, ConcatEmptySeq
    <3>2. Picked(<<>>, s, m - 1)
      BY <1>n, <2>5
    <3>3. <<>> \o s[m] \in Seq(B) /\ Picked(<<>> \o s[m], s, m)
      BY <1>n, <2>3, <2>4, <3>2, PickedMore
    <3> QED
      BY <2>2, <2>5, <3>1, <3>3
  <2>6. CASE m # 1
    <3>1. m - 1 \in 1..n
      BY <1>0, <2>2, <2>3, <2>6
    <3>2. f[m - 1] \in Seq(B) /\ Picked(f[m - 1], s, m - 1)
      <4>1. m - 1 \notin Missing
        <5> HIDE DEF Missing
        <5> QED
          BY <2>1, <2>3
      <4> QED
        BY <3>1, <4>1
    <3>3. f[m] = f[m - 1] \o s[m]
      BY <1>3, <2>2, <2>6
    <3>4. f[m - 1] \o s[m] \in Seq(B) /\ Picked(f[m - 1] \o s[m], s, m)
      BY <2>3, <2>4, <3>2, PickedMore
    <3> QED
      BY <2>2, <3>3, <3>4
  <2> QED
    BY <2>5, <2>6
<1>5. CASE n = 0
  <2>1. s = <<>>
    BY <1>5
  <2> QED
    BY <1>1, <1>5, <1>n, <2>1
<1>6. CASE n # 0
  <2>1. n \in 1..n
    BY <1>0, <1>6
  <2>2. n \notin Missing
    <3>1. Missing = {}
      BY <1>4
    <3> HIDE DEF Missing
    <3> QED
      BY <3>1
  <2> QED
    BY <1>1, <1>6, <2>1, <2>2
<1> QED
  BY <1>5, <1>6

\* What a sequence is made of, in the order of the store.
Ordered(s) == \A i, j \in 1..Len(s) : i < j => Before(s[i], s[j])

\* Nothing goes out of the store f, and in g no recording says less.
Adds(f, g) ==
  \A n \in Names :
    /\ f[n].hits \in Nat /\ g[n].hits \in Nat /\ f[n].hits <= g[n].hits
    /\ f[n].linked => g[n].linked
    /\ f[n].header => g[n].header /\ g[n].ts = f[n].ts

\* So it is since the command began.
Grown == Adds(first[1], files)

\* The jobs found and those yet to be taken from the list of a user.
Found == got \o names

\* What search found so far: the recordings of the users it is through with, in
\* order, and all of those that were there when it began.
FoundInv ==
  /\ got \in Seq(Names) /\ names \in Seq(Names)
  /\ users \subseteq Users /\ \A u \in users : cmd.user \in {0, u}
  /\ Ordered(Found)
  /\ \A i \in 1..Len(Found) :
       /\ Found[i] \in Scope /\ files[Found[i]].linked
       /\ \A u \in users : Recordings[Found[i]].user < u
  /\ \A n \in Scope : first[1][n].linked => Recordings[n].user \in users \/ \E i \in 1..Len(Found) : Found[i] = n

\* What search has to print, and what it may.
Due(f, n) == Matches(f, n) \/ ~Recordings[n].readable
Right(x) == IF x.unreadable THEN ~Readable(first[1], x.n) ELSE Matches(files, x.n)

\* b is what a worker may have made of recording n.
BlockOf(b, n) ==
  \/ b = <<>> /\ ~Due(first[1], n)
  \/ \E x : b = <<x>> /\ x.n = n /\ Right(x)

\* A job of search, and its block once it was scanned.
JobsInv ==
  /\ users = {} /\ names = <<>>
  /\ DOMAIN work = 1..Len(got)
  /\ \A i \in 1..Len(got) :
       /\ work[i] = [at |-> work[i].at, block |-> work[i].block]
       /\ work[i].at \in {"scanned", "done"} => BlockOf(work[i].block, got[i])

SearchInv ==
  cmd.name = "search" =>
    /\ Grown
    /\ pc \in {"start", "walk", "scan", "done"}
    /\ pc = "start" => got = <<>> /\ names = <<>>
    /\ pc \in {"walk", "scan"} => FoundInv
    /\ pc = "scan" => JobsInv
    /\ pc = "done" => SearchFaithful

\* What a concatenation consists of.
LEMMA ConcatParts ==
  ASSUME NEW S, NEW a \in Seq(S), NEW b \in Seq(S)
  PROVE  /\ a \o b \in Seq(S)
         /\ \A i \in 1..Len(a) : i \in 1..Len(a \o b) /\ (a \o b)[i] = a[i]
         /\ \A j \in 1..Len(b) : Len(a) + j \in 1..Len(a \o b) /\ (a \o b)[Len(a) + j] = b[j]
         /\ \A i \in 1..Len(a \o b) : \/ i \in 1..Len(a) /\ (a \o b)[i] = a[i]
                                      \/ \E j \in 1..Len(b) : i = Len(a) + j /\ (a \o b)[i] = b[j]
<1> DEFINE t == a \o b
<1>1. /\ t \in Seq(S) /\ Len(t) = Len(a) + Len(b) /\ Len(a) \in Nat /\ Len(b) \in Nat
      /\ \A i \in 1..(Len(a) + Len(b)) : t[i] = IF i <= Len(a) THEN a[i] ELSE b[i - Len(a)]
  BY ConcatProperties
<1> HIDE DEF t
<1>2. \A i \in 1..Len(a) : i \in 1..Len(t) /\ t[i] = a[i]
  BY <1>1
<1>3. \A j \in 1..Len(b) : Len(a) + j \in 1..Len(t) /\ t[Len(a) + j] = b[j]
  <2> SUFFICES ASSUME NEW j \in 1..Len(b) PROVE Len(a) + j \in 1..Len(t) /\ t[Len(a) + j] = b[j]
    OBVIOUS
  <2>1. Len(a) + j \in 1..(Len(a) + Len(b)) /\ ~(Len(a) + j <= Len(a)) /\ (Len(a) + j) - Len(a) = j
    BY <1>1
  <2> QED
    BY <1>1, <2>1
<1>4. ASSUME NEW i \in 1..Len(t), i \notin 1..Len(a) PROVE \E j \in 1..Len(b) : i = Len(a) + j /\ t[i] = b[j]
  <2>1. i - Len(a) \in 1..Len(b) /\ i = Len(a) + (i - Len(a)) /\ ~(i <= Len(a)) /\ i \in 1..(Len(a) + Len(b))
    BY <1>1, <1>4
  <2> QED
    BY <1>1, <2>1
<1>5. \A i \in 1..Len(t) : \/ i \in 1..Len(a) /\ t[i] = a[i]
                           \/ \E j \in 1..Len(b) : i = Len(a) + j /\ t[i] = b[j]
  BY <1>2, <1>4
<1> QED
  BY <1>1, <1>2, <1>3, <1>5 DEF t

\* Taking the next name from the list leaves what was found as it is.
LEMMA TakeNext ==
  ASSUME NEW S, NEW a \in Seq(S), NEW b \in Seq(S), b # <<>>
  PROVE  Append(a, Head(b)) \o Tail(b) = a \o b
<1>1. Head(b) \in S /\ Tail(b) \in Seq(S) /\ b = <<Head(b)>> \o Tail(b)
  OBVIOUS
<1>2. Append(a, Head(b)) = a \o <<Head(b)>>
  BY <1>1
<1> QED
  BY <1>1, <1>2, ConcatAssociative

\* A recording is of one of the users, whose numbers are positive.
LEMMA UsersArePositive == Users \subseteq Nat \ {0} /\ \A n \in Names : Recordings[n].user \in Users
BY ToolsAssumption DEF Users, Names

\* The user whose turn it is.
LEMMA NextInTurn ==
  ASSUME users \subseteq Users, users # {}
  PROVE  Min(users) \in users /\ \A v \in users : Min(users) <= v
<1>1. \E x \in users : \A y \in users : x <= y
  BY UsersArePositive, Least
<1> QED
  BY <1>1 DEF Min

\* The next user's recordings come behind those of the users before.
LEMMA NextUserFinds ==
  ASSUME SpareInv, cmd.name = "search", Grown, FoundInv, NextUser
  PROVE  FoundInv'
<1> DEFINE u == Min(users)
           c == castsIn(u)
           t == got \o c
<1>1. /\ names = <<>> /\ users # {} /\ names' = c /\ users' = users \ {u} /\ UNCHANGED <<got, files, first, cmd>>
  BY DEF NextUser, Reads, store
<1>2. /\ got \in Seq(Names) /\ users \subseteq Users /\ (\A v \in users : cmd.user \in {0, v}) /\ Found = got
  BY <1>1, ConcatEmptySeq DEF FoundInv, Found
<1>3. u \in users /\ \A v \in users : u <= v
  BY <1>1, <1>2, NextInTurn
<1>4. /\ c \in Seq(Names) /\ \A j \in 1..Len(c) : c[j] \in Names /\ Recordings[c[j]].user = u /\ files[c[j]].linked
      /\ \A i, j \in 1..Len(c) : i < j => c[i] < c[j]
      /\ \A n \in Names : Recordings[n].user = u /\ files[n].linked => \E i \in 1..Len(c) : c[i] = n
  <2>1. Lines(c, u, Len(Recordings))
    BY ListedLines
  <2>2. \A n \in Names : n <= Len(Recordings)
    BY ToolsAssumption DEF Names
  <2> HIDE DEF c, u
  <2>3. c \in Seq(Names) => \A j \in 1..Len(c) : c[j] \in Names
    OBVIOUS
  <2> QED
    BY <2>1, <2>2, <2>3 DEF Lines
<1>5. Found' = t
  BY <1>1 DEF Found
<1> HIDE DEF u, c
<1>6. /\ t \in Seq(Names)
      /\ \A i \in 1..Len(got) : i \in 1..Len(t) /\ t[i] = got[i]
      /\ \A j \in 1..Len(c) : Len(got) + j \in 1..Len(t) /\ t[Len(got) + j] = c[j]
      /\ \A i \in 1..Len(t) : \/ i \in 1..Len(got) /\ t[i] = got[i]
                              \/ \E j \in 1..Len(c) : i = Len(got) + j /\ t[i] = c[j]
  <2>1. got \in Seq(Names) /\ c \in Seq(Names)
    BY <1>2, <1>4
  <2> QED
    BY <2>1, ConcatParts
<1> HIDE DEF t
<1>7. /\ Ordered(got)
      /\ \A i \in 1..Len(got) : /\ got[i] \in Scope /\ got[i] \in Names /\ files[got[i]].linked
                                /\ \A v \in users : Recordings[got[i]].user < v
      /\ \A n \in Scope : first[1][n].linked => Recordings[n].user \in users \/ \E i \in 1..Len(got) : got[i] = n
  BY <1>2 DEF FoundInv, Scope
<1>8. Len(got) \in Nat
  BY <1>2
<1>9. Ordered(t)
  <2> SUFFICES ASSUME NEW i \in 1..Len(t), NEW j \in 1..Len(t), i < j PROVE Before(t[i], t[j])
    BY DEF Ordered
  <2>1. CASE i \in 1..Len(got) /\ j \in 1..Len(got)
    <3>1. t[i] = got[i] /\ t[j] = got[j]
      BY <1>6, <2>1
    <3> QED
      BY <1>7, <2>1, <3>1 DEF Ordered
  <2>2. CASE i \in 1..Len(got) /\ j \notin 1..Len(got)
    <3>1. t[i] = got[i] /\ \E k \in 1..Len(c) : t[j] = c[k]
      BY <1>6, <2>2
    <3>2. Recordings[t[i]].user < u /\ Recordings[t[j]].user = u
      BY <1>3, <1>4, <1>7, <2>2, <3>1
    <3> QED
      BY <3>2 DEF Before
  <2>3. CASE i \notin 1..Len(got)
    <3>1. PICK k \in 1..Len(c) : i = Len(got) + k /\ t[i] = c[k]
      BY <1>6, <2>3
    <3>2. j \notin 1..Len(got)
      BY <1>8, <3>1
    <3>3. PICK l \in 1..Len(c) : j = Len(got) + l /\ t[j] = c[l]
      BY <1>6, <3>2
    <3>4. k < l
      BY <1>8, <3>1, <3>3
    <3>5. c[k] < c[l] /\ Recordings[c[k]].user = Recordings[c[l]].user
      BY <1>4, <3>4
    <3> QED
      BY <3>1, <3>3, <3>5 DEF Before
  <2> QED
    BY <2>1, <2>2, <2>3
<1>10. ASSUME NEW i \in 1..Len(t)
       PROVE  t[i] \in Scope /\ files[t[i]].linked /\ \A v \in users \ {u} : Recordings[t[i]].user < v
  <2>1. CASE i \in 1..Len(got)
    BY <1>6, <1>7, <2>1
  <2>2. CASE i \notin 1..Len(got)
    <3>1. PICK k \in 1..Len(c) : t[i] = c[k]
      BY <1>6, <2>2
    <3>2. t[i] \in Names /\ Recordings[t[i]].user = u /\ files[t[i]].linked
      BY <1>4, <3>1
    <3>3. \A v \in users \ {u} : u < v
      <4>1. \A v \in users : v \in Nat
        BY <1>2, UsersArePositive
      <4> QED
        BY <1>3, <4>1
    <3> QED
      BY <1>2, <1>3, <3>2, <3>3 DEF Scope
  <2> QED
    BY <2>1, <2>2
<1>11. ASSUME NEW n \in Scope, first[1][n].linked
       PROVE  Recordings[n].user \in users \ {u} \/ \E i \in 1..Len(t) : t[i] = n
  <2>1. n \in Names /\ files[n].linked
    BY <1>11 DEF Scope, Grown, Adds
  <2>2. CASE Recordings[n].user = u
    <3>1. PICK k \in 1..Len(c) : c[k] = n
      BY <1>4, <2>1, <2>2
    <3> QED
      BY <1>6, <3>1
  <2>3. CASE \E i \in 1..Len(got) : got[i] = n
    BY <1>6, <2>3
  <2> QED
    BY <1>7, <1>11, <2>2, <2>3
<1>12. Scope' = Scope /\ \A a, b : Before(a, b)' <=> Before(a, b)
  BY <1>1 DEF Scope, Before
<1>13. /\ got' \in Seq(Names) /\ names' \in Seq(Names) /\ users' \subseteq Users
       /\ \A v \in users' : cmd'.user \in {0, v}
  BY <1>1, <1>2, <1>4
<1>14. Ordered(Found')
  BY <1>5, <1>9
<1>15. \A i \in 1..Len(Found') :
         /\ Found'[i] \in Scope' /\ files'[Found'[i]].linked
         /\ \A v \in users' : Recordings[Found'[i]].user < v
  BY <1>1, <1>5, <1>10, <1>12
<1>16. \A n \in Scope' : first'[1][n].linked =>
         Recordings[n].user \in users' \/ \E i \in 1..Len(Found') : Found'[i] = n
  BY <1>1, <1>5, <1>11, <1>12
<1>17. Ordered(Found)'
  BY <1>14 DEF Ordered, Before
<1> QED
  BY <1>13, <1>15, <1>16, <1>17 DEF FoundInv

\* A file that is added to goes on to match, and to be readable.
LEMMA MatchesStill ==
  ASSUME NEW f, NEW g, Adds(f, g), NEW n \in Names
  PROVE  /\ Matches(f, n) => Matches(g, n)
         /\ Readable(f, n) => Readable(g, n)
<1>1. /\ f[n].hits > 0 => g[n].hits > 0
      /\ f[n].header => g[n].header /\ g[n].ts = f[n].ts
  BY DEF Adds
<1>2. Readable(f, n) => Readable(g, n) /\ g[n].ts = f[n].ts
  BY <1>1 DEF Readable
<1>3. ASSUME Matches(f, n) PROVE Matches(g, n)
  <2>1. /\ Readable(f, n) /\ InWindow(cmd.sel, f[n].ts)
        /\ cmd.all \/ Recordings[n].inCmd \/ f[n].hits > 0
    BY <1>3 DEF Matches
  <2>2. Readable(g, n) /\ InWindow(cmd.sel, g[n].ts)
    BY <1>2, <2>1
  <2> QED
    BY <1>1, <2>1, <2>2 DEF Matches
<1> QED
  BY <1>2, <1>3

\* What is added to what was added is added.
LEMMA AddsOn ==
  ASSUME NEW f, NEW g, NEW h, Adds(f, g), Adds(g, h)
  PROVE  Adds(f, h)
BY DEF Adds

\* The others only add to the store, and leave the command alone.
LEMMA OthersAdd ==
  ASSUME StoreTypes, StoreInv, \A n \in Names : files[n].hits \in Nat, EveryoneElse
  PROVE  /\ UNCHANGED <<cmd, pc, users, names, got, work, out, first>> /\ pc # "done"
         /\ Adds(files, files')
<1>1. UNCHANGED <<cmd, pc, users, names, got, work, out, first>> /\ pc # "done"
  BY DEF EveryoneElse, Others, Record, Header, Write, Die, CloseSession, ReusePid, Tick, SetClock, StoreChunk
<1>2. ASSUME UNCHANGED files PROVE Adds(files, files')
  BY <1>2 DEF Adds
<1>3. ASSUME NEW m \in Names, Record(m) PROVE Adds(files, files')
  <2>1. /\ Only(m) /\ files'[m].linked = TRUE /\ files'[m].hits = files[m].hits
        /\ files'[m].ts = files[m].ts /\ files'[m].header = files[m].header
    BY <1>3, RecordFile
  <2> QED
    BY <2>1 DEF Adds, Only
<1>4. ASSUME NEW m \in Names, Header(m) PROVE Adds(files, files')
  <2>1. /\ Only(m) /\ files'[m].linked = files[m].linked /\ files'[m].hits = files[m].hits
        /\ files'[m].header = TRUE /\ ~files[m].header
    BY <1>4, HeaderFile
  <2> QED
    BY <2>1 DEF Adds, Only
<1>5. ASSUME NEW m \in Names, Write(m) \/ CloseSession(m) PROVE Adds(files, files')
  BY <1>5, OutputFile DEF Adds, Only
<1>6. \/ UNCHANGED files
      \/ \E m \in Names : Record(m) \/ Header(m) \/ Write(m) \/ CloseSession(m)
  BY DEF EveryoneElse, Die, ReusePid, Tick, SetClock, StoreChunk
<1> QED
  BY <1>1, <1>2, <1>3, <1>4, <1>5, <1>6

\* What others do meanwhile leaves search's jobs what they are.
LEMMA OthersStep ==
  ASSUME SpareInv, SearchInv, EveryoneElse
  PROVE  SearchInv'
<1> SUFFICES ASSUME cmd.name = "search" PROVE SearchInv'
  <2>1. cmd' = cmd
    BY DEF EveryoneElse, Others, Record, Header, Write, Die, CloseSession, ReusePid, Tick, SetClock, StoreChunk
  <2> QED
    BY <2>1 DEF SearchInv
<1>1. Grown /\ pc \in {"start", "walk", "scan", "done"} /\ StoreTypes /\ StoreInv
  BY DEF SearchInv, SpareInv
<1>2. /\ UNCHANGED <<cmd, pc, users, names, got, work, out, first>> /\ pc # "done"
      /\ Adds(files, files')
  BY <1>1, OthersAdd DEF Grown, Adds
<1>3. Grown'
  BY <1>1, <1>2, AddsOn DEF Grown
<1>4. FoundInv => FoundInv'
  <2> SUFFICES ASSUME FoundInv PROVE FoundInv'
    OBVIOUS
  <2>1. Found' = Found /\ Scope' = Scope /\ (Ordered(Found)' <=> Ordered(Found))
    BY <1>2 DEF Found, Scope, Ordered, Before
  <2>2. \A i \in 1..Len(Found) : Found[i] \in Scope /\ Found[i] \in Names /\ files'[Found[i]].linked
    BY <1>2 DEF FoundInv, Scope, Adds
  <2> QED
    BY <1>2, <2>1, <2>2 DEF FoundInv
<1>5. FoundInv /\ JobsInv /\ pc = "scan" => JobsInv'
  <2> SUFFICES ASSUME FoundInv, JobsInv, NEW i \in 1..Len(got), work[i].at \in {"scanned", "done"}
               PROVE  BlockOf(work[i].block, got[i])'
    BY <1>2 DEF JobsInv
  <2>1. BlockOf(work[i].block, got[i])
    BY DEF JobsInv
  <2>2. got[i] \in Names
    BY DEF FoundInv
  <2>3. Due(first[1], got[i])' <=> Due(first[1], got[i])
    BY <1>2 DEF Due, Matches, Readable, InWindow
  <2>4. ASSUME NEW x, x.n = got[i], Right(x) PROVE Right(x)'
    <3>1. Readable(first[1], x.n)' <=> Readable(first[1], x.n)
      BY <1>2 DEF Readable
    <3>2. Matches(files, x.n) => Matches(files', x.n)
      BY <1>2, <2>2, <2>4, MatchesStill
    <3>3. Matches(files, x.n)' <=> Matches(files', x.n)
      BY <1>2 DEF Matches, Readable, InWindow
    <3> QED
      BY <2>4, <3>1, <3>2, <3>3 DEF Right
  <2> QED
    BY <1>2, <2>1, <2>3, <2>4 DEF BlockOf
<1> QED
  BY <1>1, <1>2, <1>3, <1>4, <1>5 DEF SearchInv

\* A search that has not begun has no jobs.
LEMMA SearchInit == ToolsInit => SearchInv
<1> SUFFICES ASSUME ToolsInit PROVE SearchInv
  OBVIOUS
<1>1. pc = "start" /\ got = <<>> /\ names = <<>> /\ first[1] = files
  BY DEF ToolsInit
<1>2. \A n \in Names : files[n].hits \in Nat
  <2>1. files = [n \in Names |-> LET r == Recordings[n] IN
                   [linked |-> r.ts >= 0, open |-> FALSE, started |-> IF r.ts >= 0 THEN 1 ELSE 0,
                    header |-> r.ts >= 0, ts |-> Max({r.ts, 0}), hits |-> r.hits, cut |-> FALSE]]
    BY DEF ToolsInit
  <2> SUFFICES ASSUME NEW n \in Names PROVE files[n].hits \in Nat
    OBVIOUS
  <2> DEFINE r == Recordings[n]
             t == Max({r.ts, 0})
  <2>2. r.hits \in Nat
    BY ToolsAssumption DEF Names
  <2>3. files[n] = [linked |-> r.ts >= 0, open |-> FALSE, started |-> IF r.ts >= 0 THEN 1 ELSE 0,
                    header |-> r.ts >= 0, ts |-> t, hits |-> r.hits, cut |-> FALSE]
    BY <2>1
  <2> HIDE DEF r, t
  <2> QED
    BY <2>2, <2>3
<1>3. Grown
  BY <1>1, <1>2 DEF Grown, Adds
<1> QED
  BY <1>1, <1>3 DEF SearchInv

\* When every job is done, what is printed is what the property asks for.
LEMMA BlocksTell ==
  ASSUME cmd.name = "search", Grown, FoundInv, JobsInv,
         Jobs("done") = DOMAIN work,
         NEW o, o = FlattenSeq([i \in DOMAIN work |-> work[i].block])
  PROVE  /\ \A i, j \in DOMAIN o : i < j => Before(o[i].n, o[j].n)
         /\ \A n \in Scope : first[1][n].linked /\ Due(first[1], n) => \E i \in DOMAIN o : o[i].n = n
         /\ \A i \in DOMAIN o : o[i].n \in Scope /\ Right(o[i])
<1> DEFINE L == Len(got)
           s == [i \in 1..L |-> work[i].block]
           B == {s[i][1] : i \in 1..L}
<1>1. /\ got \in Seq(Names) /\ L \in Nat /\ Found = got /\ users = {} /\ DOMAIN work = 1..L
      /\ \A i \in 1..L : got[i] \in Names
  <2>1. got \in Seq(Names) /\ names = <<>> /\ users = {} /\ DOMAIN work = 1..L
    BY DEF FoundInv, JobsInv
  <2> QED
    BY <2>1, ConcatEmptySeq DEF Found
<1>2. /\ \A i \in 1..L : got[i] \in Scope
      /\ \A i, j \in 1..L : i < j => Before(got[i], got[j])
      /\ \A n \in Scope : first[1][n].linked => \E i \in 1..L : got[i] = n
  BY <1>1 DEF FoundInv, Ordered
<1>3. \A i \in 1..L : BlockOf(s[i], got[i])
  <2> SUFFICES ASSUME NEW i \in 1..L PROVE BlockOf(work[i].block, got[i])
    OBVIOUS
  <2>1. work[i].at = "done"
    BY <1>1 DEF Jobs
  <2> QED
    BY <2>1 DEF JobsInv
<1>4. o = Flat(s)
  BY <1>1 DEF Flat
<1>a. DOMAIN s = 1..L /\ s = [i \in 1..L |-> s[i]]
  OBVIOUS
<1> HIDE DEF s
<1>5. \A i \in 1..L : s[i] = <<>> \/ \E b \in B : s[i] = <<b>>
  <2> SUFFICES ASSUME NEW i \in 1..L, s[i] # <<>> PROVE \E b \in B : s[i] = <<b>>
    OBVIOUS
  <2>1. PICK x : s[i] = <<x>>
    BY <1>3 DEF BlockOf
  <2>2. x = s[i][1]
    BY <2>1
  <2> QED
    BY <2>1, <2>2
<1> HIDE DEF B
<1>6. s \in Seq(Seq(B)) /\ Len(s) = L
  <2>1. \A i \in 1..L : s[i] \in Seq(B)
    <3> SUFFICES ASSUME NEW i \in 1..L PROVE s[i] \in Seq(B)
      OBVIOUS
    <3>1. CASE s[i] = <<>>
      BY <3>1
    <3>2. CASE \E b \in B : s[i] = <<b>>
      BY <3>2
    <3> QED
      BY <1>5, <3>1, <3>2
  <2> HIDE DEF L
  <2>2. s \in Seq(Seq(B))
    BY <1>1, <1>a, <2>1, IsASeq
  <2> QED
    BY <1>1, <1>a, <2>2
<1>7. o \in Seq(B) /\ Picked(o, s, L)
  BY <1>4, <1>5, <1>6, FlatPicked
<1>8. DOMAIN o = 1..Len(o)
  BY <1>7
<1>9. \A i \in 1..L : \A x : s[i] = <<x>> => x.n = got[i] /\ Right(x)
  <2> SUFFICES ASSUME NEW i \in 1..L, NEW x, s[i] = <<x>> PROVE x.n = got[i] /\ Right(x)
    OBVIOUS
  <2>0. s[i] # <<>>
    OBVIOUS
  <2>1. PICK y : s[i] = <<y>> /\ y.n = got[i] /\ Right(y)
    BY <1>3, <2>0 DEF BlockOf
  <2>2. x = y
    BY <2>1
  <2> QED
    BY <2>1, <2>2
<1>10. ASSUME NEW i \in 1..Len(o), NEW j \in 1..Len(o), i < j PROVE Before(o[i].n, o[j].n)
  <2>1. PICK k \in 1..L, m \in 1..L : k < m /\ s[k] = <<o[i]>> /\ s[m] = <<o[j]>>
    BY <1>7, <1>10 DEF Picked
  <2>2. o[i].n = got[k] /\ o[j].n = got[m]
    BY <1>9, <2>1
  <2> QED
    BY <1>2, <2>1, <2>2
<1>11. ASSUME NEW n \in Scope, first[1][n].linked, Due(first[1], n) PROVE \E i \in 1..Len(o) : o[i].n = n
  <2>1. PICK k \in 1..L : got[k] = n
    BY <1>2, <1>11
  <2>2. s[k] # <<>>
    <3>1. PICK x : s[k] = <<x>>
      BY <1>3, <1>11, <2>1 DEF BlockOf
    <3> QED
      BY <3>1
  <2>3. PICK j \in 1..Len(o) : s[k] = <<o[j]>>
    BY <1>7, <2>2 DEF Picked
  <2> QED
    BY <1>9, <2>1, <2>3
<1>12. ASSUME NEW i \in 1..Len(o) PROVE o[i].n \in Scope /\ Right(o[i])
  <2>1. PICK k \in 1..L : s[k] = <<o[i]>>
    BY <1>7 DEF Picked
  <2> QED
    BY <1>2, <1>9, <2>1
<1> QED
  BY <1>8, <1>10, <1>11, <1>12

\* A worker takes a recording, scans it, and is done.
LEMMA WorkersStep ==
  ASSUME cmd.name = "search", Grown, FoundInv, JobsInv, pc = "scan",
         NEW i \in DOMAIN work, Spawn(i) \/ Scan(i) \/ Release(i)
  PROVE  JobsInv'
<1>1. /\ DOMAIN work = 1..Len(got) /\ UNCHANGED <<users, names, got, first, files, cmd>>
  BY DEF JobsInv, Spawn, Scan, Release, Reads, store
<1>a. work[i] = [at |-> work[i].at, block |-> work[i].block]
  BY <1>1 DEF JobsInv
<1>b. \A b, n : BlockOf(b, n)' <=> BlockOf(b, n)
  BY <1>1 DEF BlockOf, Due, Right, Matches, Readable, InWindow
<1>2. ASSUME NEW new, work' = [work EXCEPT ![i] = new], new = [at |-> new.at, block |-> new.block],
             new.at \in {"scanned", "done"} => BlockOf(new.block, got[i])
      PROVE  JobsInv'
  <2>1. DOMAIN work' = DOMAIN work /\ work'[i] = new /\ \A j \in DOMAIN work : j # i => work'[j] = work[j]
    BY <1>2
  <2> SUFFICES ASSUME NEW j \in 1..Len(got)
               PROVE  /\ work'[j] = [at |-> work'[j].at, block |-> work'[j].block]
                      /\ work'[j].at \in {"scanned", "done"} => BlockOf(work'[j].block, got[j])
    BY <1>1, <1>b, <2>1 DEF JobsInv
  <2>2. CASE j = i
    BY <1>2, <2>1, <2>2
  <2>3. CASE j # i
    BY <1>1, <2>1, <2>3 DEF JobsInv
  <2> QED
    BY <2>2, <2>3
<1>3. CASE Spawn(i)
  <2> DEFINE new == [at |-> "running", block |-> work[i].block]
  <2>1. work' = [work EXCEPT ![i].at = "running"]
    BY <1>3 DEF Spawn
  <2>2. work' = [work EXCEPT ![i] = new]
    <3>1. work' = [work EXCEPT ![i] = [work[i] EXCEPT !.at = "running"]]
      BY <2>1
    <3>2. [work[i] EXCEPT !.at = "running"] = new
      BY <1>a
    <3> HIDE DEF new
    <3> QED
      BY <3>1, <3>2
  <2>3. new = [at |-> new.at, block |-> new.block] /\ new.at \notin {"scanned", "done"}
    OBVIOUS
  <2> HIDE DEF new
  <2> QED
    BY <1>2, <2>2, <2>3
<1>4. CASE Scan(i)
  <2> DEFINE new == [at |-> "scanned", block |-> scanSession(got[i])]
  <2>1. work' = [work EXCEPT ![i] = new]
    BY <1>4 DEF Scan
  <2>2. new = [at |-> new.at, block |-> new.block] /\ new.block = scanSession(got[i])
    OBVIOUS
  <2>3. BlockOf(scanSession(got[i]), got[i])
    <3>1. got[i] \in Names
      BY <1>1 DEF FoundInv
    <3>0. /\ Readable(first[1], got[i]) => Readable(files, got[i])
          /\ Matches(first[1], got[i]) => Matches(files, got[i])
      BY <3>1, MatchesStill DEF Grown
    <3>2. CASE ~Readable(files, got[i])
      <4> DEFINE x == [n |-> got[i], unreadable |-> TRUE, snips |-> 0]
      <4>1. scanSession(got[i]) = <<x>>
        BY <3>2 DEF scanSession
      <4>2. x.n = got[i] /\ x.unreadable
        OBVIOUS
      <4> HIDE DEF x
      <4>3. Right(x)
        BY <3>0, <3>2, <4>2 DEF Right
      <4> QED
        BY <4>1, <4>2, <4>3 DEF BlockOf
    <3>3. CASE Matches(files, got[i])
      <4> DEFINE x == [n |-> got[i], unreadable |-> FALSE,
                       snips |-> IF cmd.all THEN 0 ELSE Min({MaxSnip, files[got[i]].hits})]
      <4>1. scanSession(got[i]) = <<x>>
        BY <3>3 DEF scanSession, Matches
      <4>2. x.n = got[i] /\ ~x.unreadable
        OBVIOUS
      <4> HIDE DEF x
      <4>3. Right(x)
        BY <3>3, <4>2 DEF Right
      <4> QED
        BY <4>1, <4>2, <4>3 DEF BlockOf
    <3>4. CASE Readable(files, got[i]) /\ ~Matches(files, got[i])
      <4>1. scanSession(got[i]) = <<>>
        BY <3>4 DEF scanSession
      <4>2. ~Due(first[1], got[i])
        BY <3>0, <3>4 DEF Due, Readable
      <4> QED
        BY <4>1, <4>2 DEF BlockOf
    <3> QED
      BY <3>2, <3>3, <3>4
  <2> HIDE DEF new
  <2> QED
    BY <1>2, <2>1, <2>2, <2>3
<1>5. CASE Release(i)
  <2> DEFINE new == [at |-> "done", block |-> work[i].block]
  <2>1. work' = [work EXCEPT ![i].at = "done"] /\ work[i].at = "scanned"
    BY <1>5 DEF Release, Jobs
  <2>2. work' = [work EXCEPT ![i] = new]
    <3>1. work' = [work EXCEPT ![i] = [work[i] EXCEPT !.at = "done"]]
      BY <2>1
    <3>2. [work[i] EXCEPT !.at = "done"] = new
      BY <1>a
    <3> HIDE DEF new
    <3> QED
      BY <3>1, <3>2
  <2>3. new = [at |-> new.at, block |-> new.block] /\ BlockOf(new.block, got[i])
    BY <1>1, <2>1 DEF JobsInv
  <2> HIDE DEF new
  <2> QED
    BY <1>2, <2>2, <2>3
<1> QED
  BY <1>3, <1>4, <1>5

\* A step of the search.
LEMMA SearchStep ==
  ASSUME SpareInv, SearchInv,
         \/ Main \/ Operator \/ Delete \/ Pruned
         \/ \E i \in DOMAIN work : Scan(i) \/ Release(i)
  PROVE  SearchInv'
<1> SUFFICES ASSUME cmd.name = "search" PROVE SearchInv'
  <2>1. cmd' = cmd
    BY DEF Main, Operator, Begin, NextUser, Visit, Walked, Pruned, Gate, Ask, Confirm, PrintBlocks, GroupRuns, Load,
           Loaded, Spawn, Scan, Release, Delete, Reads
  <2> QED
    BY <2>1 DEF SearchInv
<1>0. /\ Grown
      /\ pc \in {"start", "walk", "scan", "done"}
      /\ pc = "start" => got = <<>> /\ names = <<>>
      /\ pc \in {"walk", "scan"} => FoundInv
      /\ pc = "scan" => JobsInv
  BY DEF SearchInv
<1>1. \/ Begin \/ NextUser \/ Visit \/ Walked \/ PrintBlocks
      \/ \E i \in DOMAIN work : Spawn(i) \/ Scan(i) \/ Release(i)
  BY <1>0 DEF Main, Operator, Gate, Ask, Confirm, GroupRuns, Load, Loaded, Delete, Pruned
<1>2. UNCHANGED <<files, cmd>>
  BY <1>1 DEF Begin, NextUser, Visit, Walked, PrintBlocks, Spawn, Scan, Release, Reads, store
<1>3. CASE Begin
  <2>1. /\ pc' = "walk" /\ names' = <<>> /\ got' = <<>> /\ users' = {u \in Users : cmd.user \in {0, u}}
        /\ first'[1] = files
    BY <1>0, <1>3 DEF Begin, Go
  <2>2. Grown'
    BY <1>0, <1>2, <2>1 DEF Grown, Adds
  <2>3. Found' = <<>>
    BY <2>1, ConcatEmptySeq DEF Found
  <2>4. FoundInv'
    <3>1. Ordered(Found)' /\ \A i : i \notin 1..Len(Found')
      BY <2>3 DEF Ordered
    <3>2. \A n \in Scope' : Recordings[n].user \in users'
      BY <1>2, <2>1, UsersArePositive DEF Scope
    <3> QED
      BY <1>2, <2>1, <3>1, <3>2 DEF FoundInv
  <2> QED
    BY <2>1, <2>2, <2>4 DEF SearchInv
<1>g. ASSUME first' = first PROVE Grown'
  BY <1>0, <1>2, <1>g DEF Grown, Adds
<1>4. CASE NextUser
  <2>1. pc = "walk" /\ pc' = "walk" /\ first' = first
    BY <1>4 DEF NextUser, Reads
  <2>2. FoundInv'
    BY <1>0, <1>4, <2>1, NextUserFinds
  <2> QED
    BY <1>g, <2>1, <2>2 DEF SearchInv
<1>f. ASSUME FoundInv, UNCHANGED <<users, first>>, got' \in Seq(Names), names' \in Seq(Names), Found' = Found PROVE FoundInv'
  <2>1. Scope' = Scope /\ (Ordered(Found)' <=> Ordered(Found))
    BY <1>2, <1>f DEF Scope, Ordered, Before
  <2> QED
    BY <1>2, <1>f, <2>1 DEF FoundInv
<1>5. CASE Visit
  <2>1. /\ pc = "walk" /\ pc' = "walk" /\ first' = first /\ users' = users /\ names # <<>>
        /\ got' = Append(got, Head(names)) /\ names' = Tail(names)
    BY <1>5 DEF Visit, Reads
  <2>2. got \in Seq(Names) /\ names \in Seq(Names) /\ FoundInv
    BY <1>0, <2>1 DEF FoundInv
  <2>3. Found' = Found
    BY <2>1, <2>2, TakeNext DEF Found
  <2>4. got' \in Seq(Names) /\ names' \in Seq(Names)
    BY <2>1, <2>2
  <2> QED
    BY <1>f, <1>g, <2>1, <2>2, <2>3, <2>4 DEF SearchInv
<1>6. CASE Walked
  <2>1. /\ pc = "walk" /\ pc' = "scan" /\ names = <<>> /\ users = {} /\ UNCHANGED <<first, users, names, got>>
        /\ work' = [i \in DOMAIN got |-> [at |-> "waiting", block |-> <<>>]]
    BY <1>6 DEF Walked, Go, Reads
  <2>2. FoundInv' /\ DOMAIN got = 1..Len(got)
    BY <1>0, <1>f, <2>1 DEF FoundInv, Found
  <2>3. JobsInv'
    BY <2>1, <2>2 DEF JobsInv
  <2> QED
    BY <1>g, <2>1, <2>2, <2>3 DEF SearchInv
<1>7. ASSUME NEW i \in DOMAIN work, Spawn(i) \/ Scan(i) \/ Release(i) PROVE SearchInv'
  <2>1. pc = "scan" /\ pc' = "scan" /\ UNCHANGED <<first, users, names, got>>
    BY <1>7 DEF Spawn, Scan, Release, Reads
  <2>2. FoundInv'
    BY <1>0, <1>f, <2>1 DEF FoundInv, Found
  <2>3. JobsInv'
    BY <1>0, <1>7, <2>1, WorkersStep
  <2> QED
    BY <1>g, <2>1, <2>2, <2>3 DEF SearchInv
<1>8. CASE PrintBlocks
  <2>1. /\ pc = "scan" /\ pc' = "done" /\ first' = first /\ Jobs("done") = DOMAIN work
        /\ out' = FlattenSeq([i \in DOMAIN work |-> work[i].block])
    BY <1>8 DEF PrintBlocks, Go, Reads
  <2>2. /\ \A i, j \in DOMAIN out' : i < j => Before(out'[i].n, out'[j].n)
        /\ \A n \in Scope : first[1][n].linked /\ Due(first[1], n) => \E i \in DOMAIN out' : out'[i].n = n
        /\ \A i \in DOMAIN out' : out'[i].n \in Scope /\ Right(out'[i])
    BY <1>0, <2>1, BlocksTell
  <2>3. Scope' = Scope /\ \A f, n : (Matches(f, n)' <=> Matches(f, n)) /\ (Readable(f, n)' <=> Readable(f, n))
    BY <1>2 DEF Scope, Matches, Readable, InWindow
  <2>4. SearchFaithful'
    BY <1>2, <2>1, <2>2, <2>3 DEF SearchFaithful, Before, Due, Right
  <2> QED
    BY <1>g, <2>1, <2>4 DEF SearchInv
<1> QED
  BY <1>1, <1>3, <1>4, <1>5, <1>6, <1>7, <1>8

\* search prints the recordings in the order of the store, each once, all that
\* matched when it began, within a line of an event or in the command, and none
\* that does not match now; "(unreadable)" it prints for every damaged header and
\* only for what it could not have read when it began: for any store, any number of
\* workers and whatever is recorded meanwhile (Search, scanSession).
THEOREM SearchTells == ToolsSpec => []SearchFaithful
<1>1. SearchInv => SearchFaithful
  BY DEF SearchInv, SearchFaithful, Printed
<1>2. ASSUME SpareInv, SearchInv, [ToolsNext]_toolsVars PROVE SearchInv'
  <2>1. CASE EveryoneElse
    BY <1>2, <2>1, OthersStep
  <2>2. CASE \/ Main \/ Operator \/ Delete \/ Pruned
             \/ \E i \in DOMAIN work : Scan(i) \/ Release(i)
    BY <1>2, <2>2, SearchStep
  <2>3. CASE UNCHANGED toolsVars
    <3>1. UNCHANGED <<files, cmd, pc, users, names, got, work, out, first>>
      BY <2>3 DEF toolsVars, store
    <3> QED
      <4>1. (Grown' <=> Grown) /\ (FoundInv' <=> FoundInv)
        BY <3>1 DEF Grown, Adds, FoundInv, Found, Ordered, Before, Scope
      <4>2. \A f, n : (Matches(f, n)' <=> Matches(f, n)) /\ (Readable(f, n)' <=> Readable(f, n))
        BY <3>1 DEF Matches, Readable, InWindow
      <4>3. JobsInv' <=> JobsInv
        BY <3>1, <4>2 DEF JobsInv, BlockOf, Due, Right
      <4>4. SearchFaithful' <=> SearchFaithful
        BY <3>1, <4>2 DEF SearchFaithful, Printed, Scope, Before
      <4> QED
        BY <1>2, <3>1, <4>1, <4>3, <4>4 DEF SearchInv
  <2> QED
    BY <1>2, <2>1, <2>2, <2>3 DEF ToolsNext, EveryoneElse
<1>3. SpareInv /\ [ToolsNext]_toolsVars => SpareInv'
  BY SpareStep
<1>4. SpareInv /\ SearchInv /\ [ToolsNext]_toolsVars => SearchInv'
  BY <1>2
<1> QED
  BY <1>1, <1>3, <1>4, ToolsInitInv, SearchInit, PTL DEF ToolsSpec
-----------------------------------------------------------------------------
(* incoming                                                                  *)

\* What groupIntoRuns does with one more task.
AddTask(runs, t) ==
  IF runs # <<>> /\ t.start - Last(runs).to <= GroupGap
  THEN LET cur == Last(runs) IN
       [runs EXCEPT ![Len(runs)] = [from |-> cur.from, to |-> t.start, tasks |-> Append(cur.tasks, t)]]
  ELSE Append(runs, [from |-> t.start, to |-> t.start, tasks |-> <<t>>])

\* g holds the runs made of each prefix of q.
Groups(g, q) == g = [k \in 0..Len(q) |-> IF k = 0 THEN <<>> ELSE AddTask(g[k - 1], q[k])]

\* groupIntoRuns is the last of the lists its recursive function makes.
LEMMA RunsAre ==
  ASSUME NEW q
  PROVE  groupIntoRuns(q) = (CHOOSE g : Groups(g, q))[Len(q)]
BY DEF groupIntoRuns, Groups, AddTask

\* There is such a function.
LEMMA GroupsExist ==
  ASSUME NEW q, Len(q) \in Nat
  PROVE  \E g : Groups(g, q)
<1> DEFINE L == Len(q)
           More(f, n) == AddTask(f[n - 1], q[n])
           Good(f, k) == \A n \in 0..k : f[n] = IF n = 0 THEN <<>> ELSE More(f, n)
           Missing == {k \in 0..L : ~\E f : DOMAIN f = 0..L /\ f = [n \in 0..L |-> f[n]] /\ Good(f, k)}
<1>0. L \in Nat
  OBVIOUS
<1> HIDE DEF L
<1>1. ASSUME Missing # {} PROVE FALSE
  <2>1. PICK m \in Missing : \A k \in Missing : m <= k
    <3>1. Missing \subseteq Nat
      BY <1>0
    <3> HIDE DEF Missing
    <3> QED
      BY <1>1, <3>1, Least
  <2>2. m \in 0..L /\ ~\E f : DOMAIN f = 0..L /\ f = [n \in 0..L |-> f[n]] /\ Good(f, m)
    OBVIOUS
  <2>3. m # 0
    <3> DEFINE e == [n \in 0..L |-> <<>>]
    <3>1. DOMAIN e = 0..L /\ e = [n \in 0..L |-> e[n]] /\ e[0] = <<>>
      BY <1>0
    <3> HIDE DEF e
    <3>2. Good(e, 0)
      BY <3>1
    <3> QED
      BY <2>2, <3>1, <3>2
  <2>4. m - 1 \in 0..L /\ ~(m <= m - 1) /\ m \in 1..L /\ m \in Nat
    BY <1>0, <2>2, <2>3
  <2>5. PICK f : DOMAIN f = 0..L /\ f = [n \in 0..L |-> f[n]] /\ Good(f, m - 1)
    <3>1. m - 1 \notin Missing
      <4> HIDE DEF Missing
      <4> QED
        BY <2>1, <2>4
    <3> QED
      BY <2>4, <3>1
  <2> DEFINE g == [n \in 0..L |-> IF n = m THEN More(f, m) ELSE f[n]]
  <2>6. DOMAIN g = 0..L /\ g = [n \in 0..L |-> g[n]]
    OBVIOUS
  <2>7. Good(g, m)
    <3> SUFFICES ASSUME NEW n \in 0..m PROVE g[n] = IF n = 0 THEN <<>> ELSE More(g, n)
      OBVIOUS
    <3>1. n \in 0..L /\ (n # m => n \in 0..(m - 1)) /\ (n # 0 => n - 1 \in 0..L /\ n - 1 # m)
      BY <1>0, <2>4
    <3>2. (n # 0 => g[n - 1] = f[n - 1]) /\ g[n] = IF n = m THEN More(f, m) ELSE f[n]
      BY <3>1
    <3>3. n # m => f[n] = IF n = 0 THEN <<>> ELSE More(f, n)
      BY <2>5, <3>1
    <3> HIDE DEF g
    <3> QED
      BY <2>4, <3>2, <3>3
  <2> QED
    BY <2>2, <2>6, <2>7
<1>2. PICK f : DOMAIN f = 0..L /\ f = [n \in 0..L |-> f[n]] /\ Good(f, L)
  <2>0. Missing = {}
    BY <1>1
  <2>1. L \in 0..L /\ L \notin Missing
    <3> HIDE DEF Missing
    <3> QED
      BY <1>0, <2>0
  <2> QED
    BY <2>1
<1>3. f = [n \in 0..L |-> IF n = 0 THEN <<>> ELSE More(f, n)]
  BY <1>2
<1> QED
  BY <1>3 DEF Groups, L

\* There are such lists, each made of the one before it and of one more task.
LEMMA RunsBy ==
  ASSUME NEW q, Len(q) \in Nat
  PROVE  \E g : /\ groupIntoRuns(q) = g[Len(q)] /\ g[0] = <<>>
                /\ \A k \in 1..Len(q) : g[k] = AddTask(g[k - 1], q[k])
<1> DEFINE g == CHOOSE f : Groups(f, q)
<1>1. Groups(g, q)
  BY GroupsExist
<1>2. groupIntoRuns(q) = g[Len(q)]
  BY RunsAre
<1> HIDE DEF g
<1>3. g[0] = <<>> /\ \A k \in 1..Len(q) : g[k] = AddTask(g[k - 1], q[k])
  <2> DEFINE L == Len(q)
  <2>1. L \in Nat /\ g = [k \in 0..L |-> IF k = 0 THEN <<>> ELSE AddTask(g[k - 1], q[k])]
    BY <1>1 DEF Groups
  <2> HIDE DEF L
  <2>2. \A k \in 0..L : g[k] = IF k = 0 THEN <<>> ELSE AddTask(g[k - 1], q[k])
    BY <2>1
  <2>3. 0 \in 0..L /\ \A k \in 1..L : k \in 0..L /\ k # 0
    BY <2>1
  <2> QED
    BY <2>2, <2>3 DEF L
<1> QED
  BY <1>2, <1>3

\* A run of tasks of S.
RunOf(S) == [from : Int, to : Int, tasks : Seq(S)]

\* What a run holds once a task is appended to it.
LEMMA AppendSet ==
  ASSUME NEW S, NEW s \in Seq(S), NEW t \in S
  PROVE  ToSet(Append(s, t)) = ToSet(s) \cup {t}
<1>1. /\ DOMAIN s = 1..Len(s) /\ Len(s) \in Nat /\ DOMAIN Append(s, t) = 1..(Len(s) + 1)
      /\ \A i \in 1..Len(s) : Append(s, t)[i] = s[i]
      /\ Append(s, t)[Len(s) + 1] = t
  OBVIOUS
<1> DEFINE a == Append(s, t)
           n == Len(s)
<1> HIDE DEF a, n
<1>2. {a[i] : i \in 1..(n + 1)} = {s[i] : i \in 1..n} \cup {t}
  <2>1. /\ n \in Nat /\ a[n + 1] = t /\ \A i \in 1..n : a[i] = s[i]
    BY <1>1 DEF a, n
  <2>2. n + 1 \in 1..(n + 1) /\ \A i \in 1..(n + 1) : i = n + 1 \/ i \in 1..n
    BY <2>1
  <2>3. \A i \in 1..n : i \in 1..(n + 1)
    BY <2>1
  <2> QED
    BY <2>1, <2>2, <2>3
<1> QED
  BY <1>1, <1>2 DEF ToSet, a, n

\* The next task joins the last run.
Joins(runs, t) == runs # <<>> /\ t.start - runs[Len(runs)].to <= GroupGap

\* new is runs and one task more, in the last run or in one of its own.
MoreBy(new, runs, t, S) ==
  /\ new \in Seq(RunOf(S)) /\ Len(new) = (IF Joins(runs, t) THEN Len(runs) ELSE Len(runs) + 1)
  /\ new[Len(new)].to = t.start
  /\ ToSet(new[Len(new)].tasks) = (IF Joins(runs, t) THEN ToSet(runs[Len(runs)].tasks) ELSE {}) \cup {t}
  /\ \A r \in 1..Len(new) : r # Len(new) => r \in 1..Len(runs) /\ new[r] = runs[r]

\* One task more is put into the last run or begins one.
LEMMA OneMore ==
  ASSUME NEW S, NEW runs \in Seq(RunOf(S)), NEW t \in S, t.start \in Int
  PROVE  MoreBy(AddTask(runs, t), runs, t, S)
<1> DEFINE new == AddTask(runs, t)
           joins == Joins(runs, t)
           R == RunOf(S)
           n == Len(runs)
<1>0. n \in Nat /\ runs \in Seq(R) /\ Last(runs) = runs[n] /\ \A i \in 1..n : runs[i] \in R
  BY DEF Last
<1>1. CASE joins
  <2> DEFINE old == runs[n]
             row == [from |-> old.from, to |-> t.start, tasks |-> Append(old.tasks, t)]
  <2>1. new = [runs EXCEPT ![n] = row] /\ runs # <<>>
    BY <1>0, <1>1 DEF AddTask, Joins
  <2>2. n \in 1..n /\ old \in R
    BY <1>0, <2>1, EmptySeq
  <2>3. row \in R /\ row.to = t.start /\ row.tasks = Append(old.tasks, t) /\ old.tasks \in Seq(S)
    <3>1. old = [from |-> old.from, to |-> old.to, tasks |-> old.tasks] /\ old.from \in Int /\ old.tasks \in Seq(S)
      BY <2>2 DEF RunOf
    <3> HIDE DEF old
    <3>2. Append(old.tasks, t) \in Seq(S)
      BY <3>1
    <3> QED
      BY <3>1, <3>2 DEF RunOf
  <2>4. ToSet(row.tasks) = ToSet(old.tasks) \cup {t}
    BY <2>3, AppendSet
  <2> HIDE DEF row, old, R, new
  <2>5. new \in Seq(R) /\ Len(new) = n /\ new[n] = row /\ \A i \in 1..n : i # n => new[i] = runs[i]
    BY <1>0, <2>1, <2>2, <2>3, ExceptSeq
  <2> QED
    BY <1>1, <2>3, <2>4, <2>5 DEF new, R, old, MoreBy
<1>2. CASE ~joins
  <2> DEFINE row == [from |-> t.start, to |-> t.start, tasks |-> <<t>>]
  <2>1. new = Append(runs, row)
    BY <1>0, <1>2 DEF AddTask, Joins
  <2>2. row \in R /\ row.to = t.start /\ row.tasks = <<t>> /\ <<t>> \in Seq(S)
    BY DEF RunOf
  <2>3. ToSet(<<t>>) = {t}
    BY DEF ToSet
  <2> HIDE DEF row, R, new
  <2>4. /\ new \in Seq(R) /\ Len(new) = n + 1 /\ new[n + 1] = row
        /\ \A i \in 1..(n + 1) : i # n + 1 => i \in 1..n /\ new[i] = runs[i]
    BY <1>0, <2>1, <2>2, AppendProperties
  <2> QED
    BY <1>2, <2>2, <2>3, <2>4 DEF new, R, MoreBy
<1> QED
  BY <1>1, <1>2

\* q[k] follows its predecessor closely enough to be in one run with it.
Follows(q, k) == k # 1 /\ q[k].start - q[k - 1].start <= GroupGap

\* g[k] holds the first k tasks of q, task i in the run that was the last then,
\* and the last run ends with task k.
MadeOf(g, q, S, k) ==
  /\ g[k] \in Seq(RunOf(S)) /\ (k = 0 => g[k] = <<>>)
  /\ k # 0 => /\ g[k][Len(g[k])].to = q[k].start
              /\ Len(g[k]) = (IF Follows(q, k) THEN Len(g[k - 1]) ELSE Len(g[k - 1]) + 1)
  /\ \A j \in 1..k : Len(g[j]) \in 1..Len(g[k])
  /\ \A r \in 1..Len(g[k]) : ToSet(g[k][r].tasks) = {q[i] : i \in {j \in 1..k : Len(g[j]) = r}}

\* One more task joins the last run or begins one; the runs before stay.
LEMMA MadeOfOneMore ==
  ASSUME NEW S, NEW q \in Seq(S), \A i \in 1..Len(q) : q[i].start \in Int,
         NEW g, NEW k \in 1..Len(q), g[k] = AddTask(g[k - 1], q[k]), MadeOf(g, q, S, k - 1)
  PROVE  MadeOf(g, q, S, k)
<1> DEFINE runs == g[k - 1]
           t == q[k]
           m == Len(runs)
           new == g[k]
           n == Len(new)
           joins == Joins(runs, t)
           In(r, i) == {q[h] : h \in {j \in 1..i : Len(g[j]) = r}}
<1>1. /\ k \in Nat \ {0} /\ k - 1 \in Nat /\ runs \in Seq(RunOf(S)) /\ t \in S /\ t.start \in Int /\ m \in Nat
      /\ k - 1 # 0 => runs[m].to = q[k - 1].start
      /\ \A j \in 1..(k - 1) : Len(g[j]) \in 1..m
      /\ \A r \in 1..m : ToSet(runs[r].tasks) = In(r, k - 1)
  <2>1. k \in Nat \ {0} /\ k - 1 \in Nat /\ t \in S /\ t.start \in Int
    OBVIOUS
  <2>2. /\ runs \in Seq(RunOf(S))
        /\ k - 1 # 0 => runs[m].to = q[k - 1].start
        /\ \A j \in 1..(k - 1) : Len(g[j]) \in 1..m
        /\ \A r \in 1..m : ToSet(runs[r].tasks) = In(r, k - 1)
    BY Zenon DEF MadeOf
  <2>3. m \in Nat
    BY <2>2
  <2> QED
    BY Zenon, <2>1, <2>2, <2>3
<1>2. joins <=> Follows(q, k)
  <2>1. CASE k = 1
    <3>1. runs = <<>>
      BY <2>1 DEF MadeOf
    <3> QED
      BY <2>1, <3>1 DEF Follows, Joins
  <2>2. CASE k # 1
    <3>1. k - 1 \in 1..(k - 1) /\ k - 1 # 0
      BY <1>1, <2>2
    <3>2. m \in 1..m /\ runs # <<>>
      BY <1>1, <3>1, EmptySeq
    <3> QED
      BY <1>1, <2>2, <3>1, <3>2 DEF Follows, Joins
  <2> QED
    BY <2>1, <2>2
<1>3. /\ new \in Seq(RunOf(S)) /\ n = (IF joins THEN m ELSE m + 1) /\ new[n].to = t.start
      /\ ToSet(new[n].tasks) = (IF joins THEN ToSet(runs[m].tasks) ELSE {}) \cup {t}
      /\ \A r \in 1..n : r # n => r \in 1..m /\ new[r] = runs[r]
  <2>1. runs \in Seq(RunOf(S)) /\ t \in S /\ t.start \in Int /\ new = AddTask(runs, t)
    BY <1>1
  <2>2. MoreBy(new, runs, t, S)
    BY <2>1, OneMore
  <2> QED
    BY Zenon, <2>2 DEF MoreBy
<1>4. joins => m \in 1..m
  BY <1>1, EmptySeq DEF Joins
<1>5. n \in 1..n /\ n \in Nat /\ m <= n
  BY <1>1, <1>3, <1>4
<1> HIDE DEF joins, new, n, runs, m, t
<1>6. \A j \in 1..k : j # k => j \in 1..(k - 1)
  BY <1>1
<1>7. \A j \in 1..k : Len(g[j]) \in 1..n
  <2> SUFFICES ASSUME NEW j \in 1..k PROVE Len(g[j]) \in 1..n
    OBVIOUS
  <2>1. CASE j = k
    BY <1>5, <2>1 DEF new, n
  <2>2. CASE j # k
    <3>1. Len(g[j]) \in 1..m
      BY <1>1, <1>6, <2>2
    <3> QED
      BY <1>1, <1>5, <3>1
  <2> QED
    BY <2>1, <2>2
<1>8. \A r \in 1..n : In(r, k) = In(r, k - 1) \cup (IF r = n THEN {t} ELSE {})
  <2>1. \A j \in 1..(k - 1) : j \in 1..k /\ j # k
    BY <1>1
  <2>2. k \in 1..k /\ Len(g[k]) = n /\ q[k] = t
    BY <1>1 DEF n, new, t
  <2> QED
    BY <1>6, <2>1, <2>2
<1>9. \A r \in 1..n : ToSet(new[r].tasks) = In(r, k)
  <2> SUFFICES ASSUME NEW r \in 1..n PROVE ToSet(new[r].tasks) = In(r, k)
    OBVIOUS
  <2>0. In(r, k) = In(r, k - 1) \cup (IF r = n THEN {t} ELSE {})
    BY <1>8
  <2>1. \A s \in 1..m : ToSet(runs[s].tasks) = In(s, k - 1)
    BY <1>1
  <2>2. r = n /\ ~joins => In(r, k - 1) = {}
    <3>1. ASSUME r = n, ~joins, NEW j \in 1..(k - 1) PROVE Len(g[j]) # r
      <4>1. Len(g[j]) \in 1..m /\ r = m + 1
        BY <1>1, <1>3, <3>1
      <4> QED
        BY <1>1, <4>1
    <3> QED
      BY <3>1
  <2> HIDE DEF In
  <2>3. CASE r # n
    BY <1>3, <2>0, <2>1, <2>3
  <2>4. CASE r = n /\ joins
    BY <1>3, <1>4, <2>0, <2>1, <2>4
  <2>5. CASE r = n /\ ~joins
    BY <1>3, <2>0, <2>2, <2>5
  <2> QED
    BY <2>3, <2>4, <2>5
<1> QED
  <2>1. n = Len(g[k]) /\ m = Len(g[k - 1]) /\ new = g[k] /\ t = q[k]
    BY DEF n, m, new, t, runs
  <2>2. k # 0
    BY <1>1
  <2> QED
    BY <1>2, <1>3, <1>7, <1>9, <2>1, <2>2 DEF MadeOf

\* So every list is made of the tasks up to its place.
LEMMA MadeOfAll ==
  ASSUME NEW S, NEW q \in Seq(S), \A i \in 1..Len(q) : q[i].start \in Int,
         NEW g, g[0] = <<>>, \A k \in 1..Len(q) : g[k] = AddTask(g[k - 1], q[k])
  PROVE  \A k \in 0..Len(q) : MadeOf(g, q, S, k)
<1> DEFINE L == Len(q)
           Missing == {k \in 0..L : ~MadeOf(g, q, S, k)}
<1>0. L \in Nat
  OBVIOUS
<1>1. MadeOf(g, q, S, 0)
  <2>1. g[0] \in Seq(RunOf(S)) /\ Len(g[0]) = 0
    BY EmptySeq
  <2> QED
    BY <2>1 DEF MadeOf
<1>2. ASSUME Missing # {} PROVE FALSE
  <2>1. PICK m \in Missing : \A k \in Missing : m <= k
    <3>1. Missing \subseteq Nat
      BY <1>0
    <3> HIDE DEF Missing
    <3> QED
      BY <1>2, <3>1, Least
  <2>2. m \in 0..L /\ ~MadeOf(g, q, S, m) /\ m # 0
    BY <1>1
  <2>3. m - 1 \in 0..L /\ ~(m <= m - 1) /\ m \in 1..L
    BY <1>0, <2>2
  <2>4. MadeOf(g, q, S, m - 1)
    BY <2>1, <2>3
  <2> QED
    BY <2>2, <2>3, <2>4, MadeOfOneMore
<1> QED
  BY <1>2

\* The number of the run that task i is put in, by g.
RunOfTask(g, i) == Len(g[i])

\* The runs are numbered in the order of the tasks, and a new number begins
\* where a task does not follow its predecessor.
LEMMA CutWhereNoneFollows ==
  ASSUME NEW S, NEW q, NEW g, NEW L \in Nat, \A k \in 1..L : MadeOf(g, q, S, k),
         NEW i \in 1..L, NEW j \in i..L
  PROVE  /\ RunOfTask(g, i) \in Nat /\ RunOfTask(g, i) <= RunOfTask(g, j)
         /\ RunOfTask(g, i) = RunOfTask(g, j) <=> \A k \in (i + 1)..j : Follows(q, k)
<1> DEFINE N(k) == RunOfTask(g, k)
<1>1. \A k \in 1..L : \A h \in 1..k : N(h) \in 1..N(k)
  BY Zenon DEF MadeOf, RunOfTask
<1>2. \A k \in 1..L : N(k) \in Nat
  <2> SUFFICES ASSUME NEW k \in 1..L PROVE N(k) \in Nat
    OBVIOUS
  <2>1. g[k] \in Seq(RunOf(S))
    BY Zenon DEF MadeOf
  <2> QED
    BY <2>1 DEF RunOfTask
<1>3. \A k \in 1..L : k # 1 => N(k) = (IF Follows(q, k) THEN N(k - 1) ELSE N(k - 1) + 1)
  <2> SUFFICES ASSUME NEW k \in 1..L, k # 1 PROVE N(k) = (IF Follows(q, k) THEN N(k - 1) ELSE N(k - 1) + 1)
    OBVIOUS
  <2>1. k # 0
    OBVIOUS
  <2> QED
    BY Zenon, <2>1 DEF MadeOf, RunOfTask
<1> HIDE DEF N
<1>4. \A k \in 1..L : \A h \in 1..k : N(h) <= N(k)
  <2> SUFFICES ASSUME NEW k \in 1..L, NEW h \in 1..k PROVE N(h) <= N(k)
    OBVIOUS
  <2>1. N(h) \in 1..N(k) /\ N(k) \in Nat
    BY <1>1, <1>2
  <2> QED
    BY <2>1
<1>5. ASSUME NEW k \in (i + 1)..j, ~Follows(q, k) PROVE N(i) # N(j)
  <2>1. k \in 1..L /\ k - 1 \in 1..L /\ k # 1 /\ i \in 1..(k - 1) /\ k \in 1..j /\ j \in 1..L
    OBVIOUS
  <2>2. N(i) <= N(k - 1) /\ N(k) <= N(j) /\ N(k) = N(k - 1) + 1
    BY <1>3, <1>4, <1>5, <2>1
  <2>3. N(i) \in Nat /\ N(j) \in Nat /\ N(k) \in Nat /\ N(k - 1) \in Nat
    BY <1>2, <2>1
  <2> QED
    BY <2>2, <2>3
<1>6. ASSUME \A k \in (i + 1)..j : Follows(q, k) PROVE N(i) = N(j)
  <2> DEFINE Differ == {k \in i..j : N(k) # N(i)}
  <2>1. ASSUME Differ # {} PROVE FALSE
    <3>1. PICK m \in Differ : \A k \in Differ : m <= k
      <4>1. Differ \subseteq Nat
        OBVIOUS
      <4> HIDE DEF Differ
      <4> QED
        BY <2>1, <4>1, Least
    <3>2. m \in i..j /\ N(m) # N(i) /\ m # i
      OBVIOUS
    <3>3. m - 1 \in i..j /\ m \in (i + 1)..j /\ ~(m <= m - 1) /\ m \in 1..L /\ m # 1
      BY <3>2
    <3>4. N(m - 1) = N(i)
      BY <3>1, <3>3
    <3>5. N(m) = N(m - 1)
      BY <1>3, <1>6, <3>3
    <3> QED
      BY <3>2, <3>4, <3>5
  <2>2. j \in i..j
    OBVIOUS
  <2> QED
    BY <2>1, <2>2
<1>7. i \in 1..j /\ j \in 1..L
  OBVIOUS
<1> QED
  BY <1>2, <1>4, <1>5, <1>6, <1>7 DEF N

\* The sequence holds the tasks ts, each once, by start.
LEMMA OrderOf ==
  ASSUME NEW ts, IsFiniteSet(ts), NEW q \in Orders(ts)
  PROVE  /\ q \in Seq(ts) /\ \A t \in ts : \E i \in 1..Len(q) : q[i] = t
         /\ \A i, j \in 1..Len(q) : i < j => q[i] # q[j] /\ q[i].start <= q[j].start
<1> DEFINE n == Cardinality(ts)
<1>0. n \in Nat
  BY FS_CardinalityType
<1> HIDE DEF n
<1>1. /\ q \in [1..n -> ts] /\ \A i, j \in 1..n : i # j => q[i] # q[j]
      /\ \A i, j \in DOMAIN q : i < j => q[i].start <= q[j].start
  BY DEF Orders, SetToSeqs, n
<1>2. q \in Seq(ts) /\ Len(q) = n /\ DOMAIN q = 1..n
  BY <1>0, <1>1
<1>3. q \in Injection(1..n, ts)
  BY <1>1 DEF Injection, IsInjective
<1>4. IsFiniteSet(1..n) /\ Cardinality(1..n) = n
  BY <1>0, FS_Interval
<1>5. q \in Surjection(1..n, ts)
  BY <1>3, <1>4, FS_Injection DEF n
<1>6. \A t \in ts : \E i \in 1..n : q[i] = t
  BY <1>5 DEF Surjection
<1> QED
  BY <1>0, <1>1, <1>2, <1>6

\* The runs split the tasks ts, at the gaps.
SplitsAtGaps(runs, ts) ==
  /\ runs \in Seq(RunOf(ts))
  /\ \A t \in ts : \E r \in 1..Len(runs) : t \in ToSet(runs[r].tasks)
  /\ \A r, s \in 1..Len(runs) : r # s => ToSet(runs[r].tasks) \cap ToSet(runs[s].tasks) = {}
  /\ \A a, b \in ts : a.start <= b.start =>
       ((\E r \in 1..Len(runs) : {a, b} \subseteq ToSet(runs[r].tasks)) <=> Joined(ts, a, b))

\* In whatever order the tasks of the same start come, they are split at the gaps.
LEMMA RunsSplit ==
  ASSUME NEW ts, IsFiniteSet(ts), \A t \in ts : t.start \in Int, NEW q \in Orders(ts)
  PROVE  SplitsAtGaps(groupIntoRuns(q), ts)
<1> DEFINE L == Len(q)
<1>1. /\ q \in Seq(ts) /\ \A t \in ts : \E i \in 1..L : q[i] = t
      /\ \A i, j \in 1..L : i < j => q[i] # q[j] /\ q[i].start <= q[j].start
  BY OrderOf
<1>2. L \in Nat /\ \A i \in 1..L : q[i] \in ts /\ q[i].start \in Int
  BY <1>1
<1>s. \A x \in 1..L : \A y \in x..L : q[x].start <= q[y].start
  <2> SUFFICES ASSUME NEW x \in 1..L, NEW y \in x..L PROVE q[x].start <= q[y].start
    OBVIOUS
  <2>1. y \in 1..L /\ (x = y \/ x < y) /\ q[x].start \in Int
    BY <1>2
  <2> QED
    BY <1>1, <2>1
<1>3. PICK g : groupIntoRuns(q) = g[L] /\ g[0] = <<>> /\ \A k \in 1..L : g[k] = AddTask(g[k - 1], q[k])
  BY <1>2, RunsBy
<1>4. \A k \in 0..L : MadeOf(g, q, ts, k)
  BY <1>1, <1>2, <1>3, MadeOfAll
<1> DEFINE runs == g[L]
           N(i) == RunOfTask(g, i)
           In(r) == {q[i] : i \in {j \in 1..L : N(j) = r}}
<1> HIDE DEF L
<1>5. /\ runs \in Seq(RunOf(ts)) /\ \A j \in 1..L : N(j) \in 1..Len(runs)
      /\ \A r \in 1..Len(runs) : ToSet(runs[r].tasks) = In(r)
  <2>1. MadeOf(g, q, ts, L)
    BY <1>2, <1>4
  <2> QED
    BY Zenon, <2>1 DEF MadeOf, RunOfTask
<1>6. \A i \in 1..L : \A j \in i..L :
        /\ N(i) \in Nat /\ N(i) <= N(j)
        /\ N(i) = N(j) <=> \A k \in (i + 1)..j : Follows(q, k)
  <2>1. \A k \in 1..L : MadeOf(g, q, ts, k)
    BY <1>2, <1>4
  <2> QED
    BY <1>2, <2>1, CutWhereNoneFollows
<1>7. \A i, j \in 1..L : q[i] = q[j] => i = j
  BY <1>1, <1>2
<1> HIDE DEF runs, N
<1>8. \A i \in 1..L, r \in 1..Len(runs) : q[i] \in ToSet(runs[r].tasks) <=> N(i) = r
  <2>1. TAKE i \in 1..L, r \in 1..Len(runs)
  <2>2. ToSet(runs[r].tasks) = In(r)
    BY Zenon, <1>5
  <2>3. q[i] \in In(r) <=> N(i) = r
    BY <1>7
  <2> QED
    BY Zenon, <2>2, <2>3
<1>9. ASSUME NEW t \in ts PROVE \E r \in 1..Len(runs) : t \in ToSet(runs[r].tasks)
  <2>1. PICK i \in 1..L : q[i] = t
    BY <1>1
  <2> QED
    BY <1>5, <1>8, <2>1
<1>10. ASSUME NEW r \in 1..Len(runs), NEW s \in 1..Len(runs), r # s
       PROVE  ToSet(runs[r].tasks) \cap ToSet(runs[s].tasks) = {}
  <2> SUFFICES ASSUME NEW t, t \in ToSet(runs[r].tasks), t \in ToSet(runs[s].tasks) PROVE FALSE
    OBVIOUS
  <2>1. PICK i \in 1..L : q[i] = t
    <3>1. t \in In(r)
      BY Zenon, <1>5
    <3> QED
      BY <3>1
  <2>2. N(i) = r /\ N(i) = s
    BY <1>8, <2>1
  <2> QED
    BY <1>10, <2>2
<1>11. ASSUME NEW i \in 1..L, NEW j \in i..L
       PROVE  N(i) = N(j) <=> Joined(ts, q[i], q[j])
  <2>1. j \in 1..L /\ (N(i) = N(j) <=> \A k \in (i + 1)..j : Follows(q, k))
    BY <1>6
  <2>2. ASSUME \A k \in (i + 1)..j : Follows(q, k), NEW c \in ts, q[i].start <= c.start, c.start < q[j].start
        PROVE  \E d \in ts : c.start < d.start /\ d.start <= c.start + GroupGap
    <3> DEFINE Later == {k \in i..j : c.start < q[k].start}
    <3>1. PICK m \in Later : \A k \in Later : m <= k
      <4>1. Later \subseteq Nat /\ j \in Later
        BY <2>1, <2>2
      <4> HIDE DEF Later
      <4> QED
        BY <4>1, Least
    <3>2. m \in i..j /\ c.start < q[m].start /\ q[i].start \in Int /\ c.start \in Int
      BY <1>2
    <3>3. m # i
      BY <2>2, <3>2
    <3>4. m - 1 \in i..j /\ m \in (i + 1)..j /\ m \in 1..L /\ m - 1 \in 1..L /\ ~(m <= m - 1)
      BY <1>2, <2>1, <3>2, <3>3
    <3>5. ~(c.start < q[m - 1].start)
      BY <3>1, <3>4
    <3>6. q[m].start - q[m - 1].start <= GroupGap
      BY <2>2, <3>4 DEF Follows
    <3>7. q[m].start \in Int /\ q[m - 1].start \in Int /\ q[m] \in ts
      BY <1>2, <3>4
    <3>8. q[m].start <= c.start + GroupGap
      BY <3>2, <3>5, <3>6, <3>7, GapAssumption
    <3> QED
      BY <3>2, <3>7, <3>8
  <2>3. ASSUME Joined(ts, q[i], q[j]), NEW k \in (i + 1)..j, ~Follows(q, k)
        PROVE  FALSE
    <3>1. k \in 1..L /\ k - 1 \in 1..L /\ k # 1 /\ i <= k - 1 /\ k <= j /\ j \in 1..L /\ k \in Nat
      BY <1>2, <2>1
    <3>2. /\ q[k - 1] \in ts /\ q[k].start \in Int /\ q[k - 1].start \in Int /\ q[i].start \in Int /\ q[j].start \in Int
          /\ q[k].start - q[k - 1].start > GroupGap
      BY <1>2, <2>3, <3>1, GapAssumption DEF Follows
    <3>3. q[i].start <= q[k - 1].start /\ q[k].start <= q[j].start
      <4>1. (i = k - 1 \/ i < k - 1) /\ (k = j \/ k < j)
        BY <3>1
      <4> QED
        BY <1>1, <3>1, <3>2, <4>1
    <3>4. q[k - 1].start < q[j].start
      BY <3>2, <3>3, GapAssumption
    <3>5. PICK d \in ts : q[k - 1].start < d.start /\ d.start <= q[k - 1].start + GroupGap
      BY <2>3, <3>2, <3>3, <3>4 DEF Joined
    <3>6. PICK l \in 1..L : q[l] = d
      BY <1>1
    <3>7. q[l].start \in Int /\ q[k - 1].start < q[l].start /\ q[l].start < q[k].start
      BY <1>2, <3>2, <3>5, <3>6, GapAssumption
    <3>8. CASE l <= k - 1
      <4>1. k - 1 \in l..L
        BY <1>2, <3>1, <3>8
      <4>2. q[l].start <= q[k - 1].start
        BY <1>s, <4>1
      <4> QED
        BY <3>2, <3>7, <4>2
    <3>9. CASE k <= l
      <4>1. l \in k..L
        BY <1>2, <3>1, <3>9
      <4>2. q[k].start <= q[l].start
        BY <1>s, <3>1, <4>1
      <4> QED
        BY <3>2, <3>7, <4>2
    <3> QED
      BY <3>1, <3>8, <3>9
  <2> QED
    BY <2>1, <2>2, <2>3 DEF Joined
<1>12. ASSUME NEW a \in ts, NEW b \in ts, a.start <= b.start
       PROVE  (\E r \in 1..Len(runs) : {a, b} \subseteq ToSet(runs[r].tasks)) <=> Joined(ts, a, b)
  <2>1. PICK i \in 1..L : q[i] = a
    BY <1>1
  <2>2. PICK j \in 1..L : q[j] = b
    BY <1>1
  <2>3. (\E r \in 1..Len(runs) : {a, b} \subseteq ToSet(runs[r].tasks)) <=> N(i) = N(j)
    BY <1>5, <1>8, <2>1, <2>2
  <2>4. CASE i <= j
    <3>1. j \in i..L
      BY <2>4
    <3> QED
      BY <1>11, <2>1, <2>2, <2>3, <3>1
  <2>5. CASE j < i
    <3>1. i \in j..L /\ q[j].start <= q[i].start
      BY <1>1, <2>5
    <3>2. a.start = b.start /\ a.start \in Int
      BY <1>2, <1>12, <2>1, <2>2, <3>1
    <3>3. \A c \in ts : ~(a.start <= c.start /\ c.start < b.start) /\ ~(b.start <= c.start /\ c.start < a.start)
      BY <3>2
    <3>4. Joined(ts, a, b) /\ Joined(ts, b, a)
      BY <3>3 DEF Joined
    <3> QED
      BY <1>11, <2>1, <2>2, <2>3, <3>1, <3>4
  <2> QED
    BY <2>4, <2>5
<1>13. SplitsAtGaps(runs, ts)
  <2>1. runs \in Seq(RunOf(ts))
    BY <1>5
  <2> QED
    BY Zenon, <2>1, <1>9, <1>10, <1>12 DEF SplitsAtGaps
<1> QED
  BY <1>3, <1>13 DEF runs, L

Outcomes == {"ok", "changed", "failed"}

\* Sets that have nothing in common.
LEMMA Apart ==
  ASSUME NEW S, NEW T, IsFiniteSet(S), IsFiniteSet(T), S \cap T = {}
  PROVE  IsFiniteSet(S \cup T) /\ Cardinality(S \cup T) = Cardinality(S) + Cardinality(T)
<1>1. IsFiniteSet(S \cup T) /\ Cardinality(S \cup T) = Cardinality(S) + Cardinality(T) - Cardinality(S \cap T)
  BY FS_Union
<1>2. Cardinality(S \cap T) = 0 /\ Cardinality(S) \in Nat /\ Cardinality(T) \in Nat
  BY FS_EmptySet, FS_CardinalityType
<1> QED
  BY <1>1, <1>2

\* The outcomes of a run's tasks add up to their number.
LEMMA RecapAddsUp ==
  ASSUME NEW ts, \A t \in ts : t.result \in Outcomes, NEW tasks \in Seq(ts)
  PROVE  LET n == recap(tasks) IN n["ok"] + n["changed"] + n["failed"] = Len(tasks)
<1> DEFINE L == Len(tasks)
           With(o) == {i \in 1..L : tasks[i].result = o}
           n == recap(tasks)
<1>0. L \in Nat /\ DOMAIN tasks = 1..L /\ \A i \in 1..L : tasks[i].result \in Outcomes
  OBVIOUS
<1>1. n["ok"] = Cardinality(With("ok")) /\ n["changed"] = Cardinality(With("changed")) /\ n["failed"] = Cardinality(With("failed"))
  BY <1>0 DEF recap
<1> HIDE DEF L, n
<1>2. IsFiniteSet(1..L) /\ Cardinality(1..L) = L
  BY <1>0, FS_Interval
<1> DEFINE A == With("ok")
           B == With("changed")
           C == With("failed")
<1>3. IsFiniteSet(A) /\ IsFiniteSet(B) /\ IsFiniteSet(C)
  BY <1>2, FS_Subset
<1>4. 1..L = (A \cup B) \cup C /\ A \cap B = {} /\ (A \cup B) \cap C = {}
  BY <1>0 DEF Outcomes
<1> HIDE DEF A, B, C
<1>5. IsFiniteSet(A \cup B) /\ Cardinality(A \cup B) = Cardinality(A) + Cardinality(B)
  BY <1>3, <1>4, Apart
<1>6. Cardinality((A \cup B) \cup C) = Cardinality(A \cup B) + Cardinality(C)
  BY <1>3, <1>4, <1>5, Apart
<1> QED
  BY <1>1, <1>2, <1>4, <1>5, <1>6 DEF L, n, A, B, C

\* Sessions that can be told apart by their place in the store.
Sessions(ss) ==
  /\ IsFiniteSet(ss)
  /\ \A s \in ss : s.start \in Int /\ s.n \in Nat /\ s.result \in Outcomes
  /\ \A s, r \in ss : s.n = r.n => s = r

\* One of them is the first.
LEMMA EarliestExists ==
  ASSUME NEW ss, Sessions(ss), NEW U, U \subseteq ss, U # {}
  PROVE  \E s \in U : \A r \in U : s.start <= r.start
<1> DEFINE HasFirst(T) == \E s \in T : \A r \in T : s.start <= r.start
           Missing == {c \in Nat : \E T \in SUBSET ss : T # {} /\ Cardinality(T) = c /\ ~HasFirst(T)}
<1>0. /\ \A T \in SUBSET ss : IsFiniteSet(T) /\ Cardinality(T) \in Nat
      /\ \A r \in ss : r.start \in Int
  BY FS_Subset, FS_CardinalityType DEF Sessions
<1>1. ASSUME Missing # {} PROVE FALSE
  <2>1. PICK m \in Missing : \A k \in Missing : m <= k
    <3>1. Missing \subseteq Nat
      OBVIOUS
    <3> HIDE DEF Missing
    <3> QED
      BY <1>1, <3>1, Least
  <2>2. PICK T \in SUBSET ss : T # {} /\ Cardinality(T) = m /\ ~HasFirst(T)
    OBVIOUS
  <2>3. PICK x \in T : TRUE
    BY <2>2
  <2> DEFINE R == T \ {x}
  <2>4. R \in SUBSET ss /\ Cardinality(R) = m - 1 /\ m \in Nat
    BY <1>0, <2>2, <2>3, FS_RemoveElement
  <2>5. R = {} \/ HasFirst(R)
    <3>1. m - 1 \in Nat /\ ~(m <= m - 1)
      BY <1>0, <2>4
    <3>2. m - 1 \notin Missing
      <4> HIDE DEF Missing
      <4> QED
        BY <2>1, <3>1
    <3> HIDE DEF HasFirst, R
    <3> QED
      BY <2>4, <3>1, <3>2
  <2>6. CASE R = {}
    <3>1. \A r \in T : r = x /\ x.start <= r.start
      BY <1>0, <2>2, <2>3, <2>6
    <3> QED
      BY <2>2, <2>3, <3>1
  <2>7. CASE HasFirst(R)
    <3>1. PICK y \in R : \A r \in R : y.start <= r.start
      BY <2>7
    <3>2. /\ y \in T /\ x \in T
          /\ \A r \in T : r.start \in Int
      BY <1>0, <2>2, <2>3
    <3>3. CASE y.start <= x.start
      <4>1. \A r \in T : y.start <= r.start
        BY <3>1, <3>3
      <4> QED
        BY <2>2, <3>2, <4>1
    <3>4. CASE x.start <= y.start
      <4>1. \A r \in R : x.start <= r.start
        BY <3>1, <3>2, <3>4
      <4>2. \A r \in T : x.start <= r.start
        BY <3>2, <4>1
      <4> QED
        BY <2>2, <3>2, <4>2
    <3> QED
      BY <3>2, <3>3, <3>4
  <2> QED
    BY <2>5, <2>6, <2>7
<1>2. Cardinality(U) \in Nat /\ U \in SUBSET ss
  BY <1>0
<1> QED
  BY <1>1, <1>2

\* What the tasks of the sessions are made of.
TasksMade(ts, ss) ==
  /\ IsFiniteSet(ts)
  /\ \A t \in ts : t.start \in Int /\ t.result \in Outcomes /\ t.sessions # {} /\ t.sessions \subseteq ss
  /\ \A s \in ss : s.module # "" => \E t \in ts : t.tmp = s.tmp

\* A task is one of the directory of its execution.
LEMMA TaskIsMade ==
  ASSUME NEW ss, Sessions(ss), NEW x \in ss
  PROVE  LET t == Task(ss, x) IN
         /\ t.tmp = x.tmp /\ t.start \in Int /\ t.result \in Outcomes /\ t.sessions # {} /\ t.sessions \subseteq ss
<1> DEFINE mine == {s \in ss : s.tmp = x.tmp}
           starts == {s.start : s \in mine}
<1>1. mine # {} /\ mine \subseteq ss
  OBVIOUS
<1>2. Task(ss, x) = [tmp |-> x.tmp, start |-> Min(starts), module |-> x.module, result |-> x.result, sessions |-> mine]
  BY DEF Task
<1>3. x.result \in Outcomes
  BY DEF Sessions
<1>4. Min(starts) \in Int
  <2> HIDE DEF mine
  <2>1. PICK a \in mine : \A r \in mine : a.start <= r.start
    BY <1>1, EarliestExists
  <2>2. a.start \in starts /\ \A y \in starts : a.start <= y
    BY <2>1
  <2>3. \A y \in starts : y \in Int
    BY <1>1 DEF Sessions
  <2> HIDE DEF starts
  <2>4. Min(starts) \in starts
    BY <2>2 DEF Min
  <2> QED
    BY <2>3, <2>4
<1> HIDE DEF starts, mine
<1> DEFINE t == Task(ss, x)
<1>5. t.tmp = x.tmp /\ t.start = Min(starts) /\ t.result = x.result /\ t.sessions = mine
  <2>1. \A a, b, c, d, e : LET v == [tmp |-> a, start |-> b, module |-> c, result |-> d, sessions |-> e] IN
          v.tmp = a /\ v.start = b /\ v.result = d /\ v.sessions = e
    OBVIOUS
  <2> HIDE DEF t
  <2> QED
    BY <1>2, <2>1 DEF t
<1> HIDE DEF t
<1>6. t.tmp = x.tmp /\ t.start \in Int /\ t.result \in Outcomes /\ t.sessions # {} /\ t.sessions \subseteq ss
  BY Zenon, <1>1, <1>3, <1>4, <1>5
<1> QED
  BY <1>6 DEF t

\* Every directory with an execution has its task.
LEMMA TasksAreMade ==
  ASSUME NEW ss, Sessions(ss), NEW ts \in buildIncomingTasks(ss)
  PROVE  TasksMade(ts, ss)
<1> DEFINE X == {r \in ss : r.module # ""}
           tmps == {s.tmp : s \in X}
<1>1. PICK f \in [tmps -> ss] : /\ \A t \in tmps : f[t] \in LastExecs(ss, t)
                             /\ ts = {Task(ss, f[t]) : t \in tmps}
  BY DEF buildIncomingTasks
<1>2. \A t \in tmps : f[t] \in ss /\ f[t].tmp = t
  BY <1>1 DEF LastExecs
<1>3. IsFiniteSet(ts)
  <2> DEFINE g == [t \in tmps |-> Task(ss, f[t])]
             h == [s \in X |-> s.tmp]
  <2>1. IsFiniteSet(X)
    BY FS_Subset DEF Sessions
  <2>2. h \in Surjection(X, tmps)
    BY DEF Surjection
  <2>3. g \in Surjection(tmps, ts)
    BY <1>1 DEF Surjection
  <2> HIDE DEF X, tmps, g, h
  <2>4. IsFiniteSet(tmps)
    BY <2>1, <2>2, FS_Surjection
  <2> QED
    BY <2>3, <2>4, FS_Surjection
<1> HIDE DEF tmps
<1>4. ASSUME NEW t \in tmps
      PROVE  LET a == Task(ss, f[t]) IN
             /\ a.tmp = t /\ a.start \in Int /\ a.result \in Outcomes /\ a.sessions # {} /\ a.sessions \subseteq ss
  BY <1>2, TaskIsMade
<1>5. \A a \in ts : a.start \in Int /\ a.result \in Outcomes /\ a.sessions # {} /\ a.sessions \subseteq ss
  BY <1>1, <1>4
<1>6. \A s \in ss : s.module # "" => \E a \in ts : a.tmp = s.tmp
  <2>1. \A s \in ss : s.module # "" => s.tmp \in tmps
    BY DEF tmps
  <2> QED
    BY <1>1, <1>4, <2>1
<1> QED
  BY <1>3, <1>5, <1>6 DEF TasksMade

\* The run of a row was made of the sessions of its user.
Own(row) ==
  \A a \in ToSet(row.tasks) : a.sessions # {} /\ \A s \in a.sessions : Recordings[s.n].user = row.user

\* What incoming prints so far.
OutInv ==
  /\ \E S : out \in Seq(S)
  /\ \A r \in DOMAIN out : Own(out[r])
  /\ CutAtGaps /\ NoTaskTwice /\ OutcomesAddUp

\* What is printed of the runs of user w.
Rows(w, runs) == [r \in DOMAIN runs |-> [user |-> w, tasks |-> runs[r].tasks, recap |-> recap(runs[r].tasks)]]

\* The step prints the tasks ts of user w, and leaves those of the others as
\* they are.
Prints(w, ts) ==
  /\ OutInv' /\ TasksOf(w)' = ts /\ \A u : u # w => TasksOf(u)' = TasksOf(u)
  /\ \A r \in DOMAIN out' : out'[r].user = w \/ \E q \in DOMAIN out : out[q].user = out'[r].user

\* The runs of one more user leave those of the others as they are.
LEMMA RunsAdded ==
  ASSUME OutInv, NEW w, NEW ts, NEW runs, SplitsAtGaps(runs, ts),
         \A t \in ts : t.result \in Outcomes /\ t.sessions # {} /\ \A s \in t.sessions : Recordings[s.n].user = w,
         \A r \in DOMAIN out : out[r].user # w,
         out' = out \o Rows(w, runs)
  PROVE  Prints(w, ts)
<1>n. PICK n : n = Len(out)
  OBVIOUS
<1> DEFINE m == Len(runs)
           Entry(j) == [user |-> w, tasks |-> runs[j].tasks, recap |-> recap(runs[j].tasks)]
           b == [r \in DOMAIN runs |-> Entry(r)]
           In(j) == ToSet(runs[j].tasks)
<1>1. /\ runs \in Seq(RunOf(ts)) /\ m \in Nat /\ DOMAIN runs = 1..m
      /\ \A t \in ts : \E j \in 1..m : t \in In(j)
      /\ \A i, j \in 1..m : i # j => In(i) \cap In(j) = {}
      /\ \A c, d \in ts : c.start <= d.start => ((\E j \in 1..m : {c, d} \subseteq In(j)) <=> Joined(ts, c, d))
  <2>1. runs \in Seq(RunOf(ts))
    BY Zenon DEF SplitsAtGaps
  <2>2. m \in Nat /\ DOMAIN runs = 1..m
    BY <2>1
  <2> QED
    BY Zenon, <2>1, <2>2 DEF SplitsAtGaps
<1>2. \A j \in 1..m : runs[j].tasks \in Seq(ts) /\ In(j) \subseteq ts
  <2> SUFFICES ASSUME NEW j \in 1..m PROVE runs[j].tasks \in Seq(ts) /\ In(j) \subseteq ts
    OBVIOUS
  <2>1. runs[j] \in RunOf(ts)
    BY <1>1
  <2>2. runs[j].tasks \in Seq(ts)
    BY <2>1 DEF RunOf
  <2> QED
    BY <2>2 DEF ToSet
<1>3. PICK S : out \in Seq(S)
  BY DEF OutInv
<1>4. /\ n \in Nat /\ DOMAIN out = 1..n /\ DOMAIN out' = 1..Len(out')
      /\ \A i \in 1..n : i \in DOMAIN out' /\ out'[i] = out[i]
      /\ \A j \in 1..m : n + j \in DOMAIN out' /\ out'[n + j] = Entry(j)
      /\ \A i \in DOMAIN out' : i \in 1..n \/ \E j \in 1..m : i = n + j
      /\ \E X : out' \in Seq(X)
  <2> DEFINE X == S \cup {Entry(j) : j \in 1..m}
  <2>1. out \in Seq(X)
    BY <1>3, SeqMonotonic
  <2>2. b \in Seq(X) /\ Len(b) = m /\ \A j \in 1..m : b[j] = Entry(j)
    BY <1>1
  <2>3. /\ out' \in Seq(X)
        /\ \A i \in 1..n : i \in 1..Len(out') /\ out'[i] = out[i]
        /\ \A j \in 1..m : n + j \in 1..Len(out') /\ out'[n + j] = b[j]
        /\ \A i \in 1..Len(out') : i \in 1..n \/ \E j \in 1..m : i = n + j
    <3>1. out' = out \o b
      BY DEF Rows
    <3> HIDE DEF Entry, b, X, m
    <3>2. out \in Seq(X) /\ b \in Seq(X)
      BY <2>1, <2>2
    <3>3. /\ (out \o b) \in Seq(X)
          /\ \A i \in 1..Len(out) : i \in 1..Len(out \o b) /\ (out \o b)[i] = out[i]
          /\ \A j \in 1..Len(b) : Len(out) + j \in 1..Len(out \o b) /\ (out \o b)[Len(out) + j] = b[j]
          /\ \A i \in 1..Len(out \o b) : \/ i \in 1..Len(out) /\ (out \o b)[i] = out[i]
                                         \/ \E j \in 1..Len(b) : i = Len(out) + j /\ (out \o b)[i] = b[j]
      BY <3>2, ConcatParts
    <3> QED
      BY <1>n, <2>2, <3>1, <3>3
  <2> HIDE DEF X, b, Entry, m
  <2>4. n \in Nat /\ DOMAIN out = 1..n /\ DOMAIN out' = 1..Len(out')
    BY <1>n, <2>1, <2>3
  <2> QED
    BY <2>2, <2>3, <2>4
<1>5. \A j \in 1..m : /\ out'[n + j].user = w /\ out'[n + j].tasks = runs[j].tasks
                      /\ out'[n + j].recap = recap(runs[j].tasks)
  <2> SUFFICES ASSUME NEW j \in 1..m
               PROVE  /\ out'[n + j].user = w /\ out'[n + j].tasks = runs[j].tasks
                      /\ out'[n + j].recap = recap(runs[j].tasks)
    OBVIOUS
  <2>1. out'[n + j] = [user |-> w, tasks |-> runs[j].tasks, recap |-> recap(runs[j].tasks)]
    BY Zenon, <1>4
  <2> QED
    BY <2>1
<1> HIDE DEF m, Entry, b
<1>6. /\ \A i \in 1..n : Tasks(i)' = Tasks(i)
      /\ \A j \in 1..m : Tasks(n + j)' = In(j)
  BY <1>4, <1>5 DEF Tasks
<1>7. \A i \in 1..n : out[i].user # w /\ \A a \in Tasks(i) : a.sessions # {} /\ \A s \in a.sessions : Recordings[s.n].user = out[i].user
  BY <1>4 DEF OutInv, Own, Tasks
<1> HIDE DEF In
<1>8. \A i \in 1..n : \A a \in Tasks(i) : a \notin ts
  <2> SUFFICES ASSUME NEW i \in 1..n, NEW a \in Tasks(i), a \in ts PROVE FALSE
    OBVIOUS
  <2>1. PICK s \in a.sessions : TRUE
    BY <1>7
  <2> QED
    BY <1>7, <2>1
<1>9. TasksOf(w)' = ts
  <2>1. ASSUME NEW t \in ts PROVE t \in TasksOf(w)'
    <3>1. PICK j \in 1..m : t \in In(j)
      BY <1>1
    <3> QED
      BY <1>4, <1>5, <1>6, <3>1 DEF TasksOf
  <2>2. ASSUME NEW t \in TasksOf(w)' PROVE t \in ts
    <3>1. PICK r \in DOMAIN out' : out'[r].user = w /\ t \in Tasks(r)'
      BY <2>2 DEF TasksOf
    <3>2. r \notin 1..n
      BY <1>4, <1>7, <3>1
    <3>3. PICK j \in 1..m : r = n + j
      BY <1>4, <3>2
    <3> QED
      BY <1>2, <1>6, <3>1, <3>3
  <2> QED
    BY <2>1, <2>2
<1>10. \A u : u # w => TasksOf(u)' = TasksOf(u)
  <2> SUFFICES ASSUME NEW u, u # w PROVE TasksOf(u)' = TasksOf(u)
    OBVIOUS
  <2>1. ASSUME NEW t \in TasksOf(u) PROVE t \in TasksOf(u)'
    <3>1. PICK i \in 1..n : out[i].user = u /\ t \in Tasks(i)
      BY <1>4, <2>1 DEF TasksOf
    <3> QED
      BY <1>4, <1>6, <3>1 DEF TasksOf
  <2>2. ASSUME NEW t \in TasksOf(u)' PROVE t \in TasksOf(u)
    <3>1. PICK r \in DOMAIN out' : out'[r].user = u /\ t \in Tasks(r)'
      BY <2>2 DEF TasksOf
    <3>2. r \in 1..n
      BY <1>4, <1>5, <3>1
    <3> QED
      BY <1>4, <1>6, <3>1, <3>2 DEF TasksOf
  <2> QED
    BY <2>1, <2>2
<1>11. \A r \in DOMAIN out' : Own(out'[r])
  <2> SUFFICES ASSUME NEW r \in DOMAIN out' PROVE Own(out'[r])
    OBVIOUS
  <2>1. CASE r \in 1..n
    BY <1>4, <2>1 DEF OutInv
  <2>2. ASSUME NEW j \in 1..m, r = n + j PROVE Own(out'[r])
    <3>1. ToSet(out'[r].tasks) \subseteq ts /\ out'[r].user = w
      BY <1>2, <1>5, <2>2 DEF In
    <3> QED
      BY <3>1 DEF Own
  <2> QED
    BY <1>4, <2>1, <2>2
<1>12. NoTaskTwice'
  <2> SUFFICES ASSUME NEW r \in DOMAIN out', NEW q \in DOMAIN out', r # q, NEW t, t \in Tasks(r)', t \in Tasks(q)'
               PROVE  FALSE
    BY DEF NoTaskTwice
  <2>1. CASE r \in 1..n /\ q \in 1..n
    BY <1>4, <1>6, <2>1 DEF OutInv, NoTaskTwice
  <2>2. CASE r \in 1..n /\ q \notin 1..n
    BY <1>2, <1>4, <1>6, <1>8, <2>2
  <2>3. CASE r \notin 1..n /\ q \in 1..n
    BY <1>2, <1>4, <1>6, <1>8, <2>3
  <2>4. CASE r \notin 1..n /\ q \notin 1..n
    <3>1. PICK i \in 1..m : r = n + i
      BY <1>4, <2>4
    <3>2. PICK j \in 1..m : q = n + j
      BY <1>4, <2>4
    <3> QED
      BY <1>1, <1>6, <3>1, <3>2
  <2> QED
    BY <2>1, <2>2, <2>3, <2>4
<1>13. CutAtGaps'
  <2> SUFFICES ASSUME NEW u \in Users, NEW c \in TasksOf(u)', NEW d \in TasksOf(u)', c.start <= d.start
               PROVE  (\E r \in DOMAIN out' : {c, d} \subseteq Tasks(r)') <=> Joined(TasksOf(u)', c, d)
    BY DEF CutAtGaps, Joined
  <2>1. CASE u = w
    <3>1. c \in ts /\ d \in ts
      BY <1>9, <2>1
    <3>2. ((\E j \in 1..m : {c, d} \subseteq In(j)) <=> Joined(ts, c, d))
      BY <1>1, <3>1
    <3>3. ASSUME NEW r \in DOMAIN out', {c, d} \subseteq Tasks(r)' PROVE \E j \in 1..m : {c, d} \subseteq In(j)
      <4>1. r \notin 1..n
        BY <1>6, <1>8, <3>1, <3>3
      <4>2. PICK j \in 1..m : r = n + j
        BY <1>4, <4>1
      <4> QED
        BY <1>6, <3>3, <4>2
    <3>4. ASSUME NEW j \in 1..m, {c, d} \subseteq In(j) PROVE \E r \in DOMAIN out' : {c, d} \subseteq Tasks(r)'
      BY <1>4, <1>6, <3>4
    <3> QED
      BY <1>9, <2>1, <3>2, <3>3, <3>4
  <2>2. CASE u # w
    <3>1. TasksOf(u)' = TasksOf(u) /\ c \in TasksOf(u) /\ d \in TasksOf(u)
      BY <1>10, <2>2
    <3>2. (\E r \in DOMAIN out : {c, d} \subseteq Tasks(r)) <=> Joined(TasksOf(u), c, d)
      BY <3>1 DEF OutInv, CutAtGaps
    <3>3. c \notin ts
      <4>1. PICK i \in 1..n : c \in Tasks(i)
        BY <1>4, <3>1 DEF TasksOf
      <4> QED
        BY <1>8, <4>1
    <3>4. ASSUME NEW r \in DOMAIN out', {c, d} \subseteq Tasks(r)' PROVE \E q \in DOMAIN out : {c, d} \subseteq Tasks(q)
      <4>1. r \in 1..n
        BY <1>2, <1>4, <1>6, <3>3, <3>4
      <4> QED
        BY <1>4, <1>6, <3>4, <4>1
    <3>5. ASSUME NEW q \in DOMAIN out, {c, d} \subseteq Tasks(q) PROVE \E r \in DOMAIN out' : {c, d} \subseteq Tasks(r)'
      BY <1>4, <1>6, <3>5
    <3> QED
      BY <3>1, <3>2, <3>4, <3>5
  <2> QED
    BY <2>1, <2>2
<1>14. OutcomesAddUp'
  <2> SUFFICES ASSUME NEW r \in DOMAIN out'
               PROVE  LET k == out'[r].recap IN k["ok"] + k["changed"] + k["failed"] = Len(out'[r].tasks)
    BY DEF OutcomesAddUp
  <2>1. CASE r \in 1..n
    BY <1>4, <2>1 DEF OutInv, OutcomesAddUp
  <2>2. ASSUME NEW j \in 1..m, r = n + j PROVE LET k == out'[r].recap IN k["ok"] + k["changed"] + k["failed"] = Len(out'[r].tasks)
    BY <1>2, <1>5, <2>2, RecapAddsUp
  <2> QED
    BY <1>4, <2>1, <2>2
<1>15. OutInv'
  BY <1>4, <1>11, <1>12, <1>13, <1>14 DEF OutInv, Own
<1>16. \A r \in DOMAIN out' : out'[r].user = w \/ \E q \in DOMAIN out : out[q].user = out'[r].user
  BY <1>4, <1>5
<1> QED
  BY <1>9, <1>10, <1>15, <1>16 DEF Prints

\* The recordings of the user whose turn it is, found or yet to be looked at.
Held == ToSet(got) \cup ToSet(names)

\* incoming turns to a user once, and has every execution it is through with in
\* a run.
TurnInv ==
  /\ got \in Seq(Names) /\ names \in Seq(Names)
  /\ users \subseteq Users /\ \A u \in users : cmd.user \in {0, u}
  /\ \A n, m \in Held : Recordings[n].user = Recordings[m].user
  /\ \A n \in Held : Recordings[n].user \notin users /\ \A r \in DOMAIN out : out[r].user # Recordings[n].user
  /\ \A r \in DOMAIN out : out[r].user \notin users
  /\ \A n \in Scope : first[1][n].linked /\ Executes(first[1], n) => Recordings[n].user \in users \/ n \in Held \/ TaskTold(n)

\* Every recording has a time.
Timed == \A n \in Names : files[n].ts \in Int

IncomingInv ==
  cmd.name = "incoming" =>
    /\ Grown /\ Timed
    /\ pc \in {"start", "walk", "done"}
    /\ pc = "start" => got = <<>> /\ names = <<>> /\ out = <<>>
    /\ pc # "start" => OutInv
    /\ pc = "walk" => TurnInv
    /\ pc = "done" => IncomingGroups

\* Nothing is listed before the command is begun.
LEMMA IncomingInit == ToolsInit => IncomingInv
<1> SUFFICES ASSUME ToolsInit PROVE IncomingInv
  OBVIOUS
<1>1. pc = "start" /\ got = <<>> /\ names = <<>> /\ out = <<>> /\ first[1] = files
  BY DEF ToolsInit
<1>2. \A n \in Names : files[n].hits \in Nat /\ files[n].ts \in Int
  <2>1. files = [n \in Names |-> LET r == Recordings[n] IN
                   [linked |-> r.ts >= 0, open |-> FALSE, started |-> IF r.ts >= 0 THEN 1 ELSE 0,
                    header |-> r.ts >= 0, ts |-> Max({r.ts, 0}), hits |-> r.hits, cut |-> FALSE]]
    BY DEF ToolsInit
  <2> SUFFICES ASSUME NEW n \in Names PROVE files[n].hits \in Nat /\ files[n].ts \in Int
    OBVIOUS
  <2> DEFINE r == Recordings[n]
             t == Max({r.ts, 0})
  <2>2. r.hits \in Nat /\ r.ts \in Int
    BY ToolsAssumption DEF Names
  <2>3. t \in Nat
    <3> DEFINE S == {r.ts, 0}
    <3>1. \E x \in S : \A y \in S : x >= y
      BY <2>2
    <3> HIDE DEF S
    <3>2. Max(S) \in S /\ \A y \in S : Max(S) >= y
      BY <3>1 DEF Max
    <3> QED
      BY <2>2, <3>2 DEF S
  <2>4. files[n] = [linked |-> r.ts >= 0, open |-> FALSE, started |-> IF r.ts >= 0 THEN 1 ELSE 0,
                    header |-> r.ts >= 0, ts |-> t, hits |-> r.hits, cut |-> FALSE]
    BY <2>1
  <2> HIDE DEF r, t
  <2> QED
    BY <2>2, <2>3, <2>4
<1>3. Grown /\ Timed
  BY <1>1, <1>2 DEF Grown, Adds, Timed
<1> QED
  BY <1>1, <1>3 DEF IncomingInv

\* Whatever is made or written has a time.
LEMMA TimedStep ==
  ASSUME StoreTypes, StoreInv, Timed, EveryoneElse
  PROVE  Timed'
<1>1. CASE UNCHANGED files
  BY <1>1 DEF Timed
<1>2. ASSUME NEW m \in Names, Record(m) PROVE Timed'
  BY <1>2, RecordFile DEF Timed, Only
<1>3. ASSUME NEW m \in Names, Header(m) PROVE Timed'
  BY <1>3, HeaderFile DEF Timed, Only
<1>4. ASSUME NEW m \in Names, Write(m) \/ CloseSession(m) PROVE Timed'
  BY <1>4, OutputFile DEF Timed, Only
<1>5. \/ UNCHANGED files
      \/ \E m \in Names : Record(m) \/ Header(m) \/ Write(m) \/ CloseSession(m)
  BY DEF EveryoneElse, Die, ReusePid, Tick, SetClock, StoreChunk
<1> QED
  BY <1>1, <1>2, <1>3, <1>4, <1>5

\* What the others do in the store does not change what was found in it.
LEMMA GrownStep ==
  ASSUME StoreTypes, StoreInv, Grown, EveryoneElse
  PROVE  Grown' /\ UNCHANGED <<cmd, pc, users, names, got, work, out, first>> /\ pc # "done"
<1>1. /\ UNCHANGED <<cmd, pc, users, names, got, work, out, first>> /\ pc # "done"
      /\ Adds(files, files')
  BY OthersAdd DEF Grown, Adds
<1>2. Adds(first[1], files')
  BY <1>1, AddsOn DEF Grown
<1> QED
  BY <1>1, <1>2 DEF Grown

\* A step that leaves the command's variables alone keeps what they say.
LEMMA TurnKept ==
  ASSUME UNCHANGED <<cmd, users, names, got, out, first>>
  PROVE  (TurnInv' <=> TurnInv) /\ (OutInv' <=> OutInv) /\ (pc' = pc => (IncomingGroups' <=> IncomingGroups))
<1>1. /\ \A r : Tasks(r)' = Tasks(r)
      /\ \A u : TasksOf(u)' = TasksOf(u)
  BY DEF Tasks, TasksOf
<1>2. \A n : TaskTold(n)' <=> TaskTold(n)
  BY <1>1 DEF TaskTold
<1>3. Held' = Held /\ Scope' = Scope
  BY DEF Held, Scope
<1>4. (CutAtGaps' <=> CutAtGaps) /\ (NoTaskTwice' <=> NoTaskTwice) /\ (OutcomesAddUp' <=> OutcomesAddUp)
  BY <1>1 DEF CutAtGaps, Joined, NoTaskTwice, OutcomesAddUp
<1>5. TurnInv' <=> TurnInv
  BY <1>2, <1>3 DEF TurnInv
<1>6. OutInv' <=> OutInv
  BY <1>4 DEF OutInv, Own
<1>7. pc' = pc => (IncomingGroups' <=> IncomingGroups)
  BY <1>2, <1>3, <1>4 DEF IncomingGroups, Printed
<1> QED
  BY <1>5, <1>6, <1>7

\* The steps that are not incoming's own keep what it has printed.
LEMMA IncomingOthers ==
  ASSUME SpareInv, IncomingInv, EveryoneElse
  PROVE  IncomingInv'
<1>0. UNCHANGED cmd
  BY DEF EveryoneElse, Others, Record, Header, Write, Die, CloseSession, ReusePid, Tick, SetClock, StoreChunk
<1> SUFFICES ASSUME cmd.name = "incoming" PROVE IncomingInv'
  BY <1>0 DEF IncomingInv
<1>1. Grown /\ Timed /\ StoreTypes /\ StoreInv
  BY DEF IncomingInv, SpareInv
<1>2. Grown' /\ Timed' /\ UNCHANGED <<cmd, pc, users, names, got, work, out, first>>
  BY <1>1, TimedStep, GrownStep
<1>3. (TurnInv' <=> TurnInv) /\ (OutInv' <=> OutInv) /\ (IncomingGroups' <=> IncomingGroups)
  BY <1>2, TurnKept
<1> QED
  BY <1>2, <1>3 DEF IncomingInv

\* incoming turns to the next user, with the list of what is there of them.
LEMMA NextUserListed ==
  ASSUME cmd.name = "incoming", Grown, TurnInv, NextUser
  PROVE  TurnInv'
<1> DEFINE u == Min(users)
           c == castsIn(u)
<1>1. /\ names = <<>> /\ got = <<>> /\ users # {} /\ names' = c /\ users' = users \ {u}
      /\ UNCHANGED <<got, files, first, cmd, out>>
  BY DEF NextUser, Reads, store
<1>2. users \subseteq Users /\ (\A v \in users : cmd.user \in {0, v}) /\ u \in users
  <2>1. users \subseteq Users /\ (\A v \in users : cmd.user \in {0, v})
    BY DEF TurnInv
  <2> QED
    BY <1>1, <2>1, NextInTurn
<1>3. /\ c \in Seq(Names) /\ \A n \in ToSet(c) : Recordings[n].user = u
      /\ \A n \in Names : Recordings[n].user = u /\ files[n].linked => n \in ToSet(c)
  <2>1. Lines(c, u, Len(Recordings))
    BY ListedLines
  <2>2. \A n \in Names : n <= Len(Recordings)
    BY ToolsAssumption DEF Names
  <2> HIDE DEF c, u
  <2>3. c \in Seq(Names) => \A j \in 1..Len(c) : c[j] \in Names
    OBVIOUS
  <2>4. /\ c \in Seq(Names) /\ \A j \in 1..Len(c) : Recordings[c[j]].user = u
        /\ \A n \in Names : Recordings[n].user = u /\ files[n].linked => \E i \in 1..Len(c) : c[i] = n
    BY <2>1, <2>2, <2>3 DEF Lines
  <2>5. DOMAIN c = 1..Len(c)
    BY <2>4
  <2> QED
    BY <2>4, <2>5 DEF ToSet
<1> HIDE DEF c, u
<1>4. Held = {} /\ Held' = ToSet(c)
  BY <1>1 DEF Held, ToSet
<1>5. Scope' = Scope /\ \A n : TaskTold(n)' <=> TaskTold(n)
  BY <1>1 DEF Scope, TaskTold, TasksOf, Tasks
<1>6. ASSUME NEW n \in Scope, first[1][n].linked, Executes(first[1], n)
      PROVE  Recordings[n].user \in users' \/ n \in Held' \/ TaskTold(n)
  <2>1. Recordings[n].user \in users \/ TaskTold(n)
    BY <1>4, <1>6 DEF TurnInv
  <2>2. n \in Names /\ files[n].linked
    BY <1>6 DEF Scope, Grown, Adds
  <2> QED
    BY <1>1, <1>3, <1>4, <2>1, <2>2
<1>7. \A n \in Held' : Recordings[n].user \notin users' /\ \A r \in DOMAIN out : out[r].user # Recordings[n].user
  <2>1. \A r \in DOMAIN out : out[r].user # u
    BY <1>2 DEF TurnInv
  <2> QED
    BY <1>1, <1>3, <1>4, <2>1
<1>8. /\ got' \in Seq(Names) /\ names' \in Seq(Names)
      /\ users' \subseteq Users /\ \A v \in users' : cmd'.user \in {0, v}
      /\ \A n, m \in Held' : Recordings[n].user = Recordings[m].user
      /\ \A r \in DOMAIN out' : out'[r].user \notin users'
  <2>1. got \in Seq(Names) /\ \A r \in DOMAIN out : out[r].user \notin users
    BY DEF TurnInv
  <2> QED
    BY <1>1, <1>2, <1>3, <1>4, <2>1
<1> QED
  BY <1>1, <1>5, <1>6, <1>7, <1>8 DEF TurnInv, Executes, Readable

\* A recording is found, or is none of a task.
LEMMA VisitKeeps ==
  ASSUME cmd.name = "incoming", Grown, TurnInv, Visit
  PROVE  TurnInv'
<1> DEFINE n == Head(names)
<1>1. /\ names # <<>> /\ names' = Tail(names) /\ UNCHANGED <<users, out, cmd, first>>
      /\ got' = (IF Readable(files, n) /\ Recordings[n].tmp # "" THEN Append(got, n) ELSE got)
  BY DEF Visit, Reads
<1>2. got \in Seq(Names) /\ names \in Seq(Names) /\ n \in Names /\ Tail(names) \in Seq(Names)
  <2>1. got \in Seq(Names) /\ names \in Seq(Names)
    BY DEF TurnInv
  <2>2. names # <<>>
    BY <1>1
  <2> QED
    BY <2>1, <2>2, HeadTailProperties
<1>3. ToSet(names) = {n} \cup ToSet(Tail(names))
  <2>1. DOMAIN names = 1..Len(names) /\ Len(names) \in Nat \ {0} /\ n = names[1]
        /\ DOMAIN Tail(names) = 1..(Len(names) - 1) /\ \A i \in 1..(Len(names) - 1) : Tail(names)[i] = names[i + 1]
    <3>1. names # <<>> /\ names \in Seq(Names)
      BY <1>1, <1>2
    <3> QED
      BY <3>1, HeadTailProperties
  <2> DEFINE L == Len(names)
             t == Tail(names)
  <2>2. L \in Nat \ {0} /\ \A i \in 1..(L - 1) : t[i] = names[i + 1]
    BY <2>1
  <2> HIDE DEF L, t, n
  <2>3. {names[i] : i \in 1..L} = {names[1]} \cup {t[i] : i \in 1..(L - 1)}
    <3>1. \A i \in 1..L : i = 1 \/ (i - 1 \in 1..(L - 1) /\ t[i - 1] = names[i])
      BY <2>2
    <3>2. 1 \in 1..L /\ \A i \in 1..(L - 1) : i + 1 \in 1..L
      BY <2>2
    <3> QED
      BY <2>2, <3>1, <3>2
  <2> QED
    BY <2>1, <2>3 DEF ToSet, L, t
<1> HIDE DEF n
<1>4. got' \in Seq(Names) /\ ToSet(got') = (IF Readable(files, n) /\ Recordings[n].tmp # "" THEN ToSet(got) \cup {n} ELSE ToSet(got))
  <2>1. Append(got, n) \in Seq(Names) /\ ToSet(Append(got, n)) = ToSet(got) \cup {n}
    BY <1>2, AppendSet
  <2>2. CASE Readable(files, n) /\ Recordings[n].tmp # ""
    BY <1>1, <2>1, <2>2
  <2>3. CASE ~(Readable(files, n) /\ Recordings[n].tmp # "")
    BY <1>1, <1>2, <2>3
  <2> QED
    BY <2>2, <2>3
<1>5. Held' \subseteq Held /\ \A m \in Held : m \in Held' \/ ~Executes(files, m)
  BY <1>1, <1>3, <1>4 DEF Held, Executes
<1>6. Scope' = Scope /\ \A m : TaskTold(m)' <=> TaskTold(m)
  BY <1>1 DEF Scope, TaskTold, TasksOf, Tasks
<1>7. \A m \in Scope : Executes(first[1], m) => Executes(files, m)
  <2> SUFFICES ASSUME NEW m \in Scope PROVE Executes(first[1], m) => Executes(files, m)
    OBVIOUS
  <2>1. Readable(first[1], m) => Readable(files, m)
    BY MatchesStill DEF Scope, Grown
  <2> QED
    BY <2>1 DEF Executes
<1>8. \A m : Executes(first[1], m)' <=> Executes(first[1], m)
  BY <1>1 DEF Executes, Readable
<1> QED
  BY <1>1, <1>2, <1>4, <1>5, <1>6, <1>7, <1>8 DEF TurnInv

\* What was found of a user can be told apart.
LEMMA SessionsOf ==
  ASSUME Timed, got \in Seq(Names)
  PROVE  Sessions({Session(got[i]) : i \in DOMAIN got})
<1> DEFINE ss == {Session(got[i]) : i \in DOMAIN got}
           f == [i \in DOMAIN got |-> Session(got[i])]
<1>1. DOMAIN got = 1..Len(got) /\ Len(got) \in Nat /\ \A i \in DOMAIN got : got[i] \in Names
  OBVIOUS
<1>2. IsFiniteSet(ss)
  <2>1. IsFiniteSet(DOMAIN got)
    BY <1>1, FS_Interval
  <2>2. f \in Surjection(DOMAIN got, ss)
    BY DEF Surjection
  <2> HIDE DEF f, ss
  <2> QED
    BY <2>1, <2>2, FS_Surjection
<1>3. \A n \in Names : /\ Session(n).n = n /\ Session(n).start = files[n].ts - Recordings[n].fold /\ n \in Nat
                       /\ Session(n).result \in {Recordings[n].result, "ok"}
  BY NamesArePositive DEF Session
<1>4. \A n \in Names : files[n].ts \in Int /\ Recordings[n].fold \in Int /\ Recordings[n].result \in Outcomes /\ "ok" \in Outcomes
  BY ToolsAssumption DEF Timed, Names, Outcomes
<1>5. \A s \in ss : \E n \in Names : s = Session(n)
  BY <1>1
<1> HIDE DEF ss
<1>6. \A s \in ss : s.start \in Int /\ s.n \in Nat /\ s.result \in Outcomes
  BY <1>3, <1>4, <1>5
<1>7. \A s, r \in ss : s.n = r.n => s = r
  BY <1>3, <1>5
<1> QED
  BY <1>2, <1>6, <1>7 DEF Sessions, ss

\* The tasks of the user whose turn it was are printed in their runs.
LEMMA GroupRunsTells ==
  ASSUME cmd.name = "incoming", Grown, Timed, OutInv, TurnInv, GroupRuns
  PROVE  OutInv' /\ TurnInv'
<1>1. /\ names = <<>> /\ got # <<>> /\ got' = <<>> /\ UNCHANGED <<users, names, cmd, first, files>>
  BY DEF GroupRuns, Reads, store
<1>2. got \in Seq(Names) /\ Held = ToSet(got) /\ Held' = {}
  <2>1. got \in Seq(Names)
    BY DEF TurnInv
  <2>2. ToSet(<<>>) = {}
    BY DEF ToSet
  <2> QED
    BY <1>1, <2>1, <2>2 DEF Held
<1>3. PICK w : w = Recordings[got[1]].user
  OBVIOUS
<1> DEFINE ss == {Session(got[i]) : i \in DOMAIN got}
<1> DEFINE OfOrder(q) ==
             out' = out \o [r \in DOMAIN groupIntoRuns(q) |->
               [user |-> w, tasks |-> groupIntoRuns(q)[r].tasks, recap |-> recap(groupIntoRuns(q)[r].tasks)]]
<1>4. PICK ts \in buildIncomingTasks(ss) : \E q \in Orders(ts) : OfOrder(q)
  BY <1>3 DEF GroupRuns
<1>5. PICK q \in Orders(ts) : OfOrder(q)
  BY <1>4
<1>6. \A n \in Held : Recordings[n].user = w
  <2>1. got[1] \in Held
    BY <1>1, <1>2 DEF ToSet
  <2> QED
    BY <1>3, <2>1 DEF TurnInv
<1>7. \A s \in ss : \E n \in Held : s = Session(n)
  BY <1>2 DEF ToSet
<1>8. \A n \in Held : Session(n) \in ss
  BY <1>2 DEF ToSet
<1>9. Sessions(ss)
  BY <1>2, SessionsOf
<1> HIDE DEF ss
<1>10. TasksMade(ts, ss)
  BY <1>4, <1>9, TasksAreMade
<1>11. \A s \in ss : Recordings[s.n].user = w
  BY <1>6, <1>7 DEF Session
<1>12. /\ IsFiniteSet(ts) /\ \A t \in ts : t.start \in Int
       /\ \A t \in ts : t.result \in Outcomes /\ t.sessions # {} /\ \A s \in t.sessions : Recordings[s.n].user = w
  BY <1>10, <1>11 DEF TasksMade
<1>13. PICK runs : runs = groupIntoRuns(q)
  OBVIOUS
<1>14. SplitsAtGaps(runs, ts)
  BY <1>12, <1>13, RunsSplit
<1>15. \A r \in DOMAIN out : out[r].user # w
  <2>1. got[1] \in Held
    BY <1>1, <1>2 DEF ToSet
  <2> QED
    BY <1>3, <2>1 DEF TurnInv
<1>16. out' = out \o Rows(w, runs)
  BY <1>5, <1>13 DEF Rows
<1>17. /\ OutInv' /\ TasksOf(w)' = ts /\ \A u : u # w => TasksOf(u)' = TasksOf(u)
       /\ \A r \in DOMAIN out' : out'[r].user = w \/ \E p \in DOMAIN out : out[p].user = out'[r].user
  <2>1. \A t \in ts : t.result \in Outcomes /\ t.sessions # {} /\ \A s \in t.sessions : Recordings[s.n].user = w
    BY <1>12
  <2>2. Prints(w, ts)
    BY <2>1, <1>14, <1>15, <1>16, RunsAdded
  <2> QED
    BY <2>2 DEF Prints
<1>18. TasksOf(w) = {}
  BY <1>15 DEF TasksOf
<1>19. w \notin users
  <2>1. got[1] \in Held
    BY <1>1, <1>2 DEF ToSet
  <2> QED
    BY <1>3, <2>1 DEF TurnInv
<1>20. ASSUME NEW n \in Scope, first[1][n].linked, Executes(first[1], n)
       PROVE  Recordings[n].user \in users \/ TaskTold(n)'
  <2>1. Recordings[n].user \in users \/ n \in Held \/ TaskTold(n)
    BY <1>20 DEF TurnInv
  <2>2. CASE n \in Held
    <3>1. Session(n) \in ss /\ Session(n).module # "" /\ Session(n).tmp = Recordings[n].tmp
      BY <1>8, <1>20, <2>2 DEF Session, Executes
    <3>2. \E t \in ts : t.tmp = Recordings[n].tmp
      BY <1>10, <3>1 DEF TasksMade
    <3>3. TasksOf(Recordings[n].user)' = ts
      BY <1>6, <1>17, <2>2
    <3> QED
      BY <3>2, <3>3 DEF TaskTold
  <2>3. CASE TaskTold(n)
    <3>1. Recordings[n].user # w
      BY <1>18, <2>3 DEF TaskTold
    <3>2. TasksOf(Recordings[n].user)' = TasksOf(Recordings[n].user)
      BY <1>17, <3>1
    <3> QED
      BY <2>3, <3>2 DEF TaskTold
  <2> QED
    BY <2>1, <2>2, <2>3
<1>21. /\ got' \in Seq(Names) /\ names' \in Seq(Names)
       /\ users' \subseteq Users /\ \A v \in users' : cmd'.user \in {0, v}
       /\ \A r \in DOMAIN out' : out'[r].user \notin users'
  <2>1. /\ \A r \in DOMAIN out : out[r].user \notin users
        /\ names \in Seq(Names) /\ users \subseteq Users /\ \A v \in users : cmd.user \in {0, v}
    BY DEF TurnInv
  <2> QED
    BY <1>1, <1>17, <1>19, <2>1
<1>22. Scope' = Scope
  BY <1>1 DEF Scope
<1>23. TurnInv'
  BY <1>1, <1>2, <1>20, <1>21, <1>22 DEF TurnInv, Executes, Readable
<1> QED
  BY <1>17, <1>23

\* A step of incoming.
LEMMA IncomingStep ==
  ASSUME IncomingInv,
         \/ Main \/ Operator \/ Delete \/ Pruned
         \/ \E i \in DOMAIN work : Scan(i) \/ Release(i)
  PROVE  IncomingInv'
<1> SUFFICES ASSUME cmd.name = "incoming" PROVE IncomingInv'
  <2>1. cmd' = cmd
    BY DEF Main, Operator, Begin, NextUser, Visit, Walked, Pruned, Gate, Ask, Confirm, PrintBlocks, GroupRuns, Load,
           Loaded, Spawn, Scan, Release, Delete, Reads
  <2> QED
    BY <2>1 DEF IncomingInv
<1>0. /\ Grown /\ Timed
      /\ pc \in {"start", "walk", "done"}
      /\ pc = "start" => got = <<>> /\ names = <<>> /\ out = <<>>
      /\ pc # "start" => OutInv
      /\ pc = "walk" => TurnInv
  BY DEF IncomingInv
<1>1. Begin \/ NextUser \/ Visit \/ Walked \/ GroupRuns
  BY <1>0 DEF Main, Operator, Gate, Ask, Confirm, PrintBlocks, Load, Loaded, Spawn, Scan, Release, Delete, Pruned
<1>2. UNCHANGED <<files, cmd>>
  BY <1>1 DEF Begin, NextUser, Visit, Walked, GroupRuns, Reads, store
<1>3. Timed'
  BY <1>0, <1>2 DEF Timed
<1>4. CASE Begin
  <2>1. /\ pc' = "walk" /\ names' = <<>> /\ got' = <<>> /\ out' = <<>>
        /\ users' = {u \in Users : cmd.user \in {0, u}} /\ first'[1] = files
    BY <1>0, <1>4 DEF Begin, Go
  <2>2. Grown'
    BY <1>0, <1>2, <2>1 DEF Grown, Adds
  <2>3. Held' = {}
    BY <2>1 DEF Held, ToSet
  <2>4. \A n \in Scope' : Recordings[n].user \in users'
    BY <1>2, <2>1, UsersArePositive DEF Scope
  <2>5. TurnInv'
    BY <1>2, <2>1, <2>3, <2>4 DEF TurnInv
  <2>6. OutInv'
    <3>1. \A u : TasksOf(u)' = {}
      BY <2>1 DEF TasksOf
    <3>2. out' \in Seq({})
      BY <2>1
    <3> QED
      BY <2>1, <3>1, <3>2 DEF OutInv, CutAtGaps, NoTaskTwice, OutcomesAddUp
  <2> QED
    BY <1>3, <2>1, <2>2, <2>5, <2>6 DEF IncomingInv
<1>5. ASSUME first' = first PROVE Grown'
  BY <1>0, <1>2, <1>5 DEF Grown, Adds
<1>6. CASE NextUser \/ Visit
  <2>1. pc = "walk" /\ pc' = "walk" /\ UNCHANGED <<first, out>>
    BY <1>6 DEF NextUser, Visit, Reads
  <2>2. TurnInv'
    BY <1>0, <1>6, <2>1, NextUserListed, VisitKeeps
  <2>3. OutInv'
    <3>1. (\A r : Tasks(r)' = Tasks(r)) /\ \A u : TasksOf(u)' = TasksOf(u)
      BY <2>1 DEF Tasks, TasksOf
    <3>2. (CutAtGaps' <=> CutAtGaps) /\ (NoTaskTwice' <=> NoTaskTwice) /\ (OutcomesAddUp' <=> OutcomesAddUp)
      BY <2>1, <3>1 DEF CutAtGaps, Joined, NoTaskTwice, OutcomesAddUp
    <3> QED
      BY <1>0, <2>1, <3>2 DEF OutInv, Own
  <2> QED
    BY <1>3, <1>5, <2>1, <2>2, <2>3 DEF IncomingInv
<1>7. CASE GroupRuns
  <2>1. pc = "walk" /\ pc' = "walk" /\ first' = first
    BY <1>7 DEF GroupRuns, Reads
  <2>2. OutInv' /\ TurnInv'
    BY <1>0, <1>7, <2>1, GroupRunsTells
  <2> QED
    BY <1>3, <1>5, <2>1, <2>2 DEF IncomingInv
<1>8. CASE Walked
  <2>1. /\ pc = "walk" /\ pc' = "done" /\ names = <<>> /\ users = {} /\ got = <<>>
        /\ UNCHANGED <<first, users, names, got, out, cmd>>
    BY <1>8 DEF Walked, Go, Reads
  <2>2. (TurnInv' <=> TurnInv) /\ (OutInv' <=> OutInv)
    BY <2>1, TurnKept
  <2>3. OutInv' /\ TurnInv'
    BY <1>0, <2>1, <2>2
  <2>4. Held' = {} /\ users' = {}
    BY <2>1 DEF Held, ToSet
  <2>5. IncomingGroups'
    BY <2>3, <2>4 DEF IncomingGroups, OutInv, TurnInv
  <2> QED
    BY <1>3, <1>5, <2>1, <2>3, <2>5 DEF IncomingInv
<1> QED
  BY <1>1, <1>4, <1>6, <1>7, <1>8

\* The runs that incoming infers are the tasks between two gaps, no task is in
\* two, the outcomes add up, and every execution that was there when it began is
\* in one, for any store and whatever is recorded meanwhile (groupIntoRuns,
\* buildIncomingTasks, recap).
THEOREM IncomingTells == ToolsSpec => []IncomingGroups
<1>1. IncomingInv => IncomingGroups
  BY DEF IncomingInv, IncomingGroups, Printed
<1>2. ASSUME SpareInv, IncomingInv, [ToolsNext]_toolsVars PROVE IncomingInv'
  <2>1. CASE EveryoneElse
    BY <1>2, <2>1, IncomingOthers
  <2>2. CASE \/ Main \/ Operator \/ Delete \/ Pruned
             \/ \E i \in DOMAIN work : Scan(i) \/ Release(i)
    BY <1>2, <2>2, IncomingStep
  <2>3. CASE UNCHANGED toolsVars
    <3>1. UNCHANGED <<files, cmd, pc, users, names, got, out, first>>
      BY <2>3 DEF toolsVars, store
    <3>2. (TurnInv' <=> TurnInv) /\ (OutInv' <=> OutInv) /\ (IncomingGroups' <=> IncomingGroups)
      BY <3>1, TurnKept
    <3>3. (Grown' <=> Grown) /\ (Timed' <=> Timed)
      BY <3>1 DEF Grown, Adds, Timed
    <3> QED
      BY <1>2, <3>1, <3>2, <3>3 DEF IncomingInv
  <2> QED
    BY <1>2, <2>1, <2>2, <2>3 DEF ToolsNext, EveryoneElse
<1>3. SpareInv /\ [ToolsNext]_toolsVars => SpareInv'
  BY SpareStep
<1>4. SpareInv /\ IncomingInv /\ [ToolsNext]_toolsVars => IncomingInv'
  BY <1>2
<1> QED
  BY <1>1, <1>3, <1>4, ToolsInitInv, IncomingInit, PTL DEF ToolsSpec
-----------------------------------------------------------------------------
(* tree                                                                      *)

\* The members of S, each at the place that ahead gives it.
Ranked(S, ahead) == [k \in 1..Cardinality(S) |-> CHOOSE i \in S : ahead[i] = k - 1]

\* R orders S, and ahead counts what is in front of each.
Ranks(ahead, S, R) ==
  /\ \A x \in S : <<x, x>> \notin R
  /\ \A x, y, z \in S : <<x, y>> \in R /\ <<y, z>> \in R => <<x, z>> \in R
  /\ \A x, y \in S : x = y \/ <<x, y>> \in R \/ <<y, x>> \in R
  /\ ahead = [i \in S |-> Cardinality({j \in S : <<j, i>> \in R})]

\* By the number of those in front, every member has its place: no two have the
\* same, since what is behind another has more in front of it.
LEMMA RankPlaces ==
  ASSUME NEW S, IsFiniteSet(S), NEW R, NEW ahead, Ranks(ahead, S, R)
  PROVE  /\ Ranked(S, ahead) \in Seq(S) /\ Len(Ranked(S, ahead)) = Cardinality(S)
         /\ \A k \in 1..Cardinality(S) : ahead[Ranked(S, ahead)[k]] = k - 1
         /\ \A i \in S : ahead[i] \in Nat /\ ahead[i] < Cardinality(S)
         /\ \A i, j \in S : i # j => ahead[i] # ahead[j]
<1> DEFINE n == Cardinality(S)
           Prior(i) == {j \in S : <<j, i>> \in R}
           q == Ranked(S, ahead)
<1>0. n \in Nat
  BY FS_CardinalityType
<1>1. \A i \in S : Prior(i) \subseteq S /\ i \notin Prior(i)
  BY DEF Ranks
<1>2. \A i \in S : IsFiniteSet(Prior(i)) /\ Cardinality(Prior(i)) \in Nat /\ Cardinality(Prior(i)) < n
  <2> SUFFICES ASSUME NEW i \in S
               PROVE  IsFiniteSet(Prior(i)) /\ Cardinality(Prior(i)) \in Nat /\ Cardinality(Prior(i)) < n
    OBVIOUS
  <2>1. Prior(i) \subseteq S /\ Prior(i) # S
    BY <1>1
  <2> HIDE DEF Prior
  <2>2. IsFiniteSet(Prior(i)) /\ Cardinality(Prior(i)) \in Nat
    BY <2>1, FS_Subset, FS_CardinalityType
  <2>3. Cardinality(Prior(i)) <= n /\ (Cardinality(Prior(i)) = n => Prior(i) = S)
    BY <2>1, FS_Subset
  <2> QED
    BY <1>0, <2>1, <2>2, <2>3
<1>3. \A i \in S : ahead[i] = Cardinality(Prior(i))
  BY DEF Ranks
<1>4. \A i, j \in S : <<i, j>> \in R => ahead[i] < ahead[j]
  <2> SUFFICES ASSUME NEW i \in S, NEW j \in S, <<i, j>> \in R PROVE ahead[i] < ahead[j]
    OBVIOUS
  <2>1. Prior(i) \subseteq Prior(j) /\ i \in Prior(j) /\ i \notin Prior(i)
    BY DEF Ranks
  <2> HIDE DEF Prior
  <2>2. Prior(i) # Prior(j)
    BY <2>1
  <2>3. Cardinality(Prior(i)) <= Cardinality(Prior(j)) /\ Cardinality(Prior(i)) # Cardinality(Prior(j))
    BY <1>2, <2>1, <2>2, FS_Subset
  <2> QED
    BY <1>2, <1>3, <2>3
<1>5. \A i \in S : ahead[i] \in Nat /\ ahead[i] < n
  BY <1>2, <1>3
<1>6. \A i, j \in S : i # j => ahead[i] # ahead[j]
  <2> SUFFICES ASSUME NEW i \in S, NEW j \in S, i # j PROVE ahead[i] # ahead[j]
    OBVIOUS
  <2>1. <<i, j>> \in R \/ <<j, i>> \in R
    BY Zenon DEF Ranks
  <2> QED
    BY <1>4, <1>5, <2>1
<1> DEFINE place == [i \in S |-> ahead[i] + 1]
<1>7. /\ place \in [S -> 1..n] /\ \A i, j \in S : i # j => place[i] # place[j]
  BY <1>0, <1>5, <1>6
<1>8. place \in Surjection(S, 1..n)
  <2>1. place \in Injection(S, 1..n)
    BY <1>7 DEF Injection, IsInjective
  <2>2. IsFiniteSet(1..n) /\ Cardinality(1..n) = n
    BY <1>0, FS_Interval
  <2> HIDE DEF place
  <2> QED
    BY <2>1, <2>2, FS_Injection
<1>9. \A k \in 1..n : \E i \in S : ahead[i] = k - 1
  <2> SUFFICES ASSUME NEW k \in 1..n PROVE \E i \in S : ahead[i] = k - 1
    OBVIOUS
  <2>1. PICK i \in S : place[i] = k
    <3> HIDE DEF place
    <3> QED
      BY <1>8 DEF Surjection
  <2>2. ahead[i] + 1 = k
    BY <2>1
  <2> QED
    BY <1>5, <2>2
<1>10. \A k \in 1..n : q[k] \in S /\ ahead[q[k]] = k - 1
  BY <1>9 DEF Ranked
<1>11. q = [k \in 1..n |-> q[k]]
  BY DEF Ranked
<1> HIDE DEF n, Prior, q, place
<1>12. q \in Seq(S) /\ Len(q) = n
  BY <1>0, <1>10, <1>11
<1> QED
  BY <1>5, <1>6, <1>10, <1>12 DEF q, n

\* So that each is in the list once.
LEMMA RankedAll ==
  ASSUME NEW S, IsFiniteSet(S), NEW R, NEW ahead, Ranks(ahead, S, R)
  PROVE  /\ Ranked(S, ahead) \in Seq(S)
         /\ \A x \in S : \E k \in 1..Len(Ranked(S, ahead)) : Ranked(S, ahead)[k] = x
         /\ \A k, l \in 1..Len(Ranked(S, ahead)) : k # l => Ranked(S, ahead)[k] # Ranked(S, ahead)[l]
<1> DEFINE n == Cardinality(S)
           q == Ranked(S, ahead)
<1>0. n \in Nat
  BY FS_CardinalityType
<1>1. /\ q \in Seq(S) /\ Len(q) = n
      /\ \A k \in 1..n : ahead[q[k]] = k - 1
      /\ \A i \in S : ahead[i] \in Nat /\ ahead[i] < n
      /\ \A i, j \in S : i # j => ahead[i] # ahead[j]
  BY RankPlaces
<1> HIDE DEF n, q
<1>2. \A k \in 1..n : q[k] \in S
  BY <1>1
<1>3. ASSUME NEW x \in S PROVE \E k \in 1..n : q[k] = x
  <2> DEFINE k == ahead[x] + 1
  <2>1. k \in 1..n /\ k - 1 = ahead[x]
    BY <1>0, <1>1
  <2>2. q[k] \in S /\ ahead[q[k]] = ahead[x]
    BY <1>1, <1>2, <2>1
  <2> QED
    BY <1>1, <2>1, <2>2
<1>4. ASSUME NEW k \in 1..n, NEW l \in 1..n, k # l PROVE q[k] # q[l]
  <2>1. ahead[q[k]] = k - 1 /\ ahead[q[l]] = l - 1
    BY <1>1
  <2>2. k - 1 # l - 1
    BY <1>0, <1>4
  <2> QED
    BY <2>1, <2>2
<1> QED
  BY <1>1, <1>3, <1>4 DEF q

\* By <, the members of a finite set of numbers.
LEMMA SortedNumbers ==
  ASSUME NEW S, IsFiniteSet(S), S \subseteq Int
  PROVE  Sorted(S, <) \in Seq(S) /\ \A x \in S : \E k \in 1..Len(Sorted(S, <)) : Sorted(S, <)[k] = x
<1> DEFINE R == {p \in S \X S : p[1] < p[2]}
           ahead == [i \in S |-> Cardinality({j \in S : j < i})]
<1>1. Sorted(S, <) = Ranked(S, ahead)
  BY DEF Sorted, Ranked
<1>2. Ranks(ahead, S, R)
  <2>1. \A x, y \in S : <<x, y>> \in R <=> x < y
    OBVIOUS
  <2>2. \A i \in S : {j \in S : j < i} = {j \in S : <<j, i>> \in R}
    BY <2>1
  <2>3. ahead = [i \in S |-> Cardinality({j \in S : <<j, i>> \in R})]
    BY <2>2
  <2>4. \A x, y, z \in S : x < y /\ y < z => x < z
    OBVIOUS
  <2>5. \A x, y \in S : ~(x < x) /\ (x = y \/ x < y \/ y < x)
    OBVIOUS
  <2> HIDE DEF R, ahead
  <2> QED
    BY <2>1, <2>3, <2>4, <2>5 DEF Ranks
<1> HIDE DEF R, ahead
<1>3. /\ Ranked(S, ahead) \in Seq(S)
      /\ \A x \in S : \E k \in 1..Len(Ranked(S, ahead)) : Ranked(S, ahead)[k] = x
  BY <1>2, RankedAll
<1> QED
  BY Zenon, <1>1, <1>3

\* Spans as they come out of a chunk: any but what Earlier compares.
Stamped(s) == \A i \in 1..Len(s) : s[i].start \in Int /\ s[i].id \in Int

\* kids are the nodes v is the parent of, each once.
Kids(kids, s, v) ==
  /\ kids \in Seq({i \in 1..Len(s) : parentOf(s, i) = v})
  /\ \A i \in 1..Len(s) : parentOf(s, i) = v => \E k \in 1..Len(kids) : kids[k] = i
  /\ \A k, l \in 1..Len(kids) : k # l => kids[k] # kids[l]

\* The span at x comes before the one at y: children, among siblings.
InFront(s, x, y) == Earlier(s[x], s[y]) \/ (x < y /\ ~Earlier(s[y], s[x]))

\* That is an order.
LEMMA ThreeInOrder ==
  ASSUME NEW s, NEW x \in Nat, NEW y \in Nat, NEW z \in Nat, InFront(s, x, y), InFront(s, y, z),
         \A i \in {x, y, z} : s[i].start \in Int /\ s[i].id \in Int
  PROVE  InFront(s, x, z)
<1>1. PICK a \in Int : a = s[x].start
  OBVIOUS
<1>2. PICK b \in Int : b = s[y].start
  OBVIOUS
<1>3. PICK c \in Int : c = s[z].start
  OBVIOUS
<1>4. PICK i \in Int : i = s[x].id
  OBVIOUS
<1>5. PICK j \in Int : j = s[y].id
  OBVIOUS
<1>6. PICK k \in Int : k = s[z].id
  OBVIOUS
<1>7. (a < b \/ (a = b /\ i < j)) \/ (x < y /\ ~(b < a \/ (b = a /\ j < i)))
  BY Zenon, <1>1, <1>2, <1>4, <1>5 DEF InFront, Earlier
<1>8. (b < c \/ (b = c /\ j < k)) \/ (y < z /\ ~(c < b \/ (c = b /\ k < j)))
  BY Zenon, <1>2, <1>3, <1>5, <1>6 DEF InFront, Earlier
<1>9. (a < c \/ (a = c /\ i < k)) \/ (x < z /\ ~(c < a \/ (c = a /\ k < i)))
  BY <1>7, <1>8
<1> QED
  BY Zenon, <1>1, <1>3, <1>4, <1>6, <1>9 DEF InFront, Earlier

\* How many of the positions S come before each, and which.
Ahead(s, S) == [i \in S |-> Cardinality({j \in S : InFront(s, j, i)})]
Fronts(s, S) == {p \in S \X S : InFront(s, p[1], p[2])}

\* A sort by start and id gives each position its rank.
LEMMA StableRanks ==
  ASSUME NEW B, NEW s \in Seq(B), Stamped(s), NEW S, S \subseteq 1..Len(s)
  PROVE  /\ StableOrder(s, S, Earlier) = Ranked(S, Ahead(s, S))
         /\ IsFiniteSet(S) /\ Ranks(Ahead(s, S), S, Fronts(s, S))
<1>0. Len(s) \in Nat
  OBVIOUS
<1>1. StableOrder(s, S, Earlier) = Ranked(S, Ahead(s, S))
  BY DEF StableOrder, Sorted, Ranked, Ahead, InFront
<1>2. IsFiniteSet(S)
  <2>1. IsFiniteSet(1..Len(s))
    BY <1>0, FS_Interval
  <2> QED
    BY <2>1, FS_Subset
<1>3. \A i \in S : s[i].start \in Int /\ s[i].id \in Int /\ i \in Nat
  BY <1>0 DEF Stamped
<1>4. \A x, y \in S : <<x, y>> \in Fronts(s, S) <=> InFront(s, x, y)
  BY DEF Fronts
<1>5. Ahead(s, S) = [i \in S |-> Cardinality({j \in S : <<j, i>> \in Fronts(s, S)})]
  <2>1. \A i \in S : {j \in S : InFront(s, j, i)} = {j \in S : <<j, i>> \in Fronts(s, S)}
    BY <1>4
  <2> QED
    BY <2>1 DEF Ahead
<1>6. \A x, y, z \in S : InFront(s, x, y) /\ InFront(s, y, z) => InFront(s, x, z)
  <2> SUFFICES ASSUME NEW x \in S, NEW y \in S, NEW z \in S, InFront(s, x, y), InFront(s, y, z)
               PROVE  InFront(s, x, z)
    OBVIOUS
  <2>1. x \in Nat /\ y \in Nat /\ z \in Nat
    BY <1>3
  <2>2. \A i \in {x, y, z} : s[i].start \in Int /\ s[i].id \in Int
    BY <1>3
  <2> QED
    BY <2>1, <2>2, ThreeInOrder
<1>7. \A x, y \in S : ~InFront(s, x, x) /\ (x = y \/ InFront(s, x, y) \/ InFront(s, y, x))
  BY <1>3 DEF Earlier, InFront
<1>8. Ranks(Ahead(s, S), S, Fronts(s, S))
  BY <1>4, <1>5, <1>6, <1>7 DEF Ranks
<1> QED
  BY <1>1, <1>2, <1>8

\* The children of a node, in whatever order their spans were stored.
LEMMA ChildrenAre ==
  ASSUME NEW B, NEW s \in Seq(B), Stamped(s), NEW v
  PROVE  Kids(children(s, v), s, v)
<1> DEFINE S == {i \in 1..Len(s) : parentOf(s, i) = v}
           kids == Ranked(S, Ahead(s, S))
<1>1. children(s, v) = StableOrder(s, S, Earlier)
  <2>1. DOMAIN s = 1..Len(s)
    OBVIOUS
  <2> QED
    BY <2>1 DEF children
<1>2. S \subseteq 1..Len(s)
  OBVIOUS
<1>3. /\ kids \in Seq(S)
      /\ \A x \in S : \E k \in 1..Len(kids) : kids[k] = x
      /\ \A k, l \in 1..Len(kids) : k # l => kids[k] # kids[l]
  <2> HIDE DEF S
  <2>1. IsFiniteSet(S) /\ Ranks(Ahead(s, S), S, Fronts(s, S))
    BY <1>2, StableRanks
  <2> QED
    BY <2>1, RankedAll
<1>4. children(s, v) = kids
  <2> HIDE DEF S
  <2> QED
    BY <1>1, <1>2, StableRanks
<1> QED
  BY <1>3, <1>4 DEF Kids

\* v is what s[1], .., s[k] are one behind the other, s[m] from off[m] on.
Laid(v, s, k, off) ==
  /\ \A m \in 1..k : off[m] \in Nat /\ off[m] + Len(s[m]) <= Len(v)
  /\ \A m \in 1..k : \A i \in 1..Len(s[m]) : v[off[m] + i] = s[m][i]
  /\ \A p \in 1..Len(v) : \E m \in 1..k : \E i \in 1..Len(s[m]) : p = off[m] + i
  /\ \A l, m \in 1..k : l < m => off[l] + Len(s[l]) <= off[m]

\* One sequence more.
LEMMA LaidMore ==
  ASSUME NEW B, NEW v \in Seq(B), NEW s, NEW k \in Nat, NEW off, Laid(v, s, k, off),
         \A m \in 1..(k + 1) : s[m] \in Seq(B), off[k + 1] = Len(v)
  PROVE  v \o s[k + 1] \in Seq(B) /\ Laid(v \o s[k + 1], s, k + 1, off)
<1> DEFINE t == s[k + 1]
           w == v \o t
<1>1. t \in Seq(B) /\ Len(v) \in Nat /\ Len(t) \in Nat
  OBVIOUS
<1>2. /\ w \in Seq(B) /\ Len(w) = Len(v) + Len(t)
      /\ \A i \in 1..Len(v) : w[i] = v[i] /\ \A j \in 1..Len(t) : w[Len(v) + j] = t[j]
  <2> HIDE DEF t
  <2> QED
    BY <1>1
<1>2a. \A j \in 1..Len(t) : w[Len(v) + j] = t[j]
  <2> HIDE DEF t
  <2> QED
    BY <1>1
<1>3. \A m \in 1..(k + 1) : m \in 1..k \/ m = k + 1
  OBVIOUS
<1>4. k + 1 \in 1..(k + 1) /\ \A m \in 1..k : m \in 1..(k + 1) /\ ~(k + 1 < m) /\ m # k + 1
  OBVIOUS
<1>5. \A m \in 1..k : Len(s[m]) \in Nat /\ off[m] \in Nat /\ off[m] + Len(s[m]) <= Len(v)
  BY <1>4 DEF Laid
<1> HIDE DEF w, t
<1>6. \A m \in 1..(k + 1) : off[m] \in Nat /\ off[m] + Len(s[m]) <= Len(w)
  <2>1. \A m \in 1..k : off[m] \in Nat /\ off[m] + Len(s[m]) <= Len(w)
    BY <1>1, <1>2, <1>5
  <2>2. off[k + 1] \in Nat /\ off[k + 1] + Len(s[k + 1]) <= Len(w)
    BY <1>1, <1>2 DEF t
  <2> QED
    BY <1>3, <2>1, <2>2
<1>7. \A m \in 1..(k + 1) : \A i \in 1..Len(s[m]) : w[off[m] + i] = s[m][i]
  <2> SUFFICES ASSUME NEW m \in 1..(k + 1), NEW i \in 1..Len(s[m]) PROVE w[off[m] + i] = s[m][i]
    OBVIOUS
  <2>1. CASE m \in 1..k
    <3>1. off[m] + i \in 1..Len(v)
      BY <1>1, <1>5, <2>1
    <3>2. v[off[m] + i] = s[m][i]
      BY <2>1 DEF Laid
    <3> QED
      BY <1>2, <3>1, <3>2
  <2>2. CASE m = k + 1
    BY <1>2a, <2>2 DEF t
  <2> QED
    BY <1>3, <2>1, <2>2
<1>8. \A p \in 1..Len(w) : \E m \in 1..(k + 1) : \E i \in 1..Len(s[m]) : p = off[m] + i
  <2> SUFFICES ASSUME NEW p \in 1..Len(w) PROVE \E m \in 1..(k + 1) : \E i \in 1..Len(s[m]) : p = off[m] + i
    OBVIOUS
  <2>1. p \in 1..Len(v) \/ (p - Len(v) \in 1..Len(t) /\ p = Len(v) + (p - Len(v)))
    BY <1>1, <1>2
  <2>2. CASE p \in 1..Len(v)
    <3>1. PICK m \in 1..k : \E i \in 1..Len(s[m]) : p = off[m] + i
      BY <2>2 DEF Laid
    <3> QED
      BY <1>4, <3>1
  <2>3. CASE p - Len(v) \in 1..Len(t) /\ p = Len(v) + (p - Len(v))
    BY <1>4, <2>3 DEF t
  <2> QED
    BY <2>1, <2>2, <2>3
<1>9. \A l, m \in 1..(k + 1) : l < m => off[l] + Len(s[l]) <= off[m]
  <2> SUFFICES ASSUME NEW l \in 1..(k + 1), NEW m \in 1..(k + 1), l < m
               PROVE  off[l] + Len(s[l]) <= off[m]
    OBVIOUS
  <2>1. l \in 1..k
    BY <1>3, <1>4
  <2>2. CASE m \in 1..k
    BY <2>1, <2>2 DEF Laid
  <2>3. CASE m = k + 1
    BY <1>5, <2>1, <2>3
  <2> QED
    BY <1>3, <2>2, <2>3
<1> QED
  BY <1>2, <1>6, <1>7, <1>8, <1>9 DEF Laid, t, w

\* Flat(s) is the sequences of s, one behind the other.
LEMMA FlatLaid ==
  ASSUME NEW B, NEW s \in Seq(Seq(B))
  PROVE  Flat(s) \in Seq(B) /\ \E off : Laid(Flat(s), s, Len(s), off)
<1> DEFINE n == Len(s)
           f == CHOOSE h : Flattens(h, s)
           off == [m \in 1..n |-> IF m = 1 THEN 0 ELSE Len(f[m - 1])]
           Missing == {k \in 1..n : ~(f[k] \in Seq(B) /\ Laid(f[k], s, k, off))}
<1>0. n \in Nat /\ \A i \in 1..n : s[i] \in Seq(B)
  OBVIOUS
<1>1. Flat(s) = IF n = 0 THEN s ELSE f[n]
  BY FlatIs
<1>2. Flattens(f, s)
  BY FlatExists
<1> HIDE DEF f
<1>3. \A k \in 1..n : f[k] = IF k = 1 THEN s[k] ELSE f[k - 1] \o s[k]
  BY <1>2 DEF Flattens
<1>4. ASSUME Missing # {} PROVE FALSE
  <2>1. PICK m \in Missing : \A k \in Missing : m <= k
    <3>1. Missing \subseteq Nat
      BY <1>0
    <3> HIDE DEF Missing
    <3> QED
      BY <1>4, <3>1, Least
  <2>2. m \in 1..n /\ ~(f[m] \in Seq(B) /\ Laid(f[m], s, m, off))
    OBVIOUS
  <2>3. m - 1 \in Nat /\ (m - 1) + 1 = m /\ ~(m <= m - 1) /\ 1..m \subseteq 1..n
    BY <1>0, <2>2
  <2> DEFINE v == IF m = 1 THEN <<>> ELSE f[m - 1]
  <2>4. v \in Seq(B) /\ Laid(v, s, m - 1, off)
    <3>1. CASE m = 1
      BY <3>1 DEF Laid
    <3>2. CASE m # 1
      <4>1. m - 1 \in 1..n
        BY <1>0, <2>2, <2>3, <3>2
      <4>2. m - 1 \notin Missing
        <5> HIDE DEF Missing
        <5> QED
          BY <2>1, <2>3
      <4> QED
        BY <3>2, <4>1, <4>2
    <3> QED
      BY <3>1, <3>2
  <2>5. f[m] = v \o s[m]
    <3>1. s[m] \in Seq(B) /\ <<>> \o s[m] = s[m]
      BY <1>0, <2>2, ConcatEmptySeq
    <3> QED
      BY <1>3, <2>2, <3>1
  <2>6. off[m] = Len(v)
    <3>1. Len(<<>>) = 0
      OBVIOUS
    <3> QED
      BY <2>2, <3>1
  <2>7. \A i \in 1..m : s[i] \in Seq(B)
    BY <1>0, <2>3
  <2> HIDE DEF off, v, Missing
  <2>8. v \o s[m] \in Seq(B) /\ Laid(v \o s[m], s, m, off)
    BY <2>3, <2>4, <2>6, <2>7, LaidMore
  <2> QED
    BY <2>2, <2>5, <2>8
<1>5. CASE n = 0
  <2>1. s = <<>> /\ Flat(s) = <<>>
    BY <1>1, <1>5
  <2>2. Laid(<<>>, s, n, off)
    BY <1>5 DEF Laid
  <2>3. <<>> \in Seq(B)
    OBVIOUS
  <2> HIDE DEF off
  <2> QED
    BY <2>1, <2>2, <2>3
<1>6. CASE n # 0
  <2>1. n \in 1..n
    BY <1>0, <1>6
  <2>2. n \notin Missing
    <3>1. Missing = {}
      BY <1>4
    <3> HIDE DEF Missing
    <3> QED
      BY <3>1
  <2>3. f[n] \in Seq(B) /\ Laid(f[n], s, n, off)
    BY <2>1, <2>2
  <2> HIDE DEF off
  <2> QED
    BY <1>1, <1>6, <2>3
<1> QED
  BY <1>5, <1>6

\* f is what comes of x0 by taking T again and again.
Iterates(f, T, X, x0, N) ==
  f \in [0..N -> X] /\ f[0] = x0 /\ \A k \in 1..N : f[k] = T[f[k - 1]]
\* T is a function on X.
Maps(T, X) == T \in [X -> X]

\* f goes from x0 by T[1], .., T[N].
Steps(f, T, X, x0, N) ==
  f \in [0..N -> X] /\ f[0] = x0 /\ \A k \in 1..N : f[k] = T[k][f[k - 1]]
\* Each of T[1], .., T[N] is a function on X.
MapsAll(T, X, N) == T \in [1..N -> [X -> X]]

\* There is such a function.
LEMMA Stepped ==
  ASSUME NEW X, NEW N \in Nat, NEW T, MapsAll(T, X, N), NEW x0 \in X
  PROVE  \E f : Steps(f, T, X, x0, N)
<1> DEFINE Good(f, m) == f[0] = x0 /\ \A k \in 1..m : f[k] = T[k][f[k - 1]]
           Missing == {m \in 0..N : ~\E f \in [0..N -> X] : Good(f, m)}
<1>0. \A k \in 1..N : T[k] \in [X -> X]
  BY DEF MapsAll
<1>1. ASSUME Missing # {} PROVE FALSE
  <2>1. PICK m \in Missing : \A k \in Missing : m <= k
    <3>1. Missing \subseteq Nat
      OBVIOUS
    <3> HIDE DEF Missing
    <3> QED
      BY <1>1, <3>1, Least
  <2>2. m \in 0..N /\ ~\E f \in [0..N -> X] : Good(f, m)
    OBVIOUS
  <2>3. m # 0
    <3>1. [k \in 0..N |-> x0] \in [0..N -> X] /\ Good([k \in 0..N |-> x0], 0)
      BY <1>0
    <3> QED
      BY <2>2, <3>1
  <2>4. m - 1 \in 0..N /\ ~(m <= m - 1) /\ m \in 1..N /\ m \in Nat
    BY <2>2, <2>3
  <2>5. PICK f \in [0..N -> X] : Good(f, m - 1)
    <3>1. m - 1 \notin Missing
      <4> HIDE DEF Missing
      <4> QED
        BY <2>1, <2>4
    <3> QED
      BY <2>4, <3>1
  <2> DEFINE e == T[m][f[m - 1]]
             g == [k \in 0..N |-> IF k = m THEN e ELSE f[k]]
  <2>6. g \in [0..N -> X]
    <3>1. T[m] \in [X -> X] /\ f[m - 1] \in X
      BY <1>0, <2>4
    <3>2. e \in X
      BY <3>1
    <3> HIDE DEF e
    <3> QED
      BY <3>2
  <2>7. g[0] = x0
    BY <2>3, <2>5
  <2>8. ASSUME NEW k \in 1..m PROVE g[k] = T[k][g[k - 1]]
    <3>1. k \in 0..N /\ k - 1 \in 0..N /\ k - 1 # m /\ (k # m => k \in 1..(m - 1))
      BY <2>4
    <3>2. g[k - 1] = f[k - 1] /\ g[k] = IF k = m THEN e ELSE f[k]
      BY <3>1
    <3> HIDE DEF g
    <3> QED
      BY <2>5, <3>1, <3>2
  <2> HIDE DEF g
  <2> QED
    BY <2>2, <2>6, <2>7, <2>8
<1>2. N \in 0..N /\ N \notin Missing
  <2>1. Missing = {}
    BY <1>1
  <2> HIDE DEF Missing
  <2> QED
    BY <2>1
<1> QED
  BY <1>2 DEF Steps

\* There is such a function for one T.
LEMMA Iterated ==
  ASSUME NEW X, NEW T, Maps(T, X), NEW x0 \in X, NEW N \in Nat
  PROVE  \E f : Iterates(f, T, X, x0, N)
<1> DEFINE U == [k \in 1..N |-> T]
<1>1. MapsAll(U, X, N)
  BY DEF MapsAll, Maps
<1>2. \A k \in 1..N : U[k] = T
  OBVIOUS
<1> HIDE DEF U
<1>3. PICK f : Steps(f, U, X, x0, N)
  BY <1>1, Stepped
<1>4. Iterates(f, T, X, x0, N)
  BY <1>2, <1>3 DEF Steps, Iterates
<1> QED
  BY <1>4

\* A non-empty set of numbers up to n has a greatest member.
LEMMA Greatest ==
  ASSUME NEW n \in Nat, NEW S, S \subseteq 0..n, S # {}
  PROVE  Max(S) \in S /\ \A y \in S : y <= Max(S)
<1>1. PICK d \in {n - x : x \in S} : \A y \in {n - x : x \in S} : d <= y
  <2>1. {n - x : x \in S} \subseteq Nat
    <3>1. \A x \in S : n - x \in Nat
      OBVIOUS
    <3> QED
      BY <3>1
  <2>2. {n - x : x \in S} # {}
    OBVIOUS
  <2> QED
    BY <2>1, <2>2, Least
<1>2. PICK x \in S : \A y \in S : x >= y
  <2>1. PICK x \in S : d = n - x
    BY <1>1
  <2>2. \A y \in S : n - x <= n - y
    BY <1>1, <2>1
  <2> QED
    BY <2>2
<1>3. Max(S) \in S /\ \A y \in S : Max(S) >= y
  BY <1>2 DEF Max
<1> QED
  BY <1>3

\* The parent of a node is the last span of that id, if it is another.
LEMMA ParentIs ==
  ASSUME NEW B, NEW s \in Seq(B), NEW i \in 1..Len(s)
  PROVE  LET p == {k \in DOMAIN s : s[i].parent # 0 /\ s[k].id = s[i].parent} IN
         /\ parentOf(s, i) = IF p = {} \/ Max(p) = i THEN 0 ELSE Max(p)
         /\ parentOf(s, i) \in 0..Len(s)
<1> DEFINE p == {k \in DOMAIN s : s[i].parent # 0 /\ s[k].id = s[i].parent}
           n == Len(s)
<1>1. n \in Nat /\ DOMAIN s = 1..n /\ p \subseteq 1..n /\ i # 0
  OBVIOUS
<1>2. byID(s, s[i].parent) = Max(p \cup {0})
  <2>1. {k \in DOMAIN s : s[i].parent # 0 /\ s[k].id = s[i].parent} \cup {0} = p \cup {0}
    OBVIOUS
  <2> QED
    BY <2>1 DEF byID
<1> HIDE DEF p, n
<1>3. Max(p \cup {0}) = IF p = {} THEN 0 ELSE Max(p)
  <2>1. CASE p = {}
    <3>1. Max({0}) \in {0}
      <4>1. {0} \subseteq 0..n /\ {0} # {}
        BY <1>1
      <4> QED
        BY <1>1, <4>1, Greatest
    <3>2. p \cup {0} = {0}
      BY <2>1
    <3> QED
      BY <2>1, <3>1, <3>2
  <2>2. CASE p # {}
    <3>1. p \subseteq 0..n /\ p \cup {0} \subseteq 0..n /\ p \cup {0} # {}
      BY <1>1
    <3>2. Max(p) \in p /\ \A y \in p : y <= Max(p)
      BY <1>1, <2>2, <3>1, Greatest
    <3>3. Max(p \cup {0}) \in p \cup {0} /\ \A y \in p \cup {0} : y <= Max(p \cup {0})
      BY <1>1, <3>1, Greatest
    <3> DEFINE a == Max(p)
               b == Max(p \cup {0})
    <3> HIDE DEF a, b
    <3>4. a \in p /\ (\A y \in p : y <= a) /\ b \in p \cup {0} /\ \A y \in p \cup {0} : y <= b
      BY <3>2, <3>3 DEF a, b
    <3>5. a \in 1..n /\ a <= b /\ (b = 0 \/ (b \in 1..n /\ b <= a))
      BY <1>1, <3>4
    <3>6. a = b
      BY <1>1, <3>5
    <3> QED
      BY <2>2, <3>6 DEF a, b
  <2> QED
    BY <2>1, <2>2
<1>4. p # {} => Max(p) \in 1..n
  <2>1. p \subseteq 0..n
    BY <1>1
  <2> QED
    BY <1>1, <2>1, Greatest
<1>5. parentOf(s, i) = IF p = {} \/ Max(p) = i THEN 0 ELSE Max(p)
  BY <1>1, <1>2, <1>3 DEF parentOf
<1>6. parentOf(s, i) \in 0..n
  BY <1>1, <1>4, <1>5
<1> QED
  BY <1>5, <1>6 DEF p, n

\* u takes every node to its ancestors, as Up does.
Climbs(u, s) ==
  /\ u \in [1..Len(s) -> [0..MaxTreeDepth -> 0..Len(s)]]
  /\ \A i \in 1..Len(s) :
       /\ u[i][0] = i
       /\ \A k \in 1..MaxTreeDepth :
            u[i][k] = IF u[i][k - 1] = 0 THEN 0 ELSE parentOf(s, u[i][k - 1])

\* Node v is e levels under the root, which is node 0.
AtDepth(u, v, e) == IF e = 0 THEN v = 0 ELSE v # 0 /\ u[v][e - 1] # 0 /\ u[v][e] = 0

\* The limit of the tree's depth is at least one level.
LEMMA DepthNat == MaxTreeDepth \in Nat /\ MaxTreeDepth >= 1
BY AnalysisAssumption

\* Past the top there is nothing.
LEMMA PastTop ==
  ASSUME NEW s, Len(s) \in Nat, NEW u, Climbs(u, s), NEW i \in 1..Len(s),
         NEW j \in 0..MaxTreeDepth, NEW k \in j..MaxTreeDepth, u[i][j] = 0
  PROVE  u[i][k] = 0
<1> DEFINE D == MaxTreeDepth
           Bad0 == {m \in j..D : u[i][m] # 0}
<1>0. D \in Nat /\ j \in Nat
  BY DepthNat
<1>1. ASSUME Bad0 # {} PROVE FALSE
  <2>1. PICK m \in Bad0 : \A l \in Bad0 : m <= l
    <3>1. Bad0 \subseteq Nat
      BY <1>0
    <3> HIDE DEF Bad0
    <3> QED
      BY <1>1, <3>1, Least
  <2>2. m \in j..D /\ u[i][m] # 0 /\ m # j
    OBVIOUS
  <2>3. m - 1 \in j..D /\ ~(m <= m - 1) /\ m \in 1..D
    BY <1>0, <2>2
  <2>4. u[i][m - 1] = 0
    BY <2>1, <2>3
  <2> QED
    BY <2>2, <2>3, <2>4 DEF Climbs
<1> QED
  BY <1>1

\* The ancestors of a node are those of its parent, one step further up.
LEMMA ParentsAncestors ==
  ASSUME NEW s, Len(s) \in Nat, NEW u, Climbs(u, s), NEW i \in 1..Len(s), NEW p \in 1..Len(s),
         parentOf(s, i) = p, NEW k \in 0..(MaxTreeDepth - 1)
  PROVE  u[i][k + 1] = u[p][k]
<1> DEFINE D == MaxTreeDepth
           Off == {m \in 0..(D - 1) : u[i][m + 1] # u[p][m]}
<1>0. D \in Nat /\ 1 \in 1..D
  BY DepthNat
<1>1. u[i][1] = p /\ u[p][0] = p
  <2>1. u[i][0] = i /\ u[i][1] = IF u[i][1 - 1] = 0 THEN 0 ELSE parentOf(s, u[i][1 - 1])
    BY <1>0 DEF Climbs
  <2> QED
    BY <2>1 DEF Climbs
<1>2. ASSUME Off # {} PROVE FALSE
  <2>1. PICK m \in Off : \A l \in Off : m <= l
    <3>1. Off \subseteq Nat
      BY <1>0
    <3> HIDE DEF Off
    <3> QED
      BY <1>2, <3>1, Least
  <2>2. m \in 0..(D - 1) /\ u[i][m + 1] # u[p][m]
    OBVIOUS
  <2>3. m # 0
    BY <1>1, <2>2
  <2>4. m - 1 \in 0..(D - 1) /\ ~(m <= m - 1) /\ m \in 1..D /\ m + 1 \in 1..D /\ (m + 1) - 1 = m /\ (m - 1) + 1 = m
    BY <1>0, <2>2, <2>3
  <2>5. m - 1 \notin Off
    <3> HIDE DEF Off
    <3> QED
      BY <2>1, <2>4
  <2>6. u[i][m] = u[p][m - 1]
    BY <2>4, <2>5
  <2>7. u[i][m + 1] = IF u[i][m] = 0 THEN 0 ELSE parentOf(s, u[i][m])
    <3>1. u[i][m + 1] = IF u[i][(m + 1) - 1] = 0 THEN 0 ELSE parentOf(s, u[i][(m + 1) - 1])
      BY <2>4 DEF Climbs
    <3> QED
      BY <2>4, <3>1
  <2>8. u[p][m] = IF u[p][m - 1] = 0 THEN 0 ELSE parentOf(s, u[p][m - 1])
    BY <2>4 DEF Climbs
  <2> QED
    BY <2>2, <2>6, <2>7, <2>8
<1> QED
  BY <1>2

\* A node is at one depth.
LEMMA OneDepth ==
  ASSUME NEW s, Len(s) \in Nat, NEW u, Climbs(u, s), NEW i \in 0..Len(s),
         NEW d \in 0..MaxTreeDepth, NEW e \in 0..MaxTreeDepth, AtDepth(u, i, d), AtDepth(u, i, e)
  PROVE  d = e
<1>0. MaxTreeDepth \in Nat /\ d \in Nat /\ e \in Nat
  BY DepthNat
<1>1. CASE i = 0
  BY <1>1 DEF AtDepth
<1>2. CASE i # 0
  <2>1. i \in 1..Len(s) /\ d # 0 /\ e # 0
    BY <1>2 DEF AtDepth
  <2>2. u[i][d - 1] # 0 /\ u[i][d] = 0 /\ u[i][e - 1] # 0 /\ u[i][e] = 0
    BY <2>1 DEF AtDepth
  <2>3. ~(d < e)
    <3> SUFFICES ASSUME d < e PROVE FALSE
      OBVIOUS
    <3>1. e - 1 \in d..MaxTreeDepth
      BY <1>0
    <3> QED
      BY <2>1, <2>2, <3>1, PastTop
  <2>4. ~(e < d)
    <3> SUFFICES ASSUME e < d PROVE FALSE
      OBVIOUS
    <3>1. d - 1 \in e..MaxTreeDepth
      BY <1>0
    <3> QED
      BY <2>1, <2>2, <3>1, PastTop
  <2> QED
    BY <1>0, <2>3, <2>4
<1> QED
  BY <1>1, <1>2

\* A child is one level deeper.
LEMMA ChildDepth ==
  ASSUME NEW s, Len(s) \in Nat, NEW u, Climbs(u, s), NEW v \in 0..Len(s),
         NEW e \in 0..(MaxTreeDepth - 1), AtDepth(u, v, e), NEW k \in 1..Len(s), parentOf(s, k) = v
  PROVE  AtDepth(u, k, e + 1) /\ u[k][1] = v
<1>0. MaxTreeDepth \in Nat /\ 1 \in 1..MaxTreeDepth /\ e \in Nat /\ (e + 1) - 1 = e /\ e + 1 # 0 /\ k # 0
  BY DepthNat
<1>1. u[k][0] = k /\ u[k][1] = v
  <2>1. u[k][0] = k /\ u[k][1] = IF u[k][1 - 1] = 0 THEN 0 ELSE parentOf(s, u[k][1 - 1])
    BY <1>0 DEF Climbs
  <2> QED
    BY <1>0, <2>1
<1>2. CASE e = 0
  BY <1>0, <1>1, <1>2 DEF AtDepth
<1>3. CASE e # 0
  <2>1. v \in 1..Len(s) /\ u[v][e - 1] # 0 /\ u[v][e] = 0
    BY <1>3 DEF AtDepth
  <2>2. e - 1 \in 0..(MaxTreeDepth - 1) /\ (e - 1) + 1 = e
    BY <1>0, <1>3
  <2>3. u[k][e] = u[v][e - 1]
    BY <2>1, <2>2, ParentsAncestors
  <2>4. u[k][e + 1] = u[v][e]
    BY <2>1, ParentsAncestors
  <2> QED
    BY <1>0, <1>1, <2>1, <2>3, <2>4 DEF AtDepth
<1> QED
  BY <1>2, <1>3

\* Node i is under node v, which is e levels deep, and not too deep itself.
Under(u, i, v, e) ==
  \E d \in (e + 1)..MaxTreeDepth : AtDepth(u, i, d) /\ u[i][d - e] = v
\* Node i is node k, e levels deep, or under it.
From(u, i, k, e) == i = k \/ Under(u, i, k, e)

\* What is under a node is from one of its children.
LEMMA UnderChild ==
  ASSUME NEW s, Len(s) \in Nat, NEW u, Climbs(u, s), NEW v \in 0..Len(s),
         NEW e \in 0..(MaxTreeDepth - 1), AtDepth(u, v, e), NEW i \in 1..Len(s), Under(u, i, v, e)
  PROVE  \E k \in 1..Len(s) : parentOf(s, k) = v /\ From(u, i, k, e + 1)
<1>0. MaxTreeDepth \in Nat /\ e \in Nat /\ u[i][0] = i /\ i # 0
  BY DepthNat DEF Climbs
<1>1. PICK d \in (e + 1)..MaxTreeDepth : AtDepth(u, i, d) /\ u[i][d - e] = v
  BY DEF Under
<1>2. d \in Nat /\ d # 0 /\ d - 1 \in 0..MaxTreeDepth /\ d - e \in 1..MaxTreeDepth /\ (d - e) - 1 \in 0..(d - 1)
  BY <1>0
<1>3. u[i][d - 1] # 0
  BY <1>1, <1>2 DEF AtDepth
<1> DEFINE k == u[i][(d - e) - 1]
<1>4. k # 0
  <2>1. (d - e) - 1 \in 0..MaxTreeDepth /\ d - 1 \in ((d - e) - 1)..MaxTreeDepth
    BY <1>0, <1>2
  <2> QED
    BY <1>3, <2>1, PastTop
<1>5. k \in 1..Len(s)
  <2>1. (d - e) - 1 \in 0..MaxTreeDepth
    BY <1>0, <1>2
  <2>2. k \in 0..Len(s)
    BY <2>1 DEF Climbs
  <2> QED
    BY <1>4, <2>2
<1>6. parentOf(s, k) = v
  BY <1>1, <1>2, <1>4 DEF Climbs
<1>7. From(u, i, k, e + 1)
  <2>1. CASE d = e + 1
    <3>1. (d - e) - 1 = 0
      BY <1>0, <2>1
    <3> QED
      BY <1>0, <3>1 DEF From
  <2>2. CASE d # e + 1
    <3>1. d \in ((e + 1) + 1)..MaxTreeDepth /\ d - (e + 1) = (d - e) - 1
      BY <1>0, <1>2, <2>2
    <3> QED
      BY <1>1, <3>1 DEF From, Under
  <2> QED
    BY <2>1, <2>2
<1> HIDE DEF k
<1> QED
  BY <1>5, <1>6, <1>7

\* What is from a child is under the node.
LEMMA ChildUnder ==
  ASSUME NEW s, Len(s) \in Nat, NEW u, Climbs(u, s), NEW v \in 0..Len(s),
         NEW e \in 0..(MaxTreeDepth - 1), AtDepth(u, v, e), NEW i \in 1..Len(s),
         NEW k \in 1..Len(s), parentOf(s, k) = v, From(u, i, k, e + 1)
  PROVE  Under(u, i, v, e)
<1>0. MaxTreeDepth \in Nat /\ e \in Nat /\ k # 0
  BY DepthNat
<1>1. CASE i = k
  <2>1. AtDepth(u, i, e + 1) /\ u[i][1] = v
    BY <1>1, ChildDepth
  <2>2. e + 1 \in (e + 1)..MaxTreeDepth /\ (e + 1) - e = 1
    BY <1>0
  <2> QED
    BY <2>1, <2>2 DEF Under
<1>2. CASE Under(u, i, k, e + 1)
  <2>1. PICK d \in ((e + 1) + 1)..MaxTreeDepth : AtDepth(u, i, d) /\ u[i][d - (e + 1)] = k
    BY <1>2 DEF Under
  <2>2. d \in (e + 1)..MaxTreeDepth /\ d - e \in 1..MaxTreeDepth /\ (d - e) - 1 = d - (e + 1)
    BY <1>0
  <2>3. u[i][d - e] = IF u[i][(d - e) - 1] = 0 THEN 0 ELSE parentOf(s, u[i][(d - e) - 1])
    BY <2>2 DEF Climbs
  <2>4. u[i][d - e] = v
    BY <1>0, <2>1, <2>2, <2>3
  <2> QED
    BY <2>1, <2>2, <2>4 DEF Under
<1> QED
  BY <1>1, <1>2 DEF From

\* Nothing is from two nodes of the same depth.
LEMMA FromOne ==
  ASSUME NEW s, Len(s) \in Nat, NEW u, Climbs(u, s), NEW e \in 1..MaxTreeDepth,
         NEW k \in 1..Len(s), NEW l \in 1..Len(s), AtDepth(u, k, e), AtDepth(u, l, e),
         NEW i \in 1..Len(s), From(u, i, k, e), From(u, i, l, e)
  PROVE  k = l
<1>0. MaxTreeDepth \in Nat /\ e \in 0..MaxTreeDepth /\ e \in Nat
  BY DepthNat
<1>1. ASSUME NEW x \in 1..Len(s), NEW y, AtDepth(u, x, e), Under(u, x, y, e) PROVE FALSE
  <2>1. PICK d \in (e + 1)..MaxTreeDepth : AtDepth(u, x, d)
    BY <1>1 DEF Under
  <2>2. d \in 0..MaxTreeDepth /\ d # e /\ x \in 0..Len(s)
    BY <1>0
  <2> QED
    BY <1>0, <1>1, <2>1, <2>2, OneDepth
<1>2. CASE Under(u, i, k, e) /\ Under(u, i, l, e)
  <2>1. PICK d \in (e + 1)..MaxTreeDepth : AtDepth(u, i, d) /\ u[i][d - e] = k
    BY <1>2 DEF Under
  <2>2. PICK c \in (e + 1)..MaxTreeDepth : AtDepth(u, i, c) /\ u[i][c - e] = l
    BY <1>2 DEF Under
  <2>3. c \in 0..MaxTreeDepth /\ d \in 0..MaxTreeDepth /\ i \in 0..Len(s)
    BY <1>0
  <2>4. c = d
    BY <2>1, <2>2, <2>3, OneDepth
  <2> QED
    BY <2>1, <2>2, <2>4
<1> QED
  BY <1>1, <1>2 DEF From

\* q is what is printed under node v, which is e levels deep: all that is under it,
\* each once and behind its parent.
Drawn(q, u, s, v, e) ==
  /\ \A p \in 1..Len(q) : Under(u, q[p], v, e)
  /\ \A i \in 1..Len(s) : Under(u, i, v, e) => \E p \in 1..Len(q) : q[p] = i
  /\ \A p, r \in 1..Len(q) : p # r => q[p] # q[r]
  /\ \A p \in 1..Len(q) : parentOf(s, q[p]) = v \/ \E r \in 1..Len(q) : r < p /\ q[r] = parentOf(s, q[p])

\* b is what is printed of node k, a child of v, with all that is under it.
BlockDrawn(b, u, s, k, v, e) ==
  /\ \A i \in 1..Len(b) : From(u, b[i], k, e)
  /\ \A i \in 1..Len(s) : From(u, i, k, e) => \E p \in 1..Len(b) : b[p] = i
  /\ \A p, r \in 1..Len(b) : p # r => b[p] # b[r]
  /\ \A p \in 1..Len(b) : parentOf(s, b[p]) = v \/ \E r \in 1..Len(b) : r < p /\ b[r] = parentOf(s, b[p])

\* A node and behind it what is under it.
LEMMA NodeDrawn ==
  ASSUME NEW s, Len(s) \in Nat, NEW u, Climbs(u, s), NEW v \in 0..Len(s), NEW e \in 1..MaxTreeDepth,
         NEW k \in 1..Len(s), AtDepth(u, k, e), parentOf(s, k) = v,
         NEW q \in Seq(1..Len(s)), Drawn(q, u, s, k, e)
  PROVE  <<k>> \o q \in Seq(1..Len(s)) /\ BlockDrawn(<<k>> \o q, u, s, k, v, e)
<1> DEFINE b == <<k>> \o q
           L == Len(q)
<1>0. L \in Nat
  OBVIOUS
<1>1. /\ b \in Seq(1..Len(s)) /\ Len(b) = L + 1 /\ b[1] = k
      /\ \A i \in 1..L : b[i + 1] = q[i]
  OBVIOUS
<1> HIDE DEF b, L
<1>2. /\ \A p \in 1..(L + 1) : p = 1 \/ (p - 1 \in 1..L /\ b[p] = q[p - 1])
      /\ 1 \in 1..(L + 1) /\ \A i \in 1..L : i + 1 \in 1..(L + 1) /\ b[i + 1] = q[i]
  <2>1. \A p \in 1..(L + 1) : p = 1 \/ (p - 1 \in 1..L /\ (p - 1) + 1 = p)
    BY <1>0
  <2>2. 1 \in 1..(L + 1) /\ \A i \in 1..L : i + 1 \in 1..(L + 1)
    BY <1>0
  <2> QED
    BY <1>1, <2>1, <2>2
<1>3. \A p \in 1..(L + 1) : From(u, b[p], k, e)
  <2>1. \A p \in 1..L : Under(u, q[p], k, e)
    BY DEF Drawn, L
  <2> QED
    BY <1>1, <1>2, <2>1 DEF From
<1>4. ASSUME NEW i \in 1..Len(s), From(u, i, k, e) PROVE \E p \in 1..(L + 1) : b[p] = i
  <2>1. CASE i = k
    BY <1>1, <1>2, <2>1
  <2>2. CASE Under(u, i, k, e)
    <3>1. PICK p \in 1..L : q[p] = i
      BY <2>2 DEF Drawn, L
    <3> QED
      BY <1>2, <3>1
  <2> QED
    BY <1>4, <2>1, <2>2 DEF From
<1>5. \A p \in 1..L : q[p] # k
  <2> SUFFICES ASSUME NEW p \in 1..L, q[p] = k PROVE FALSE
    OBVIOUS
  <2>1. PICK d \in (e + 1)..MaxTreeDepth : AtDepth(u, k, d)
    BY DEF Drawn, L, Under
  <2>2. MaxTreeDepth \in Nat /\ d \in 0..MaxTreeDepth /\ e \in 0..MaxTreeDepth /\ d # e /\ k \in 0..Len(s)
    BY DepthNat
  <2> QED
    BY <2>1, <2>2, OneDepth
<1>6. ASSUME NEW p \in 1..(L + 1), NEW r \in 1..(L + 1), p # r PROVE b[p] # b[r]
  <2>1. \A x, y \in 1..L : x # y => q[x] # q[y]
    BY DEF Drawn, L
  <2>2. p - 1 \in 1..L /\ r - 1 \in 1..L => p - 1 # r - 1
    BY <1>0, <1>6
  <2>3. CASE p = 1
    <3>1. r - 1 \in 1..L /\ b[r] = q[r - 1]
      BY <1>2, <1>6, <2>3
    <3> QED
      BY <1>1, <1>5, <2>3, <3>1
  <2>4. CASE r = 1
    <3>1. p - 1 \in 1..L /\ b[p] = q[p - 1]
      BY <1>2, <1>6, <2>4
    <3> QED
      BY <1>1, <1>5, <2>4, <3>1
  <2>5. CASE p # 1 /\ r # 1
    <3>1. p - 1 \in 1..L /\ b[p] = q[p - 1] /\ r - 1 \in 1..L /\ b[r] = q[r - 1]
      BY <1>2, <2>5
    <3> QED
      BY <2>1, <2>2, <3>1
  <2> QED
    BY <2>3, <2>4, <2>5
<1>7. ASSUME NEW p \in 1..(L + 1)
      PROVE  parentOf(s, b[p]) = v \/ \E r \in 1..(L + 1) : r < p /\ b[r] = parentOf(s, b[p])
  <2>1. CASE p = 1
    BY <1>1, <2>1
  <2>2. CASE p # 1
    <3>1. p - 1 \in 1..L /\ b[p] = q[p - 1]
      BY <1>2, <2>2
    <3>2. CASE parentOf(s, q[p - 1]) = k
      <4>1. 1 < p
        BY <1>0, <2>2
      <4> QED
        BY <1>1, <1>2, <3>1, <3>2, <4>1
    <3>3. ASSUME NEW r \in 1..L, r < p - 1, q[r] = parentOf(s, q[p - 1])
          PROVE  \E x \in 1..(L + 1) : x < p /\ b[x] = parentOf(s, b[p])
      <4>1. r + 1 < p
        BY <1>0, <3>3
      <4> QED
        BY <1>2, <3>1, <3>3, <4>1
    <3> QED
      BY <3>1, <3>2, <3>3 DEF Drawn, L
  <2> QED
    BY <2>1, <2>2
<1> QED
  BY <1>1, <1>3, <1>4, <1>6, <1>7 DEF BlockDrawn, b

\* What renderTree prints under node v, when g is what is printed under its children.
Beneath(g, s, v) ==
  LET kids == children(s, v) IN Flat([k \in DOMAIN kids |-> <<kids[k]>> \o g[kids[k]]])

\* With what is under the children, what is under the node is printed.
LEMMA BeneathDrawn ==
  ASSUME NEW B, NEW s \in Seq(B), Stamped(s), NEW u, Climbs(u, s), NEW v \in 0..Len(s),
         NEW e \in 0..(MaxTreeDepth - 1), AtDepth(u, v, e), NEW g \in [0..Len(s) -> Seq(1..Len(s))],
         \A k \in 1..Len(s) : AtDepth(u, k, e + 1) => Drawn(g[k], u, s, k, e + 1)
  PROVE  Drawn(Beneath(g, s, v), u, s, v, e)
<1> DEFINE n == Len(s)
           kids == children(s, v)
           blocks == [k \in DOMAIN kids |-> <<kids[k]>> \o g[kids[k]]]
           q == Flat(blocks)
           K == Len(kids)
<1>0. n \in Nat /\ MaxTreeDepth \in Nat /\ e + 1 \in 1..MaxTreeDepth
  BY DepthNat
<1>1. /\ kids \in Seq({i \in 1..n : parentOf(s, i) = v})
      /\ \A i \in 1..n : parentOf(s, i) = v => \E k \in 1..K : kids[k] = i
      /\ \A k, l \in 1..K : k # l => kids[k] # kids[l]
  <2>1. Kids(kids, s, v)
    BY ChildrenAre
  <2> HIDE DEF kids
  <2> QED
    BY <2>1 DEF Kids
<1>2. K \in Nat /\ DOMAIN kids = 1..K /\ \A k \in 1..K : kids[k] \in 1..n /\ parentOf(s, kids[k]) = v
  BY <1>1
<1> HIDE DEF kids, n, K
<1>3. \A k \in 1..K : AtDepth(u, kids[k], e + 1)
  BY <1>0, <1>2, ChildDepth DEF n
<1>4. \A k \in 1..K : blocks[k] \in Seq(1..n) /\ BlockDrawn(blocks[k], u, s, kids[k], v, e + 1)
  <2> SUFFICES ASSUME NEW k \in 1..K
               PROVE  blocks[k] \in Seq(1..n) /\ BlockDrawn(blocks[k], u, s, kids[k], v, e + 1)
    OBVIOUS
  <2>1. kids[k] \in 1..n /\ parentOf(s, kids[k]) = v /\ AtDepth(u, kids[k], e + 1)
    BY <1>2, <1>3
  <2>2. g[kids[k]] \in Seq(1..n) /\ Drawn(g[kids[k]], u, s, kids[k], e + 1)
    BY <1>0, <2>1 DEF n
  <2>3. blocks[k] = <<kids[k]>> \o g[kids[k]]
    BY <1>2
  <2> HIDE DEF blocks
  <2> QED
    BY <1>0, <2>1, <2>2, <2>3, NodeDrawn DEF n
<1>5. blocks \in Seq(Seq(1..n)) /\ Len(blocks) = K
  <2>1. DOMAIN blocks = 1..K /\ blocks = [k \in 1..K |-> blocks[k]]
    BY <1>2
  <2>2. \A k \in 1..K : blocks[k] \in Seq(1..n)
    BY <1>4
  <2> HIDE DEF blocks
  <2>3. blocks \in [1..K -> Seq(1..n)]
    BY <2>1, <2>2
  <2> QED
    BY <1>2, <2>3
<1> HIDE DEF blocks, q
<1>6. PICK off : q \in Seq(1..n) /\ Laid(q, blocks, K, off)
  BY <1>5, FlatLaid DEF q
<1>7. \A m \in 1..K : Len(blocks[m]) \in Nat /\ off[m] \in Nat /\ off[m] + Len(blocks[m]) <= Len(q)
  BY <1>4, <1>6 DEF Laid
<1>8. ASSUME NEW p \in 1..Len(q)
      PROVE  \E m \in 1..K, i \in Nat : i \in 1..Len(blocks[m]) /\ p = off[m] + i /\ q[p] = blocks[m][i]
  <2>1. PICK m \in 1..K : \E i \in 1..Len(blocks[m]) : p = off[m] + i
    BY <1>6 DEF Laid
  <2>2. PICK i \in 1..Len(blocks[m]) : p = off[m] + i
    BY <2>1
  <2>3. i \in Nat /\ q[p] = blocks[m][i]
    BY <1>6, <2>2 DEF Laid
  <2> QED
    BY <2>2, <2>3
<1>9. ASSUME NEW m \in 1..K, NEW i \in 1..Len(blocks[m])
      PROVE  off[m] + i \in 1..Len(q) /\ q[off[m] + i] = blocks[m][i]
  <2>1. off[m] + i \in 1..Len(q)
    BY <1>6, <1>7
  <2> QED
    BY <1>6, <2>1 DEF Laid
<1>10. \A m \in 1..K : \A i \in 1..Len(blocks[m]) : blocks[m][i] \in 1..n /\ From(u, blocks[m][i], kids[m], e + 1)
  <2> SUFFICES ASSUME NEW m \in 1..K, NEW i \in 1..Len(blocks[m])
               PROVE  blocks[m][i] \in 1..n /\ From(u, blocks[m][i], kids[m], e + 1)
    OBVIOUS
  <2>1. blocks[m] \in Seq(1..n) /\ BlockDrawn(blocks[m], u, s, kids[m], v, e + 1)
    BY <1>4
  <2>2. ASSUME NEW b \in Seq(1..n), NEW j \in 1..Len(b) PROVE b[j] \in 1..n
    BY ElementOfSeq
  <2>3. From(u, blocks[m][i], kids[m], e + 1)
    BY Zenon, <2>1 DEF BlockDrawn
  <2> QED
    BY Zenon, <2>1, <2>2, <2>3
<1>11. \A p \in 1..Len(q) : Under(u, q[p], v, e)
  <2> SUFFICES ASSUME NEW p \in 1..Len(q) PROVE Under(u, q[p], v, e)
    OBVIOUS
  <2>1. PICK m \in 1..K, i \in Nat : i \in 1..Len(blocks[m]) /\ q[p] = blocks[m][i]
    BY <1>8
  <2>2. q[p] \in 1..n /\ kids[m] \in 1..n /\ parentOf(s, kids[m]) = v /\ From(u, q[p], kids[m], e + 1)
    BY <1>2, <1>10, <2>1
  <2> QED
    BY <1>0, <2>2, ChildUnder DEF n
<1>12. ASSUME NEW i \in 1..n, Under(u, i, v, e) PROVE \E p \in 1..Len(q) : q[p] = i
  <2>1. PICK k \in 1..n : parentOf(s, k) = v /\ From(u, i, k, e + 1)
    BY <1>0, <1>12, UnderChild DEF n
  <2>2. PICK m \in 1..K : kids[m] = k
    BY <1>1, <2>1
  <2>3. PICK j \in 1..Len(blocks[m]) : blocks[m][j] = i
    BY <1>4, <2>1, <2>2 DEF BlockDrawn, n
  <2> QED
    BY <1>9, <2>3
<1>13. ASSUME NEW p \in 1..Len(q), NEW r \in 1..Len(q), p # r PROVE q[p] # q[r]
  <2>1. PICK m \in 1..K, i \in Nat : i \in 1..Len(blocks[m]) /\ p = off[m] + i /\ q[p] = blocks[m][i]
    BY <1>8
  <2>2. PICK l \in 1..K, j \in Nat : j \in 1..Len(blocks[l]) /\ r = off[l] + j /\ q[r] = blocks[l][j]
    BY <1>8
  <2>3. CASE m = l
    <3>1. i # j
      BY <1>13, <2>1, <2>2, <2>3
    <3> QED
      BY <1>4, <2>1, <2>2, <2>3, <3>1 DEF BlockDrawn
  <2>4. CASE m # l
    <3> SUFFICES ASSUME q[p] = q[r] PROVE FALSE
      OBVIOUS
    <3>1. /\ q[p] \in 1..n /\ From(u, q[p], kids[m], e + 1) /\ From(u, q[p], kids[l], e + 1)
          /\ kids[m] \in 1..n /\ kids[l] \in 1..n
          /\ AtDepth(u, kids[m], e + 1) /\ AtDepth(u, kids[l], e + 1)
      BY <1>2, <1>3, <1>10, <2>1, <2>2
    <3>2. kids[m] = kids[l]
      BY <1>0, <3>1, FromOne DEF n
    <3> QED
      BY <1>1, <2>4, <3>2
  <2> QED
    BY <2>3, <2>4
<1>14. ASSUME NEW p \in 1..Len(q)
       PROVE  parentOf(s, q[p]) = v \/ \E r \in 1..Len(q) : r < p /\ q[r] = parentOf(s, q[p])
  <2>1. PICK m \in 1..K, i \in Nat : i \in 1..Len(blocks[m]) /\ p = off[m] + i /\ q[p] = blocks[m][i]
    BY <1>8
  <2>2. CASE parentOf(s, blocks[m][i]) = v
    BY <2>1, <2>2
  <2>3. ASSUME NEW j \in 1..Len(blocks[m]), j < i, blocks[m][j] = parentOf(s, blocks[m][i])
        PROVE  \E r \in 1..Len(q) : r < p /\ q[r] = parentOf(s, q[p])
    <3>1. off[m] + j < p
      BY <1>7, <2>1, <2>3
    <3> QED
      BY <1>9, <2>1, <2>3, <3>1
  <2>4. BlockDrawn(blocks[m], u, s, kids[m], v, e + 1)
    BY <1>4, <2>1
  <2> QED
    BY <2>1, <2>2, <2>3, <2>4 DEF BlockDrawn
<1>15. Beneath(g, s, v) = q
  BY DEF Beneath, q, blocks, kids
<1> QED
  BY <1>11, <1>12, <1>13, <1>14, <1>15 DEF Drawn, n

\* f holds what renderTree prints under each node, levels levels down.
Grows(f, s) ==
  f = [levels \in 0..MaxTreeDepth |->
        [v \in 0..Len(s) |-> IF levels = 0 THEN <<>> ELSE Beneath(f[levels - 1], s, v)]]

\* renderTree prints what is under the root.
LEMMA TreeIs ==
  ASSUME NEW s
  PROVE  renderTree(s) = (CHOOSE f : Grows(f, s))[MaxTreeDepth][0]
BY DEF renderTree, Grows, Beneath, Flat

\* What is under a node are nodes.
LEMMA BeneathNodes ==
  ASSUME NEW B, NEW s \in Seq(B), Stamped(s), NEW v, NEW g \in [0..Len(s) -> Seq(1..Len(s))]
  PROVE  Beneath(g, s, v) \in Seq(1..Len(s))
<1> DEFINE n == Len(s)
           kids == children(s, v)
           K == Len(kids)
           blocks == [k \in DOMAIN kids |-> <<kids[k]>> \o g[kids[k]]]
<1>1. Kids(kids, s, v)
  BY ChildrenAre
<1> HIDE DEF kids
<1>2. n \in Nat /\ K \in Nat /\ DOMAIN kids = 1..K /\ \A k \in 1..K : kids[k] \in 1..n
  BY <1>1 DEF Kids
<1> HIDE DEF n, K
<1>3. \A k \in 1..K : blocks[k] \in Seq(1..n)
  <2> SUFFICES ASSUME NEW k \in 1..K PROVE blocks[k] \in Seq(1..n)
    OBVIOUS
  <2>1. kids[k] \in 1..n /\ g[kids[k]] \in Seq(1..n)
    BY <1>2 DEF n
  <2>2. blocks[k] = <<kids[k]>> \o g[kids[k]]
    BY <1>2
  <2> HIDE DEF blocks
  <2> QED
    BY <2>1, <2>2
<1>4. blocks \in Seq(Seq(1..n))
  <2>1. DOMAIN blocks = 1..K /\ blocks = [k \in 1..K |-> blocks[k]]
    BY <1>2
  <2> HIDE DEF blocks
  <2>2. blocks \in [1..K -> Seq(1..n)]
    BY <1>3, <2>1
  <2> QED
    BY <1>2, <2>2
<1>5. Flat(blocks) \in Seq(1..n)
  <2> HIDE DEF blocks
  <2> QED
    BY <1>4, FlatLaid
<1> QED
  BY <1>5 DEF Beneath, kids, n

\* It is made from the leaves up.
LEMMA TreeBy ==
  ASSUME NEW B, NEW s \in Seq(B), Stamped(s)
  PROVE  \E f \in [0..MaxTreeDepth -> [0..Len(s) -> Seq(1..Len(s))]] :
           /\ renderTree(s) = f[MaxTreeDepth][0]
           /\ \A v \in 0..Len(s) : f[0][v] = <<>>
           /\ \A l \in 1..MaxTreeDepth : \A v \in 0..Len(s) : f[l][v] = Beneath(f[l - 1], s, v)
<1> DEFINE n == Len(s)
           D == MaxTreeDepth
           X == [0..n -> Seq(1..n)]
           T == [g \in X |-> [v \in 0..n |-> Beneath(g, s, v)]]
           none == [v \in 0..n |-> <<>>]
<1>0. n \in Nat /\ D \in Nat
  BY DepthNat
<1>1. T \in [X -> X] /\ none \in X
  <2>1. ASSUME NEW g \in X PROVE [v \in 0..n |-> Beneath(g, s, v)] \in X
    BY BeneathNodes
  <2> QED
    BY <2>1
<1>2. PICK f \in [0..D -> X] : f[0] = none /\ \A l \in 1..D : f[l] = T[f[l - 1]]
  <2>1. D \in Nat /\ none \in X /\ Maps(T, X)
    BY <1>0, <1>1 DEF Maps
  <2> HIDE DEF D, T, none, X
  <2>2. PICK f : Iterates(f, T, X, none, D)
    BY <2>1, Iterated
  <2> QED
    BY <2>2 DEF Iterates
<1>3. \A l \in 1..D : f[l] = [v \in 0..n |-> Beneath(f[l - 1], s, v)]
  <2>1. \A l \in 1..D : l - 1 \in 0..D /\ f[l - 1] \in X
    BY <1>0
  <2> HIDE DEF X
  <2> QED
    BY <1>2, <2>1
<1>4. Grows(f, s)
  <2>1. ASSUME NEW l \in 0..D
        PROVE  f[l] = [v \in 0..n |-> IF l = 0 THEN <<>> ELSE Beneath(f[l - 1], s, v)]
    <3>1. CASE l = 0
      BY <1>2, <3>1
    <3>2. CASE l # 0
      <4>1. l \in 1..D
        BY <1>0, <3>2
      <4> QED
        BY <1>3, <3>2, <4>1
    <3> QED
      BY <3>1, <3>2
  <2>2. f = [l \in 0..D |-> f[l]]
    OBVIOUS
  <2> QED
    BY <2>1, <2>2 DEF Grows
<1> DEFINE h == CHOOSE g : Grows(g, s)
<1>5. Grows(h, s) /\ renderTree(s) = h[D][0]
  BY <1>4, TreeIs
<1> HIDE DEF h, T, X, none
<1>6. \A l \in 0..D : h[l] = f[l]
  <2> DEFINE Off == {l \in 0..D : h[l] # f[l]}
  <2>1. ASSUME Off # {} PROVE FALSE
    <3>1. PICK m \in Off : \A l \in Off : m <= l
      <4>1. Off \subseteq Nat
        BY <1>0
      <4> HIDE DEF Off
      <4> QED
        BY <2>1, <4>1, Least
    <3>2. m \in 0..D /\ h[m] # f[m]
      OBVIOUS
    <3>3. /\ h[m] = [v \in 0..n |-> IF m = 0 THEN <<>> ELSE Beneath(h[m - 1], s, v)]
          /\ f[m] = [v \in 0..n |-> IF m = 0 THEN <<>> ELSE Beneath(f[m - 1], s, v)]
      BY <1>4, <1>5, <3>2 DEF Grows
    <3>4. m # 0
      BY <3>2, <3>3
    <3>5. m - 1 \in 0..D /\ ~(m <= m - 1)
      BY <1>0, <3>2, <3>4
    <3>6. m - 1 \notin Off
      <4> HIDE DEF Off
      <4> QED
        BY <3>1, <3>5
    <3>7. h[m - 1] = f[m - 1]
      BY <3>5, <3>6
    <3> QED
      BY <3>2, <3>3, <3>7
  <2> QED
    BY <2>1
<1>7. renderTree(s) = f[D][0]
  BY <1>0, <1>5, <1>6
<1>8. \A v \in 0..n : f[0][v] = <<>>
  BY <1>2 DEF none
<1>9. \A l \in 1..D : \A v \in 0..n : f[l][v] = Beneath(f[l - 1], s, v)
  BY <1>3
<1> QED
  BY <1>7, <1>8, <1>9 DEF X

\* Every node that is not too deep is printed once, behind its parent, and no other.
LEMMA TreeDrawn ==
  ASSUME NEW B, NEW s \in Seq(B), Stamped(s), NEW u, Climbs(u, s)
  PROVE  renderTree(s) \in Seq(1..Len(s)) /\ Drawn(renderTree(s), u, s, 0, 0)
<1> DEFINE n == Len(s)
           D == MaxTreeDepth
<1>0. n \in Nat /\ D \in Nat
  BY DepthNat
<1>1. PICK f \in [0..D -> [0..n -> Seq(1..n)]] :
        /\ renderTree(s) = f[D][0]
        /\ \A v \in 0..n : f[0][v] = <<>>
        /\ \A l \in 1..D : \A v \in 0..n : f[l][v] = Beneath(f[l - 1], s, v)
  BY TreeBy
<1> DEFINE Done(l) == \A v \in 0..n : AtDepth(u, v, D - l) => Drawn(f[l][v], u, s, v, D - l)
           Missing == {l \in 0..D : ~Done(l)}
<1>2. Done(0)
  <2> SUFFICES ASSUME NEW v \in 0..n PROVE Drawn(<<>>, u, s, v, D)
    BY <1>0, <1>1
  <2>1. Len(<<>>) = 0 /\ (D + 1)..D = {}
    BY <1>0
  <2> QED
    BY <2>1 DEF Drawn, Under
<1>3. ASSUME NEW l \in 1..D, Done(l - 1) PROVE Done(l)
  <2> SUFFICES ASSUME NEW v \in 0..n, AtDepth(u, v, D - l) PROVE Drawn(f[l][v], u, s, v, D - l)
    OBVIOUS
  <2> DEFINE e == D - l
             g == f[l - 1]
  <2>1. e \in 0..(D - 1) /\ e + 1 = D - (l - 1) /\ l - 1 \in 0..D /\ 1..n \subseteq 0..n
    BY <1>0
  <2>2. g \in [0..n -> Seq(1..n)]
    BY <1>1, <2>1
  <2>3. \A k \in 1..n : AtDepth(u, k, e + 1) => Drawn(g[k], u, s, k, e + 1)
    BY <1>3, <2>1
  <2> HIDE DEF e, g
  <2>4. Drawn(Beneath(g, s, v), u, s, v, e)
    BY <2>1, <2>2, <2>3, BeneathDrawn DEF e
  <2> QED
    BY <1>1, <2>4 DEF e, g
<1>4. ASSUME Missing # {} PROVE FALSE
  <2>1. PICK m \in Missing : \A l \in Missing : m <= l
    <3>1. Missing \subseteq Nat
      BY <1>0
    <3> HIDE DEF Missing
    <3> QED
      BY <1>4, <3>1, Least
  <2>2. m \in 0..D /\ ~Done(m)
    OBVIOUS
  <2> HIDE DEF Done
  <2>3. m # 0
    BY <1>2, <2>2
  <2>4. m \in 1..D /\ m - 1 \in 0..D /\ ~(m <= m - 1)
    BY <1>0, <2>2, <2>3
  <2>5. Done(m - 1)
    <3>1. m - 1 \notin Missing
      <4> HIDE DEF Missing
      <4> QED
        BY <2>1, <2>4
    <3> QED
      BY <2>4, <3>1
  <2> QED
    BY <1>3, <2>2, <2>4, <2>5
<1>5. Done(D)
  <2>1. Missing = {}
    BY <1>4
  <2>2. D \in 0..D
    BY <1>0
  <2> HIDE DEF Done
  <2> QED
    BY <2>1, <2>2
<1>6. Drawn(f[D][0], u, s, 0, 0) /\ f[D][0] \in Seq(1..n)
  <2>1. D \in 0..D /\ 0 \in 0..n /\ D - D = 0 /\ AtDepth(u, 0, 0)
    BY <1>0 DEF AtDepth
  <2> QED
    BY <1>1, <1>5, <2>1
<1> QED
  BY <1>1, <1>6

\* Where Up goes from node j, and up from node i.
Link(s, j) ==
  LET p == {k \in DOMAIN s : s[j].parent # 0 /\ s[k].id = s[j].parent}
  IN IF p = {} \/ Max(p) = j THEN 0 ELSE Max(p)
Climb(f, s, i) ==
  f = [k \in 0..MaxTreeDepth |-> IF k = 0 THEN i ELSE IF f[k - 1] = 0 THEN 0 ELSE Link(s, f[k - 1])]

\* Up is the climb from i by the links.
LEMMA UpIs ==
  ASSUME NEW i
  PROVE  Up(i) = CHOOSE f : Climb(f, got, i)
BY DEF Up, Climb, Link

\* From parent to parent.
LEMMA ClimbIs ==
  ASSUME NEW B, NEW s \in Seq(B), NEW i \in 1..Len(s)
  PROVE  LET h == CHOOSE f : Climb(f, s, i) IN
         /\ h \in [0..MaxTreeDepth -> 0..Len(s)] /\ h[0] = i
         /\ \A k \in 1..MaxTreeDepth : h[k] = IF h[k - 1] = 0 THEN 0 ELSE parentOf(s, h[k - 1])
<1> DEFINE n == Len(s)
           D == MaxTreeDepth
           X == 0..n
           T == [j \in X |-> IF j = 0 THEN 0 ELSE parentOf(s, j)]
           h == CHOOSE f : Climb(f, s, i)
<1>0. n \in Nat /\ D \in Nat /\ i \in X /\ \A j \in X : j # 0 => j \in 1..n
  BY DepthNat
<1>1. \A j \in 1..n : Link(s, j) = parentOf(s, j) /\ parentOf(s, j) \in X
  BY ParentIs DEF Link
<1>2. T \in [X -> X]
  BY <1>0, <1>1
<1>3. PICK f : Iterates(f, T, X, i, D)
  <2>1. Maps(T, X) /\ D \in Nat /\ i \in X
    BY <1>0, <1>2 DEF Maps
  <2> HIDE DEF T, X, D
  <2> QED
    BY <2>1, Iterated
<1>4. /\ f \in [0..D -> X] /\ f[0] = i
      /\ \A k \in 1..D : f[k] = IF f[k - 1] = 0 THEN 0 ELSE parentOf(s, f[k - 1])
  <2>1. f \in [0..D -> X] /\ f[0] = i /\ \A k \in 1..D : f[k] = T[f[k - 1]]
    BY <1>3 DEF Iterates
  <2>2. \A k \in 1..D : k - 1 \in 0..D
    BY <1>0
  <2> QED
    BY <2>1, <2>2
<1>5. Climb(f, s, i)
  <2>1. ASSUME NEW k \in 0..D
        PROVE  f[k] = IF k = 0 THEN i ELSE IF f[k - 1] = 0 THEN 0 ELSE Link(s, f[k - 1])
    <3>1. CASE k = 0
      BY <1>4, <3>1
    <3>2. CASE k # 0
      <4>1. k \in 1..D /\ k - 1 \in 0..D
        BY <1>0, <3>2
      <4>2. f[k - 1] # 0 => f[k - 1] \in 1..n
        BY <1>0, <1>4, <4>1
      <4> QED
        BY <1>1, <1>4, <3>2, <4>1, <4>2
    <3> QED
      BY <3>1, <3>2
  <2>2. f = [k \in 0..D |-> f[k]]
    BY <1>4
  <2> QED
    BY <2>1, <2>2 DEF Climb
<1>6. Climb(h, s, i)
  BY <1>5
<1> HIDE DEF h, T, X
<1>7. \A k \in 0..D : h[k] = f[k]
  <2> DEFINE Off == {k \in 0..D : h[k] # f[k]}
  <2>1. ASSUME Off # {} PROVE FALSE
    <3>1. PICK m \in Off : \A k \in Off : m <= k
      <4>1. Off \subseteq Nat
        BY <1>0
      <4> HIDE DEF Off
      <4> QED
        BY <2>1, <4>1, Least
    <3>2. m \in 0..D /\ h[m] # f[m]
      OBVIOUS
    <3>3. /\ h[m] = IF m = 0 THEN i ELSE IF h[m - 1] = 0 THEN 0 ELSE Link(s, h[m - 1])
          /\ f[m] = IF m = 0 THEN i ELSE IF f[m - 1] = 0 THEN 0 ELSE Link(s, f[m - 1])
      BY <1>5, <1>6, <3>2 DEF Climb
    <3>4. m # 0
      BY <3>2, <3>3
    <3>5. m - 1 \in 0..D /\ ~(m <= m - 1)
      BY <1>0, <3>2, <3>4
    <3>6. m - 1 \notin Off
      <4> HIDE DEF Off
      <4> QED
        BY <3>1, <3>5
    <3> QED
      BY <3>2, <3>3, <3>5, <3>6
  <2> QED
    BY <2>1
<1>8. h = f
  <2>1. h = [k \in 0..D |-> h[k]] /\ f = [k \in 0..D |-> f[k]]
    BY <1>4, <1>6 DEF Climb
  <2> QED
    BY <1>7, <2>1
<1> QED
  BY <1>4, <1>8 DEF h, X

\* The ancestors that TreeKeepsSpans goes by are those of the tree.
LEMMA UpsClimb ==
  ASSUME NEW B, got \in Seq(B)
  PROVE  Climbs([i \in 1..Len(got) |-> Up(i)], got)
<1> DEFINE u == [i \in 1..Len(got) |-> Up(i)]
<1>1. ASSUME NEW i \in 1..Len(got)
      PROVE  /\ u[i] \in [0..MaxTreeDepth -> 0..Len(got)] /\ u[i][0] = i
             /\ \A k \in 1..MaxTreeDepth : u[i][k] = IF u[i][k - 1] = 0 THEN 0 ELSE parentOf(got, u[i][k - 1])
  <2> DEFINE h == CHOOSE f : Climb(f, got, i)
  <2>1. u[i] = h
    BY UpIs
  <2>2. /\ h \in [0..MaxTreeDepth -> 0..Len(got)] /\ h[0] = i
        /\ \A k \in 1..MaxTreeDepth : h[k] = IF h[k - 1] = 0 THEN 0 ELSE parentOf(got, h[k - 1])
    BY ClimbIs
  <2> HIDE DEF h, u
  <2> QED
    BY <2>1, <2>2
<1> HIDE DEF u
<1>2. u \in [1..Len(got) -> [0..MaxTreeDepth -> 0..Len(got)]]
  <2>1. u = [i \in 1..Len(got) |-> u[i]]
    BY DEF u
  <2> QED
    BY <1>1, <2>1
<1> QED
  BY <1>1, <1>2 DEF Climbs, u

\* What TreeKeepsSpans says of node i, if q is printed.
PrintedOnce(q, u, i) ==
  LET at(j) == {k \in DOMAIN q : q[k] = j} IN
  IF u[i][MaxTreeDepth] # 0 THEN at(i) = {}
  ELSE Cardinality(at(i)) = 1 /\ (u[i][1] # 0 => Min(at(u[i][1])) < Min(at(i)))

\* The least of one number.
LEMMA MinOne ==
  ASSUME NEW x \in Nat
  PROVE  Min({x}) = x /\ Cardinality({x}) = 1
<1>1. Min({x}) = x
  BY DEF Min
<1> QED
  BY <1>1, FS_Singleton

\* A node is printed once, behind its parent, if it is not too deep.
LEMMA NodePrinted ==
  ASSUME NEW B, NEW s \in Seq(B), Stamped(s), NEW u, Climbs(u, s), NEW i \in 1..Len(s)
  PROVE  PrintedOnce(renderTree(s), u, i)
<1> DEFINE n == Len(s)
           D == MaxTreeDepth
           q == renderTree(s)
           at(j) == {k \in DOMAIN q : q[k] = j}
<1>0. n \in Nat /\ D \in Nat /\ 1 \in 1..D /\ i # 0 /\ D \in 0..D
  BY DepthNat
<1>1. /\ q \in Seq(1..n)
      /\ \A p \in 1..Len(q) : Under(u, q[p], 0, 0)
      /\ \A j \in 1..n : Under(u, j, 0, 0) => \E p \in 1..Len(q) : q[p] = j
      /\ \A p, r \in 1..Len(q) : p # r => q[p] # q[r]
      /\ \A p \in 1..Len(q) : parentOf(s, q[p]) = 0 \/ \E r \in 1..Len(q) : r < p /\ q[r] = parentOf(s, q[p])
  BY TreeDrawn DEF Drawn
<1> HIDE DEF q
<1>2. DOMAIN q = 1..Len(q) /\ Len(q) \in Nat
  BY <1>1
<1>3. ASSUME u[i][D] # 0 PROVE at(i) = {}
  <2> SUFFICES ASSUME NEW p \in 1..Len(q), q[p] = i PROVE FALSE
    BY <1>2
  <2>1. PICK d \in 1..D : AtDepth(u, i, d)
    BY <1>0, <1>1 DEF Under
  <2>2. u[i][d] = 0 /\ d \in 0..D /\ D \in d..D
    BY <1>0, <2>1 DEF AtDepth
  <2> QED
    BY <1>0, <1>3, <2>2, PastTop
<1>4. ASSUME u[i][D] = 0 PROVE Cardinality(at(i)) = 1 /\ (u[i][1] # 0 => Min(at(u[i][1])) < Min(at(i)))
  <2> DEFINE Zero == {k \in 0..D : u[i][k] = 0}
  <2>1. PICK d \in Zero : \A k \in Zero : d <= k
    <3>1. Zero \subseteq Nat /\ D \in Zero
      BY <1>0, <1>4
    <3> HIDE DEF Zero
    <3> QED
      BY <3>1, Least
  <2>2. d \in 0..D /\ u[i][d] = 0
    OBVIOUS
  <2>3. d # 0
    BY <1>0, <2>2 DEF Climbs
  <2>4. d \in 1..D /\ d - 1 \in 0..D /\ ~(d <= d - 1) /\ d - 0 = d /\ 0 + 1 = 1
    BY <1>0, <2>2, <2>3
  <2>5. u[i][d - 1] # 0
    BY <2>1, <2>4
  <2>6. Under(u, i, 0, 0)
    <3>1. AtDepth(u, i, d)
      BY <1>0, <2>2, <2>3, <2>5 DEF AtDepth
    <3> QED
      BY <2>2, <2>4, <3>1 DEF Under
  <2>7. PICK p \in 1..Len(q) : q[p] = i
    BY <1>1, <2>6
  <2>8. at(i) = {p} /\ p \in Nat
    BY <1>1, <1>2, <2>7
  <2>9. u[i][1] = parentOf(s, i)
    <3>1. u[i][0] = i /\ u[i][1] = IF u[i][1 - 1] = 0 THEN 0 ELSE parentOf(s, u[i][1 - 1])
      BY <1>0 DEF Climbs
    <3> QED
      BY <1>0, <3>1
  <2>10. ASSUME u[i][1] # 0 PROVE \E r \in Nat : at(u[i][1]) = {r} /\ r < p
    <3>1. PICK r \in 1..Len(q) : r < p /\ q[r] = parentOf(s, i)
      BY <1>1, <2>7, <2>9, <2>10
    <3>2. at(parentOf(s, i)) = {r} /\ r \in Nat
      BY <1>1, <1>2, <3>1
    <3> QED
      BY <2>9, <3>1, <3>2
  <2> HIDE DEF at
  <2> QED
    BY <2>8, <2>10, MinOne
<1> QED
  BY <1>3, <1>4 DEF PrintedOnce, q

\* The spans that may be stored.
SpanSet == {l \in UNION {{lines[i] : i \in DOMAIN lines} : lines \in Trace} : l # Bad}

\* What is read of a chunk are spans.
LEMMA ReadAllSpans ==
  ASSUME NEW lines \in Trace
  PROVE  ReadAll(lines) \in Seq(SpanSet)
<1> DEFINE S == {i \in DOMAIN lines : lines[i] # Bad}
           order == Sorted(S, <)
<1>1. Len(lines) \in Nat /\ DOMAIN lines = 1..Len(lines)
  BY ToolsAssumption
<1>2. IsFiniteSet(S) /\ S \subseteq Int
  <2>1. IsFiniteSet(1..Len(lines)) /\ S \subseteq 1..Len(lines)
    BY <1>1, FS_Interval
  <2> HIDE DEF S
  <2>2. IsFiniteSet(S)
    BY <2>1, FS_Subset
  <2> QED
    BY <1>1, <2>1, <2>2
<1>3. \A i \in S : lines[i] \in SpanSet
  BY DEF SpanSet
<1> HIDE DEF S
<1>4. order \in Seq(S)
  BY <1>2, SortedNumbers
<1> HIDE DEF order
<1>5. [k \in DOMAIN order |-> lines[order[k]]] \in Seq(SpanSet)
  <2>1. Len(order) \in Nat /\ DOMAIN order = 1..Len(order) /\ \A k \in 1..Len(order) : order[k] \in S
    BY <1>4
  <2> QED
    BY <1>3, <2>1
<1> QED
  BY <1>5 DEF ReadAll, Entries, order, S

\* Their times and ids are numbers.
LEMMA SpansStamped ==
  ASSUME NEW s \in Seq(SpanSet)
  PROVE  Stamped(s)
<1>1. \A l \in SpanSet : l.start \in Int /\ l.id \in Int
  BY ToolsAssumption DEF SpanSet
<1>2. \A i \in 1..Len(s) : s[i] \in SpanSet
  OBVIOUS
<1> QED
  BY <1>1, <1>2 DEF Stamped

\* The chunk files stay as they were stored.
StoredInv ==
  /\ IsFiniteSet(DOMAIN chunks) /\ DOMAIN chunks \subseteq ChunkIds
  /\ \A c \in DOMAIN chunks : chunks[c] \in Trace
  /\ \A c \in DOMAIN first[2] : c \in DOMAIN chunks /\ chunks[c] = first[2][c]

\* The spans chunk c held when tree began are loaded.
IsLoaded(c) == ToSet(ReadAll(first[2][c])) \subseteq ToSet(got)

\* Every chunk that was there when tree began is loaded or still on its list.
TreeInv ==
  cmd.name = "tree" =>
    /\ StoredInv /\ got \in Seq(SpanSet)
    /\ pc \in {"start", "load", "done"}
    /\ pc = "load" =>
         /\ names \in Seq(DOMAIN chunks)
         /\ \A c \in DOMAIN first[2] : (\E i \in 1..Len(names) : names[i] = c) \/ IsLoaded(c)
    /\ pc = "done" => TreeKeepsSpans

\* Nothing is stored or loaded at first.
LEMMA TreeInit == ToolsInit => TreeInv
<1> SUFFICES ASSUME ToolsInit PROVE TreeInv
  OBVIOUS
<1>1. pc = "start" /\ got = <<>> /\ chunks = <<>> /\ first[2] = chunks
  BY DEF ToolsInit
<1>2. DOMAIN chunks = {} /\ IsFiniteSet({}) /\ got \in Seq(SpanSet)
  BY <1>1, FS_EmptySet
<1> QED
  BY <1>1, <1>2 DEF TreeInv, StoredInv

\* What is printed does not change when it is done.
LEMMA TreeKept ==
  ASSUME UNCHANGED <<cmd, pc, first, got, out>>
  PROVE  TreeKeepsSpans' <=> TreeKeepsSpans
BY DEF TreeKeepsSpans, Printed, Up

\* More may be stored while tree loads.
LEMMA TreeOthers ==
  ASSUME TreeInv, EveryoneElse
  PROVE  TreeInv'
<1>1. UNCHANGED <<hash, cmd, pc, users, names, got, work, out, first>>
  BY DEF EveryoneElse, Others, Record, Header, Write, Die, CloseSession, ReusePid, Tick, SetClock, StoreChunk
<1> SUFFICES ASSUME cmd.name = "tree" PROVE TreeInv'
  BY <1>1 DEF TreeInv
<1>2. TreeKeepsSpans' <=> TreeKeepsSpans
  BY <1>1, TreeKept
<1>3. \A c : IsLoaded(c)' <=> IsLoaded(c)
  BY <1>1 DEF IsLoaded
<1>4. StoredInv' /\ DOMAIN chunks \subseteq DOMAIN chunks'
  <2>1. CASE UNCHANGED chunks
    BY <1>1, <2>1 DEF TreeInv, StoredInv
  <2>2. ASSUME NEW c \in ChunkIds, NEW lines \in Trace, StoreChunk(c, lines)
        PROVE  StoredInv' /\ DOMAIN chunks \subseteq DOMAIN chunks'
    <3>1. /\ c \notin DOMAIN chunks /\ DOMAIN chunks' = DOMAIN chunks \cup {c}
          /\ chunks'[c] = lines /\ \A d \in DOMAIN chunks : chunks'[d] = chunks[d]
      BY <2>2 DEF StoreChunk
    <3>2. IsFiniteSet(DOMAIN chunks) /\ DOMAIN chunks \subseteq ChunkIds
      BY DEF TreeInv, StoredInv
    <3>3. IsFiniteSet(DOMAIN chunks')
      BY <3>1, <3>2, FS_AddElement
    <3>4. /\ \A d \in DOMAIN chunks : chunks[d] \in Trace
          /\ \A d \in DOMAIN first[2] : d \in DOMAIN chunks /\ chunks[d] = first[2][d]
      BY DEF TreeInv, StoredInv
    <3> QED
      BY <1>1, <3>1, <3>2, <3>3, <3>4 DEF StoredInv
  <2>3. UNCHANGED chunks \/ \E c \in ChunkIds, lines \in Trace : StoreChunk(c, lines)
    BY DEF EveryoneElse, Record, Header, Write, Die, CloseSession, ReusePid, Tick, SetClock
  <2> QED
    BY <2>1, <2>2, <2>3
<1>5. names \in Seq(DOMAIN chunks) => names \in Seq(DOMAIN chunks')
  BY <1>4
<1> QED
  BY <1>1, <1>2, <1>3, <1>4, <1>5 DEF TreeInv

\* tree lists the chunks, loads one after the other, and prints.
LEMMA TreeStep ==
  ASSUME TreeInv,
         \/ Main \/ Operator \/ Delete \/ Pruned
         \/ \E i \in DOMAIN work : Scan(i) \/ Release(i)
  PROVE  TreeInv'
<1> SUFFICES ASSUME cmd.name = "tree" PROVE TreeInv'
  <2>1. cmd' = cmd
    BY DEF Main, Operator, Begin, NextUser, Visit, Walked, Pruned, Gate, Ask, Confirm, PrintBlocks, GroupRuns, Load,
           Loaded, Spawn, Scan, Release, Delete, Reads
  <2> QED
    BY <2>1 DEF TreeInv
<1>0. StoredInv /\ got \in Seq(SpanSet) /\ pc \in {"start", "load", "done"}
  BY DEF TreeInv
<1>1. Begin \/ Load \/ Loaded
  BY <1>0 DEF Main, Operator, Gate, Ask, Confirm, PrintBlocks, NextUser, Visit, Walked, GroupRuns, Spawn, Scan,
              Release, Delete, Pruned
<1>2. UNCHANGED <<chunks, cmd>>
  BY <1>1 DEF Begin, Load, Loaded, Reads, store
<1>3. CASE Begin
  <2>1. pc' = "load" /\ names' = ReadDir(chunks) /\ first'[2] = chunks /\ got' = got
    BY <1>3 DEF Begin, Go
  <2>2. /\ ReadDir(chunks) \in Seq(DOMAIN chunks)
        /\ \A c \in DOMAIN chunks : \E i \in 1..Len(ReadDir(chunks)) : ReadDir(chunks)[i] = c
    <3>1. IsFiniteSet(DOMAIN chunks) /\ DOMAIN chunks \subseteq Int
      BY <1>0, ToolsAssumption DEF StoredInv
    <3> QED
      BY <3>1, SortedNumbers DEF ReadDir
  <2>3. StoredInv'
    BY <1>0, <1>2, <2>1 DEF StoredInv
  <2> QED
    BY <1>0, <1>2, <2>1, <2>2, <2>3 DEF TreeInv
<1>4. CASE Load
  <2> DEFINE c0 == Head(names)
  <2>1. /\ pc = "load" /\ pc' = "load" /\ names # <<>> /\ names' = Tail(names)
        /\ got' = got \o ReadAll(chunks[c0]) /\ first' = first
    BY <1>4 DEF Load, Reads
  <2>2. /\ names \in Seq(DOMAIN chunks)
        /\ \A c \in DOMAIN first[2] : (\E i \in 1..Len(names) : names[i] = c) \/ IsLoaded(c)
    BY <2>1 DEF TreeInv
  <2>3. /\ c0 \in DOMAIN chunks /\ Tail(names) \in Seq(DOMAIN chunks)
        /\ \A i \in 1..Len(names) : names[i] = c0 \/ \E j \in 1..Len(Tail(names)) : Tail(names)[j] = names[i]
    <3>1. /\ Tail(names) \in Seq(DOMAIN chunks) /\ Len(Tail(names)) = Len(names) - 1 /\ Len(names) \in Nat
          /\ \A j \in 1..Len(Tail(names)) : Tail(names)[j] = names[j + 1]
          /\ c0 = names[1] /\ c0 \in DOMAIN chunks
      BY <2>1, <2>2
    <3>2. ASSUME NEW i \in 1..Len(names), i # 1
          PROVE  \E j \in 1..Len(Tail(names)) : Tail(names)[j] = names[i]
      <4>1. i - 1 \in 1..Len(Tail(names)) /\ (i - 1) + 1 = i
        BY <3>1, <3>2
      <4> QED
        BY <3>1, <4>1
    <3> QED
      BY <3>1, <3>2
  <2>4. ReadAll(chunks[c0]) \in Seq(SpanSet)
    BY <1>0, <2>3, ReadAllSpans DEF StoredInv
  <2>5. ToSet(got') = ToSet(got) \cup ToSet(ReadAll(chunks[c0])) /\ got' \in Seq(SpanSet)
    <3>1. ASSUME NEW a \in Seq(SpanSet), NEW b \in Seq(SpanSet)
          PROVE  ToSet(a \o b) = ToSet(a) \cup ToSet(b) /\ a \o b \in Seq(SpanSet)
      <4>1. /\ DOMAIN (a \o b) = 1..(Len(a) + Len(b)) /\ DOMAIN a = 1..Len(a) /\ DOMAIN b = 1..Len(b)
            /\ Len(a) \in Nat /\ Len(b) \in Nat /\ a \o b \in Seq(SpanSet)
        OBVIOUS
      <4>2. /\ \A i \in 1..Len(a) : i \in 1..(Len(a) + Len(b)) /\ (a \o b)[i] = a[i]
            /\ \A i \in 1..Len(b) : Len(a) + i \in 1..(Len(a) + Len(b)) /\ (a \o b)[Len(a) + i] = b[i]
        BY <4>1
      <4>3. \A i \in 1..(Len(a) + Len(b)) : i \in 1..Len(a) \/ (i - Len(a) \in 1..Len(b) /\ i = Len(a) + (i - Len(a)))
        BY <4>1
      <4> DEFINE w == a \o b
                 both == 1..(Len(a) + Len(b))
      <4> HIDE DEF w, both
      <4>4. ToSet(w) \subseteq ToSet(a) \cup ToSet(b)
        <5> SUFFICES ASSUME NEW i \in both PROVE w[i] \in ToSet(a) \cup ToSet(b)
          BY <4>1 DEF ToSet, both, w
        <5>1. CASE i \in 1..Len(a)
          BY <4>1, <4>2, <5>1 DEF ToSet, w
        <5>2. CASE i - Len(a) \in 1..Len(b) /\ i = Len(a) + (i - Len(a))
          <6>1. w[i] = b[i - Len(a)]
            BY <4>2, <5>2 DEF w
          <6> QED
            BY <4>1, <5>2, <6>1 DEF ToSet
        <5> QED
          BY <4>3, <5>1, <5>2 DEF both
      <4>5. ToSet(a) \subseteq ToSet(w)
        BY <4>1, <4>2 DEF ToSet, w
      <4>6. ToSet(b) \subseteq ToSet(w)
        <5> SUFFICES ASSUME NEW i \in 1..Len(b) PROVE b[i] \in ToSet(w)
          BY <4>1 DEF ToSet
        <5>1. Len(a) + i \in DOMAIN w /\ w[Len(a) + i] = b[i]
          BY <4>1, <4>2 DEF w
        <5> QED
          BY <5>1 DEF ToSet
      <4> QED
        BY <4>1, <4>4, <4>5, <4>6 DEF w
    <3> QED
      BY <1>0, <2>1, <2>4, <3>1
  <2>6. ASSUME NEW c \in DOMAIN first[2] PROVE (\E j \in 1..Len(names') : names'[j] = c) \/ IsLoaded(c)'
    <3>1. CASE IsLoaded(c)
      BY <2>1, <2>5, <3>1 DEF IsLoaded
    <3>2. CASE c = c0
      <4>1. chunks[c0] = first[2][c]
        BY <1>0, <3>2 DEF StoredInv
      <4> QED
        BY <2>1, <2>5, <4>1 DEF IsLoaded
    <3>3. ASSUME NEW i \in 1..Len(names), names[i] = c, c # c0
          PROVE  \E j \in 1..Len(names') : names'[j] = c
      BY <2>1, <2>3, <3>3
    <3> QED
      BY <2>2, <3>1, <3>2, <3>3
  <2>7. StoredInv'
    BY <1>0, <1>2, <2>1 DEF StoredInv
  <2> QED
    BY <1>2, <2>1, <2>3, <2>5, <2>6, <2>7 DEF TreeInv
<1>5. CASE Loaded
  <2>1. /\ pc = "load" /\ pc' = "done" /\ names = <<>> /\ out' = renderTree(got)
        /\ got' = got /\ first' = first
    BY <1>5 DEF Loaded, Go, Reads
  <2>2. \A c \in DOMAIN first[2] : IsLoaded(c)
    BY <2>1 DEF TreeInv
  <2>3. Stamped(got)
    BY <1>0, SpansStamped
  <2> DEFINE u == [i \in 1..Len(got) |-> Up(i)]
  <2>4. Climbs(u, got)
    BY <1>0, UpsClimb
  <2>5. \A i \in 1..Len(got) : PrintedOnce(renderTree(got), u, i)
    <3> HIDE DEF u
    <3> QED
      BY <1>0, <2>3, <2>4, NodePrinted
  <2>6. \A i : Up(i)' = Up(i)
    BY <2>1 DEF Up
  <2>7. DOMAIN got = 1..Len(got)
    BY <1>0
  <2>8. ASSUME NEW i \in DOMAIN got
        PROVE  LET at(j) == {k \in DOMAIN out' : out'[k] = j} IN
               IF Up(i)[MaxTreeDepth] # 0 THEN at(i) = {}
               ELSE Cardinality(at(i)) = 1 /\ (Up(i)[1] # 0 => Min(at(Up(i)[1])) < Min(at(i)))
    <3>1. u[i] = Up(i)
      BY <2>7
    <3> HIDE DEF u
    <3>2. PrintedOnce(renderTree(got), u, i)
      BY <2>5, <2>7
    <3> QED
      BY <2>1, <3>1, <3>2 DEF PrintedOnce
  <2>9. TreeKeepsSpans'
    BY <2>1, <2>2, <2>6, <2>8 DEF TreeKeepsSpans, IsLoaded
  <2>10. StoredInv'
    BY <1>0, <1>2, <2>1 DEF StoredInv
  <2> QED
    BY <1>0, <1>2, <2>1, <2>9, <2>10 DEF TreeInv
<1> QED
  BY <1>1, <1>3, <1>4, <1>5

\* tree loads every span that was stored when it began and prints each once,
\* behind its parent, but those whose parents are too deep or go round in a
\* circle: for any trace, in whatever order its chunks were stored, and whatever
\* is stored meanwhile (loadSpans, buildSpanTree, renderTree).
THEOREM TreeTells == ToolsSpec => []TreeKeepsSpans
<1>1. TreeInv => TreeKeepsSpans
  BY DEF TreeInv, TreeKeepsSpans, Printed
<1>2. ASSUME TreeInv, [ToolsNext]_toolsVars PROVE TreeInv'
  <2>1. CASE EveryoneElse
    BY <1>2, <2>1, TreeOthers
  <2>2. CASE \/ Main \/ Operator \/ Delete \/ Pruned
             \/ \E i \in DOMAIN work : Scan(i) \/ Release(i)
    BY <1>2, <2>2, TreeStep
  <2>3. CASE UNCHANGED toolsVars
    <3>1. UNCHANGED <<chunks, cmd, pc, names, got, out, first>>
      BY <2>3 DEF toolsVars, store
    <3>2. TreeKeepsSpans' <=> TreeKeepsSpans
      BY <3>1, TreeKept
    <3> QED
      BY <1>2, <3>1, <3>2 DEF TreeInv, StoredInv, IsLoaded
  <2> QED
    BY <1>2, <2>1, <2>2, <2>3 DEF ToolsNext, EveryoneElse
<1> QED
  BY <1>1, <1>2, TreeInit, PTL DEF ToolsSpec
-----------------------------------------------------------------------------
(* analyze: the order the spans come in                                      *)

\* No two spans have the same id.
Distinct(s) == \A i, j \in 1..Len(s) : i # j => s[i].id # s[j].id

\* t is s with its entries in other places: h tells where each was.
Moved(s, t, h) ==
  /\ Len(t) = Len(s) /\ h \in [1..Len(s) -> 1..Len(s)]
  /\ \A i \in 1..Len(s) : h[h[i]] = i /\ t[i] = s[h[i]]

\* With different ids the place of a span in the list does not matter to the sort.
LEMMA FrontMoved ==
  ASSUME NEW B, NEW s \in Seq(B), NEW t \in Seq(B), Stamped(s), Distinct(s), NEW h, Moved(s, t, h),
         NEW i \in 1..Len(s), NEW j \in 1..Len(s)
  PROVE  InFront(t, i, j) <=> InFront(s, h[i], h[j])
<1>0. Len(s) \in Nat /\ h[i] \in 1..Len(s) /\ h[j] \in 1..Len(s)
  BY DEF Moved
<1>1. t[i] = s[h[i]] /\ t[j] = s[h[j]] /\ (h[i] = h[j] => i = j)
  BY DEF Moved
<1>2. PICK a \in Int : a = s[h[i]].start
  BY <1>0 DEF Stamped
<1>3. PICK b \in Int : b = s[h[j]].start
  BY <1>0 DEF Stamped
<1>4. PICK c \in Int : c = s[h[i]].id
  BY <1>0 DEF Stamped
<1>5. PICK d \in Int : d = s[h[j]].id
  BY <1>0 DEF Stamped
<1>6. i # j => c # d
  BY <1>0, <1>1, <1>4, <1>5 DEF Distinct
<1>7. Earlier(t[i], t[j]) <=> a < b \/ (a = b /\ c < d)
  BY Zenon, <1>1, <1>2, <1>3, <1>4, <1>5 DEF Earlier
<1>8. Earlier(t[j], t[i]) <=> b < a \/ (b = a /\ d < c)
  BY Zenon, <1>1, <1>2, <1>3, <1>4, <1>5 DEF Earlier
<1>9. Earlier(s[h[i]], s[h[j]]) <=> Earlier(t[i], t[j])
  BY <1>1
<1>10. Earlier(s[h[j]], s[h[i]]) <=> Earlier(t[j], t[i])
  BY <1>1
<1>11. CASE i = j
  <2>1. ~Earlier(t[i], t[j])
    BY <1>2, <1>7, <1>11, <1>3, <1>4, <1>5, <1>8
  <2>2. ~(i < j) /\ ~(h[i] < h[j])
    BY <1>0, <1>11
  <2> QED
    BY <1>9, <2>1, <2>2 DEF InFront
<1>12. CASE i # j
  <2>1. Earlier(t[i], t[j]) <=> ~Earlier(t[j], t[i])
    BY <1>6, <1>7, <1>8, <1>12
  <2> QED
    BY <1>9, <1>10, <2>1 DEF InFront
<1> QED
  BY <1>11, <1>12

\* The spans that are valid.
Sound(s) == {i \in 1..Len(s) : Valid(s[i])}

\* As many are in front of each.
LEMMA AheadMoved ==
  ASSUME NEW B, NEW s \in Seq(B), NEW t \in Seq(B), Stamped(s), Distinct(s), NEW h, Moved(s, t, h)
  PROVE  /\ \A i \in Sound(t) : h[i] \in Sound(s) /\ Ahead(t, Sound(t))[i] = Ahead(s, Sound(s))[h[i]]
         /\ Cardinality(Sound(t)) = Cardinality(Sound(s))
<1> DEFINE n == Len(s)
<1>0. /\ n \in Nat /\ Len(t) = n /\ IsFiniteSet(1..n)
      /\ \A i \in 1..n : h[i] \in 1..n /\ h[h[i]] = i /\ t[i] = s[h[i]]
  <2>1. n \in Nat
    OBVIOUS
  <2>2. Len(t) = n /\ \A i \in 1..n : h[i] \in 1..n /\ h[h[i]] = i /\ t[i] = s[h[i]]
    BY DEF Moved
  <2> HIDE DEF n
  <2>3. IsFiniteSet(1..n)
    BY <2>1, FS_Interval
  <2> QED
    BY <2>1, <2>2, <2>3
<1> HIDE DEF n
<1>1. \A i \in 1..n : i \in Sound(t) <=> h[i] \in Sound(s)
  BY <1>0 DEF Sound, n
<1>2. Sound(t) \subseteq 1..n /\ Sound(s) \subseteq 1..n
  BY <1>0 DEF Sound, n
\* h takes a set of positions to one of the same size.
<1>3. ASSUME NEW P, NEW Q, P \subseteq 1..n, Q \subseteq 1..n, \A i \in 1..n : i \in P <=> h[i] \in Q
      PROVE  Cardinality(P) = Cardinality(Q)
  <2> DEFINE g == [i \in P |-> h[i]]
  <2>1. g \in [P -> Q] /\ \A i, j \in P : g[i] = g[j] => i = j
    BY <1>0, <1>3
  <2>2. \A j \in Q : h[j] \in P /\ g[h[j]] = j
    BY <1>0, <1>3
  <2>3. IsFiniteSet(P) /\ IsFiniteSet(Q)
    BY <1>0, <1>3, FS_Subset
  <2> HIDE DEF g
  <2>4. g \in Bijection(P, Q)
    BY <2>1, <2>2 DEF Bijection, Injection, Surjection, IsInjective
  <2>5. ExistsBijection(P, Q)
    BY <2>4 DEF ExistsBijection
  <2> QED
    BY <2>3, <2>5, FS_Bijection
<1>4. ASSUME NEW i \in Sound(t) PROVE Ahead(t, Sound(t))[i] = Ahead(s, Sound(s))[h[i]]
  <2> DEFINE P == {j \in Sound(t) : InFront(t, j, i)}
             Q == {j \in Sound(s) : InFront(s, j, h[i])}
  <2>1. Ahead(t, Sound(t))[i] = Cardinality(P) /\ Ahead(s, Sound(s))[h[i]] = Cardinality(Q)
    BY <1>1, <1>2, <1>4 DEF Ahead
  <2>2. \A j \in 1..n : InFront(t, j, i) <=> InFront(s, h[j], h[i])
    BY <1>2, <1>4, FrontMoved DEF n
  <2>3. \A j \in 1..n : j \in P <=> h[j] \in Q
    BY <1>1, <2>2
  <2>4. P \subseteq 1..n /\ Q \subseteq 1..n
    BY <1>2
  <2> HIDE DEF P, Q
  <2> QED
    BY <1>3, <2>1, <2>3, <2>4
<1>5. Cardinality(Sound(t)) = Cardinality(Sound(s))
  BY <1>1, <1>2, <1>3
<1> QED
  BY <1>1, <1>2, <1>4, <1>5

\* So the sort leaves the same list.
LEMMA SortMoved ==
  ASSUME NEW B, NEW s \in Seq(B), NEW t \in Seq(B), Stamped(s), Distinct(s), NEW h, Moved(s, t, h)
  PROVE  validSorted(t) = validSorted(s)
<1> DEFINE q == Ranked(Sound(s), Ahead(s, Sound(s)))
           r == Ranked(Sound(t), Ahead(t, Sound(t)))
           m == Cardinality(Sound(s))
<1>0. DOMAIN s = 1..Len(s) /\ DOMAIN t = 1..Len(t) /\ Len(s) \in Nat
  OBVIOUS
<1>1. Stamped(t)
  BY DEF Stamped, Moved
<1>2. /\ validSorted(s) = [k \in DOMAIN q |-> s[q[k]]]
      /\ validSorted(t) = [k \in DOMAIN r |-> t[r[k]]]
  <2>1. Sound(s) \subseteq 1..Len(s) /\ Sound(t) \subseteq 1..Len(t)
    BY DEF Sound
  <2>2. StableOrder(s, Sound(s), Earlier) = q /\ StableOrder(t, Sound(t), Earlier) = r
    BY <1>1, <2>1, StableRanks
  <2>3. /\ validSorted(s) = Entries(s, StableOrder(s, Sound(s), Earlier))
        /\ validSorted(t) = Entries(t, StableOrder(t, Sound(t), Earlier))
    BY <1>0 DEF validSorted, Sound
  <2> QED
    BY <2>2, <2>3 DEF Entries
<1>3. /\ q \in Seq(Sound(s)) /\ Len(q) = m
      /\ \A k \in 1..m : Ahead(s, Sound(s))[q[k]] = k - 1
      /\ \A i, j \in Sound(s) : i # j => Ahead(s, Sound(s))[i] # Ahead(s, Sound(s))[j]
  <2>1. Sound(s) \subseteq 1..Len(s)
    BY DEF Sound
  <2>2. IsFiniteSet(Sound(s)) /\ Ranks(Ahead(s, Sound(s)), Sound(s), Fronts(s, Sound(s)))
    BY <2>1, StableRanks
  <2> QED
    BY <2>2, RankPlaces
<1>4. /\ r \in Seq(Sound(t)) /\ Len(r) = m
      /\ \A k \in 1..m : Ahead(t, Sound(t))[r[k]] = k - 1
  <2>1. Sound(t) \subseteq 1..Len(t)
    BY DEF Sound
  <2>2. IsFiniteSet(Sound(t)) /\ Ranks(Ahead(t, Sound(t)), Sound(t), Fronts(t, Sound(t)))
    BY <1>1, <2>1, StableRanks
  <2>3. Cardinality(Sound(t)) = m
    BY AheadMoved
  <2> QED
    BY <2>2, <2>3, RankPlaces
<1> HIDE DEF q, r, m
<1>5. DOMAIN q = 1..m /\ DOMAIN r = 1..m
  BY <1>3, <1>4
<1>6. ASSUME NEW k \in 1..m PROVE t[r[k]] = s[q[k]]
  <2>1. q[k] \in Sound(s) /\ r[k] \in Sound(t)
    BY <1>3, <1>4, <1>5
  <2>2. h[r[k]] \in Sound(s) /\ Ahead(s, Sound(s))[h[r[k]]] = k - 1
    BY <1>4, <2>1, AheadMoved
  <2>3. h[r[k]] = q[k]
    BY <1>3, <2>1, <2>2
  <2>4. r[k] \in 1..Len(s)
    BY <2>1 DEF Sound, Moved
  <2> QED
    BY <2>3, <2>4 DEF Moved
<1> QED
  BY <1>2, <1>5, <1>6

\* And a change of places of two neighbours is such a move.
LEMMA SwapSorted ==
  ASSUME NEW B, NEW s \in Seq(B), Stamped(s), Distinct(s), NEW i \in 2..Len(s)
  PROVE  validSorted(Swap(s, i - 1, i)) = validSorted(s)
<1> DEFINE n == Len(s)
           t == Swap(s, i - 1, i)
           h == [k \in 1..n |-> IF k = i - 1 THEN i ELSE IF k = i THEN i - 1 ELSE k]
<1>0. n \in Nat /\ i - 1 \in 1..n /\ i \in 1..n /\ i - 1 # i /\ DOMAIN s = 1..n /\ \A k \in 1..n : s[k] \in B
  OBVIOUS
<1>1. t \in Seq(B) /\ Len(t) = n /\ \A k \in 1..n : t[k] = IF k = i THEN s[i - 1] ELSE IF k = i - 1 THEN s[i] ELSE s[k]
  <2> DEFINE w == [k \in 1..n |-> IF k = i THEN s[i - 1] ELSE IF k = i - 1 THEN s[i] ELSE s[k]]
  <2>1. t = w
    BY <1>0 DEF Swap
  <2>2. w \in Seq(B) /\ Len(w) = n
    BY <1>0
  <2> QED
    BY <2>1, <2>2
<1>2. h \in [1..n -> 1..n] /\ \A k \in 1..n : h[h[k]] = k /\ s[h[k]] = IF k = i THEN s[i - 1] ELSE IF k = i - 1 THEN s[i] ELSE s[k]
  BY <1>0
<1> HIDE DEF h, t
<1>3. Moved(s, t, h)
  BY <1>1, <1>2 DEF Moved
<1> QED
  BY <1>1, <1>3, SortMoved DEF t

\* The report of the same spans in another order is the same.
LEMMA OrderFree ==
  ASSUME NEW B, got \in Seq(B), Stamped(got)
  PROVE  AnalysisOrderFree
<1> SUFFICES ASSUME \A i, j \in DOMAIN got : i # j => got[i].id # got[j].id, NEW i \in 2..Len(got)
             PROVE  Analyze(Swap(got, i - 1, i), cmd.cast, cmd.start) = Report
  BY DEF AnalysisOrderFree
<1>1. Distinct(got)
  BY DEF Distinct
<1>2. validSorted(Swap(got, i - 1, i)) = validSorted(got)
  BY <1>1, SwapSorted
<1> QED
  BY Zenon, <1>2 DEF Analyze, Report
-----------------------------------------------------------------------------
(* analyze: the output of a failure                                          *)

\* How much of n bytes is cut off.
Over(n) == Max({n - MaxOutputBytes, 0})

\* It is no negative number.
LEMMA OverIs ==
  ASSUME NEW n \in Nat
  PROVE  MaxOutputBytes \in Nat /\ Over(n) = IF n > MaxOutputBytes THEN n - MaxOutputBytes ELSE 0
<1>1. MaxOutputBytes \in Nat
  BY AnalysisAssumption
<1>2. PICK d \in Int : d = n - MaxOutputBytes
  BY <1>1
<1>3. Max({d, 0}) = IF d > 0 THEN d ELSE 0
  BY DEF Max
<1> QED
  BY <1>1, <1>2, <1>3 DEF Over

\* What is behind the first o of x.
Rest(x, o) == SubSeq(x, o + 1, Len(x))

\* It is shorter by o, and each place moves by o.
LEMMA RestIs ==
  ASSUME NEW x \in Seq(Int), NEW o \in 0..Len(x)
  PROVE  Rest(x, o) \in Seq(Int) /\ Len(Rest(x, o)) = Len(x) - o /\ \A i \in 1..(Len(x) - o) : Rest(x, o)[i] = x[o + i]
<1> DEFINE n == Len(x)
           m == o + 1
           y == SubSeq(x, m, n)
<1>0. n \in Nat /\ o \in Nat /\ o <= n /\ m \in Int /\ \A i \in m..n : x[i] \in Int
  OBVIOUS
<1>1. n - m + 1 = n - o /\ (~(m <= n) => n - o = 0) /\ \A i \in 1..(n - o) : m + i - 1 = o + i
  BY <1>0
<1>2. Rest(x, o) = y
  BY DEF Rest
<1> HIDE DEF n, m
<1>3. y \in Seq(Int) /\ Len(y) = (IF m <= n THEN n - m + 1 ELSE 0) /\ \A i \in 1..(n - m + 1) : y[i] = x[m + i - 1]
  BY <1>0, SubSeqProperties
<1> HIDE DEF y
<1>4. Len(y) = n - o
  BY <1>1, <1>3
<1>5. \A i \in 1..(n - o) : y[i] = x[o + i]
  BY <1>1, <1>3
<1> QED
  BY <1>2, <1>3, <1>4, <1>5 DEF n

\* One sequence behind another.
LEMMA BothParts ==
  ASSUME NEW x \in Seq(Int), NEW d \in Seq(Int)
  PROVE  /\ x \o d \in Seq(Int) /\ Len(x \o d) = Len(x) + Len(d)
         /\ \A i \in 1..Len(x) : (x \o d)[i] = x[i]
         /\ \A j \in 1..Len(d) : (x \o d)[Len(x) + j] = d[j]
OBVIOUS

\* With more behind it.
LEMMA RestMore ==
  ASSUME NEW x \in Seq(Int), NEW d \in Seq(Int), NEW o \in 0..Len(x)
  PROVE  Rest(x, o) \o d = Rest(x \o d, o)
<1> DEFINE n == Len(x)
           l == Len(d)
           y == Rest(x, o)
           v == x \o d
           z == Rest(v, o)
<1>0. n \in Nat /\ l \in Nat /\ o \in Nat /\ o <= n
  OBVIOUS
<1>1. /\ v \in Seq(Int) /\ Len(v) = n + l
      /\ \A i \in 1..n : v[i] = x[i]
      /\ \A j \in 1..l : v[n + j] = d[j]
  OBVIOUS
<1>2. y \in Seq(Int) /\ Len(y) = n - o /\ \A i \in 1..(n - o) : y[i] = x[o + i]
  BY RestIs
<1> HIDE DEF n, y, v
<1>3. o \in 0..Len(v)
  BY <1>0, <1>1
<1>4. z \in Seq(Int) /\ Len(z) = n + l - o /\ \A i \in 1..(n + l - o) : z[i] = v[o + i]
  <2>1. z \in Seq(Int) /\ Len(z) = Len(v) - o /\ \A i \in 1..(Len(v) - o) : z[i] = v[o + i]
    BY <1>1, <1>3, RestIs
  <2> HIDE DEF z, l
  <2> QED
    BY <1>0, <1>1, <2>1
<1> HIDE DEF z
<1> DEFINE a == y \o d
           k == n - o
<1>5. k \in Nat /\ Len(y) = k
  BY <1>0, <1>2
<1> HIDE DEF k
<1>6. /\ a \in Seq(Int) /\ Len(a) = k + l
      /\ \A i \in 1..k : a[i] = y[i]
      /\ \A j \in 1..l : a[k + j] = d[j]
  <2>1. /\ a \in Seq(Int) /\ Len(a) = Len(y) + Len(d)
        /\ \A i \in 1..Len(y) : a[i] = y[i]
        /\ \A j \in 1..Len(d) : a[Len(y) + j] = d[j]
    BY <1>2, BothParts
  <2> HIDE DEF a
  <2> QED
    BY <1>5, <2>1
<1> HIDE DEF a, l
<1>7. ASSUME NEW i \in 1..(k + l) PROVE a[i] = z[i]
  <2>1. CASE i <= k
    <3>1. i \in 1..k /\ i \in 1..(n - o) /\ i \in 1..(n + l - o) /\ o + i \in 1..n
      BY <1>0, <1>5, <2>1 DEF k
    <3> QED
      BY <1>1, <1>2, <1>4, <1>6, <3>1
  <2>2. CASE i > k
    <3>1. i - k \in 1..l /\ k + (i - k) = i /\ n + (i - k) = o + i /\ i \in 1..(n + l - o)
      BY <1>0, <1>5, <2>2 DEF k
    <3>2. a[i] = d[i - k]
      BY <1>6, <3>1
    <3>3. v[o + i] = d[i - k]
      BY <1>1, <3>1
    <3> QED
      BY <1>4, <3>1, <3>2, <3>3
  <2> QED
    BY <1>0, <1>5, <2>1, <2>2
<1>8. k + l = n + l - o
  BY <1>0 DEF k
<1>9. a = z
  BY <1>4, <1>6, <1>7, <1>8, SeqEqual
<1> QED
  BY <1>9 DEF y, v, z, a

\* The rest of a rest.
LEMMA RestOfRest ==
  ASSUME NEW x \in Seq(Int), NEW o \in 0..Len(x), NEW c \in 0..(Len(x) - o)
  PROVE  Rest(Rest(x, o), c) = Rest(x, o + c)
<1> DEFINE n == Len(x)
           y == Rest(x, o)
           a == Rest(y, c)
           b == Rest(x, o + c)
<1>0. n \in Nat /\ o \in Nat /\ o <= n /\ c \in Nat /\ c <= n - o /\ o + c \in 0..n
  OBVIOUS
<1>1. y \in Seq(Int) /\ Len(y) = n - o /\ \A i \in 1..(n - o) : y[i] = x[o + i]
  BY RestIs
<1>2. b \in Seq(Int) /\ Len(b) = n - (o + c) /\ \A i \in 1..(n - (o + c)) : b[i] = x[(o + c) + i]
  BY <1>0, RestIs
<1> HIDE DEF n, y, b
<1>3. c \in 0..Len(y)
  BY <1>0, <1>1
<1>4. a \in Seq(Int) /\ Len(a) = Len(y) - c /\ \A i \in 1..(Len(y) - c) : a[i] = y[c + i]
  BY <1>1, <1>3, RestIs
<1> HIDE DEF a
<1>5. Len(y) - c = n - (o + c)
  BY <1>0, <1>1
<1>6. ASSUME NEW i \in 1..(n - (o + c)) PROVE a[i] = b[i]
  <2>1. c + i \in 1..(n - o) /\ o + (c + i) = (o + c) + i
    BY <1>0
  <2> QED
    BY <1>1, <1>2, <1>4, <1>5, <2>1
<1>7. a = b
  BY <1>2, <1>4, <1>5, <1>6, SeqEqual
<1> QED
  BY <1>7 DEF y, a, b

Windows == [out : Seq(Int), truncated : BOOLEAN]
\* w holds the last of x.
Kept(w, x) ==
  /\ w.out = Rest(x, Over(Len(x)))
  /\ w.truncated <=> Over(Len(x)) > 0

\* Cut after each event, a window still holds the last of all there was.
LEMMA KeptMore ==
  ASSUME NEW x \in Seq(Int), NEW d \in Seq(Int), NEW w \in Windows, Kept(w, x)
  PROVE  Kept(appendCapped(w, d), x \o d)
<1> DEFINE n == Len(x)
           l == Len(d)
           o == Over(n)
           all == w.out \o d
           c == Over(Len(all))
           z == x \o d
<1>0. n \in Nat /\ l \in Nat /\ z \in Seq(Int) /\ Len(z) = n + l
  OBVIOUS
<1>1. MaxOutputBytes \in Nat /\ o = IF n > MaxOutputBytes THEN n - MaxOutputBytes ELSE 0
  BY <1>0, OverIs
<1>2. o \in 0..n /\ o \in 0..(n + l) /\ w.out = Rest(x, o) /\ (w.truncated <=> o > 0)
  BY <1>0, <1>1 DEF Kept
<1> HIDE DEF o
<1>3. all = Rest(z, o)
  BY <1>2, RestMore
<1> HIDE DEF all, z
<1>4. all \in Seq(Int) /\ Len(all) = (n + l) - o
  BY <1>0, <1>2, <1>3, RestIs
<1> DEFINE m == n + l
           k == m - o
<1>5. k \in Nat /\ m \in Nat /\ Len(all) = k /\ Len(z) = m
  BY <1>0, <1>2, <1>4
<1> HIDE DEF n, l, m, k
<1>6. c = IF k > MaxOutputBytes THEN k - MaxOutputBytes ELSE 0
  BY <1>5, OverIs
<1>7. Over(m) = IF m > MaxOutputBytes THEN m - MaxOutputBytes ELSE 0
  BY <1>5, OverIs
<1> HIDE DEF c
<1>7a. n \in Nat /\ l \in Nat /\ m = n + l /\ k = m - o /\ o \in Nat
  BY <1>0, <1>2 DEF m, k
<1>8. c \in 0..k /\ o + c = Over(m) /\ (o > 0 \/ c > 0 <=> Over(m) > 0) /\ o \in 0..m /\ c \in 0..(m - o)
  BY <1>1, <1>5, <1>6, <1>7, <1>7a
<1>9. Rest(all, c) = Rest(z, o + c)
  BY <1>0, <1>3, <1>5, <1>8, RestOfRest
<1>10. appendCapped(w, d) = [out |-> Rest(all, c), truncated |-> w.truncated \/ c > 0]
  BY DEF appendCapped, all, c, Over, Rest
<1>11. appendCapped(w, d).out = Rest(z, Over(Len(z)))
  BY <1>5, <1>8, <1>9, <1>10
<1>12. appendCapped(w, d).truncated <=> Over(Len(z)) > 0
  <2>1. appendCapped(w, d).truncated = (w.truncated \/ c > 0)
    BY <1>10
  <2> QED
    BY Zenon, <1>2, <1>5, <1>8, <2>1
<1> QED
  BY <1>11, <1>12 DEF Kept, z

\* It is a window.
LEMMA CappedType ==
  ASSUME NEW w \in Windows, NEW d \in Seq(Int)
  PROVE  appendCapped(w, d) \in Windows
<1> DEFINE all == w.out \o d
           c == Over(Len(all))
<1>1. all \in Seq(Int) /\ Len(all) \in Nat
  BY DEF Windows
<1> HIDE DEF all
<1>2. c \in Nat
  BY <1>1, OverIs
<1> HIDE DEF c
<1>3. SubSeq(all, c + 1, Len(all)) \in Seq(Int)
  <2>1. \A i \in (c + 1)..Len(all) : all[i] \in Int
    BY <1>1, <1>2
  <2> QED
    BY <1>1, <1>2, <2>1, SubSeqProperties
<1>4. appendCapped(w, d) = [out |-> SubSeq(all, c + 1, Len(all)), truncated |-> w.truncated \/ c > 0]
  BY DEF appendCapped, all, c, Over
<1> QED
  BY <1>3, <1>4 DEF Windows

\* F[k] is the first k sequences of s, one behind the other, and v all of them.
FlatBy(F, s, v) ==
  /\ \A k \in 0..Len(s) : F[k] \in Seq(Int)
  /\ F[0] = <<>> /\ \A k \in 1..Len(s) : F[k] = F[k - 1] \o s[k]
  /\ v = F[Len(s)]

\* That is what the fold computes.
LEMMA FlatSteps ==
  ASSUME NEW s \in Seq(Seq(Int))
  PROVE  \E F : FlatBy(F, s, Flat(s))
<1> DEFINE n == Len(s)
           f == CHOOSE h : Flattens(h, s)
           F == [k \in 0..n |-> IF k = 0 THEN <<>> ELSE f[k]]
           Untyped == {k \in 0..n : F[k] \notin Seq(Int)}
<1>0. n \in Nat /\ \A i \in 1..n : s[i] \in Seq(Int)
  OBVIOUS
<1>1. Flat(s) = IF n = 0 THEN s ELSE f[n]
  BY FlatIs
<1>2. Flattens(f, s)
  BY FlatExists
<1> HIDE DEF f
<1>3. \A k \in 1..n : f[k] = IF k = 1 THEN s[k] ELSE f[k - 1] \o s[k]
  BY <1>2 DEF Flattens
<1>4. F[0] = <<>> /\ \A k \in 1..n : F[k] = f[k]
  BY <1>0
<1> HIDE DEF F
<1>5. ASSUME NEW k \in 1..n PROVE F[k] = F[k - 1] \o s[k]
  <2>1. CASE k = 1
    <3>1. <<>> \o s[k] = s[k]
      BY <1>0, ConcatEmptySeq
    <3>2. F[1] = f[1] /\ f[1] = s[1] /\ F[1 - 1] = <<>>
      BY <1>3, <1>4, <2>1
    <3> QED
      BY <2>1, <3>1, <3>2
  <2>2. CASE k # 1
    <3>1. k - 1 \in 1..n
      BY <1>0, <2>2
    <3> QED
      BY <1>3, <1>4, <2>2, <3>1
  <2> QED
    BY <2>1, <2>2
<1>6. Flat(s) = F[n]
  <2>1. CASE n = 0
    <3>1. s = <<>>
      BY <2>1
    <3> QED
      BY <1>1, <1>4, <2>1, <3>1
  <2>2. CASE n # 0
    <3>1. n \in 1..n
      BY <1>0, <2>2
    <3> QED
      BY <1>1, <1>4, <2>2, <3>1
  <2> QED
    BY <2>1, <2>2
<1>7. ASSUME Untyped # {} PROVE FALSE
  <2>1. PICK m \in Untyped : \A k \in Untyped : m <= k
    <3>1. Untyped \subseteq Nat
      BY <1>0
    <3> HIDE DEF Untyped
    <3> QED
      BY <1>7, <3>1, Least
  <2>2. m \in 0..n /\ F[m] \notin Seq(Int)
    OBVIOUS
  <2>3. <<>> \in Seq(Int)
    OBVIOUS
  <2>3a. m # 0
    BY <1>4, <2>2, <2>3
  <2>4. m \in 1..n /\ m - 1 \in 0..n /\ ~(m <= m - 1)
    BY <1>0, <2>2, <2>3a
  <2>5. F[m - 1] \in Seq(Int)
    BY <2>1, <2>4
  <2>6. F[m - 1] \o s[m] \in Seq(Int)
    BY <1>0, <2>4, <2>5, BothParts
  <2> QED
    BY <1>5, <2>2, <2>4, <2>6
<1> QED
  BY <1>4, <1>5, <1>6, <1>7 DEF FlatBy

\* W[k] is what the window of f holds after k events.
Empty == [out |-> <<>>, truncated |-> FALSE]
FilledBy(W, seen, f, start, v) ==
  /\ \A k \in 0..Len(seen) : W[k] \in Windows
  /\ W[0] = Empty
  /\ \A k \in 1..Len(seen) :
       W[k] = IF during(seen[k], f, start) THEN appendCapped(W[k - 1], seen[k].data) ELSE W[k - 1]
  /\ v = W[Len(seen)]

Fills(w, seen, f, start) ==
  w = [i \in 0..Len(seen) |->
        IF i = 0 THEN [out |-> <<>>, truncated |-> FALSE]
        ELSE IF during(seen[i], f, start) THEN appendCapped(w[i - 1], seen[i].data) ELSE w[i - 1]]

\* windowOf is the last value of a function that fills the window.
LEMMA WindowIs ==
  ASSUME NEW seen, NEW f, NEW start
  PROVE  windowOf(seen, f, start) = (CHOOSE w : Fills(w, seen, f, start))[Len(seen)]
BY DEF windowOf, Fills

\* What correlateOutput does with one window.
LEMMA WindowSteps ==
  ASSUME NEW seen, Len(seen) \in Nat, NEW f, NEW start,
         \A k \in 1..Len(seen) : during(seen[k], f, start) => seen[k].data \in Seq(Int)
  PROVE  \E W : FilledBy(W, seen, f, start, windowOf(seen, f, start))
<1> DEFINE n == Len(seen)
           Is(k) == during(seen[k], f, start)
           T == [k \in 1..n |-> [x \in Windows |-> IF Is(k) THEN appendCapped(x, seen[k].data) ELSE x]]
           W == CHOOSE w : Fills(w, seen, f, start)
<1>1. Empty \in Windows
  BY DEF Empty, Windows
<1>2. MapsAll(T, Windows, n)
  <2>1. \A k \in 1..n : \A x \in Windows : Is(k) => appendCapped(x, seen[k].data) \in Windows
    BY CappedType
  <2> HIDE DEF Is
  <2> QED
    BY <2>1 DEF MapsAll
<1>3. PICK g : Steps(g, T, Windows, Empty, n)
  <2> HIDE DEF T
  <2> QED
    BY <1>1, <1>2, Stepped
<1>4. /\ g \in [0..n -> Windows] /\ g[0] = Empty
      /\ \A k \in 1..n : g[k] = T[k][g[k - 1]]
  <2> HIDE DEF T
  <2> QED
    BY <1>3 DEF Steps
<1>5. ASSUME NEW k \in 1..n
      PROVE  g[k] = IF Is(k) THEN appendCapped(g[k - 1], seen[k].data) ELSE g[k - 1]
  <2>1. g[k - 1] \in Windows
    BY <1>4
  <2> HIDE DEF Is
  <2> QED
    BY <1>4, <2>1
<1> HIDE DEF T, Is
<1>6. g = [i \in 0..n |-> IF i = 0 THEN Empty
                          ELSE IF Is(i) THEN appendCapped(g[i - 1], seen[i].data) ELSE g[i - 1]]
  <2>1. \A i \in 0..n : i = 0 \/ i \in 1..n
    OBVIOUS
  <2>2. \A i \in 0..n : g[i] = IF i = 0 THEN Empty
                               ELSE IF Is(i) THEN appendCapped(g[i - 1], seen[i].data) ELSE g[i - 1]
    BY <1>4, <1>5, <2>1
  <2> HIDE DEF n
  <2> QED
    BY <1>4, <2>2
<1>7. Fills(g, seen, f, start)
  BY Zenon, <1>6 DEF Fills, Empty, Is
<1>8. Fills(W, seen, f, start)
  BY <1>7
<1> HIDE DEF W
<1>9. \A i \in 0..n : W[i] = IF i = 0 THEN Empty
                             ELSE IF Is(i) THEN appendCapped(W[i - 1], seen[i].data) ELSE W[i - 1]
  BY <1>8 DEF Fills, Empty, Is
<1>10. \A i \in 1..n : i \in 0..n /\ i # 0 /\ i - 1 \in 0..n
  OBVIOUS
<1> DEFINE Untyped == {k \in 0..n : W[k] \notin Windows}
<1>11. ASSUME Untyped # {} PROVE FALSE
  <2>1. PICK m \in Untyped : \A k \in Untyped : m <= k
    <3>1. Untyped \subseteq Nat
      OBVIOUS
    <3> HIDE DEF Untyped
    <3> QED
      BY <1>11, <3>1, Least
  <2>2. m \in 0..n /\ W[m] \notin Windows
    OBVIOUS
  <2>3. m # 0
    BY <1>1, <1>9, <2>2
  <2>4. m \in 1..n /\ m - 1 \in 0..n /\ ~(m <= m - 1)
    BY <2>2, <2>3
  <2>5. W[m - 1] \in Windows
    BY <2>1, <2>4
  <2>6. Is(m) => appendCapped(W[m - 1], seen[m].data) \in Windows
    BY <2>4, <2>5, CappedType DEF Is
  <2> QED
    BY <1>9, <2>2, <2>3, <2>5, <2>6
<1>12. windowOf(seen, f, start) = W[n]
  BY WindowIs DEF W
<1>13. W[0] = Empty
  BY <1>9
<1>14. \A k \in 1..n : W[k] = IF Is(k) THEN appendCapped(W[k - 1], seen[k].data) ELSE W[k - 1]
  BY <1>9, <1>10
<1>15. \A k \in 0..n : W[k] \in Windows
  BY <1>11
<1> QED
  BY <1>12, <1>13, <1>14, <1>15 DEF FilledBy, Is

\* Event i is before any that does not parse, and the start is known.
Parsed(cast, start, i) == start > 0 /\ \A j \in 1..i : cast[j].type # "bad"
\* An output of the recording within the run of f.
Inside(e, f, start) ==
  e.type = "o" /\ f.start <= e.t + start * Second /\ e.t + start * Second <= f.end
\* What each event adds to the output of f.
PartsOf(cast, f, start) ==
  [i \in DOMAIN cast |-> IF Parsed(cast, start, i) /\ Inside(cast[i], f, start) THEN cast[i].data ELSE <<>>]

\* A recording: its events have times, in order, and data, unless they do not parse.
Recorded(cast, start) ==
  /\ start \in Int /\ Len(cast) \in Nat /\ DOMAIN cast = 1..Len(cast)
  /\ LET read == {i \in DOMAIN cast : cast[i].type # "bad"} IN
     /\ \A i \in read : cast[i].t \in Int /\ cast[i].data \in Seq(Int)
     /\ \A i, j \in read : i <= j => cast[i].t <= cast[j].t

\* Of the events that count for f, all are seen, and no others count.
SeesAll(seen, cast, f, start) ==
  /\ Len(seen) \in 0..Len(cast)
  /\ \A i \in 1..Len(seen) : seen[i] = cast[i] /\ cast[i].type # "bad"
  /\ \A i \in 1..Len(seen) : during(seen[i], f, start) <=> Parsed(cast, start, i) /\ Inside(cast[i], f, start)
  /\ \A i \in (Len(seen) + 1)..Len(cast) : ~(Parsed(cast, start, i) /\ Inside(cast[i], f, start))

\* The same comparison, on either side.
LEMMA SameInside ==
  ASSUME NEW e, NEW f, NEW start \in Int, f.start \in Int, f.end \in Int, e.type = "o" => e.t \in Int
  PROVE  during(e, f, start) <=> Inside(e, f, start)
<1>1. PICK c \in Int : c = start * Second
  BY AnalysisAssumption
<1>2. CASE e.type = "o"
  <2>1. PICK x \in Int : x = e.t
    BY <1>2
  <2>2. PICK a \in Int : a = f.start
    OBVIOUS
  <2>3. PICK b \in Int : b = f.end
    OBVIOUS
  <2>4. (a - c <= x /\ x <= b - c) <=> (a <= x + c /\ x + c <= b)
    BY <1>1, <2>1, <2>2, <2>3
  <2>5. during(e, f, start) <=> e.type = "o" /\ a - c <= x /\ x <= b - c
    BY Zenon, <1>1, <2>1, <2>2, <2>3 DEF during
  <2>6. Inside(e, f, start) <=> e.type = "o" /\ a <= x + c /\ x + c <= b
    BY Zenon, <1>1, <2>1, <2>2, <2>3 DEF Inside
  <2> QED
    BY Zenon, <2>4, <2>5, <2>6
<1> QED
  BY Zenon, <1>2 DEF during, Inside

\* The number after the last event that is read.
LEMMA ReadUpTo ==
  ASSUME NEW cast, Len(cast) \in Nat, DOMAIN cast = 1..Len(cast), NEW maxEnd
  PROVE  \E m \in 0..Len(cast) :
           /\ Len(Read(cast, maxEnd)) = m
           /\ \A i \in 1..m : Read(cast, maxEnd)[i] = cast[i]
           /\ \A i \in 1..m : cast[i].type # "bad" /\ ~(cast[i].type = "o" /\ cast[i].t > maxEnd)
           /\ m < Len(cast) => cast[m + 1].type = "bad" \/ (cast[m + 1].type = "o" /\ cast[m + 1].t > maxEnd)
<1> DEFINE n == Len(cast)
           Stops(i) == cast[i].type = "bad" \/ (cast[i].type = "o" /\ cast[i].t > maxEnd)
           ends == {i \in DOMAIN cast : Stops(i)}
           all == ends \cup {n + 1}
           e == Min(all)
           m == e - 1
           E == {cast[i] : i \in 1..n}
<1>0. n \in Nat /\ DOMAIN cast = 1..n /\ \A i \in 1..n : cast[i] \in E
  OBVIOUS
<1> HIDE DEF E
<1>1. e \in all /\ \A y \in all : e <= y
  <2>1. all \subseteq Nat /\ all # {}
    BY <1>0
  <2> HIDE DEF all
  <2>2. PICK x \in all : \A y \in all : x <= y
    BY <2>1, Least
  <2> QED
    BY <2>2 DEF Min
<1> HIDE DEF e
<1>2. e \in 1..(n + 1) /\ (e <= n => Stops(e)) /\ \A i \in 1..n : i < e => ~Stops(i)
  <2>1. ends \subseteq 1..n
    BY <1>0
  <2>2. e \in 1..(n + 1)
    BY <1>0, <1>1, <2>1
  <2>3. ASSUME e <= n PROVE Stops(e)
    <3>1. e # n + 1
      BY <1>0, <2>2, <2>3
    <3>2. e \in ends
      BY <1>1, <3>1
    <3> QED
      BY <3>2
  <2>4. ASSUME NEW i \in 1..n, i < e, Stops(i) PROVE FALSE
    <3>1. i \in ends
      BY <1>0, <2>4
    <3>2. e <= i
      BY <1>1, <3>1
    <3> QED
      BY <2>2, <2>4, <3>2
  <2> QED
    BY <2>2, <2>3, <2>4
<1> HIDE DEF Stops
<1>3. m \in 0..n /\ m + 1 = e /\ \A i \in 1..m : i \in 1..n /\ i < e
  BY <1>0, <1>2
<1>4. Read(cast, maxEnd) = SubSeq(cast, 1, m)
  BY DEF Read, m, e, Stops
<1>5. Len(SubSeq(cast, 1, m)) = m /\ \A i \in 1..m : SubSeq(cast, 1, m)[i] = cast[i]
  <2> HIDE DEF m
  <2>1. \A i \in 1..m : cast[i] \in E
    BY <1>0, <1>3
  <2>2. /\ Len(SubSeq(cast, 1, m)) = (IF 1 <= m THEN m - 1 + 1 ELSE 0)
        /\ \A i \in 1..(m - 1 + 1) : SubSeq(cast, 1, m)[i] = cast[1 + i - 1]
    BY <1>3, <2>1, SubSeqProperties
  <2>3. m - 1 + 1 = m /\ (~(1 <= m) => m = 0) /\ \A i \in 1..m : 1 + i - 1 = i
    BY <1>3
  <2> QED
    BY <2>2, <2>3
<1> HIDE DEF m
<1>6. \A i \in 1..m : ~Stops(i)
  BY <1>2, <1>3
<1>7. m < n => Stops(m + 1)
  BY <1>0, <1>2, <1>3
<1> QED
  BY <1>3, <1>4, <1>5, <1>6, <1>7 DEF Stops

\* Among the numbers of a list, and 0, there is a greatest.
LEMMA GreatestOf ==
  ASSUME NEW n \in Nat, NEW g, \A k \in 1..n : g[k] \in Int
  PROVE  LET V == {0} \cup {g[k] : k \in 1..n} IN Max(V) \in V /\ \A y \in V : y <= Max(V)
<1> DEFINE V(m) == {0} \cup {g[k] : k \in 1..m}
           Has(m) == \E x \in V(m) : \A y \in V(m) : y <= x
           Without == {m \in 0..n : ~Has(m)}
<1>0. \A m \in 0..n : V(m) \subseteq Int
  OBVIOUS
<1>1. ASSUME Without # {} PROVE FALSE
  <2>1. PICK m \in Without : \A k \in Without : m <= k
    <3>1. Without \subseteq Nat
      OBVIOUS
    <3> HIDE DEF Without
    <3> QED
      BY <1>1, <3>1, Least
  <2>2. m \in 0..n /\ ~Has(m)
    OBVIOUS
  <2>3. m # 0
    <3>1. V(0) = {0}
      OBVIOUS
    <3> HIDE DEF V
    <3>2. Has(0)
      BY <3>1
    <3> QED
      BY <2>2, <3>2
  <2>4. m \in 1..n /\ m - 1 \in 0..n /\ ~(m <= m - 1)
    BY <2>2, <2>3
  <2>5. Has(m - 1)
    <3>1. m - 1 \notin Without
      <4> HIDE DEF Without
      <4> QED
        BY <2>1, <2>4
    <3> HIDE DEF Has
    <3> QED
      BY <2>4, <3>1
  <2>6. V(m) = V(m - 1) \cup {g[m]}
    <3>1. \A k \in 1..m : k \in 1..(m - 1) \/ k = m
      BY <2>4
    <3>2. m \in 1..m /\ 1..(m - 1) \subseteq 1..m
      BY <2>4
    <3> QED
      BY <3>1, <3>2
  <2>7. PICK x \in V(m - 1) : \A y \in V(m - 1) : y <= x
    BY <2>5
  <2>8. g[m] \in Int /\ x \in Int /\ V(m - 1) \subseteq Int
    BY <1>0, <2>4, <2>7
  <2> HIDE DEF V
  <2>9. CASE g[m] <= x
    BY <2>2, <2>6, <2>7, <2>9
  <2>10. CASE x < g[m]
    <3>1. \A y \in V(m - 1) : y <= g[m]
      BY <2>7, <2>8, <2>10
    <3>2. g[m] <= g[m]
      BY <2>8
    <3> QED
      BY <2>2, <2>6, <3>1, <3>2
  <2> QED
    BY <2>8, <2>9, <2>10
<1>2. Has(n)
  <2>1. n \in 0..n /\ n \notin Without
    <3>1. Without = {}
      BY <1>1
    <3> HIDE DEF Without
    <3> QED
      BY <3>1
  <2> HIDE DEF Has
  <2> QED
    BY <2>1
<1> DEFINE U == V(n)
<1>3. U \subseteq Int
  BY <1>0
<1>4. \E x \in U : \A y \in U : y <= x
  BY <1>2
<1> HIDE DEF U
<1>5. PICK x \in U : \A y \in U : y <= x
  BY <1>4
<1>6. \A y \in U : x >= y
  BY <1>3, <1>5
<1>7. Max(U) \in U /\ \A y \in U : Max(U) >= y
  BY <1>5, <1>6 DEF Max
<1>8. \A y \in U : y <= Max(U)
  BY <1>3, <1>7
<1> QED
  BY <1>7, <1>8 DEF U

\* What is read of a recording is all that counts for any of the failures.
LEMMA SeenIsAll ==
  ASSUME NEW cast, NEW start, Recorded(cast, start), NEW failures, Len(failures) \in Nat,
         DOMAIN failures = 1..Len(failures),
         \A l \in 1..Len(failures) : failures[l].start \in Int /\ failures[l].end \in Int,
         NEW k \in 1..Len(failures)
  PROVE  SeesAll(seenOf(failures, cast, start), cast, failures[k], start)
<1> DEFINE n == Len(cast)
           f == failures[k]
           g == [l \in 1..Len(failures) |-> failures[l].end - start * Second]
           maxEnd == Max({0} \cup {g[l] : l \in 1..Len(failures)})
           seen == seenOf(failures, cast, start)
<1>0. n \in Nat /\ DOMAIN cast = 1..n /\ start \in Int /\ f.start \in Int /\ f.end \in Int
  BY DEF Recorded
<1>1. ASSUME ~(start > 0) PROVE SeesAll(seen, cast, f, start)
  <2>1. start <= 0
    BY <1>0, <1>1
  <2>2. seen = <<>> /\ Len(<<>>) = 0
    BY <2>1 DEF seenOf
  <2> HIDE DEF seen, f
  <2>3. \A i : ~Parsed(cast, start, i)
    BY Zenon, <1>1 DEF Parsed
  <2>4. 1..Len(seen) = {} /\ Len(seen) \in 0..n
    BY <1>0, <2>2
  <2> QED
    BY <2>3, <2>4 DEF SeesAll
<1>2. ASSUME start > 0 PROVE SeesAll(seen, cast, f, start)
  <2>1. PICK c \in Int : c = start * Second
    BY <1>0, AnalysisAssumption
  <2>2. seen = Read(cast, maxEnd)
    <3>1. ~(start <= 0)
      BY <1>0, <1>2
    <3>2. {failures[l].end - start * Second : l \in DOMAIN failures} = {g[l] : l \in 1..Len(failures)}
      OBVIOUS
    <3> QED
      BY <3>1, <3>2 DEF seenOf
  <2>3. \A l \in 1..Len(failures) : g[l] \in Int
    BY <2>1
  <2>4. maxEnd \in Int /\ g[k] <= maxEnd /\ g[k] = f.end - c
    <3>0. g[k] = f.end - c
      BY <2>1
    <3> DEFINE V == {0} \cup {g[l] : l \in 1..Len(failures)}
    <3>1. Max(V) \in V /\ \A y \in V : y <= Max(V)
      <4> HIDE DEF g
      <4> QED
        BY <2>3, GreatestOf
    <3>2. V \subseteq Int /\ g[k] \in V
      <4> HIDE DEF g
      <4> QED
        BY <2>3
    <3> HIDE DEF V, g
    <3>3. Max(V) \in Int /\ g[k] <= Max(V)
      BY <3>1, <3>2
    <3> QED
      BY <3>0, <3>3 DEF V
  <2> HIDE DEF maxEnd, g
  <2>5. PICK m \in 0..n :
          /\ Len(Read(cast, maxEnd)) = m
          /\ \A i \in 1..m : Read(cast, maxEnd)[i] = cast[i]
          /\ \A i \in 1..m : cast[i].type # "bad" /\ ~(cast[i].type = "o" /\ cast[i].t > maxEnd)
          /\ m < n => cast[m + 1].type = "bad" \/ (cast[m + 1].type = "o" /\ cast[m + 1].t > maxEnd)
    BY <1>0, ReadUpTo
  <2> HIDE DEF seen, f
  <2>6. Len(seen) = m /\ \A i \in 1..m : seen[i] = cast[i]
    BY <2>2, <2>5
  <2>7. \A i \in 1..n : cast[i].type # "bad" => cast[i].t \in Int
    BY <1>0 DEF Recorded
  <2>8. ASSUME NEW i \in 1..m PROVE during(seen[i], f, start) <=> Parsed(cast, start, i) /\ Inside(cast[i], f, start)
    <3>1. Parsed(cast, start, i)
      <4>1. \A j \in 1..i : j \in 1..m
        BY <2>5
      <4> QED
        BY Zenon, <1>2, <2>5, <4>1 DEF Parsed
    <3>2. cast[i].type = "o" => cast[i].t \in Int
      <4>1. i \in 1..n
        BY <1>0, <2>5
      <4> QED
        BY <2>7, <4>1
    <3>3. during(cast[i], f, start) <=> Inside(cast[i], f, start)
      BY <1>0, <3>2, SameInside
    <3> QED
      BY <2>6, <3>1, <3>3
  <2>9. ASSUME NEW i \in (m + 1)..n, Parsed(cast, start, i), Inside(cast[i], f, start) PROVE FALSE
    <3>1. m < n /\ m + 1 \in 1..n /\ i \in 1..n /\ m + 1 \in 1..i /\ i \in 1..i /\ m + 1 <= i
      BY <1>0, <2>5, <2>9
    <3>2. cast[m + 1].type # "bad" /\ cast[i].type # "bad"
      BY <2>9, <3>1 DEF Parsed
    <3>3. cast[m + 1].t > maxEnd
      BY <2>5, <3>1, <3>2
    <3>4. cast[m + 1].t <= cast[i].t /\ cast[m + 1].t \in Int /\ cast[i].t \in Int
      BY <1>0, <3>1, <3>2 DEF Recorded
    <3>5. cast[i].t + c <= f.end
      BY Zenon, <2>1, <2>9 DEF Inside
    <3>6. PICK a \in Int, b \in Int, d \in Int, e \in Int :
            a = cast[m + 1].t /\ b = cast[i].t /\ d = f.end /\ e = maxEnd
      BY <1>0, <2>4, <3>4
    <3>7. a > e /\ a <= b /\ b + c <= d /\ d - c <= e
      BY <2>4, <3>3, <3>4, <3>5, <3>6
    <3> QED
      BY <2>1, <3>7
  <2> QED
    BY <2>5, <2>6, <2>8, <2>9 DEF SeesAll
<1> QED
  BY <1>1, <1>2

\* The window of a failure ends up with the last of all its output.
LEMMA WindowKept ==
  ASSUME NEW cast, NEW start, Recorded(cast, start), NEW f, NEW seen, SeesAll(seen, cast, f, start)
  PROVE  Kept(windowOf(seen, f, start), Flat(PartsOf(cast, f, start)))
<1> DEFINE n == Len(cast)
           m == Len(seen)
           s == PartsOf(cast, f, start)
           Counts(i) == Parsed(cast, start, i) /\ Inside(cast[i], f, start)
<1>0. n \in Nat /\ DOMAIN cast = 1..n /\ m \in 0..n
  BY DEF Recorded, SeesAll
<1>1. \A i \in 1..n : cast[i].type # "bad" => cast[i].data \in Seq(Int)
  BY <1>0 DEF Recorded
<1>2. \A i \in 1..n : s[i] = IF Counts(i) THEN cast[i].data ELSE <<>>
  BY <1>0 DEF PartsOf
<1>3. \A i \in 1..n : Counts(i) => cast[i].data \in Seq(Int)
  <2>1. \A i \in 1..n : Counts(i) => cast[i].type # "bad"
    BY DEF Inside
  <2> HIDE DEF Counts
  <2> QED
    BY <1>1, <2>1
<1> HIDE DEF Counts
<1>4. s \in Seq(Seq(Int)) /\ Len(s) = n
  <2> DEFINE p == [i \in 1..n |-> IF Counts(i) THEN cast[i].data ELSE <<>>]
  <2>1. s = p
    BY <1>0 DEF PartsOf, Counts
  <2>2. \A i \in 1..n : (IF Counts(i) THEN cast[i].data ELSE <<>>) \in Seq(Int)
    BY <1>3
  <2>3. p \in Seq(Seq(Int)) /\ Len(p) = n
    BY <1>0, <2>2
  <2> QED
    BY <2>1, <2>3
<1> HIDE DEF s, n, m
<1>5. PICK F : FlatBy(F, s, Flat(s))
  BY <1>4, FlatSteps
<1>6. /\ \A k \in 0..n : F[k] \in Seq(Int)
      /\ F[0] = <<>> /\ \A k \in 1..n : F[k] = F[k - 1] \o s[k]
      /\ Flat(s) = F[n]
  BY <1>4, <1>5 DEF FlatBy
<1>7. /\ \A i \in 1..m : seen[i] = cast[i] /\ cast[i].type # "bad"
      /\ \A i \in 1..m : during(seen[i], f, start) <=> Counts(i)
      /\ \A i \in (m + 1)..n : ~Counts(i)
  BY DEF SeesAll, Counts, m, n
<1>8. 1..m \subseteq 1..n /\ 0..m \subseteq 0..n /\ m \in Nat
  BY <1>0
<1>9. PICK W : FilledBy(W, seen, f, start, windowOf(seen, f, start))
  <2>1. \A k \in 1..m : seen[k].data \in Seq(Int)
    BY <1>1, <1>7, <1>8
  <2> QED
    BY <1>8, <2>1, WindowSteps DEF m
<1>10. /\ \A k \in 0..m : W[k] \in Windows
       /\ W[0] = Empty
       /\ \A k \in 1..m : W[k] = IF Counts(k) THEN appendCapped(W[k - 1], cast[k].data) ELSE W[k - 1]
       /\ windowOf(seen, f, start) = W[m]
  <2>1. \A k \in 1..m : W[k] = IF during(seen[k], f, start) THEN appendCapped(W[k - 1], seen[k].data) ELSE W[k - 1]
    BY <1>9 DEF FilledBy, m
  <2>2. \A k \in 1..m : W[k] = IF Counts(k) THEN appendCapped(W[k - 1], cast[k].data) ELSE W[k - 1]
    BY <1>7, <2>1
  <2> QED
    BY <1>9, <2>2 DEF FilledBy, m
<1>11. \A k \in 1..n : k - 1 \in 0..n /\ F[k] = IF Counts(k) THEN F[k - 1] \o cast[k].data ELSE F[k - 1]
  <2> SUFFICES ASSUME NEW k \in 1..n
               PROVE  k - 1 \in 0..n /\ F[k] = IF Counts(k) THEN F[k - 1] \o cast[k].data ELSE F[k - 1]
    OBVIOUS
  <2>1. k - 1 \in 0..n
    BY <1>0
  <2>2. F[k - 1] \in Seq(Int)
    BY <1>6, <2>1
  <2>3. F[k - 1] \o <<>> = F[k - 1]
    BY <2>2, ConcatEmptySeq
  <2> QED
    BY <1>2, <1>6, <2>1, <2>3
<1> DEFINE Lost == {k \in 0..m : ~Kept(W[k], F[k])}
<1>12. ASSUME Lost # {} PROVE FALSE
  <2>1. PICK k \in Lost : \A l \in Lost : k <= l
    <3>1. Lost \subseteq Nat
      BY <1>8
    <3> HIDE DEF Lost
    <3> QED
      BY <1>12, <3>1, Least
  <2>2. k \in 0..m /\ ~Kept(W[k], F[k])
    OBVIOUS
  <2>3. k # 0
    <3>1. Kept(Empty, <<>>)
      <4>1. Len(<<>>) = 0 /\ Over(0) = 0
        BY OverIs
      <4>2. Rest(<<>>, 0) = <<>>
        BY SubSeqEmpty DEF Rest
      <4> QED
        BY <4>1, <4>2 DEF Kept, Empty
    <3> QED
      BY <1>6, <1>10, <2>2, <3>1
  <2>4. k \in 1..m /\ k \in 1..n /\ k - 1 \in 0..m /\ k - 1 \in 0..n /\ ~(k <= k - 1)
    BY <1>8, <2>2, <2>3
  <2>5. Kept(W[k - 1], F[k - 1])
    <3>1. k - 1 \notin Lost
      <4> HIDE DEF Lost
      <4> QED
        BY <2>1, <2>4
    <3> QED
      BY <2>4, <3>1
  <2>6. W[k - 1] \in Windows /\ F[k - 1] \in Seq(Int)
    BY <1>6, <1>10, <2>4
  <2>7. Counts(k) => Kept(appendCapped(W[k - 1], cast[k].data), F[k - 1] \o cast[k].data)
    BY <1>3, <2>4, <2>5, <2>6, KeptMore
  <2>8. W[k] = IF Counts(k) THEN appendCapped(W[k - 1], cast[k].data) ELSE W[k - 1]
    BY <1>10, <2>4
  <2>9. F[k] = IF Counts(k) THEN F[k - 1] \o cast[k].data ELSE F[k - 1]
    BY <1>11, <2>4
  <2>10. CASE Counts(k)
    BY <2>2, <2>7, <2>8, <2>9, <2>10
  <2>11. CASE ~Counts(k)
    BY <2>2, <2>5, <2>8, <2>9, <2>11
  <2> QED
    BY <2>10, <2>11
<1> DEFINE Late == {k \in m..n : F[k] # F[m]}
<1>13. ASSUME Late # {} PROVE FALSE
  <2>1. PICK k \in Late : \A l \in Late : k <= l
    <3>1. Late \subseteq Nat
      BY <1>8
    <3> HIDE DEF Late
    <3> QED
      BY <1>13, <3>1, Least
  <2>2. k \in m..n /\ F[k] # F[m]
    OBVIOUS
  <2>3. k \in (m + 1)..n /\ k \in 1..n /\ k - 1 \in m..n /\ ~(k <= k - 1)
    BY <1>0, <2>2
  <2>4. F[k - 1] = F[m]
    <3>1. k - 1 \notin Late
      <4> HIDE DEF Late
      <4> QED
        BY <2>1, <2>3
    <3> QED
      BY <2>3, <3>1
  <2>5. F[k] = F[k - 1]
    BY <1>7, <1>11, <2>3
  <2> QED
    BY <2>2, <2>4, <2>5
<1>14. Kept(W[m], F[m])
  <2>1. m \in 0..m /\ m \notin Lost
    <3>1. Lost = {}
      BY <1>12
    <3> HIDE DEF Lost
    <3> QED
      BY <1>8, <3>1
  <2> QED
    BY <2>1
<1>15. F[n] = F[m]
  <2>1. n \in m..n /\ n \notin Late
    <3>1. Late = {}
      BY <1>13
    <3> HIDE DEF Late
    <3> QED
      BY <1>0, <3>1
  <2> QED
    BY <2>1
<1> QED
  BY <1>6, <1>10, <1>14, <1>15 DEF s

\* Some of the entries of a list, in another order, are of the same kind.
LEMMA EntriesIn ==
  ASSUME NEW B, NEW s \in Seq(B), NEW S, S \subseteq 1..Len(s), NEW q \in Seq(S)
  PROVE  Entries(s, q) \in Seq(B)
<1>1. Len(q) \in Nat /\ DOMAIN q = 1..Len(q) /\ \A k \in 1..Len(q) : q[k] \in S
  OBVIOUS
<1>2. \A i \in S : s[i] \in B
  OBVIOUS
<1>3. \A k \in 1..Len(q) : s[q[k]] \in B
  BY <1>1, <1>2
<1>4. [k \in 1..Len(q) |-> s[q[k]]] \in Seq(B)
  BY <1>1, <1>3
<1> QED
  BY <1>1, <1>4 DEF Entries

\* The failures of a report are spans.
LEMMA FailuresAre ==
  ASSUME NEW s \in Seq(SpanSet)
  PROVE  collectFailures(validSorted(s)) \in Seq(SpanSet)
<1> DEFINE v == validSorted(s)
           order == StableOrder(s, Sound(s), Earlier)
           S == {i \in DOMAIN v : v[i].exit # 0}
<1>1. Stamped(s) /\ Sound(s) \subseteq 1..Len(s) /\ DOMAIN s = 1..Len(s)
  BY SpansStamped DEF Sound
<1>2. order \in Seq(Sound(s))
  <2>1. /\ order = Ranked(Sound(s), Ahead(s, Sound(s)))
        /\ IsFiniteSet(Sound(s)) /\ Ranks(Ahead(s, Sound(s)), Sound(s), Fronts(s, Sound(s)))
    BY <1>1, StableRanks
  <2> HIDE DEF order
  <2>2. Ranked(Sound(s), Ahead(s, Sound(s))) \in Seq(Sound(s))
    BY <2>1, RankedAll
  <2> QED
    BY <2>1, <2>2
<1>3. v = Entries(s, order)
  BY <1>1 DEF validSorted, Sound
<1> HIDE DEF order, v
<1>4. v \in Seq(SpanSet)
  BY <1>1, <1>2, <1>3, EntriesIn
<1>5. S \subseteq 1..Len(v) /\ S \subseteq Int /\ IsFiniteSet(S)
  <2>1. DOMAIN v = 1..Len(v) /\ Len(v) \in Nat
    BY <1>4
  <2>2. IsFiniteSet(1..Len(v))
    BY <2>1, FS_Interval
  <2>3. S \subseteq 1..Len(v)
    BY <2>1
  <2> HIDE DEF S
  <2>4. S \subseteq Int
    BY <2>3
  <2>5. IsFiniteSet(S)
    BY <2>2, <2>3, FS_Subset
  <2> QED
    BY <2>3, <2>4, <2>5
<1>6. collectFailures(v) = Entries(v, Sorted(S, <))
  BY DEF collectFailures
<1> HIDE DEF S
<1>7. Sorted(S, <) \in Seq(S)
  BY <1>5, SortedNumbers
<1> DEFINE q == Sorted(S, <)
<1> HIDE DEF q
<1>8. Entries(v, q) \in Seq(SpanSet)
  BY <1>4, <1>5, <1>7, EntriesIn DEF q
<1> QED
  BY <1>6, <1>8 DEF q, v

\* Each failure of a report comes with the last of its output.
LEMMA FailureTold ==
  ASSUME got \in Seq(SpanSet), cmd \in Commands
  PROVE  FailureOutput
<1> DEFINE failures == collectFailures(validSorted(got))
           output == correlateOutput(failures, cmd.cast, cmd.start)
<1>1. failures \in Seq(SpanSet)
  BY FailuresAre
<1>2. Report.failures = failures /\ Report.output = output
  BY DEF Report, Analyze
<1>3. Recorded(cmd.cast, cmd.start)
  BY ToolsAssumption DEF Recorded
<1> HIDE DEF failures
<1>4. /\ Len(failures) \in Nat /\ DOMAIN failures = 1..Len(failures)
      /\ \A l \in 1..Len(failures) : failures[l].start \in Int /\ failures[l].end \in Int
  <2>1. \A l \in SpanSet : l.start \in Int /\ l.end \in Int
    BY ToolsAssumption DEF SpanSet
  <2> QED
    BY <1>1, <2>1
<1>5. ASSUME NEW k \in DOMAIN failures
      PROVE  Kept(output[k], Flat(PartsOf(cmd.cast, failures[k], cmd.start)))
  <2> DEFINE seen == seenOf(failures, cmd.cast, cmd.start)
  <2>1. SeesAll(seen, cmd.cast, failures[k], cmd.start)
    BY <1>3, <1>4, <1>5, SeenIsAll
  <2>2. output[k] = windowOf(seen, failures[k], cmd.start)
    BY <1>5 DEF correlateOutput
  <2> HIDE DEF seen, output
  <2>3. Kept(windowOf(seen, failures[k], cmd.start), Flat(PartsOf(cmd.cast, failures[k], cmd.start)))
    BY <1>3, <2>1, WindowKept
  <2> QED
    BY <2>2, <2>3
<1> HIDE DEF output
<1> DEFINE late == cmd.zero - cmd.start * Second
           parsed(i) == cmd.start > 0 /\ \A j \in 1..i : cmd.cast[j].type # "bad"
           inside(e, f) == e.type = "o" /\ f.start + late <= cmd.zero + e.t /\ cmd.zero + e.t <= f.end + late
           parts(k) == [i \in DOMAIN cmd.cast |->
                          IF parsed(i) /\ inside(cmd.cast[i], failures[k]) THEN cmd.cast[i].data ELSE <<>>]
<1>6. ASSUME NEW k \in DOMAIN failures
      PROVE  parts(k) = PartsOf(cmd.cast, failures[k], cmd.start)
  <2>1. PICK c \in Int, z \in Int : c = cmd.start * Second /\ z = cmd.zero
    <3>1. cmd.start \in Int /\ cmd.zero \in Int /\ Second \in Int
      BY ToolsAssumption, AnalysisAssumption
    <3> QED
      BY <3>1
  <2>2. PICK a \in Int, b \in Int : failures[k].start = a /\ failures[k].end = b
    BY <1>4, <1>6
  <2>3. ASSUME NEW i \in DOMAIN cmd.cast, parsed(i)
        PROVE  inside(cmd.cast[i], failures[k]) <=> Inside(cmd.cast[i], failures[k], cmd.start)
    <3>1. i \in 1..i /\ i \in 1..Len(cmd.cast)
      BY <1>3 DEF Recorded
    <3>2. cmd.cast[i].t \in Int
      BY <1>3, <2>3, <3>1 DEF Recorded
    <3>3. PICK t \in Int : cmd.cast[i].t = t
      BY <3>2
    <3>4. (a + (z - c) <= z + t /\ z + t <= b + (z - c)) <=> (a <= t + c /\ t + c <= b)
      OBVIOUS
    <3>5. inside(cmd.cast[i], failures[k]) <=>
            cmd.cast[i].type = "o" /\ a + (z - c) <= z + t /\ z + t <= b + (z - c)
      BY Zenon, <2>1, <2>2, <3>3
    <3>6. Inside(cmd.cast[i], failures[k], cmd.start) <=> cmd.cast[i].type = "o" /\ a <= t + c /\ t + c <= b
      BY Zenon, <2>1, <2>2, <3>3 DEF Inside
    <3> QED
      BY Zenon, <3>4, <3>5, <3>6
  <2>4. \A i \in DOMAIN cmd.cast : (parsed(i) <=> Parsed(cmd.cast, cmd.start, i))
    BY Zenon DEF Parsed
  <2> HIDE DEF parsed, inside
  <2> QED
    BY Zenon, <2>3, <2>4 DEF PartsOf
<1>7. ASSUME NEW k \in DOMAIN failures
      PROVE  LET whole == FlattenSeq(parts(k))
                 over == Max({Len(whole) - MaxOutputBytes, 0})
             IN /\ output[k].out = SubSeq(whole, over + 1, Len(whole))
                /\ output[k].truncated <=> over > 0
  <2> HIDE DEF parts
  <2> QED
    BY Zenon, <1>5, <1>6, <1>7 DEF Kept, Rest, Over, Flat
<1> HIDE DEF late
<1> QED
  BY Zenon, <1>2, <1>7 DEF FailureOutput, ShowsOutput, late

\* The chunks are of the trace, and what analyze has loaded of them are spans.
AnalysisInv ==
  /\ cmd \in Commands
  /\ cmd.name = "analyze" =>
       /\ IsFiniteSet(DOMAIN chunks) /\ DOMAIN chunks \subseteq ChunkIds /\ \A c \in DOMAIN chunks : chunks[c] \in Trace
       /\ got \in Seq(SpanSet)
       /\ pc \in {"start", "load", "done"}
       /\ pc = "load" => names \in Seq(DOMAIN chunks)

\* analyze lists the chunks and loads one after the other.
LEMMA AnalysisStep ==
  ASSUME AnalysisInv,
         \/ Main \/ Operator \/ Delete \/ Pruned
         \/ \E i \in DOMAIN work : Scan(i) \/ Release(i)
  PROVE  AnalysisInv'
<1>0. cmd' = cmd
  BY DEF Main, Operator, Begin, NextUser, Visit, Walked, Pruned, Gate, Ask, Confirm, PrintBlocks, GroupRuns, Load,
         Loaded, Spawn, Scan, Release, Delete, Reads
<1> SUFFICES ASSUME cmd.name = "analyze" PROVE AnalysisInv'
  BY <1>0 DEF AnalysisInv
<1>1. /\ IsFiniteSet(DOMAIN chunks) /\ DOMAIN chunks \subseteq ChunkIds /\ \A c \in DOMAIN chunks : chunks[c] \in Trace
      /\ got \in Seq(SpanSet) /\ pc \in {"start", "load", "done"} /\ cmd \in Commands
      /\ pc = "load" => names \in Seq(DOMAIN chunks)
  BY DEF AnalysisInv
<1>2. Begin \/ Load \/ Loaded
  BY <1>1 DEF Main, Operator, Gate, Ask, Confirm, PrintBlocks, NextUser, Visit, Walked, GroupRuns, Spawn, Scan,
              Release, Delete, Pruned
<1>3. chunks' = chunks
  BY <1>2 DEF Begin, Load, Loaded, Reads, store
<1>4. CASE Begin
  <2>1. pc' = "load" /\ names' = ReadDir(chunks) /\ got' = got
    BY <1>4 DEF Begin, Go
  <2>2. ReadDir(chunks) \in Seq(DOMAIN chunks)
    <3>1. DOMAIN chunks \subseteq Int
      BY <1>1, ToolsAssumption
    <3> QED
      BY <1>1, <3>1, SortedNumbers DEF ReadDir
  <2> QED
    BY <1>0, <1>1, <1>3, <2>1, <2>2 DEF AnalysisInv
<1>5. CASE Load
  <2>1. /\ pc = "load" /\ pc' = "load" /\ names # <<>> /\ names' = Tail(names)
        /\ got' = got \o ReadAll(chunks[Head(names)])
    BY <1>5 DEF Load, Reads
  <2>2. Head(names) \in DOMAIN chunks /\ Tail(names) \in Seq(DOMAIN chunks)
    BY <1>1, <2>1
  <2>3. ReadAll(chunks[Head(names)]) \in Seq(SpanSet)
    BY <1>1, <2>2, ReadAllSpans
  <2>4. got' \in Seq(SpanSet)
    BY <1>1, <2>1, <2>3, ConcatProperties
  <2> QED
    BY <1>0, <1>1, <1>3, <2>1, <2>2, <2>4 DEF AnalysisInv
<1>6. CASE Loaded
  <2>1. pc' = "done" /\ got' = got
    BY <1>6 DEF Loaded, Go
  <2> QED
    BY <1>0, <1>1, <1>3, <2>1 DEF AnalysisInv
<1> QED
  BY <1>2, <1>4, <1>5, <1>6

\* More may be stored meanwhile.
LEMMA AnalysisOthers ==
  ASSUME AnalysisInv, EveryoneElse
  PROVE  AnalysisInv'
<1>1. UNCHANGED <<cmd, pc, names, got>>
  BY DEF EveryoneElse, Others, Record, Header, Write, Die, CloseSession, ReusePid, Tick, SetClock, StoreChunk
<1> SUFFICES ASSUME cmd.name = "analyze" PROVE AnalysisInv'
  BY <1>1 DEF AnalysisInv
<1>2. /\ IsFiniteSet(DOMAIN chunks) /\ DOMAIN chunks \subseteq ChunkIds /\ \A c \in DOMAIN chunks : chunks[c] \in Trace
      /\ got \in Seq(SpanSet) /\ pc \in {"start", "load", "done"} /\ cmd \in Commands
      /\ pc = "load" => names \in Seq(DOMAIN chunks)
  BY DEF AnalysisInv
<1>3. CASE UNCHANGED chunks
  BY <1>1, <1>2, <1>3 DEF AnalysisInv
<1>4. ASSUME NEW c \in ChunkIds, NEW lines \in Trace, StoreChunk(c, lines) PROVE AnalysisInv'
  <2>1. /\ DOMAIN chunks' = DOMAIN chunks \cup {c}
        /\ chunks'[c] = lines /\ \A d \in DOMAIN chunks : d # c => chunks'[d] = chunks[d]
    BY <1>4 DEF StoreChunk
  <2>2. IsFiniteSet(DOMAIN chunks')
    BY <1>2, <2>1, FS_AddElement
  <2>3. DOMAIN chunks' \subseteq ChunkIds /\ \A d \in DOMAIN chunks' : chunks'[d] \in Trace
    BY <1>2, <2>1
  <2>4. names \in Seq(DOMAIN chunks) => names \in Seq(DOMAIN chunks')
    BY <2>1
  <2> QED
    BY <1>1, <1>2, <2>2, <2>3, <2>4 DEF AnalysisInv
<1>5. UNCHANGED chunks \/ \E c \in ChunkIds, lines \in Trace : StoreChunk(c, lines)
  BY DEF EveryoneElse, Record, Header, Write, Die, CloseSession, ReusePid, Tick, SetClock
<1> QED
  BY <1>3, <1>4, <1>5

\* An analysis says the same of the same spans, in whatever order they were
\* stored, and gives each failure the last of all the output, and nothing else, of
\* a stretch as long as its run, that begins as much after it as the recording began
\* after the second in its header: for any trace, any recording whose events are in
\* order, and any limits (Analyze, validSorted, correlateOutput).
THEOREM AnalysisTells == ToolsSpec => []AnalysisFaithful
<1>1. AnalysisInv => AnalysisFaithful
  <2> SUFFICES ASSUME AnalysisInv, cmd.name = "analyze" PROVE AnalysisFaithful
    BY DEF AnalysisFaithful, AnalysisOrderFree, FailureOutput
  <2>1. got \in Seq(SpanSet) /\ cmd \in Commands
    BY DEF AnalysisInv
  <2>2. Stamped(got)
    BY <2>1, SpansStamped
  <2>3. AnalysisOrderFree
    BY <2>1, <2>2, OrderFree
  <2>4. FailureOutput
    BY <2>1, FailureTold
  <2> QED
    BY <2>3, <2>4 DEF AnalysisFaithful
<1>2. ToolsInit => AnalysisInv
  <2> SUFFICES ASSUME ToolsInit PROVE AnalysisInv
    OBVIOUS
  <2>1. pc = "start" /\ got = <<>> /\ chunks = <<>> /\ cmd \in Commands
    BY DEF ToolsInit
  <2>2. DOMAIN chunks = {} /\ IsFiniteSet({}) /\ got \in Seq(SpanSet)
    BY <2>1, FS_EmptySet
  <2> QED
    BY <2>1, <2>2 DEF AnalysisInv
<1>3. AnalysisInv /\ [ToolsNext]_toolsVars => AnalysisInv'
  <2> SUFFICES ASSUME AnalysisInv, [ToolsNext]_toolsVars PROVE AnalysisInv'
    OBVIOUS
  <2>1. CASE EveryoneElse
    BY <2>1, AnalysisOthers
  <2>2. CASE \/ Main \/ Operator \/ Delete \/ Pruned
             \/ \E i \in DOMAIN work : Scan(i) \/ Release(i)
    BY <2>2, AnalysisStep
  <2>3. CASE UNCHANGED toolsVars
    BY <2>3 DEF toolsVars, store, AnalysisInv
  <2> QED
    BY <2>1, <2>2, <2>3 DEF ToolsNext, EveryoneElse
<1> QED
  BY <1>1, <1>2, <1>3, PTL DEF ToolsSpec
=============================================================================
