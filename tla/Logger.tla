------------------------------- MODULE Logger -------------------------------
(***************************************************************************)
(* The daemon's log file (internal/logger/logger.go: TeeToFile, Reopen,    *)
(* emit) under logrotate, which renames it, puts an empty one in its place *)
(* and then sends SIGHUP (scripts/logrotate/ghostshell).                   *)
(*                                                                         *)
(* Files are numbered as they come: `named` is the one with the log's      *)
(* name, named - 1 was rotated away last, and those before it have been    *)
(* compressed (delaycompress).  Any goroutine may log at any moment; the   *)
(* swap of the output and each line are atomic (outputMu, log's mutex).    *)
(***************************************************************************)
EXTENDS Integers

CONSTANT MaxRotations   \* bound: rotations of the log file

ASSUME MaxRotationsAssumption == MaxRotations \in Nat

VARIABLES
  named,     \* the file that has the log's name
  fds,       \* fds[d]: the file behind descriptor d, Closed if it is none
  tee,       \* currentFile: the descriptor lines are teed to, None after restore
  opened,    \* the descriptor Reopen has opened and not swapped in
  old,       \* the one it, or restore, has swapped out and not closed
  reopening, \* where Reopen is: "no", "swap" or "close"
  restoring, \* where the function TeeToFile returned is: "no", "close" or "done"
  stale,     \* history: the last Reopen to end has failed
  wrote      \* where the last line got: "kept", "lost" (to no file), or "late" (to
             \* one compressed by then, because Reopen had failed)

logVars == <<named, fds, tee, opened, old, reopening, restoring, stale, wrote>>

Descriptors == 1..3
Closed == -1
None == 0
Free == {d \in Descriptors : fds[d] = Closed}
LowestFree == CHOOSE d \in Free : \A e \in Free : d <= e

\* main has called TeeToFile.
LogInit ==
  /\ named = 0 /\ wrote = "kept"
  /\ fds = [d \in Descriptors |-> IF d = 1 THEN 0 ELSE Closed]
  /\ tee = 1 /\ opened = None /\ old = [reopen |-> None, restore |-> None]
  /\ reopening = "no" /\ restoring = "no"
  /\ stale = FALSE

Rotate ==
  /\ named < MaxRotations
  /\ named' = named + 1
  /\ UNCHANGED <<fds, tee, opened, old, reopening, restoring, stale, wrote>>

\* openLogFile, which may fail: the old file goes on being used.
ReopenBegins ==
  /\ reopening = "no"
  /\ \/ /\ opened' = LowestFree
        /\ fds' = [fds EXCEPT ![LowestFree] = named]
        /\ reopening' = "swap"
        /\ UNCHANGED stale
     \/ stale' = TRUE /\ UNCHANGED <<fds, opened, reopening>>
  /\ UNCHANGED <<named, tee, old, restoring, wrote>>

\* Mutant: the old file is closed before the new one is swapped in.
ReopenSwaps_closesFirst ==
  /\ reopening = "swap" /\ tee # None
  /\ IF fds[tee] # Closed THEN fds' = [fds EXCEPT ![tee] = Closed] /\ UNCHANGED <<tee, opened, reopening>>
     ELSE tee' = opened /\ opened' = None /\ reopening' = "close" /\ UNCHANGED fds
  /\ stale' = FALSE
  /\ UNCHANGED <<named, old, restoring, wrote>>
\* Under outputMu: the output and currentFile change together.
ReopenSwaps ==
  /\ reopening = "swap"
  /\ old' = [old EXCEPT !.reopen = tee]
  /\ tee' = opened
  /\ opened' = None
  /\ reopening' = "close"
  /\ stale' = FALSE
  /\ UNCHANGED <<named, fds, restoring, wrote>>

ReopenEnds ==
  /\ reopening = "close"
  /\ fds' = IF old.reopen = None THEN fds ELSE [fds EXCEPT ![old.reopen] = Closed]
  /\ old' = [old EXCEPT !.reopen = None]
  /\ reopening' = "no"
  /\ UNCHANGED <<named, tee, opened, restoring, stale, wrote>>

\* main returns: lines go to the base writer alone.
RestoreSwaps ==
  /\ restoring = "no"
  /\ old' = [old EXCEPT !.restore = tee]
  /\ tee' = None
  /\ restoring' = "close"
  /\ UNCHANGED <<named, fds, opened, reopening, stale, wrote>>
RestoreEnds ==
  /\ restoring = "close"
  /\ fds' = IF old.restore = None THEN fds ELSE [fds EXCEPT ![old.restore] = Closed]
  /\ old' = [old EXCEPT !.restore = None]
  /\ restoring' = "done"
  /\ UNCHANGED <<named, tee, opened, reopening, stale, wrote>>

\* emit: lines above the level, and all of them at level 0, are dropped before
\* they get to the output.
Emit(line, level) ==
  /\ level > 0 /\ line <= level
  /\ tee # None
  /\ wrote' = IF fds[tee] # Closed /\ fds[tee] + 1 >= named THEN "kept"
              ELSE IF fds[tee] # Closed /\ stale THEN "late" ELSE "lost"
  /\ UNCHANGED <<named, fds, tee, opened, old, reopening, restoring, stale>>
=============================================================================
