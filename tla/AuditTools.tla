----------------------------- MODULE AuditTools -----------------------------
(***************************************************************************)
(* Root's commands over the central store: ls, search, prune, tree,        *)
(* analyze and ansible incoming.  Each reads the store in many steps while *)
(* the daemon records into it, and prune waits for an operator in between. *)
(* They share one way of visiting the store: the users as listed once, the *)
(* recordings of each as listed when its turn comes.                       *)
(*                                                                         *)
(* Data: a recording is a number, in the order of the file names, and its  *)
(* output the number of lines within an event that match the pattern, and  *)
(* whether the pattern is in it where two events meet.  Times are units;   *)
(* layout, sizes and the wording of errors are left out, and so is         *)
(* everything a reader meets in a damaged file but its header.             *)
(***************************************************************************)
EXTENDS SpanAnalysis, IncomingTasks

CONSTANTS
  Recordings,   \* a sequence, name -> [user, pid, regular, readable, inCmd, tmp, module, result,
                \*         ts, hits, fold], ts = -1 if it is yet to be made; readable is
                \*         FALSE for a damaged header; fold is how much too early its local
                \*         time is read (the hour that comes twice when clocks go back)
  Commands,     \* the commands typed: whether the store changes under them, how far east
                \* of the daemon's time zone root's is (zone), and for analyze the second
                \* in the header (start) and the time that event times count from (zero)
  Trace,        \* what a chunk file may hold: sequences of spans and of Bad lines
  ChunkIds,
  Workers,      \* runtime.NumCPU()
  MaxSnip,      \* maxSnip: matches shown of a recording
  Slack,        \* the 5 seconds of isActive
  Jump,         \* how far the clock may be set forward
  MaxNow, MaxEnv   \* bounds: time, and steps of everyone but the command

Bad == [id |-> -1]   \* a line that does not parse

ASSUME ToolsAssumption ==
  /\ Len(Recordings) \in Nat /\ DOMAIN Recordings = 1..Len(Recordings)
  /\ \A n \in DOMAIN Recordings :
       LET r == Recordings[n] IN
       /\ r.user \in Nat \ {0} /\ r.hits \in Nat /\ {r.ts, r.fold} \subseteq Int
       /\ r.result \in {"ok", "changed", "failed"}
  /\ ChunkIds \subseteq Int
  /\ \A lines \in Trace :
       /\ Len(lines) \in Nat /\ DOMAIN lines = 1..Len(lines)
       /\ \A i \in DOMAIN lines : lines[i] # Bad => {lines[i].start, lines[i].end, lines[i].id} \subseteq Int
  /\ \A c \in Commands :
       /\ {c.start, c.zero, c.zone} \subseteq Int /\ Len(c.cast) \in Nat /\ DOMAIN c.cast = 1..Len(c.cast)
       /\ LET read == {i \in DOMAIN c.cast : c.cast[i].type # "bad"} IN
          /\ \A i \in read : c.cast[i].t \in Int /\ c.cast[i].data \in Seq(Int)
          \* "Events are emitted in non-decreasing time order" (correlate.go:76).
          /\ \A i, j \in read : i <= j => c.cast[i].t <= c.cast[j].t
  /\ {Workers, MaxSnip} \subseteq Nat \ {0} /\ {Slack, Jump, MaxNow, MaxEnv} \subseteq Nat

VARIABLES
  files,    \* recording -> [linked, open, started, header, ts, hits, cut]
  procs,    \* pid -> [comm, of, start]
  now, shift,   \* the clock, and how far it was set forward
  chunks,   \* the chunk files of the session's trace
  hash,     \* .prune.hash
  cmd,      \* the command
  pc,       \* where it is
  users, names,   \* the users, and the names (or chunk files), it has yet to visit
  got,      \* what it has collected
  work,     \* search: the jobs
  out,      \* what it prints
  first,    \* files and chunks as they were when it began
  env       \* steps of the others still to come

store == <<files, procs, now, shift, chunks, env>>
toolsVars == <<store, hash, cmd, pc, users, names, got, work, out, first>>

Names == DOMAIN Recordings
Pids == {Recordings[n].pid : n \in Names}
Users == {Recordings[n].user : n \in Names}
NoProc == [comm |-> "none", of |-> 0, start |-> 0]

----------------------------------------------------------------------------
(* What is read of the store.                                               *)

castsIn(user) ==
  LET listed[n \in 0..Len(Recordings)] ==
        IF n = 0 THEN <<>>
        ELSE IF Recordings[n].user = user /\ files[n].linked THEN Append(listed[n - 1], n) ELSE listed[n - 1]
  IN listed[Len(Recordings)]

\* parseNameTime: the name says when the daemon made the file in the daemon's
\* local time, and the command reads it in its own.
Misread(n) == cmd.zone + Recordings[n].fold
NameTime(n) == files[n].started - Misread(n)

\* isActive: a ghostshell runs under the pid of the name, and started no later
\* than the name is read to say, give or take Slack.  The start comes from the
\* clock of now: it moves when the clock is set.
isActive_strict(n) ==   \* Mutant: the process must be older than the name.
  LET p == procs[Recordings[n].pid] IN p.comm = "ghostshell" /\ p.start + shift < NameTime(n)
isActive(n) ==
  LET p == procs[Recordings[n].pid] IN p.comm = "ghostshell" /\ p.start + shift <= NameTime(n) + Slack

\* The header of a file can be read: it is there, and it is whole.
Readable(f, n) == Recordings[n].readable /\ f[n].header
\* Header's timestamp: none (0) if it cannot be read.
Timestamp(n) == IF Readable(files, n) THEN files[n].ts ELSE 0
\* inWindow, pruneFilter: an unknown start is in no window.
InWindow(sel, ts) == sel = <<>> \/ (ts > 0 /\ sel[1] <= ts /\ ts <= sel[2])

\* printUserSessions, LsUser: a row of a listing.
Row(n) == [n |-> n, status |-> IF ~Readable(files, n) THEN "ERROR"
                               ELSE IF isActive(n) THEN "ACTIVE" ELSE "SAVED"]

\* scanSession: the block of a recording, or none.  Lines are looked for within
\* an event: the pattern where two events meet is not found.
Matches(f, n) ==
  Readable(f, n) /\ InWindow(cmd.sel, f[n].ts) /\ (cmd.all \/ Recordings[n].inCmd \/ f[n].hits > 0)
scanSession(n) ==
  IF ~Readable(files, n) THEN <<[n |-> n, unreadable |-> TRUE, snips |-> 0]>>
  ELSE IF Matches(files, n)
  THEN <<[n |-> n, unreadable |-> FALSE, snips |-> IF cmd.all THEN 0 ELSE Min({MaxSnip, files[n].hits})]>>
  ELSE <<>>

\* taskSession, with the result its output ends in (readAnsibleResult); its start
\* is read back from local time.
Session(n) ==
  [n |-> n, tmp |-> Recordings[n].tmp, start |-> files[n].ts - Recordings[n].fold, module |-> Recordings[n].module,
   result |-> IF files[n].hits > 0 THEN Recordings[n].result ELSE "ok"]

\* The chunk files, as a directory lists them.
ReadDir(dir) == Sorted(DOMAIN dir, <)
\* span.ReadAll: the lines that parse.
ReadAll(lines) == Entries(lines, Sorted({i \in DOMAIN lines : lines[i] # Bad}, <))

----------------------------------------------------------------------------

ToolsInit ==
  /\ files = [n \in Names |-> LET r == Recordings[n] IN
               [linked |-> r.ts >= 0, open |-> FALSE, started |-> IF r.ts >= 0 THEN 1 ELSE 0,
                header |-> r.ts >= 0, ts |-> Max({r.ts, 0}), hits |-> r.hits, cut |-> FALSE]]
  /\ procs = [p \in Pids |-> NoProc]
  /\ now = 1 /\ shift = 0 /\ chunks = <<>> /\ env = MaxEnv
  /\ hash \in {"none", "bcrypt", "legacy"}
  /\ cmd \in Commands /\ (cmd.name # "prune" => hash = "none")
  /\ pc = "start" /\ users = {} /\ names = <<>> /\ got = <<>> /\ work = <<>> /\ out = <<>>
  /\ first = <<files, chunks>>

Go(to) == pc' = to
Reads == UNCHANGED <<store, hash, cmd, first>>

\* Each command lists the users, or the chunks of the trace, first of all.
Begin ==
  /\ pc = "start"
  /\ users' = {u \in Users : cmd.name \notin {"tree", "analyze"} /\ cmd.user \in {0, u}}
  /\ names' = IF cmd.name \in {"tree", "analyze"} THEN ReadDir(chunks) ELSE <<>>
  /\ Go(IF cmd.name \in {"tree", "analyze"} THEN "load" ELSE IF cmd.name = "prune" THEN "gate" ELSE "walk")
  /\ first' = <<files, chunks>>
  /\ UNCHANGED <<store, hash, cmd, got, work, out>>

\* prunePasswordGate: no password yet makes the one typed the password; a hash
\* of the old kind is never verified.
Gate(typed) ==
  /\ pc = "gate"
  /\ Go(IF typed = "right" /\ hash # "legacy" THEN "ask" ELSE "done")
  /\ hash' = IF hash = "none" /\ typed = "right" THEN "bcrypt" ELSE hash
  /\ UNCHANGED <<store, cmd, users, names, got, work, out, first>>

\* resolveScope, pruneFilter: all users or one of them; -1 stands for an answer
\* that is refused.
Ask(u) ==
  /\ pc = "ask"
  /\ users' = {v \in users : u \in {0, v}}
  /\ Go(IF u = -1 THEN "done" ELSE "walk")
  /\ Reads /\ UNCHANGED <<names, got, work, out>>

\* The users come in the order of their names, as a directory lists them.
NextUser ==
  /\ pc = "walk" /\ names = <<>> /\ users # {} /\ (cmd.name = "incoming" => got = <<>>)
  /\ names' = castsIn(Min(users)) /\ users' = users \ {Min(users)}
  /\ Reads /\ UNCHANGED <<pc, got, work, out>>

\* collectPruneTargets: neither an active recording nor one out of the selection.
Selected(n) == ~isActive(n) /\ InWindow(cmd.sel, Timestamp(n))

Visit ==
  /\ pc = "walk" /\ names # <<>>
  /\ LET n == Head(names) IN
     got' = CASE cmd.name = "ls" -> Append(got, Row(n))
              [] cmd.name = "search" -> Append(got, n)
              [] cmd.name = "prune" -> IF Selected(n) THEN Append(got, n) ELSE got
              [] cmd.name = "incoming" -> IF Readable(files, n) /\ Recordings[n].tmp # ""
                                          THEN Append(got, n) ELSE got
  /\ names' = Tail(names)
  /\ Reads /\ UNCHANGED <<pc, users, work, out>>

Walked ==
  /\ pc = "walk" /\ names = <<>> /\ users = {} /\ (cmd.name = "incoming" => got = <<>>)
  /\ Go(IF cmd.name = "search" THEN "scan" ELSE IF cmd.name = "prune" /\ got # <<>> THEN "confirm" ELSE "done")
  /\ work' = IF cmd.name = "search" THEN [i \in DOMAIN got |-> [at |-> "waiting", block |-> <<>>]] ELSE <<>>
  /\ out' = IF cmd.name = "ls" THEN got ELSE out
  /\ Reads /\ UNCHANGED <<users, names, got>>

----------------------------------------------------------------------------
(* prune                                                                    *)

Confirm(yes) ==
  /\ pc = "confirm"
  /\ Go(IF yes THEN "delete" ELSE "done")
  /\ names' = IF yes THEN got ELSE <<>>
  /\ Reads /\ UNCHANGED <<users, got, work, out>>

\* deleteTargets: a regular file only.
Delete ==
  /\ pc = "delete" /\ names # <<>>
  /\ LET n == Head(names) IN
       IF files[n].linked /\ Recordings[n].regular
       THEN files' = [files EXCEPT ![n].linked = FALSE] /\ out' = Append(out, n)
       ELSE UNCHANGED <<files, out>>
  /\ names' = Tail(names)
  /\ UNCHANGED <<procs, now, shift, chunks, env, hash, cmd, pc, users, got, work, first>>

Pruned ==
  /\ pc = "delete" /\ names = <<>> /\ Go("done")
  /\ Reads /\ UNCHANGED <<users, names, got, work, out>>

----------------------------------------------------------------------------
(* search: the workers                                                      *)

Jobs(at) == {i \in DOMAIN work : work[i].at = at}

\* The main goroutine starts the next job when the semaphore has room.
Spawn(i) ==
  /\ pc = "scan" /\ i \in DOMAIN work /\ i = Min(Jobs("waiting") \cup {Len(work) + 1})
  /\ Cardinality(Jobs("running") \cup Jobs("scanned")) < Workers
  /\ work' = [work EXCEPT ![i].at = "running"]
  /\ Reads /\ UNCHANGED <<pc, users, names, got, out>>

Scan(i) ==
  /\ pc = "scan" /\ i \in Jobs("running")
  /\ work' = [work EXCEPT ![i] = [at |-> "scanned", block |-> scanSession(got[i])]]
  /\ Reads /\ UNCHANGED <<pc, users, names, got, out>>

\* The deferred release of its slot and wg.Done.
Release(i) ==
  /\ pc = "scan" /\ i \in Jobs("scanned")
  /\ work' = [work EXCEPT ![i].at = "done"]
  /\ Reads /\ UNCHANGED <<pc, users, names, got, out>>

\* wg.Wait, then the blocks in the order of the jobs.
PrintBlocks_early ==   \* Mutant: it prints when the last job has started.
  /\ pc = "scan" /\ Jobs("waiting") = {}
  /\ out' = FlattenSeq([i \in DOMAIN work |-> work[i].block]) /\ Go("done")
  /\ Reads /\ UNCHANGED <<users, names, got, work>>
PrintBlocks ==
  /\ pc = "scan" /\ Jobs("done") = DOMAIN work
  /\ out' = FlattenSeq([i \in DOMAIN work |-> work[i].block]) /\ Go("done")
  /\ Reads /\ UNCHANGED <<users, names, got, work>>

----------------------------------------------------------------------------
(* incoming, tree and analyze                                               *)

\* incoming groups the tasks of a user before it turns to the next.
GroupRuns ==
  /\ pc = "walk" /\ cmd.name = "incoming" /\ names = <<>> /\ got # <<>>
  /\ \E tasks \in buildIncomingTasks({Session(got[i]) : i \in DOMAIN got}) :
     \E runs \in {groupIntoRuns(order) : order \in Orders(tasks)} :
       out' = out \o [r \in DOMAIN runs |->
                [user |-> Recordings[got[1]].user, tasks |-> runs[r].tasks, recap |-> recap(runs[r].tasks)]]
  /\ got' = <<>>
  /\ Reads /\ UNCHANGED <<pc, users, names, work>>

\* loadSpans: one chunk after the other.
Load ==
  /\ pc = "load" /\ names # <<>>
  /\ got' = got \o ReadAll(chunks[Head(names)]) /\ names' = Tail(names)
  /\ Reads /\ UNCHANGED <<pc, users, work, out>>

\* The report of analyze is a function of what was loaded: Report.
Report == Analyze(got, cmd.cast, cmd.start)
Loaded ==
  /\ pc = "load" /\ names = <<>> /\ Go("done")
  /\ out' = IF cmd.name = "tree" THEN renderTree(got) ELSE <<>>
  /\ Reads /\ UNCHANGED <<users, names, got, work>>

----------------------------------------------------------------------------
(* Everyone else, until the command ends: recorders, the daemon, the kernel. *)

Others(kind) ==
  /\ kind \in cmd.meets /\ env > 0 /\ pc # "done" /\ env' = env - 1
  /\ UNCHANGED <<hash, cmd, pc, users, names, got, work, out, first>>

\* A recorder starts and the daemon creates its file (names are chronological).
Record(n) ==
  /\ Others("recorders") /\ files[n].started = 0 /\ procs[Recordings[n].pid] = NoProc
  /\ files' = [files EXCEPT ![n].linked = TRUE, ![n].open = TRUE, ![n].started = now + shift]
  /\ procs' = [procs EXCEPT ![Recordings[n].pid] = [comm |-> "ghostshell", of |-> n, start |-> now]]
  /\ UNCHANGED <<now, shift, chunks>>

\* Then it sends the header, with the time at which it began to.
Header(n) ==
  /\ Others("recorders") /\ files[n].open /\ ~files[n].header
  /\ \E ts \in files[n].started..(now + shift) : files' = [files EXCEPT ![n].header = TRUE, ![n].ts = ts]
  /\ UNCHANGED <<procs, now, shift, chunks>>

\* An event with a line that matches, or one that the next goes on to match.
Write(n) ==
  /\ Others("writes") /\ files[n].open /\ files[n].header /\ files[n].hits <= MaxSnip
  /\ files' \in {[files EXCEPT ![n].hits = @ + 1], [files EXCEPT ![n].cut = TRUE]}
  /\ UNCHANGED <<procs, now, shift, chunks>>

Die(n) ==
  /\ Others("recorders") /\ procs[Recordings[n].pid].of = n
  /\ procs' = [procs EXCEPT ![Recordings[n].pid] = NoProc]
  /\ UNCHANGED <<files, now, shift, chunks>>

\* The daemon reads the end of the connection some time after.
CloseSession(n) ==
  /\ Others("recorders") /\ files[n].open /\ procs[Recordings[n].pid].of # n
  /\ files' = [files EXCEPT ![n].open = FALSE]
  /\ UNCHANGED <<procs, now, shift, chunks>>

ReusePid(pid, comm) ==
  /\ Others("recorders") /\ procs[pid] = NoProc
  /\ procs' = [procs EXCEPT ![pid] = [comm |-> comm, of |-> 0, start |-> now]]
  /\ UNCHANGED <<files, now, shift, chunks>>

Tick ==
  /\ Others("clock") /\ now < MaxNow /\ now' = now + 1
  /\ UNCHANGED <<files, procs, shift, chunks>>

\* The clock is set forward: /proc/stat's btime, and every start with it, move.
SetClock ==
  /\ Others("clock") /\ shift = 0 /\ shift' \in {Slack, Jump}
  /\ UNCHANGED <<files, procs, now, chunks>>

StoreChunk(c, lines) ==
  /\ Others("spans") /\ c \notin DOMAIN chunks
  /\ chunks' = [d \in DOMAIN chunks \cup {c} |-> IF d = c THEN lines ELSE chunks[d]]
  /\ UNCHANGED <<files, procs, now, shift>>

Main ==
  \/ Begin \/ NextUser \/ Visit \/ Walked \/ PrintBlocks \/ GroupRuns \/ Load \/ Loaded
  \/ \E i \in DOMAIN work : Spawn(i)
Operator ==
  \/ \E typed \in {"right", "wrong"} : Gate(typed)
  \/ \E u \in users \cup {0, -1} : Ask(u)
  \/ \E yes \in BOOLEAN : Confirm(yes \/ cmd.yes)
ToolsNext ==
  \/ Main \/ Operator \/ Delete \/ Pruned
  \/ \E i \in DOMAIN work : Scan(i) \/ Release(i)
  \/ \E n \in Names : Record(n) \/ Header(n) \/ Write(n) \/ Die(n) \/ CloseSession(n)
  \/ \E p \in Pids, comm \in {"ghostshell", "other"} : ReusePid(p, comm)
  \/ Tick \/ SetClock
  \/ \E c \in ChunkIds, lines \in Trace : StoreChunk(c, lines)
ToolsSpec == ToolsInit /\ [][ToolsNext]_toolsVars
\* The command's goroutines run; an operator need never answer.
FairToolsSpec ==
  ToolsSpec /\ WF_toolsVars(Main) /\ WF_toolsVars(Delete \/ Pruned)
  /\ \A i \in 1..Cardinality(Names) : WF_toolsVars(Scan(i)) /\ WF_toolsVars(Release(i))

----------------------------------------------------------------------------
(* Properties.                                                              *)

Printed == pc = "done"
Scope == {n \in Names : cmd.user \in {0, Recordings[n].user}}
Before(a, b) == Recordings[a].user < Recordings[b].user \/ (Recordings[a].user = Recordings[b].user /\ a < b)

\* However the workers are scheduled and whatever is recorded meanwhile, search
\* prints recordings in the order of the store, each once, all that matched when
\* it began, within a line of an event or in the command, none that does not match
\* now, and "(unreadable)" for every damaged header and for nothing that it could
\* have read when it began (Search, scanSession).
SearchFaithful ==
  Printed /\ cmd.name = "search" =>
    /\ \A i, j \in DOMAIN out : i < j => Before(out[i].n, out[j].n)
    /\ \A n \in Scope : first[1][n].linked /\ (Matches(first[1], n) \/ ~Recordings[n].readable) =>
         \E i \in DOMAIN out : out[i].n = n
    /\ \A i \in DOMAIN out :
         /\ out[i].n \in Scope
         /\ IF out[i].unreadable THEN ~Readable(first[1], out[i].n) ELSE Matches(files, out[i].n)

\* "Recordings whose output (or recorded command) contains the pattern"
\* (audit.go:1133): refuted, not where two events meet.
SearchFindsPattern ==
  Printed /\ cmd.name = "search" =>
    \A n \in Scope : first[1][n].linked /\ Readable(first[1], n) /\ InWindow(cmd.sel, first[1][n].ts)
                       /\ (first[1][n].hits > 0 \/ first[1][n].cut) => \E i \in DOMAIN out : out[i].n = n
\* "So operators see corrupt recordings" (audit.go:1305): refuted, the header of
\* one that has just begun may not have arrived.
UnreadableIsCorrupt ==
  Printed /\ cmd.name = "search" => \A i \in DOMAIN out : out[i].unreadable => ~Recordings[out[i].n].readable

\* Every command ends by itself, except for prune's questions (the semaphore,
\* the wait for the workers, the walk over a store that grows).
CommandEnds == cmd.name # "prune" => <>(pc = "done")

\* Prune removes no recording whose recorder is running, however long the operator
\* takes and whoever has its pid since, unless the clock was set forward and its
\* name is read as too early by more than Slack together.
PruneSparesRunning ==
  [][\A n \in Names : files[n].linked /\ ~files'[n].linked =>
       shift + Misread(n) > Slack \/ procs[Recordings[n].pid].of # n]_toolsVars

\* "never prune an in-progress recording" (audit.go:811): refuted, the recorder
\* may be dead and the daemon still writing; and a clock set forward by more than
\* 5 seconds since the start, a root whose time zone is east of the daemon's, or a
\* start in the hour that comes twice makes a running recorder look younger than
\* its file.
NeverInProgress ==
  [][\A n \in Names : files[n].linked /\ ~files'[n].linked => ~files[n].open]_toolsVars

\* The ancestors of node i by parent links, k steps up: 0 past the top.
Up(i) ==
  LET link(j) == LET p == {k \in DOMAIN got : got[j].parent # 0 /\ got[k].id = got[j].parent}
                 IN IF p = {} \/ Max(p) = j THEN 0 ELSE Max(p)
      up[k \in 0..MaxTreeDepth] == IF k = 0 THEN i ELSE IF up[k - 1] = 0 THEN 0 ELSE link(up[k - 1])
  IN up

\* Every span that was stored when tree began is loaded, and printed once, under
\* its parent if that is known, unless its parents are more than MaxTreeDepth
\* deep or go round in a circle.
TreeKeepsSpans ==
  Printed /\ cmd.name = "tree" =>
    /\ \A c \in DOMAIN first[2] : ToSet(ReadAll(first[2][c])) \subseteq ToSet(got)
    /\ \A i \in DOMAIN got :
         LET at(j) == {k \in DOMAIN out : out[k] = j} IN
         IF Up(i)[MaxTreeDepth] # 0 THEN at(i) = {}
         ELSE Cardinality(at(i)) = 1 /\ (Up(i)[1] # 0 => Min(at(Up(i)[1])) < Min(at(i)))

\* "It stays visible rather than being silently lost" (audit.go:479): refuted
\* for two spans that name each other.
TreeLosesNothing == Printed /\ cmd.name = "tree" => Len(out) = Len(got)

Swap(s, i, j) == [s EXCEPT ![i] = s[j], ![j] = s[i]]

\* "The order of the input does not matter" (analyze.go:222), for spans with
\* different ids: whichever handler stored which chunk first, and however the
\* chunks are cut, the report is the same: any two neighbours may change places.
AnalysisOrderFree ==
  Printed /\ cmd.name = "analyze" /\ (\A i, j \in DOMAIN got : i # j => got[i].id # got[j].id) =>
    \A i \in 2..Len(got) : Analyze(Swap(got, i - 1, i), cmd.cast, cmd.start) = Report

\* Each failure comes with the last of all the output from late after it began to
\* late after it ended, and with nothing else.
ShowsOutput(late) ==
  LET failures == Report.failures
      output == Report.output
      parsed(i) == cmd.start > 0 /\ \A j \in 1..i : cmd.cast[j].type # "bad"
      inside(e, f) == e.type = "o" /\ f.start + late <= cmd.zero + e.t /\ cmd.zero + e.t <= f.end + late
  IN \A k \in DOMAIN failures :
       LET whole == FlattenSeq([i \in DOMAIN cmd.cast |->
                      IF parsed(i) /\ inside(cmd.cast[i], failures[k]) THEN cmd.cast[i].data ELSE <<>>])
           over == Max({Len(whole) - MaxOutputBytes, 0})
       IN /\ output[k].out = SubSeq(whole, over + 1, Len(whole))
          /\ output[k].truncated <=> over > 0

\* Whatever the windows of the others, a failure comes with the output of as long
\* as it took, as much later as the recording began after the second that its
\* header says (correlateOutput).
FailureOutput ==
  Printed /\ cmd.name = "analyze" => ShowsOutput(cmd.zero - cmd.start * Second)

\* "The slice of pty output that was on screen while it ran" (analyze.go:23):
\* refuted, it is off by the part of a second that the header leaves out.
FailureOutputExact == Printed /\ cmd.name = "analyze" /\ cmd.start > 0 => ShowsOutput(0)

\* An analysis says the same of the same spans, and of each failure the output of
\* its stretch.
AnalysisFaithful == AnalysisOrderFree /\ FailureOutput

\* The tasks of run r, and of all the runs of user u.
Tasks(r) == ToSet(out[r].tasks)
TasksOf(u) == UNION {Tasks(r) : r \in {q \in DOMAIN out : out[q].user = u}}

\* Among tasks, none of the gaps between a and b is above GroupGap.
Joined(tasks, a, b) ==
  \A c \in tasks : a.start <= c.start /\ c.start < b.start =>
    \E d \in tasks : c.start < d.start /\ d.start <= c.start + GroupGap

CutAtGaps ==
  \A u \in Users : \A a, b \in TasksOf(u) : a.start <= b.start =>
    ((\E r \in DOMAIN out : {a, b} \subseteq Tasks(r)) <=> Joined(TasksOf(u), a, b))
NoTaskTwice == \A r, s \in DOMAIN out : r # s => Tasks(r) \cap Tasks(s) = {}
OutcomesAddUp ==
  \A r \in DOMAIN out :
    LET n == out[r].recap IN n["ok"] + n["changed"] + n["failed"] = Len(out[r].tasks)
\* Recording n, with its header, is an execution of a directory; its task is in a run.
Executes(f, n) == Readable(f, n) /\ Recordings[n].tmp # "" /\ Recordings[n].module # ""
TaskTold(n) == \E a \in TasksOf(Recordings[n].user) : a.tmp = Recordings[n].tmp

\* The inferred runs do not depend on the order of the map: two tasks of a user
\* are in one run exactly if no gap above GroupGap lies between them, no task is
\* in two, its outcomes add up, and every directory whose execution was in the
\* store when the command began has its task (groupIntoRuns, recap).
IncomingGroups ==
  Printed /\ cmd.name = "incoming" =>
    /\ CutAtGaps /\ NoTaskTwice /\ OutcomesAddUp
    /\ \A n \in Scope : first[1][n].linked /\ Executes(first[1], n) => TaskTold(n)
=============================================================================
