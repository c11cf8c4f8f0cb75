--------------------------- MODULE AnsibleJournal ---------------------------
(***************************************************************************)
(* What `ghostshell ansible show` and `list` make of the lines of a run    *)
(* (internal/ansible/model.go: ParseRun; commands.go: Show, printRunRow).  *)
(*                                                                         *)
(* A line is [type, host, status, ok, failed]: a "task" has a status, a    *)
(* host's "stats" the two counts.  Names and outputs are left out, and so  *)
(* are the "play" lines.  "torn" is a line that was cut: it does not parse.*)
(***************************************************************************)
EXTENDS Naturals, SequencesExt

Line(type, host, status, ok, failed) ==
  [type |-> type, host |-> host, status |-> status, ok |-> ok, failed |-> failed]
RunLine == Line("run", "", "", 0, 0)
Torn == Line("torn", "", "", 0, 0)
TaskLine(host, status) == Line("task", host, status, 0, 0)
StatsLine(host, ok, failed) == Line("stats", host, "", ok, failed)

EmptyRun ==
  [known |-> FALSE, tasks |-> <<>>, stats |-> <<>>, hosts |-> {}, totalOK |-> 0, totalFailed |-> 0]

\* Mutant: a task that was seen before, as a loop gives it, is passed over the
\* way a play's name is.
ParseLine_seen(run, line) ==
  [known |-> run.known \/ line.type = "run",
   tasks |-> IF line.type = "task" /\ \A i \in DOMAIN run.tasks : run.tasks[i] # line
             THEN Append(run.tasks, line) ELSE run.tasks,
   hosts |-> IF line.host # "" THEN run.hosts \union {line.host} ELSE run.hosts,
   stats |-> IF line.type = "stats"
             THEN [h \in DOMAIN run.stats \union {line.host} |-> IF h = line.host THEN line ELSE run.stats[h]]
             ELSE run.stats,
   totalOK |-> run.totalOK + line.ok, totalFailed |-> run.totalFailed + line.failed]
\* One line of ParseRun; one that does not parse changes nothing.
ParseLine(run, line) ==
  [known |-> run.known \/ line.type = "run",
   tasks |-> IF line.type = "task" THEN Append(run.tasks, line) ELSE run.tasks,
   hosts |-> IF line.host # "" THEN run.hosts \union {line.host} ELSE run.hosts,
   stats |-> IF line.type = "stats"
             THEN [h \in DOMAIN run.stats \union {line.host} |-> IF h = line.host THEN line ELSE run.stats[h]]
             ELSE run.stats,
   totalOK |-> run.totalOK + line.ok, totalFailed |-> run.totalFailed + line.failed]
ParseRun(lines) == FoldLeft(ParseLine, EmptyRun, lines)

\* The recap Show prints: the hosts that have stats.
Recap(run) == {run.stats[h] : h \in run.hosts \intersect DOMAIN run.stats}

\* The copy Show takes for root: one in the central store before the caller's
\* own, whatever there is in it.
ShownCopy(central, own) == IF central # <<>> THEN central ELSE own
=============================================================================
