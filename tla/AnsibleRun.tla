----------------------------- MODULE AnsibleRun ----------------------------
(***************************************************************************)
(* The way of a playbook run into the store: the callback plugin           *)
(* (scripts/ansible/ghostshell.py), the `ghostshell ansible-ingest`        *)
(* process it spawns (internal/ansible/ingest.go), and the daemon's        *)
(* handler of the upload (handleAnsible).                                  *)
(*                                                                         *)
(* Three processes: plugin, ingest and handler, and whoever reads the run  *)
(* meanwhile or later (AnsibleJournal).  A line of the run is two chunks   *)
(* of the upload, so that it can be cut; sock chunks are on their way,     *)
(* file of them in the store.                                              *)
(* What the handler shares with others, the registry and the cap, is       *)
(* module Daemon; here a refusal is a choice.                              *)
(***************************************************************************)
EXTENDS AnsibleJournal, FiniteSets

CONSTANTS
  Hosts,     \* the hosts of a playbook, in the order of their names
  MaxTasks,  \* bound: task results of a run
  MaxIngest, \* maxIngestBytes, in chunks
  SockCap    \* chunks that fit between the two ends of the conn

ASSUME HostsAssumption == Hosts \in Seq(STRING) /\ \A i \in DOMAIN Hosts : Hosts[i] # ""
ASSUME BoundsAssumption == MaxTasks \in Nat /\ MaxIngest \in Nat
ASSUME SockCapAssumption == SockCap \in Nat \ {0}

VARIABLES
  lines,     \* what the plugin has written to the ingest's stdin
  tally,     \* Ansible's own counts of each host's results
  plugin,    \* "playing", "recap", "waiting", "returned", "gone" (killed) or
             \* "untracked" (a write to the ingest failed)
  ingest,    \* control state of Ingest and sendToDaemon
  toSend,    \* chunks conn.Write has not sent yet
  handler,   \* control state of handleAnsible
  sock,      \* chunks sent and not read
  reply,     \* the line written to the conn, or "none"
  ingestEnd, \* the ingest process has its end of the conn open
  daemonEnd, \* the daemon has its end open
  file,      \* chunks in the store's file
  local,     \* chunks in the user-local file
  daemon     \* "up", "stopping" (conns are force-closed) or "dead"

runVars == <<lines, tally>>
connVars == <<sock, reply, ingestEnd, daemonEnd>>
vars == <<runVars, plugin, ingest, toSend, handler, connVars, file, local, daemon>>

HostNames == ToSet(Hosts)
\* Chunks of the run: two of each line.
size == 2 * Len(lines)

Init ==
  /\ plugin = "playing"
  /\ ingest = "stdin"
  /\ lines = <<RunLine>>
  /\ tally = [h \in HostNames |-> [ok |-> 0, failed |-> 0]]
  /\ toSend = 0
  /\ handler = "none"
  /\ sock = 0 /\ reply = "none" /\ ingestEnd = FALSE /\ daemonEnd = FALSE
  /\ file = 0 /\ local = 0
  /\ daemon \in {"up", "dead"}
-----------------------------------------------------------------------------
(* The plugin, in ansible-playbook's process.                               *)

\* _emit: the write fails once the ingest has ended, and no more is written.
emit(line) ==
  IF ingest = "failed" THEN plugin' = "untracked" /\ UNCHANGED lines
  ELSE lines' = Append(lines, line) /\ UNCHANGED plugin

\* A task ends on a host.  A failure that is to be ignored is shown as failed
\* and counted as ok.
TaskEnds ==
  /\ plugin = "playing"
  /\ Cardinality({i \in DOMAIN lines : lines[i].type = "task"}) < MaxTasks
  /\ \E h \in HostNames, status \in {"ok", "failed"}, count \in {"ok", "failed"} :
       /\ count = "failed" => status = "failed"
       /\ tally' = [tally EXCEPT ![h][count] = @ + 1]
       /\ emit(TaskLine(h, status))
  /\ UNCHANGED <<ingest, toSend, handler, connVars, file, local, daemon>>

PlaybookEnds ==
  /\ plugin = "playing"
  /\ plugin' = "recap"
  /\ UNCHANGED <<runVars, ingest, toSend, handler, connVars, file, local, daemon>>

\* The hosts that had a result and have no stats in the run yet.
ToRecap == {i \in DOMAIN Hosts :
  /\ tally[Hosts[i]].ok + tally[Hosts[i]].failed > 0
  /\ StatsLine(Hosts[i], tally[Hosts[i]].ok, tally[Hosts[i]].failed) \notin ToSet(lines)}
EmitStats ==
  /\ plugin = "recap" /\ ToRecap # {}
  /\ LET h == Hosts[Min(ToRecap)] IN emit(StatsLine(h, tally[h].ok, tally[h].failed))
  /\ UNCHANGED <<tally, ingest, toSend, handler, connVars, file, local, daemon>>

\* _close: the ingest's stdin ends; the wait is ten seconds at most.
CloseIngest ==
  /\ plugin = "recap" /\ ToRecap = {}
  /\ plugin' = "waiting"
  /\ UNCHANGED <<runVars, ingest, toSend, handler, connVars, file, local, daemon>>

\* ansible-playbook is killed, if need be with half a line written.
PluginDies ==
  /\ plugin \in {"playing", "recap", "waiting"}
  /\ plugin' = "gone"
  /\ lines' \in {lines} \union (IF plugin # "waiting" /\ ingest = "stdin" THEN {Append(lines, Torn)} ELSE {})
  /\ UNCHANGED <<tally, ingest, toSend, handler, connVars, file, local, daemon>>

PluginReturns_waits ==
  /\ plugin \in {"waiting", "untracked"} /\ ingest \in {"ok", "failed"}
  /\ plugin' = "returned"
  /\ UNCHANGED <<runVars, ingest, toSend, handler, connVars, file, local, daemon>>
PluginReturns ==
  /\ plugin \in {"waiting", "untracked"}
  /\ plugin' = "returned"
  /\ UNCHANGED <<runVars, ingest, toSend, handler, connVars, file, local, daemon>>

-----------------------------------------------------------------------------
(* Ingest.                                                                  *)

\* All of stdin is read first, and a run that is too long is given up.
ReadStdin ==
  /\ ingest = "stdin"
  /\ \/ /\ size > MaxIngest
        /\ ingest' = "failed" /\ UNCHANGED toSend
     \/ /\ size <= MaxIngest /\ plugin \notin {"playing", "recap"}
        /\ ingest' = "dial" /\ toSend' = size
  /\ UNCHANGED <<runVars, plugin, handler, connVars, file, local, daemon>>

Dial ==
  /\ ingest = "dial"
  /\ IF daemon = "up"
     THEN ingest' = "send" /\ ingestEnd' = TRUE /\ daemonEnd' = TRUE /\ handler' = "open"
     ELSE ingest' = "local" /\ UNCHANGED <<ingestEnd, daemonEnd, handler>>
  /\ UNCHANGED <<runVars, plugin, toSend, sock, reply, file, local, daemon>>

SendChunk ==
  /\ ingest = "send" /\ toSend > 0
  /\ daemonEnd /\ sock < SockCap
  /\ sock' = sock + 1
  /\ toSend' = toSend - 1
  /\ UNCHANGED <<runVars, plugin, ingest, handler, reply, ingestEnd, daemonEnd, file, local, daemon>>

\* The write fails on a conn the daemon has closed: the run is saved locally.
SendFails ==
  /\ ingest = "send" /\ toSend > 0 /\ ~daemonEnd
  /\ ingest' = "local"
  /\ ingestEnd' = FALSE
  /\ UNCHANGED <<runVars, plugin, toSend, handler, sock, reply, daemonEnd, file, local, daemon>>

\* The ingest keeps its end of the conn open while it waits for the reply.
AllSent ==
  /\ ingest = "send" /\ toSend = 0
  /\ ingest' = "await"
  /\ UNCHANGED <<runVars, plugin, toSend, handler, connVars, file, local, daemon>>

\* A line, or the end of the conn; no line at all is taken for success.
Rejected_ignored == FALSE
Rejected == reply = "ERR"
ReadReply ==
  /\ ingest = "await"
  /\ reply # "none" \/ ~daemonEnd
  /\ ingest' = IF Rejected THEN "local" ELSE "ok"
  /\ ingestEnd' = FALSE
  /\ UNCHANGED <<runVars, plugin, toSend, handler, sock, reply, daemonEnd, file, local, daemon>>

WriteLocal ==
  /\ ingest = "local"
  /\ \/ local' = size /\ ingest' = "ok"
     \/ local' \in 0..(size - 1) /\ ingest' = "failed"
  /\ UNCHANGED <<runVars, plugin, toSend, handler, connVars, file, daemon>>

\* The ingest is killed, at the latest with the session it was started from.
Killed ==
  /\ ingest \in {"stdin", "dial", "send", "await", "local"}
  /\ ingest' = "failed"
  /\ ingestEnd' = FALSE
  /\ UNCHANGED <<runVars, plugin, toSend, handler, sock, reply, daemonEnd, file, local, daemon>>

-----------------------------------------------------------------------------
(* handleAnsible.                                                           *)

CanRun == daemon # "dead"

\* The file is created, or nothing of the run is kept: an invalid id, too many
\* sessions, an existing file or a failed open is answered with ERR, a failed
\* mkdir with nothing.
Open ==
  /\ handler = "open" /\ CanRun
  /\ \/ handler' = "header" /\ UNCHANGED reply
     \/ handler' = "failed" /\ reply' \in {"none"} \union (IF daemonEnd THEN {"ERR"} ELSE {})
  /\ UNCHANGED <<runVars, plugin, ingest, toSend, sock, ingestEnd, daemonEnd, file, local, daemon>>

\* crypto.NewWriter; when it fails the empty file stays.
Header ==
  /\ handler = "header" /\ CanRun
  /\ handler' \in {"read", "failed"}
  /\ UNCHANGED <<runVars, plugin, ingest, toSend, connVars, file, local, daemon>>

ReadChunk_once ==
  /\ handler = "read" /\ CanRun /\ daemonEnd /\ sock > 0
  /\ sock' = sock - 1
  /\ file' = file + 1
  /\ handler' = "sync"
  /\ UNCHANGED <<runVars, plugin, ingest, toSend, reply, ingestEnd, daemonEnd, local, daemon>>
ReadChunk ==
  /\ handler = "read" /\ CanRun /\ daemonEnd /\ sock > 0
  /\ sock' = sock - 1
  /\ file' = file + 1
  /\ UNCHANGED <<runVars, plugin, ingest, toSend, handler, reply, ingestEnd, daemonEnd, local, daemon>>

\* The disk is full: what is left of the body is not read.
WriteFails ==
  /\ handler = "read" /\ CanRun /\ daemonEnd /\ sock > 0
  /\ handler' = "failed"
  /\ UNCHANGED <<runVars, plugin, ingest, toSend, connVars, file, local, daemon>>

\* The end of the upload: the sender has closed and all is read, or the daemon
\* has closed its own end.
EndOfUpload ==
  /\ handler = "read" /\ CanRun
  /\ ~daemonEnd \/ (~ingestEnd /\ sock = 0)
  /\ handler' = "sync"
  /\ UNCHANGED <<runVars, plugin, ingest, toSend, connVars, file, local, daemon>>

\* Sync and Close, and the log line; no reply is written.
SyncFile ==
  /\ handler = "sync" /\ CanRun
  /\ handler' \in {"close", "failed"}
  /\ UNCHANGED <<runVars, plugin, ingest, toSend, connVars, file, local, daemon>>

CloseConn ==
  /\ handler \in {"close", "failed"} /\ CanRun
  /\ daemonEnd' = FALSE
  /\ handler' = IF handler = "close" THEN "end" ELSE "endFailed"
  /\ UNCHANGED <<runVars, plugin, ingest, toSend, sock, reply, ingestEnd, file, local, daemon>>

-----------------------------------------------------------------------------
(* The daemon stops: conns are force-closed and the process exits.          *)

Stop ==
  /\ daemon = "up"
  /\ daemon' \in {"stopping", "dead"}
  /\ daemonEnd' = FALSE
  /\ UNCHANGED <<runVars, plugin, ingest, toSend, handler, sock, reply, ingestEnd, file, local>>

Die ==
  /\ daemon = "stopping"
  /\ daemon' = "dead"
  /\ UNCHANGED <<runVars, plugin, ingest, toSend, handler, connVars, file, local>>

IngestStep ==
  ReadStdin \/ Dial \/ SendChunk \/ SendFails \/ AllSent \/ ReadReply \/ WriteLocal
HandlerStep ==
  Open \/ Header \/ ReadChunk \/ WriteFails \/ EndOfUpload \/ SyncFile \/ CloseConn

Plugin == TaskEnds \/ PlaybookEnds \/ EmitStats \/ CloseIngest \/ PluginReturns

Next == Plugin \/ PluginDies \/ IngestStep \/ HandlerStep \/ Killed \/ Stop \/ Die

Spec == Init /\ [][Next]_vars

\* The three processes run; the plugin's wait times out.
FairSpec ==
  /\ Spec
  /\ WF_vars(EmitStats \/ CloseIngest)
  /\ WF_vars(PluginReturns)
  /\ WF_vars(IngestStep)
  /\ WF_vars(HandlerStep)
-----------------------------------------------------------------------------
(* What must hold.                                                          *)

TypeOK ==
  /\ \A i \in DOMAIN lines : lines[i].type \in {"run", "task", "stats", "torn"}
  /\ tally \in [HostNames -> [ok : 0..MaxTasks, failed : 0..MaxTasks]]
  /\ plugin \in {"playing", "recap", "waiting", "returned", "gone", "untracked"}
  /\ ingest \in {"stdin", "dial", "send", "await", "local", "ok", "failed"}
  /\ handler \in {"none", "open", "header", "read", "sync", "failed", "close", "end", "endFailed"}
  /\ toSend \in 0..size /\ file \in 0..size /\ local \in 0..size
  /\ sock \in 0..SockCap
  /\ reply \in {"none", "ERR"}
  /\ ingestEnd \in BOOLEAN /\ daemonEnd \in BOOLEAN
  /\ daemon \in {"up", "stopping", "dead"}

\* A run the daemon refused in so many words is saved locally as a whole, or
\* the ingest reports that it could not be; and a handler that ends its upload
\* without an error, in a daemon that is not stopping, has stored every chunk
\* the ingest sent before its end closed.
RunLandsWhole ==
  /\ reply = "ERR" /\ ingest = "ok" => local = size
  /\ handler = "end" /\ daemon = "up" => file = size - toSend

\* What is in a copy of which n chunks were written, and the results in a run.
Text(n) == SubSeq(lines, 1, n \div 2) \o (IF n % 2 = 1 THEN <<Torn>> ELSE <<>>)
Results(run) ==
  FoldLeft(LAMBDA found, line : IF line.type = "task" THEN Append(found, line) ELSE found, <<>>, run)
Reported == Results(lines)

\* Whatever cut the upload, the local file or the plugin short, and whoever
\* reads the run at whatever time: a recap is shown only below every task that
\* was reported, in their order, each host's line counts the tasks shown for
\* it, and the totals of `list` are the sums of the recap.
RecapTellsTheTasks ==
  \A n \in {file, local} :
    LET run == ParseRun(Text(n))
        recap == Recap(run)
    IN /\ run.tasks # <<>> \/ recap # {} => run.known
       /\ recap # {} => run.tasks = Reported
       /\ \A s \in recap : s.ok + s.failed = Cardinality({i \in DOMAIN run.tasks : run.tasks[i].host = s.host})
       /\ run.totalOK = FoldSet(LAMBDA s, sum : sum + s.ok, 0, recap)
       /\ run.totalFailed = FoldSet(LAMBDA s, sum : sum + s.failed, 0, recap)

\* The playbook run is never held up for good by its recording (README, "never
\* aborted").
PlaybookFree == (plugin \in {"recap", "waiting"}) ~> (plugin \in {"returned", "untracked", "gone"})
-----------------------------------------------------------------------------
(* What the documentation says, or a reader may expect, and the code does    *)
(* not do; TLC refutes each (README, section 6).                             *)

\* "If the daemon is down, busy, or out of disk ... never silently loses a
\* session" (README): once a daemon that stays up is through with the run, an
\* ingest that reports success has left all of it somewhere.
RunKept ==
  daemon = "up" /\ handler \in {"end", "endFailed"} /\ ingest = "ok"
    => file = size \/ local = size

\* "Read daemon acknowledgement" (sendToDaemon): the reply comes, and the
\* ingest process ends, while the daemon serves.
AcknowledgementComes == (ingest = "await") ~> (ingest # "await")

\* A run that is whole in the caller's own directory is shown whole.
ShownWhole ==
  ingest = "ok" /\ local = size => ParseRun(ShownCopy(Text(file), Text(local))) = ParseRun(lines)

\* A task shown as failed is counted as failed: not the one whose failure is
\* ignored.
FailuresCounted ==
  \A s \in Recap(ParseRun(Text(file))) :
    s.failed = Cardinality({i \in DOMAIN Reported : Reported[i] = TaskLine(s.host, "failed")})

=============================================================================
