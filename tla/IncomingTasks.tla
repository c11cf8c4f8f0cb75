---------------------------- MODULE IncomingTasks ----------------------------
(***************************************************************************)
(* How `ghostshell ansible incoming` infers playbook runs from the ssh     *)
(* sessions they left in the central store (ansible.buildIncomingTasks,    *)
(* groupIntoRuns, recap).                                                  *)
(*                                                                         *)
(* Data: a session is [n, tmp, start, module, result]: its place in the    *)
(* store, the ansible-tmp directory its command names, the module if it is *)
(* the AnsiballZ execution ("" if not), and the outcome its output ends in *)
(* ("ok" when there is none to read).                                      *)
(***************************************************************************)
EXTENDS Integers, Sequences, FiniteSets, FiniteSetsExt, SequencesExt

CONSTANT GroupGap   \* groupGap: tasks further apart belong to two runs

ASSUME GapAssumption == GroupGap \in Nat

\* The task of one ansible-tmp directory, with the module and the result of an
\* execution of it.
Task(sessions, exec) ==
  LET mine == {s \in sessions : s.tmp = exec.tmp}
  IN [tmp |-> exec.tmp, start |-> Min({s.start : s \in mine}), module |-> exec.module,
      result |-> exec.result, sessions |-> mine]

\* The executions of a directory that may come last when its sessions are sorted
\* by start: sort.Slice leaves equal starts in any order.
LastExecs(sessions, tmp) ==
  LET execs == {s \in sessions : s.tmp = tmp /\ s.module # ""}
  IN {s \in execs : \A r \in execs : r.start <= s.start}
\* The tasks that may be made of sessions: one for each directory with an execution.
buildIncomingTasks(sessions) ==
  LET tmps == {s.tmp : s \in {r \in sessions : r.module # ""}}
      chosen == {f \in [tmps -> sessions] : \A t \in tmps : f[t] \in LastExecs(sessions, t)}
  IN {{Task(sessions, f[t]) : t \in tmps} : f \in chosen}

\* The tasks come out of a map: sorted by start, in any order among equals.
Orders(tasks) ==
  {q \in SetToSeqs(tasks) : \A i, j \in DOMAIN q : i < j => q[i].start <= q[j].start}

groupIntoRuns_fromFirst(tasks) ==   \* Mutant: the gap is counted from the run's first task.
  LET add(runs, t) ==
        IF runs # <<>> /\ t.start - Last(runs).from <= GroupGap
        THEN LET cur == Last(runs) IN
             [runs EXCEPT ![Len(runs)] = [from |-> cur.from, to |-> t.start, tasks |-> Append(cur.tasks, t)]]
        ELSE Append(runs, [from |-> t.start, to |-> t.start, tasks |-> <<t>>])
      grouped[k \in 0..Len(tasks)] == IF k = 0 THEN <<>> ELSE add(grouped[k - 1], tasks[k])
  IN grouped[Len(tasks)]
groupIntoRuns(tasks) ==
  LET add(runs, t) ==
        IF runs # <<>> /\ t.start - Last(runs).to <= GroupGap
        THEN LET cur == Last(runs) IN
             [runs EXCEPT ![Len(runs)] = [from |-> cur.from, to |-> t.start, tasks |-> Append(cur.tasks, t)]]
        ELSE Append(runs, [from |-> t.start, to |-> t.start, tasks |-> <<t>>])
      grouped[k \in 0..Len(tasks)] == IF k = 0 THEN <<>> ELSE add(grouped[k - 1], tasks[k])
  IN grouped[Len(tasks)]

recap(tasks) ==
  [outcome \in {"ok", "changed", "failed"} |->
    Cardinality({i \in DOMAIN tasks : tasks[i].result = outcome})]
=============================================================================
