---------------------------- MODULE SpanAnalysis ----------------------------
(***************************************************************************)
(* What `ghostshell tree` and `ghostshell analyze` compute from the spans  *)
(* of a session: the process tree (audit.buildSpanTree and its rendering), *)
(* the detectors and the correlation of failures with the recorded output  *)
(* (package analyze).                                                      *)
(*                                                                         *)
(* Data: a span is [id, parent, cmd, start, end, exit, depth]; ids and     *)
(* commands are numbers, in the order of the strings, 0 for an empty id; a *)
(* raw command is a pair of its words and its spacing.  A node of the tree *)
(* is the position of its span in the list, 0 the synthetic root.  Lists   *)
(* whose order is fixed by a key that no two entries share are sets.       *)
(***************************************************************************)
EXTENDS Integers, Sequences, FiniteSets, FiniteSetsExt, SequencesExt

CONSTANTS
  MaxTreeDepth,                              \* maxTreeDepth (1000)
  RetryThreshold, RetryWindow, TopLatency,   \* Options
  MaxOutputBytes,
  Second                                     \* units of time in a second

ASSUME AnalysisAssumption ==
  /\ {MaxTreeDepth, RetryThreshold, TopLatency, MaxOutputBytes, Second} \subseteq Nat \ {0}
  /\ RetryWindow \in Nat

\* The members of S, each behind those that come before it.
Sorted(S, before(_, _)) ==
  LET ahead == [i \in S |-> Cardinality({j \in S : before(j, i)})]
  IN [k \in 1..Cardinality(S) |-> CHOOSE i \in S : ahead[i] = k - 1]
\* sort.SliceStable: the positions S of s, in the order it leaves their entries in.
StableOrder(s, S, Less(_, _)) ==
  LET before(i, j) == Less(s[i], s[j]) \/ (i < j /\ ~Less(s[j], s[i])) IN Sorted(S, before)
Entries(s, order) == [k \in DOMAIN order |-> s[order[k]]]

\* By start, ties broken by id.
Earlier_noTieBreak(a, b) == a.start < b.start   \* Mutant
Earlier(a, b) == a.start < b.start \/ (a.start = b.start /\ a.id < b.id)

----------------------------------------------------------------------------
(* The process tree.                                                        *)

\* byID: the last of the spans with an id.
byID(spans, id) == Max({i \in DOMAIN spans : id # 0 /\ spans[i].id = id} \cup {0})
\* A span with no parent, an unknown parent, or itself for a parent is under the root.
parentOf_knownOnly(spans, i) ==   \* Mutant: an unknown parent drops the span.
  LET p == byID(spans, spans[i].parent) IN
  IF spans[i].parent # 0 /\ p = 0 THEN i ELSE IF p = i THEN 0 ELSE p
parentOf(spans, i) == LET p == byID(spans, spans[i].parent) IN IF p = i THEN 0 ELSE p

\* The children of node n, in the order sortTree leaves them in.
children(spans, n) ==
  StableOrder(spans, {i \in DOMAIN spans : parentOf(spans, i) = n}, Earlier)

\* renderTree (and toJSONNode): the nodes as they are printed, each above its
\* children, down to MaxTreeDepth levels: below[levels][n] is what is under n.
renderTree(spans) ==
  LET below[levels \in 0..MaxTreeDepth] ==
        [n \in 0..Len(spans) |->
          IF levels = 0 THEN <<>>
          ELSE LET kids == children(spans, n)
               IN FlattenSeq([k \in DOMAIN kids |-> <<kids[k]>> \o below[levels - 1][kids[k]]])]
  IN below[MaxTreeDepth][0]

----------------------------------------------------------------------------
(* The detectors.                                                           *)

Valid(s) == s.id # 0 /\ s.start > 0 /\ s.end >= s.start /\ s.depth >= 0
validSorted(spans) ==
  Entries(spans, StableOrder(spans, {i \in DOMAIN spans : Valid(spans[i])}, Earlier))
normalizeCmd(cmd) == cmd[1]
duration(s) == s.end - s.start

Group(spans, norm) == SelectSeq(spans, LAMBDA s : normalizeCmd(s.cmd) = norm)
Norms(spans) == {normalizeCmd(spans[i].cmd) : i \in DOMAIN spans}

buildRetryLoop(norm, run) ==
  [cmd |-> norm, sample |-> run[1].cmd, first |-> run[1].start, last |-> run[Len(run)].start,
   failed |-> Cardinality({i \in DOMAIN run : run[i].exit # 0}),
   exits |-> [i \in DOMAIN run |-> run[i].exit], ids |-> [i \in DOMAIN run |-> run[i].id]]

\* A run goes on while the next start is within the window of the last.
RunStarts(g) == {i \in DOMAIN g : i = 1 \/ g[i].start - g[i - 1].start > RetryWindow}
detectRetryLoops(spans) ==
  UNION {LET g == Group(spans, norm)
             run(i) == SubSeq(g, i, Min({j \in RunStarts(g) : j > i} \cup {Len(g) + 1}) - 1)
         IN {buildRetryLoop(norm, run(i)) : i \in {j \in RunStarts(g) : Len(run(j)) >= RetryThreshold}} :
         norm \in Norms(spans)}

detectRedundant(spans) ==
  {LET g == Group(spans, norm) IN
   [cmd |-> norm, sample |-> g[1].cmd, count |-> Len(g), ids |-> [i \in DOMAIN g |-> g[i].id],
    total |-> MapThenSumSet(LAMBDA i : duration(g[i]), DOMAIN g)] :
   norm \in {n \in Norms(spans) : Len(Group(spans, n)) > 1}}

Slower(a, b) == duration(a) > duration(b) \/ (duration(a) = duration(b) /\ Earlier(a, b))
detectLatency(spans) ==
  SubSeq(Entries(spans, StableOrder(spans, DOMAIN spans, Slower)), 1, Min({TopLatency, Len(spans)}))

collectFailures(spans) == Entries(spans, Sorted({i \in DOMAIN spans : spans[i].exit # 0}, <))

wallDuration(spans) ==
  IF spans = <<>> THEN 0
  ELSE Max({spans[i].end : i \in DOMAIN spans}) - Min({spans[i].start : i \in DOMAIN spans})

----------------------------------------------------------------------------
(* The output on screen while a failure ran.  A recording is a sequence of  *)
(* [t, type, data], t in units after its start; type "bad" is a line that   *)
(* does not parse.                                                          *)

\* appendCapped: the last MaxOutputBytes are kept.
appendCapped(w, data) ==
  LET all == w.out \o data
      cut == Max({Len(all) - MaxOutputBytes, 0})
  IN [out |-> SubSeq(all, cut + 1, Len(all)), truncated |-> w.truncated \/ cut > 0]

\* The stream is read until a bad line or an output past the last window.
Read(rec, maxEnd) ==
  LET ends == {i \in DOMAIN rec : rec[i].type = "bad" \/ (rec[i].type = "o" /\ rec[i].t > maxEnd)}
  IN SubSeq(rec, 1, Min(ends \cup {Len(rec) + 1}) - 1)

\* The part of the stream that is read: none without a known start of the session.
seenOf_firstWindow(failures, rec, start) ==   \* Mutant: it stops at the end of the first window.
  IF start <= 0 THEN <<>> ELSE Read(rec, IF failures = <<>> THEN 0 ELSE failures[1].end - start * Second)
seenOf(failures, rec, start) ==
  IF start <= 0 THEN <<>>
  ELSE Read(rec, Max({0} \cup {failures[k].end - start * Second : k \in DOMAIN failures}))

\* An output event within the run of f.
during(e, f, start) ==
  e.type = "o" /\ f.start - start * Second <= e.t /\ e.t <= f.end - start * Second

\* The window of f: w[i] is what it holds after i events.
windowOf(seen, f, start) ==
  LET w[i \in 0..Len(seen)] ==
        IF i = 0 THEN [out |-> <<>>, truncated |-> FALSE]
        ELSE IF during(seen[i], f, start) THEN appendCapped(w[i - 1], seen[i].data) ELSE w[i - 1]
  IN w[Len(seen)]
correlateOutput(failures, rec, start) ==
  LET seen == seenOf(failures, rec, start)
  IN [k \in DOMAIN failures |-> windowOf(seen, failures[k], start)]

Analyze(spans, rec, start) ==
  LET valid == validSorted(spans)
      failures == collectFailures(valid) IN
  [count |-> Len(valid), wall |-> wallDuration(valid), retries |-> detectRetryLoops(valid),
   redundant |-> detectRedundant(valid), slowest |-> detectLatency(valid),
   failures |-> failures, output |-> correlateOutput(failures, rec, start)]
=============================================================================
