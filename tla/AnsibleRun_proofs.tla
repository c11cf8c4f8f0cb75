-------------------------- MODULE AnsibleRun_proofs -------------------------
(***************************************************************************)
(* Where an Ansible run lands, and what is read of it there, for any       *)
(* playbook, any bound of the ingest and any socket.                       *)
(*                                                                         *)
(* RunLands: a refused run is local, and a run that was served to its end  *)
(* is whole in the store.  RunLandsWhole is not inductive: it rests on     *)
(* where the chunks are (sent, on their way or in the file, and none of a  *)
(* run that still grows) and on which ends of the conn are open when a     *)
(* process goes on without it (IInv).                                      *)
(*                                                                         *)
(* RecapTold: a copy of the run, cut anywhere, never shows a recap that    *)
(* the tasks above it do not bear out.  What is inductive is said of every *)
(* beginning of the run at once (PrefixOK): a copy reads as one of them,   *)
(* and a line more leaves the earlier ones alone.  It takes ParseRun one   *)
(* line at a time, which a fold does not give by its definition: that the  *)
(* fold exists, and that two of them agree, is shown by a least            *)
(* counterexample (Least), with no rule of induction.                      *)
(***************************************************************************)
EXTENDS AnsibleRun, FiniteSetTheorems, SequenceTheorems, WellFoundedInduction, TLAPS

Types ==
  /\ lines \in Seq(ToSet(lines))
  /\ toSend \in Nat /\ sock \in Nat /\ file \in Nat /\ local \in Nat
  /\ reply \in {"none", "ERR"}
  /\ ingestEnd \in BOOLEAN /\ daemonEnd \in BOOLEAN

\* The run is what it will be once the ingest has read it all, and nothing of
\* it is sent earlier.
LinesInv ==
  /\ ingest \notin {"stdin", "failed"} => plugin \notin {"playing", "recap"}
  /\ handler # "none" => ingest \notin {"stdin", "dial"} /\ plugin \notin {"playing", "recap"}
  /\ ingest \in {"send", "await"} => handler # "none"

\* Each chunk is still to be sent, on its way, or in the file.
ChunksInv ==
  /\ handler = "none" => file = 0 /\ sock = 0 /\ (ingest = "dial" => toSend = size)
  /\ handler # "none" => file + sock + toSend = size

\* The ingest holds its end until it has its answer, a daemon that is up holds
\* its own until the handler is through, and the handler of a daemon that is
\* up takes only the other end's closing for the end of the upload.
EndsInv ==
  /\ ingest \in {"send", "await"} => ingestEnd
  /\ daemon = "up" /\ handler \in {"open", "header", "read", "sync", "close", "failed"} => daemonEnd
  /\ daemon = "up" /\ handler \in {"sync", "close", "end"} => sock = 0 /\ ~ingestEnd

\* No refusal comes once the ingest has taken the conn's end for success.
ReplyInv == ingest = "ok" => local = size \/ (reply # "ERR" /\ ~daemonEnd)

IInv == Types /\ LinesInv /\ ChunksInv /\ EndsInv /\ ReplyInv
-----------------------------------------------------------------------------
\* A line more is two chunks more.
LEMMA AppendLine ==
  ASSUME NEW s, s \in Seq(ToSet(s)), NEW line
  PROVE  /\ Append(s, line) \in Seq(ToSet(Append(s, line)))
         /\ Len(Append(s, line)) = Len(s) + 1
<1>1. s \in Seq(ToSet(s) \union {line})
  BY DEF ToSet
<1>2. Append(s, line) \in Seq(ToSet(s) \union {line}) /\ Len(Append(s, line)) = Len(s) + 1
  BY <1>1
<1>3. \A i \in 1..Len(Append(s, line)) : Append(s, line)[i] \in ToSet(Append(s, line))
  BY <1>2 DEF ToSet
<1> QED
  BY <1>2, <1>3

LEMMA SizeNat == Types => size \in Nat
BY DEF Types, size

LEMMA InitInv == Init => IInv
<1> SUFFICES ASSUME Init PROVE IInv
  OBVIOUS
<1>1. lines \in Seq(ToSet(lines))
  <2>1. lines = <<RunLine>> /\ ToSet(<<RunLine>>) = {RunLine}
    BY DEF Init, ToSet
  <2> QED
    BY <2>1
<1> QED
  BY <1>1 DEF Init, IInv, Types, LinesInv, ChunksInv, EndsInv, ReplyInv, size

\* The types; a chunk of the local file is one of the run.
LEMMA TypesStep == IInv /\ [Next]_vars => Types'
<1> SUFFICES ASSUME IInv, [Next]_vars PROVE Types'
  OBVIOUS
<1> USE SizeNat DEF IInv, Types, ChunksInv, LinesInv, runVars, connVars
<1>1. CASE TaskEnds
  <2>1. PICK h \in HostNames, status \in {"ok", "failed"} : emit(TaskLine(h, status))
    BY <1>1 DEF TaskEnds
  <2>2. lines' \in Seq(ToSet(lines'))
    BY <2>1, AppendLine DEF emit
  <2> QED
    BY <1>1, <2>2 DEF TaskEnds
<1>2. CASE PlaybookEnds BY <1>2 DEF PlaybookEnds
<1>3. CASE EmitStats BY <1>3, AppendLine DEF EmitStats, emit
<1>4. CASE CloseIngest BY <1>4 DEF CloseIngest
<1>5. CASE PluginReturns BY <1>5 DEF PluginReturns
<1>6. CASE PluginDies
  <2>1. lines' = lines \/ lines' = Append(lines, Torn)
    BY <1>6 DEF PluginDies
  <2>2. lines' \in Seq(ToSet(lines'))
    BY <2>1, AppendLine
  <2> QED
    BY <1>6, <2>2 DEF PluginDies
<1>7. CASE ReadStdin BY <1>7 DEF ReadStdin
<1>8. CASE Dial BY <1>8 DEF Dial
<1>9. CASE SendChunk BY <1>9 DEF SendChunk
<1>10. CASE SendFails BY <1>10 DEF SendFails
<1>11. CASE AllSent BY <1>11 DEF AllSent
<1>12. CASE ReadReply BY <1>12 DEF ReadReply, Rejected
<1>13. CASE WriteLocal BY <1>13 DEF WriteLocal
<1>14. CASE Open BY <1>14 DEF Open, CanRun
<1>15. CASE Header BY <1>15 DEF Header, CanRun
<1>16. CASE ReadChunk BY <1>16 DEF ReadChunk, CanRun
<1>17. CASE WriteFails BY <1>17 DEF WriteFails, CanRun
<1>18. CASE EndOfUpload BY <1>18 DEF EndOfUpload, CanRun
<1>19. CASE SyncFile BY <1>19 DEF SyncFile, CanRun
<1>20. CASE CloseConn BY <1>20 DEF CloseConn, CanRun
<1>21. CASE Killed BY <1>21 DEF Killed
<1>22. CASE Stop BY <1>22 DEF Stop
<1>23. CASE Die BY <1>23 DEF Die
<1>24. CASE UNCHANGED vars BY <1>24 DEF vars
<1> QED
  BY <1>1, <1>2, <1>3, <1>4, <1>5, <1>6, <1>7, <1>8, <1>9, <1>10, <1>11, <1>12, <1>13,
     <1>14, <1>15, <1>16, <1>17, <1>18, <1>19, <1>20, <1>21, <1>22, <1>23, <1>24
  DEF Next, Plugin, IngestStep, HandlerStep

\* The plugin is through before the ingest goes on, or the ingest is gone.
LEMMA LinesStep == IInv /\ [Next]_vars => LinesInv'
<1> SUFFICES ASSUME IInv, [Next]_vars PROVE LinesInv'
  OBVIOUS
<1> USE SizeNat DEF IInv, Types, LinesInv, runVars, connVars
<1>1. CASE TaskEnds BY <1>1 DEF TaskEnds, emit
<1>2. CASE PlaybookEnds BY <1>2 DEF PlaybookEnds
<1>3. CASE EmitStats BY <1>3 DEF EmitStats, emit
<1>4. CASE CloseIngest BY <1>4 DEF CloseIngest
<1>5. CASE PluginReturns BY <1>5 DEF PluginReturns
<1>6. CASE PluginDies BY <1>6 DEF PluginDies
<1>7. CASE ReadStdin BY <1>7 DEF ReadStdin
<1>8. CASE Dial BY <1>8 DEF Dial
<1>9. CASE SendChunk BY <1>9 DEF SendChunk
<1>10. CASE SendFails BY <1>10 DEF SendFails
<1>11. CASE AllSent BY <1>11 DEF AllSent
<1>12. CASE ReadReply BY <1>12 DEF ReadReply, Rejected
<1>13. CASE WriteLocal BY <1>13 DEF WriteLocal
<1>14. CASE Open BY <1>14 DEF Open, CanRun
<1>15. CASE Header BY <1>15 DEF Header, CanRun
<1>16. CASE ReadChunk BY <1>16 DEF ReadChunk, CanRun
<1>17. CASE WriteFails BY <1>17 DEF WriteFails, CanRun
<1>18. CASE EndOfUpload BY <1>18 DEF EndOfUpload, CanRun
<1>19. CASE SyncFile BY <1>19 DEF SyncFile, CanRun
<1>20. CASE CloseConn BY <1>20 DEF CloseConn, CanRun
<1>21. CASE Killed BY <1>21 DEF Killed
<1>22. CASE Stop BY <1>22 DEF Stop
<1>23. CASE Die BY <1>23 DEF Die
<1>24. CASE UNCHANGED vars BY <1>24 DEF vars
<1> QED
  BY <1>1, <1>2, <1>3, <1>4, <1>5, <1>6, <1>7, <1>8, <1>9, <1>10, <1>11, <1>12, <1>13,
     <1>14, <1>15, <1>16, <1>17, <1>18, <1>19, <1>20, <1>21, <1>22, <1>23, <1>24
  DEF Next, Plugin, IngestStep, HandlerStep

\* A chunk goes from the ingest to the conn and from there to the file.
LEMMA ChunksStep == IInv /\ [Next]_vars => ChunksInv'
<1> SUFFICES ASSUME IInv, [Next]_vars PROVE ChunksInv'
  OBVIOUS
<1> USE SizeNat DEF IInv, Types, LinesInv, ChunksInv, EndsInv, size, runVars, connVars
<1>1. CASE TaskEnds BY <1>1 DEF TaskEnds, emit
<1>2. CASE PlaybookEnds BY <1>2 DEF PlaybookEnds
<1>3. CASE EmitStats BY <1>3 DEF EmitStats, emit
<1>4. CASE CloseIngest BY <1>4 DEF CloseIngest
<1>5. CASE PluginReturns BY <1>5 DEF PluginReturns
<1>6. CASE PluginDies BY <1>6 DEF PluginDies
<1>7. CASE ReadStdin BY <1>7 DEF ReadStdin
<1>8. CASE Dial BY <1>8 DEF Dial
<1>9. CASE SendChunk BY <1>9 DEF SendChunk
<1>10. CASE SendFails BY <1>10 DEF SendFails
<1>11. CASE AllSent BY <1>11 DEF AllSent
<1>12. CASE ReadReply BY <1>12 DEF ReadReply, Rejected
<1>13. CASE WriteLocal BY <1>13 DEF WriteLocal
<1>14. CASE Open BY <1>14 DEF Open, CanRun
<1>15. CASE Header BY <1>15 DEF Header, CanRun
<1>16. CASE ReadChunk BY <1>16 DEF ReadChunk, CanRun
<1>17. CASE WriteFails BY <1>17 DEF WriteFails, CanRun
<1>18. CASE EndOfUpload BY <1>18 DEF EndOfUpload, CanRun
<1>19. CASE SyncFile BY <1>19 DEF SyncFile, CanRun
<1>20. CASE CloseConn BY <1>20 DEF CloseConn, CanRun
<1>21. CASE Killed BY <1>21 DEF Killed
<1>22. CASE Stop BY <1>22 DEF Stop
<1>23. CASE Die BY <1>23 DEF Die
<1>24. CASE UNCHANGED vars BY <1>24 DEF vars
<1> QED
  BY <1>1, <1>2, <1>3, <1>4, <1>5, <1>6, <1>7, <1>8, <1>9, <1>10, <1>11, <1>12, <1>13,
     <1>14, <1>15, <1>16, <1>17, <1>18, <1>19, <1>20, <1>21, <1>22, <1>23, <1>24
  DEF Next, Plugin, IngestStep, HandlerStep

\* The ends of the conn.
LEMMA EndsStep == IInv /\ [Next]_vars => EndsInv'
<1> SUFFICES ASSUME IInv, [Next]_vars PROVE EndsInv'
  OBVIOUS
<1> USE SizeNat DEF IInv, Types, LinesInv, EndsInv, runVars, connVars
<1>1. CASE TaskEnds BY <1>1 DEF TaskEnds, emit
<1>2. CASE PlaybookEnds BY <1>2 DEF PlaybookEnds
<1>3. CASE EmitStats BY <1>3 DEF EmitStats, emit
<1>4. CASE CloseIngest BY <1>4 DEF CloseIngest
<1>5. CASE PluginReturns BY <1>5 DEF PluginReturns
<1>6. CASE PluginDies BY <1>6 DEF PluginDies
<1>7. CASE ReadStdin BY <1>7 DEF ReadStdin
<1>8. CASE Dial BY <1>8 DEF Dial
<1>9. CASE SendChunk BY <1>9 DEF SendChunk
<1>10. CASE SendFails BY <1>10 DEF SendFails
<1>11. CASE AllSent BY <1>11 DEF AllSent
<1>12. CASE ReadReply BY <1>12 DEF ReadReply, Rejected
<1>13. CASE WriteLocal BY <1>13 DEF WriteLocal
<1>14. CASE Open BY <1>14 DEF Open, CanRun
<1>15. CASE Header BY <1>15 DEF Header, CanRun
<1>16. CASE ReadChunk BY <1>16 DEF ReadChunk, CanRun
<1>17. CASE WriteFails BY <1>17 DEF WriteFails, CanRun
<1>18. CASE EndOfUpload BY <1>18 DEF EndOfUpload, CanRun
<1>19. CASE SyncFile BY <1>19 DEF SyncFile, CanRun
<1>20. CASE CloseConn BY <1>20 DEF CloseConn, CanRun
<1>21. CASE Killed BY <1>21 DEF Killed
<1>22. CASE Stop BY <1>22 DEF Stop
<1>23. CASE Die BY <1>23 DEF Die
<1>24. CASE UNCHANGED vars BY <1>24 DEF vars
<1> QED
  BY <1>1, <1>2, <1>3, <1>4, <1>5, <1>6, <1>7, <1>8, <1>9, <1>10, <1>11, <1>12, <1>13,
     <1>14, <1>15, <1>16, <1>17, <1>18, <1>19, <1>20, <1>21, <1>22, <1>23, <1>24
  DEF Next, Plugin, IngestStep, HandlerStep

\* The reply.
LEMMA ReplyStep == IInv /\ [Next]_vars => ReplyInv'
<1> SUFFICES ASSUME IInv, [Next]_vars PROVE ReplyInv'
  OBVIOUS
<1> USE SizeNat DEF IInv, Types, LinesInv, ReplyInv, EndsInv, size, runVars, connVars
<1>1. CASE TaskEnds BY <1>1 DEF TaskEnds, emit
<1>2. CASE PlaybookEnds BY <1>2 DEF PlaybookEnds
<1>3. CASE EmitStats BY <1>3 DEF EmitStats, emit
<1>4. CASE CloseIngest BY <1>4 DEF CloseIngest
<1>5. CASE PluginReturns BY <1>5 DEF PluginReturns
<1>6. CASE PluginDies BY <1>6 DEF PluginDies
<1>7. CASE ReadStdin BY <1>7 DEF ReadStdin
<1>8. CASE Dial BY <1>8 DEF Dial
<1>9. CASE SendChunk BY <1>9 DEF SendChunk
<1>10. CASE SendFails BY <1>10 DEF SendFails
<1>11. CASE AllSent BY <1>11 DEF AllSent
<1>12. CASE ReadReply BY <1>12 DEF ReadReply, Rejected
<1>13. CASE WriteLocal BY <1>13 DEF WriteLocal
<1>14. CASE Open BY <1>14 DEF Open, CanRun
<1>15. CASE Header BY <1>15 DEF Header, CanRun
<1>16. CASE ReadChunk BY <1>16 DEF ReadChunk, CanRun
<1>17. CASE WriteFails BY <1>17 DEF WriteFails, CanRun
<1>18. CASE EndOfUpload BY <1>18 DEF EndOfUpload, CanRun
<1>19. CASE SyncFile BY <1>19 DEF SyncFile, CanRun
<1>20. CASE CloseConn BY <1>20 DEF CloseConn, CanRun
<1>21. CASE Killed BY <1>21 DEF Killed
<1>22. CASE Stop BY <1>22 DEF Stop
<1>23. CASE Die BY <1>23 DEF Die
<1>24. CASE UNCHANGED vars BY <1>24 DEF vars
<1> QED
  BY <1>1, <1>2, <1>3, <1>4, <1>5, <1>6, <1>7, <1>8, <1>9, <1>10, <1>11, <1>12, <1>13,
     <1>14, <1>15, <1>16, <1>17, <1>18, <1>19, <1>20, <1>21, <1>22, <1>23, <1>24
  DEF Next, Plugin, IngestStep, HandlerStep

-----------------------------------------------------------------------------
\* The inductive invariant of plugin, ingest and handler, with refusals, full
\* disks, killed processes and a daemon that stops.
THEOREM Invariance == Spec => []IInv
<1>1. IInv /\ [Next]_vars => IInv'
  BY TypesStep, LinesStep, ChunksStep, EndsStep, ReplyStep DEF IInv
<1> QED
  BY InitInv, <1>1, PTL DEF Spec

\* A run that sendToDaemon was told is refused is in writeLocal's file, whole,
\* when Ingest succeeds; one that handleAnsible has served to its end in a
\* daemon that is up is in the store, as far as it was sent.
THEOREM RunLands == Spec => []RunLandsWhole
<1>1. IInv => RunLandsWhole
  BY SizeNat DEF IInv, Types, ChunksInv, EndsInv, ReplyInv, RunLandsWhole
<1> QED
  BY Invariance, <1>1, PTL
-----------------------------------------------------------------------------
(* Folds.                                                                   *)



\* A set of numbers that is not empty has a least element: what stands here
\* for induction.
LEMMA Least ==
  ASSUME NEW T, T \subseteq Nat, T # {}
  PROVE \E x \in T : \A y \in T : x <= y
<1>1. IsWellFoundedOn(OpToRel(<,Nat), Nat)
  BY NatLessThanWellFounded
<1>2. \A x, y \in Nat : y < x => <<y,x>> \in OpToRel(<,Nat)
  BY DEF OpToRel
<1>3. PICK x \in T : \A y \in T : ~ (<<y, x>> \in OpToRel(<,Nat))
  BY <1>1, WFMin
<1>4. \A y \in T : ~(y < x)
  BY <1>2, <1>3
<1>5. \A y \in T : x <= y
  <2> SUFFICES ASSUME NEW y \in T PROVE x <= y
    OBVIOUS
  <2>1. x \in Nat /\ y \in Nat /\ ~(y < x)
    BY <1>4
  <2> QED
    BY <2>1
<1> QED
  BY <1>5

\* f is a fold of the finite set D that takes one element after the other, the
\* one c picks.
Picks(c, D) == \A S \in SUBSET D : S # {} => c[S] \in S
Folds(f, D, base, step, c) ==
  \A S \in SUBSET D : f[S] = IF S = {} THEN base ELSE step[<<f[S \ {c[S]}], c[S]>>]

\* There is such a fold: one that is right for the sets of at most m elements
\* gives one that is right for those of m + 1.
LEMMA FoldExists ==
  ASSUME NEW D, IsFiniteSet(D), NEW R, NEW base \in R, NEW step \in [R \X D -> R],
         NEW c, Picks(c, D)
  PROVE  \E f \in [SUBSET D -> R] : Folds(f, D, base, step, c)
<1> USE DEF Picks, Folds
<1> DEFINE Good(f, k) == \A S \in SUBSET D : Cardinality(S) <= k =>
                           f[S] = IF S = {} THEN base ELSE step[<<f[S \ {c[S]}], c[S]>>]
           Bad == {k \in Nat : ~\E f \in [SUBSET D -> R] : Good(f, k)}
<1>1. \A S \in SUBSET D : Cardinality(S) \in Nat /\ Cardinality(S) <= Cardinality(D)
  BY FS_Subset, FS_CardinalityType
<1>2. \A S \in SUBSET D : S # {} => S \ {c[S]} \in SUBSET D /\ Cardinality(S \ {c[S]}) = Cardinality(S) - 1
  BY FS_Subset, FS_RemoveElement
<1>3. \A S \in SUBSET D : Cardinality(S) = 0 <=> S = {}
  BY FS_Subset, FS_EmptySet
<1>4. Bad = {}
  <2> SUFFICES ASSUME Bad # {} PROVE FALSE
    OBVIOUS
  <2>1. PICK m \in Bad : \A k \in Bad : m <= k
    BY Least
  <2>2. CASE m = 0
    <3> DEFINE f == [S \in SUBSET D |-> base]
    <3>1. f \in [SUBSET D -> R]
      OBVIOUS
    <3>2. Good(f, 0)
      BY <1>1, <1>3
    <3> QED
      BY <2>1, <2>2, <3>1, <3>2
  <2>3. CASE m # 0
    <3>1. m - 1 \in Nat /\ m - 1 \notin Bad
      <4>1. m \in Nat
        OBVIOUS
      <4>2. m - 1 \in Nat /\ ~(m <= m - 1)
        BY <2>3, <4>1
      <4> HIDE DEF Bad
      <4> QED
        BY <2>1, <4>2
    <3>2. PICK f \in [SUBSET D -> R] : Good(f, m - 1)
      BY <3>1
    <3> DEFINE g == [S \in SUBSET D |-> IF Cardinality(S) = m THEN step[<<f[S \ {c[S]}], c[S]>>] ELSE f[S]]
    <3>3. \A S \in SUBSET D : Cardinality(S) = m => S # {}
      BY <1>3, <2>3
    <3>4. g \in [SUBSET D -> R]
      <4> SUFFICES ASSUME NEW S \in SUBSET D, Cardinality(S) = m
                   PROVE  step[<<f[S \ {c[S]}], c[S]>>] \in R
        OBVIOUS
      <4>1. <<f[S \ {c[S]}], c[S]>> \in R \X D
        BY <1>2, <3>2, <3>3
      <4> QED
        BY <4>1
    <3>5. Good(g, m)
      <4> SUFFICES ASSUME NEW S \in SUBSET D, Cardinality(S) <= m
                   PROVE  g[S] = IF S = {} THEN base ELSE step[<<g[S \ {c[S]}], c[S]>>]
        OBVIOUS
      <4>1. CASE S = {}
        BY <1>3, <2>3, <3>1, <3>2, <4>1
      <4>2. CASE S # {}
        <5>1. S \ {c[S]} \in SUBSET D /\ Cardinality(S \ {c[S]}) = Cardinality(S) - 1
          BY <1>2, <4>2
        <5>2. g[S \ {c[S]}] = f[S \ {c[S]}]
          BY <1>1, <5>1
        <5> QED
          BY <1>1, <3>1, <3>2, <4>2, <5>2
      <4> QED
        BY <4>1, <4>2
    <3> QED
      BY <2>1, <3>4, <3>5
  <2> QED
    BY <2>2, <2>3
<1>5. PICK f \in [SUBSET D -> R] : Good(f, Cardinality(D))
  BY <1>1, <1>4
<1> QED
  BY <1>1, <1>5

\* The greatest of the positions of a sequence is one of them.
LEMMA MaxIn ==
  ASSUME NEW n \in Nat, NEW S \in SUBSET (1..n), S # {}
  PROVE  Max(S) \in S /\ \A y \in S : y <= Max(S)
<1> DEFINE T == {n - x : x \in S}
<1>1. \A x \in S : x \in Nat /\ x <= n /\ n - x \in Nat
  OBVIOUS
<1>1a. T \subseteq Nat
  BY <1>1
<1>1b. T # {}
  <2>1. PICK x \in S : TRUE
    OBVIOUS
  <2>2. n - x \in T
    BY <2>1
  <2> QED
    BY <2>2
<1>2. PICK t \in T : \A u \in T : t <= u
  BY <1>1a, <1>1b, Least
<1>3. PICK x \in S : t = n - x
  OBVIOUS
<1>4. \A y \in S : x >= y
  <2> SUFFICES ASSUME NEW y \in S PROVE x >= y
    OBVIOUS
  <2>1. n - y \in T
    OBVIOUS
  <2>2. n - x <= n - y
    BY <1>2, <1>3, <2>1
  <2> QED
    BY <1>1, <2>2
<1>5. Max(S) \in S /\ \A y \in S : Max(S) >= y
  BY <1>4 DEF Max
<1> QED
  BY <1>5

\* The greatest of the first n positions is the last of them.
LEMMA MaxPrefix ==
  ASSUME NEW n \in Nat \ {0}
  PROVE  Max(1..n) = n /\ (1..n) \ {n} = 1..(n - 1)
<1>0. 1..n \in SUBSET (1..n) /\ 1..n # {} /\ n \in 1..n
  OBVIOUS
<1>1. Max(1..n) \in 1..n /\ n <= Max(1..n)
  BY <1>0, MaxIn
<1> QED
  BY <1>1

\* f is a fold of a sequence from the left.
FoldsLeft(f, s, base, step) ==
  \A S \in SUBSET DOMAIN s : f[S] = IF S = {} THEN base ELSE step[<<f[S \ {Max(S)}], s[Max(S)]>>]

\* There is such a fold: it takes the last position first.
LEMMA FoldLeftExists ==
  ASSUME NEW L, NEW R, NEW base \in R, NEW step \in [R \X L -> R], NEW s \in Seq(L)
  PROVE  \E f \in [SUBSET DOMAIN s -> R] : FoldsLeft(f, s, base, step)
<1>1. DOMAIN s = 1..Len(s) /\ Len(s) \in Nat /\ IsFiniteSet(1..Len(s))
  BY FS_Interval
<1> DEFINE D == 1..Len(s)
           at == [p \in R \X D |-> step[<<p[1], s[p[2]]>>]]
           c == [S \in SUBSET D |-> Max(S)]
<1>2. at \in [R \X D -> R]
  OBVIOUS
<1>3. Picks(c, D)
  BY <1>1, MaxIn DEF Picks
<1> HIDE DEF at, c
<1>4. PICK f \in [SUBSET D -> R] : Folds(f, D, base, at, c)
  <2>1. IsFiniteSet(D)
    BY <1>1
  <2> HIDE DEF D
  <2> QED
    BY <1>2, <1>3, <2>1, FoldExists
<1>5. ASSUME NEW S \in SUBSET D, S # {}
      PROVE  f[S] = step[<<f[S \ {Max(S)}], s[Max(S)]>>]
  <2>1. c[S] = Max(S) /\ Max(S) \in D
    BY <1>3, <1>5 DEF c, Picks
  <2>2. <<f[S \ {Max(S)}], Max(S)>> \in R \X D
    BY <2>1
  <2>3. at[<<f[S \ {Max(S)}], Max(S)>>] = step[<<f[S \ {Max(S)}], s[Max(S)]>>]
    BY <2>2 DEF at
  <2> QED
    BY <1>4, <1>5, <2>1, <2>3 DEF Folds
<1>6. f[{}] = base
  BY <1>4 DEF Folds
<1> QED
  BY <1>1, <1>5, <1>6 DEF FoldsLeft

-----------------------------------------------------------------------------
(* ParseRun, line by line.                                                  *)

\* What ParseRun works on and makes.
Names == HostNames \union {""}
TheLines == [type : {"run", "task", "stats", "torn"}, host : Names, status : {"ok", "failed", ""},
             ok : Nat, failed : Nat]
Runs == [known : BOOLEAN, tasks : Seq(TheLines), stats : UNION {[H -> TheLines] : H \in SUBSET Names},
         hosts : SUBSET Names, totalOK : Nat, totalFailed : Nat]

\* The fields of what ParseLine makes of a run.
LEMMA ParseFields ==
  ASSUME NEW run, NEW line
  PROVE  LET r == ParseLine(run, line)
         IN /\ r.known = (run.known \/ line.type = "run")
            /\ r.tasks = IF line.type = "task" THEN Append(run.tasks, line) ELSE run.tasks
            /\ r.hosts = IF line.host # "" THEN run.hosts \union {line.host} ELSE run.hosts
            /\ r.stats = IF line.type = "stats"
                         THEN [h \in DOMAIN run.stats \union {line.host} |->
                                 IF h = line.host THEN line ELSE run.stats[h]]
                         ELSE run.stats
            /\ r.totalOK = run.totalOK + line.ok /\ r.totalFailed = run.totalFailed + line.failed
BY DEF ParseLine

\* ParseLine makes a run of a run.
LEMMA ParseLineType ==
  ASSUME NEW run \in Runs, NEW line \in TheLines
  PROVE  ParseLine(run, line) \in Runs
<1>1. (run.known \/ line.type = "run") \in BOOLEAN
  OBVIOUS
<1>2. (IF line.type = "task" THEN Append(run.tasks, line) ELSE run.tasks) \in Seq(TheLines)
  BY DEF Runs
<1>3. (IF line.type = "stats"
       THEN [h \in DOMAIN run.stats \union {line.host} |-> IF h = line.host THEN line ELSE run.stats[h]]
       ELSE run.stats) \in UNION {[H -> TheLines] : H \in SUBSET Names}
  <2>1. PICK H \in SUBSET Names : run.stats \in [H -> TheLines]
    BY DEF Runs
  <2>2. H \union {line.host} \in SUBSET Names
    BY DEF TheLines
  <2>3. [h \in H \union {line.host} |-> IF h = line.host THEN line ELSE run.stats[h]]
          \in [H \union {line.host} -> TheLines]
    BY <2>1
  <2> QED
    BY <2>1, <2>2, <2>3
<1>4. (IF line.host # "" THEN run.hosts \union {line.host} ELSE run.hosts) \in SUBSET Names
  BY DEF Runs, TheLines
<1>5. run.totalOK + line.ok \in Nat /\ run.totalFailed + line.failed \in Nat
  <2>1. run.totalOK \in Nat /\ run.totalFailed \in Nat
    BY DEF Runs
  <2>2. line.ok \in Nat /\ line.failed \in Nat
    BY DEF TheLines
  <2> QED
    BY <2>1, <2>2
<1> QED
  BY <1>1, <1>2, <1>3, <1>4, <1>5, Zenon DEF Runs, ParseLine

\* f is what FoldLeft builds in ParseRun.
Parses(f, s) ==
  f = [S \in SUBSET DOMAIN s |-> IF S = {} THEN EmptyRun ELSE ParseLine(f[S \ {Max(S)}], s[Max(S)])]

\* ParseRun takes such a fold, for all positions of the run's lines.
LEMMA ParseIs ==
  ASSUME NEW s
  PROVE  ParseRun(s) = (CHOOSE f : Parses(f, s))[DOMAIN s]
BY DEF ParseRun, FoldLeft, MapThenFoldSet, Parses

\* ParseRun starts with a run.
LEMMA EmptyType == EmptyRun \in Runs
<1>1. <<>> \in [{} -> TheLines]
  <2>1. <<>> \in Seq(TheLines) /\ Len(<<>>) = 0 /\ 1..0 = {}
    OBVIOUS
  <2>2. <<>> \in [1..Len(<<>>) -> TheLines]
    BY <2>1, ElementOfSeq, LenProperties
  <2> QED
    BY <2>1, <2>2
<1>2. <<>> \in UNION {[H -> TheLines] : H \in SUBSET Names}
  BY <1>1
<1> QED
  BY <1>2 DEF EmptyRun, Runs

\* Such a fold exists, so that ParseRun has one to take.
LEMMA ParseExists ==
  ASSUME NEW s \in Seq(TheLines)
  PROVE  \E f \in [SUBSET DOMAIN s -> Runs] : Parses(f, s)
<1> DEFINE step == [p \in Runs \X TheLines |-> ParseLine(p[1], p[2])]
<1>1. EmptyRun \in Runs
  BY EmptyType
<1>2. step \in [Runs \X TheLines -> Runs]
  BY ParseLineType
<1>3. \A run \in Runs, line \in TheLines : step[<<run, line>>] = ParseLine(run, line)
  OBVIOUS
<1> HIDE DEF step
<1>4. PICK f \in [SUBSET DOMAIN s -> Runs] : FoldsLeft(f, s, EmptyRun, step)
  BY <1>1, <1>2, FoldLeftExists
<1>5. ASSUME NEW S \in SUBSET DOMAIN s
      PROVE  f[S] = IF S = {} THEN EmptyRun ELSE ParseLine(f[S \ {Max(S)}], s[Max(S)])
  <2>1. CASE S = {}
    BY <1>4, <2>1 DEF FoldsLeft
  <2>2. CASE S # {}
    <3>0. Len(s) \in Nat /\ DOMAIN s = 1..Len(s)
      OBVIOUS
    <3>1. Max(S) \in S
      BY <2>2, <3>0, MaxIn
    <3>2. f[S \ {Max(S)}] \in Runs /\ s[Max(S)] \in TheLines
      BY <3>1
    <3> QED
      BY <1>3, <1>4, <2>2, <3>2 DEF FoldsLeft
  <2> QED
    BY <2>1, <2>2
<1> QED
  BY <1>5 DEF Parses

\* Two folds agree on what two sequences have in common.
LEMMA ParseAgree ==
  ASSUME NEW s \in Seq(TheLines), NEW t \in Seq(TheLines),
         NEW n \in Nat, n <= Len(s), n <= Len(t), \A i \in 1..n : s[i] = t[i],
         NEW f, Parses(f, s), NEW g, Parses(g, t)
  PROVE  f[1..n] = g[1..n]
<1> DEFINE Bad == {m \in 0..n : f[1..m] # g[1..m]}
<1>1. ASSUME Bad # {} PROVE FALSE
  <2>1. PICK m \in Bad : \A k \in Bad : m <= k
    <3>1. Bad \subseteq Nat
      OBVIOUS
    <3> HIDE DEF Bad
    <3> QED
      BY <1>1, <3>1, Least
  <2>2. f[{}] = g[{}]
    BY DEF Parses
  <2>3. m # 0
    BY <2>2
  <2>4. m - 1 \in 0..n /\ m - 1 \notin Bad
    <3>1. m \in 0..n
      OBVIOUS
    <3>2. m - 1 \in 0..n /\ ~(m <= m - 1)
      BY <2>3, <3>1
    <3> HIDE DEF Bad
    <3> QED
      BY <2>1, <3>2
  <2>5. f[1..(m - 1)] = g[1..(m - 1)]
    BY <2>4
  <2>6. 1..m \in SUBSET DOMAIN s /\ 1..m \in SUBSET DOMAIN t /\ 1..m # {} /\ m \in 1..n /\ m \in Nat \ {0}
    <3>1. m \in 1..n /\ Len(s) \in Nat /\ Len(t) \in Nat /\ DOMAIN s = 1..Len(s) /\ DOMAIN t = 1..Len(t)
      BY <2>3
    <3>2. \A i \in 1..m : i \in 1..Len(s) /\ i \in 1..Len(t)
      BY <3>1
    <3>3. m \in 1..m /\ m \in Nat \ {0}
      BY <3>1
    <3> QED
      BY <3>1, <3>2, <3>3
  <2>7. Max(1..m) = m /\ (1..m) \ {m} = 1..(m - 1)
    BY <2>6, MaxPrefix
  <2>8. f[1..m] = ParseLine(f[1..(m - 1)], s[m]) /\ g[1..m] = ParseLine(g[1..(m - 1)], t[m])
    BY <2>6, <2>7 DEF Parses
  <2> QED
    BY <2>5, <2>6, <2>8
<1> QED
  BY <1>1

\* Of nothing ParseRun makes the run it starts with.
LEMMA ParseEmpty == ParseRun(<<>>) = EmptyRun
<1>1. PICK f \in [SUBSET DOMAIN <<>> -> Runs] : Parses(f, <<>>)
  <2>1. <<>> \in Seq(TheLines)
    OBVIOUS
  <2> QED
    BY <2>1, ParseExists
<1> DEFINE g == CHOOSE h : Parses(h, <<>>)
<1>2. Parses(g, <<>>)
  BY <1>1
<1> HIDE DEF g
<1>3. g[{}] = EmptyRun
  BY <1>2 DEF Parses
<1> QED
  BY <1>3, ParseIs DEF g

\* ParseRun goes line by line.
LEMMA ParseAppend ==
  ASSUME NEW s \in Seq(TheLines), NEW line \in TheLines
  PROVE  /\ ParseRun(s) \in Runs
         /\ ParseRun(Append(s, line)) = ParseLine(ParseRun(s), line)
<1> DEFINE t == Append(s, line)
           n == Len(s)
           f == CHOOSE h : Parses(h, s)
           g == CHOOSE h : Parses(h, t)
<1>1. t \in Seq(TheLines) /\ Len(t) = n + 1 /\ t[n + 1] = line /\ \A i \in 1..n : s[i] = t[i]
  OBVIOUS
<1>2. DOMAIN s = 1..n /\ DOMAIN t = 1..(n + 1) /\ n \in Nat
  BY <1>1
<1> HIDE DEF t
<1>3. Parses(f, s) /\ Parses(g, t)
  BY <1>1, ParseExists
<1>4. ParseRun(s) = f[1..n] /\ ParseRun(t) = g[1..(n + 1)]
  BY <1>2, ParseIs
<1> HIDE DEF n, f, g
<1>5. f[1..n] \in Runs
  <2>1. PICK h \in [SUBSET DOMAIN s -> Runs] : Parses(h, s)
    BY ParseExists
  <2>2. f[1..n] = h[1..n]
    BY <1>2, <1>3, <2>1, ParseAgree DEF n
  <2> QED
    BY <1>2, <2>1, <2>2
<1>6. f[1..n] = g[1..n]
  BY <1>1, <1>2, <1>3, ParseAgree DEF n
<1>7. Max(1..(n + 1)) = n + 1 /\ (1..(n + 1)) \ {n + 1} = 1..n
  BY <1>2, MaxPrefix
<1>8. g[1..(n + 1)] = ParseLine(g[1..n], line)
  <2>1. 1..(n + 1) # {} /\ 1..(n + 1) \in SUBSET DOMAIN t
    <3>1. n + 1 \in 1..(n + 1)
      BY <1>2
    <3> QED
      BY <1>2, <3>1
  <2>2. g[1..(n + 1)] = ParseLine(g[(1..(n + 1)) \ {Max(1..(n + 1))}], t[Max(1..(n + 1))])
    BY <1>3, <2>1 DEF Parses
  <2> QED
    BY <1>1, <1>7, <2>2
<1> QED
  BY <1>4, <1>5, <1>6, <1>8 DEF t

-----------------------------------------------------------------------------
(* The same for Results, which keeps the results of a run.                  *)

Select(found, line) == IF line.type = "task" THEN Append(found, line) ELSE found

\* The results found are lines.
LEMMA SelectType ==
  ASSUME NEW found \in Seq(TheLines), NEW line \in TheLines
  PROVE  Select(found, line) \in Seq(TheLines)
BY DEF Select

Selects(f, s) ==
  f = [S \in SUBSET DOMAIN s |-> IF S = {} THEN <<>> ELSE Select(f[S \ {Max(S)}], s[Max(S)])]

\* Results takes such a fold.
LEMMA ResultsIs ==
  ASSUME NEW s
  PROVE  Results(s) = (CHOOSE f : Selects(f, s))[DOMAIN s]
BY DEF Results, Select, FoldLeft, MapThenFoldSet, Selects

\* Such a fold exists.
LEMMA ResultsExists ==
  ASSUME NEW s \in Seq(TheLines)
  PROVE  \E f \in [SUBSET DOMAIN s -> Seq(TheLines)] : Selects(f, s)
<1> DEFINE step == [p \in Seq(TheLines) \X TheLines |-> Select(p[1], p[2])]
<1>1. <<>> \in Seq(TheLines)
  OBVIOUS
<1>2. step \in [Seq(TheLines) \X TheLines -> Seq(TheLines)]
  BY SelectType
<1>3. \A run \in Seq(TheLines), line \in TheLines : step[<<run, line>>] = Select(run, line)
  OBVIOUS
<1> HIDE DEF step
<1>4. PICK f \in [SUBSET DOMAIN s -> Seq(TheLines)] : FoldsLeft(f, s, <<>>, step)
  BY <1>1, <1>2, FoldLeftExists
<1>5. ASSUME NEW S \in SUBSET DOMAIN s
      PROVE  f[S] = IF S = {} THEN <<>> ELSE Select(f[S \ {Max(S)}], s[Max(S)])
  <2>1. CASE S = {}
    BY <1>4, <2>1 DEF FoldsLeft
  <2>2. CASE S # {}
    <3>0. Len(s) \in Nat /\ DOMAIN s = 1..Len(s)
      OBVIOUS
    <3>1. Max(S) \in S
      BY <2>2, <3>0, MaxIn
    <3>2. f[S \ {Max(S)}] \in Seq(TheLines) /\ s[Max(S)] \in TheLines
      BY <3>1
    <3> QED
      BY <1>3, <1>4, <2>2, <3>2 DEF FoldsLeft
  <2> QED
    BY <2>1, <2>2
<1> QED
  BY <1>5 DEF Selects

\* Two of them agree on what two sequences have in common.
LEMMA ResultsAgree ==
  ASSUME NEW s \in Seq(TheLines), NEW t \in Seq(TheLines),
         NEW n \in Nat, n <= Len(s), n <= Len(t), \A i \in 1..n : s[i] = t[i],
         NEW f, Selects(f, s), NEW g, Selects(g, t)
  PROVE  f[1..n] = g[1..n]
<1> DEFINE Bad == {m \in 0..n : f[1..m] # g[1..m]}
<1>1. ASSUME Bad # {} PROVE FALSE
  <2>1. PICK m \in Bad : \A k \in Bad : m <= k
    <3>1. Bad \subseteq Nat
      OBVIOUS
    <3> HIDE DEF Bad
    <3> QED
      BY <1>1, <3>1, Least
  <2>2. f[{}] = g[{}]
    BY DEF Selects
  <2>3. m # 0
    BY <2>2
  <2>4. m - 1 \in 0..n /\ m - 1 \notin Bad
    <3>1. m \in 0..n
      OBVIOUS
    <3>2. m - 1 \in 0..n /\ ~(m <= m - 1)
      BY <2>3, <3>1
    <3> HIDE DEF Bad
    <3> QED
      BY <2>1, <3>2
  <2>5. f[1..(m - 1)] = g[1..(m - 1)]
    BY <2>4
  <2>6. 1..m \in SUBSET DOMAIN s /\ 1..m \in SUBSET DOMAIN t /\ 1..m # {} /\ m \in 1..n /\ m \in Nat \ {0}
    <3>1. m \in 1..n /\ Len(s) \in Nat /\ Len(t) \in Nat /\ DOMAIN s = 1..Len(s) /\ DOMAIN t = 1..Len(t)
      BY <2>3
    <3>2. \A i \in 1..m : i \in 1..Len(s) /\ i \in 1..Len(t)
      BY <3>1
    <3>3. m \in 1..m /\ m \in Nat \ {0}
      BY <3>1
    <3> QED
      BY <3>1, <3>2, <3>3
  <2>7. Max(1..m) = m /\ (1..m) \ {m} = 1..(m - 1)
    BY <2>6, MaxPrefix
  <2>8. f[1..m] = Select(f[1..(m - 1)], s[m]) /\ g[1..m] = Select(g[1..(m - 1)], t[m])
    BY <2>6, <2>7 DEF Selects
  <2> QED
    BY <2>5, <2>6, <2>8
<1> QED
  BY <1>1

\* There are no results in nothing.
LEMMA ResultsEmpty == Results(<<>>) = <<>>
<1>1. PICK f \in [SUBSET DOMAIN <<>> -> Seq(TheLines)] : Selects(f, <<>>)
  <2>1. <<>> \in Seq(TheLines)
    OBVIOUS
  <2> QED
    BY <2>1, ResultsExists
<1> DEFINE g == CHOOSE h : Selects(h, <<>>)
<1>2. Selects(g, <<>>)
  BY <1>1
<1> HIDE DEF g
<1>3. g[{}] = <<>>
  BY <1>2 DEF Selects
<1> QED
  BY <1>3, ResultsIs DEF g

\* A line more is a result more, if it is one.
LEMMA ResultsAppend ==
  ASSUME NEW s \in Seq(TheLines), NEW line \in TheLines
  PROVE  /\ Results(s) \in Seq(TheLines)
         /\ Results(Append(s, line)) = Select(Results(s), line)
<1> DEFINE t == Append(s, line)
           n == Len(s)
           f == CHOOSE h : Selects(h, s)
           g == CHOOSE h : Selects(h, t)
<1>1. t \in Seq(TheLines) /\ Len(t) = n + 1 /\ t[n + 1] = line /\ \A i \in 1..n : s[i] = t[i]
  OBVIOUS
<1>2. DOMAIN s = 1..n /\ DOMAIN t = 1..(n + 1) /\ n \in Nat
  BY <1>1
<1> HIDE DEF t
<1>3. Selects(f, s) /\ Selects(g, t)
  BY <1>1, ResultsExists
<1>4. Results(s) = f[1..n] /\ Results(t) = g[1..(n + 1)]
  BY <1>2, ResultsIs
<1> HIDE DEF n, f, g
<1>5. f[1..n] \in Seq(TheLines)
  <2>1. PICK h \in [SUBSET DOMAIN s -> Seq(TheLines)] : Selects(h, s)
    BY ResultsExists
  <2>2. f[1..n] = h[1..n]
    BY <1>2, <1>3, <2>1, ResultsAgree DEF n
  <2> QED
    BY <1>2, <2>1, <2>2
<1>6. f[1..n] = g[1..n]
  BY <1>1, <1>2, <1>3, ResultsAgree DEF n
<1>7. Max(1..(n + 1)) = n + 1 /\ (1..(n + 1)) \ {n + 1} = 1..n
  BY <1>2, MaxPrefix
<1>8. g[1..(n + 1)] = Select(g[1..n], line)
  <2>1. 1..(n + 1) # {} /\ 1..(n + 1) \in SUBSET DOMAIN t
    <3>1. n + 1 \in 1..(n + 1)
      BY <1>2
    <3> QED
      BY <1>2, <3>1
  <2>2. g[1..(n + 1)] = Select(g[(1..(n + 1)) \ {Max(1..(n + 1))}], t[Max(1..(n + 1))])
    BY <1>3, <2>1 DEF Selects
  <2> QED
    BY <1>1, <1>7, <2>2
<1> QED
  BY <1>4, <1>5, <1>6, <1>8 DEF t

-----------------------------------------------------------------------------
(* Sums over the lines of a recap: FoldSet takes them in an order of its own. *)

\* f adds up w over the subsets of the finite set S.
Pick(T) == CHOOSE x \in T : TRUE
Sums(f, S, w) == \A T \in SUBSET S : f[T] = IF T = {} THEN 0 ELSE f[T \ {Pick(T)}] + w[Pick(T)]

\* What is picked from a set is in it.
LEMMA Picked == \A T : T # {} => Pick(T) \in T
BY DEF Pick

\* A sum exists.
LEMMA SumExists ==
  ASSUME NEW S, IsFiniteSet(S), NEW w \in [S -> Nat]
  PROVE  \E f \in [SUBSET S -> Nat] : Sums(f, S, w)
<1> DEFINE step == [p \in Nat \X S |-> p[1] + w[p[2]]]
           c == [T \in SUBSET S |-> Pick(T)]
<1>1. step \in [Nat \X S -> Nat]
  OBVIOUS
<1>2. Picks(c, S)
  BY Picked DEF Picks
<1>3. \A n \in Nat, x \in S : step[<<n, x>>] = n + w[x]
  OBVIOUS
<1>4. \A T \in SUBSET S : c[T] = Pick(T)
  OBVIOUS
<1>5. 0 \in Nat
  OBVIOUS
<1> HIDE DEF step, c
<1>6. PICK f \in [SUBSET S -> Nat] : Folds(f, S, 0, step, c)
  BY <1>1, <1>2, <1>5, FoldExists
<1>7. ASSUME NEW T \in SUBSET S, T # {} PROVE f[T] = f[T \ {Pick(T)}] + w[Pick(T)]
  <2>1. Pick(T) \in S /\ f[T \ {Pick(T)}] \in Nat
    BY <1>7, Picked
  <2> QED
    BY <1>3, <1>4, <1>6, <1>7, <2>1 DEF Folds
<1>8. f[{}] = 0
  BY <1>6 DEF Folds
<1> QED
  BY <1>7, <1>8 DEF Sums

\* Two sums agree where they add the same.
LEMMA SumAgree ==
  ASSUME NEW A, NEW v, NEW f, Sums(f, A, v),
         NEW B, NEW w, NEW g, Sums(g, B, w),
         IsFiniteSet(B), B \subseteq A, \A x \in B : v[x] = w[x]
  PROVE  f[B] = g[B]
<1> DEFINE Bad == {n \in Nat : \E T \in SUBSET B : Cardinality(T) = n /\ f[T] # g[T]}
<1>1. ASSUME Bad # {} PROVE FALSE
  <2>1. PICK n \in Bad : \A k \in Bad : n <= k
    <3>1. Bad \subseteq Nat
      OBVIOUS
    <3> HIDE DEF Bad
    <3> QED
      BY <1>1, <3>1, Least
  <2>2. PICK T \in SUBSET B : Cardinality(T) = n /\ f[T] # g[T]
    OBVIOUS
  <2>3. T # {}
    BY <2>2 DEF Sums
  <2> DEFINE U == T \ {Pick(T)}
  <2>4. IsFiniteSet(T) /\ Pick(T) \in T /\ U \in SUBSET B
    BY <2>3, FS_Subset, Picked
  <2>5. Cardinality(U) = n - 1 /\ n \in Nat /\ Cardinality(U) \in Nat
    BY <2>2, <2>4, FS_RemoveElement, FS_CardinalityType
  <2>6. f[U] = g[U]
    <3>1. Cardinality(U) \notin Bad
      <4>1. ~(n <= Cardinality(U))
        BY <2>5
      <4> HIDE DEF Bad, U
      <4> QED
        BY <2>1, <4>1
    <3> QED
      BY <2>4, <2>5, <3>1
  <2>7. v[Pick(T)] = w[Pick(T)]
    BY <2>4
  <2>8. f[T] = f[U] + v[Pick(T)]
    BY <2>3 DEF Sums
  <2>9. g[T] = g[U] + w[Pick(T)]
    BY <2>3 DEF Sums
  <2> QED
    BY <2>2, <2>6, <2>7, <2>8, <2>9
<1>2. Cardinality(B) \in Nat
  BY FS_CardinalityType
<1> QED
  BY <1>1, <1>2

\* The order of a sum does not matter.
LEMMA SumRemove ==
  ASSUME NEW S, IsFiniteSet(S), NEW w \in [S -> Nat], NEW f \in [SUBSET S -> Nat], Sums(f, S, w),
         NEW y \in S
  PROVE  f[S] = f[S \ {y}] + w[y]
<1> DEFINE Bad == {n \in Nat : \E T \in SUBSET S : \E x \in T : Cardinality(T) = n /\ f[T] # f[T \ {x}] + w[x]}
<1>1. ASSUME Bad # {} PROVE FALSE
  <2>1. PICK n \in Bad : \A k \in Bad : n <= k
    <3>1. Bad \subseteq Nat
      OBVIOUS
    <3> HIDE DEF Bad
    <3> QED
      BY <1>1, <3>1, Least
  <2>2a. PICK T \in SUBSET S : \E x \in T : Cardinality(T) = n /\ f[T] # f[T \ {x}] + w[x]
    OBVIOUS
  <2>2. PICK x \in T : Cardinality(T) = n /\ f[T] # f[T \ {x}] + w[x]
    BY <2>2a
  <2> DEFINE p == Pick(T)
  <2>3. p \in T /\ IsFiniteSet(T) /\ f[T] = f[T \ {p}] + w[p]
    BY FS_Subset, Picked DEF Sums
  <2> HIDE DEF p
  <2>4. x # p
    BY <2>2, <2>3
  <2>5. \A z \in T : IsFiniteSet(T \ {z}) /\ Cardinality(T \ {z}) = n - 1 /\ n \in Nat /\ n - 1 \in Nat /\ ~(n <= n - 1)
    <3> SUFFICES ASSUME NEW z \in T
                 PROVE  IsFiniteSet(T \ {z}) /\ Cardinality(T \ {z}) = n - 1 /\ n \in Nat /\ n - 1 \in Nat /\ ~(n <= n - 1)
      OBVIOUS
    <3>1. n \in Nat
      OBVIOUS
    <3>2. IsFiniteSet(T \ {z}) /\ Cardinality(T \ {z}) = n - 1 /\ Cardinality(T \ {z}) \in Nat
      BY <2>2, <2>3, FS_RemoveElement, FS_CardinalityType
    <3> QED
      BY <3>1, <3>2
  <2>6. n - 1 \notin Bad
    <3> HIDE DEF Bad
    <3> QED
      BY <2>1, <2>3, <2>5
  <2>7. \A z \in T : \A u \in T \ {z} : f[T \ {z}] = f[(T \ {z}) \ {u}] + w[u]
    BY <2>5, <2>6
  <2>8. f[T \ {p}] = f[(T \ {p}) \ {x}] + w[x] /\ f[T \ {x}] = f[(T \ {x}) \ {p}] + w[p]
    BY <2>3, <2>4, <2>7
  <2>9. (T \ {p}) \ {x} = (T \ {x}) \ {p}
    OBVIOUS
  <2>10. f[(T \ {p}) \ {x}] \in Nat /\ w[x] \in Nat /\ w[p] \in Nat
    BY <2>3
  <2> HIDE DEF Bad
  <2>11. f[T \ {p}] + w[p] = f[T \ {x}] + w[x]
    <3> DEFINE rest == f[(T \ {p}) \ {x}]
               wx == w[x]
               wp == w[p]
    <3>1. f[T \ {p}] = rest + wx /\ f[T \ {x}] = rest + wp
      BY <2>8, <2>9
    <3>2. rest \in Nat /\ wx \in Nat /\ wp \in Nat
      BY <2>10
    <3> HIDE DEF rest, wx, wp
    <3>3. (rest + wx) + wp = (rest + wp) + wx
      BY <3>2
    <3> QED
      BY <3>1, <3>3 DEF wx, wp
  <2> QED
    BY <2>2, <2>3, <2>11
<1>2. Cardinality(S) \in Nat /\ S \in SUBSET S
  BY FS_CardinalityType
<1>3. Cardinality(S) \notin Bad
  BY <1>1
<1> QED
  BY <1>2, <1>3

\* The sums of RecapTellsTheTasks.
SumOK(S) == FoldSet(LAMBDA s, sum : sum + s.ok, 0, S)
SumFailed(S) == FoldSet(LAMBDA s, sum : sum + s.failed, 0, S)

\* FoldSet takes such a sum of the ok counts of a recap, as long as it is finite.
LEMMA SumOKIs ==
  ASSUME NEW S, S \subseteq TheLines, IsFiniteSet(S)
  PROVE  \E f \in [SUBSET S -> Nat] : Sums(f, S, [s \in S |-> s.ok]) /\ SumOK(S) = f[S]
<1> DEFINE Adds(f) == f = [T \in SUBSET S |-> IF T = {} THEN 0 ELSE f[T \ {Pick(T)}] + Pick(T).ok]
           w == [s \in S |-> s.ok]
           g == CHOOSE f : Adds(f)
<1>1. SumOK(S) = g[S]
  BY DEF SumOK, FoldSet, MapThenFoldSet, Pick
<1>2. w \in [S -> Nat]
  BY DEF TheLines
<1>3. PICK f \in [SUBSET S -> Nat] : Sums(f, S, w)
  BY <1>2, SumExists
<1>4. \A T \in SUBSET S : T # {} => w[Pick(T)] = Pick(T).ok
  BY Picked
<1> HIDE DEF w
<1>5. Adds(f)
  BY <1>3, <1>4 DEF Sums
<1>6. Adds(g)
  BY <1>5
<1> HIDE DEF g
<1>7. Sums(g, S, w)
  BY <1>4, <1>6 DEF Sums
<1>8. \A T \in SUBSET S : g[T] = f[T]
  <2> SUFFICES ASSUME NEW T \in SUBSET S PROVE g[T] = f[T]
    OBVIOUS
  <2>1. IsFiniteSet(T)
    BY FS_Subset
  <2>2. Sums(f, T, w)
    BY <1>3 DEF Sums
  <2> QED
    BY <1>7, <2>1, <2>2, SumAgree
<1>9. g = f
  BY <1>6, <1>8
<1> QED
  BY <1>1, <1>3, <1>9 DEF w

\* And of its failed counts.
LEMMA SumFailedIs ==
  ASSUME NEW S, S \subseteq TheLines, IsFiniteSet(S)
  PROVE  \E f \in [SUBSET S -> Nat] : Sums(f, S, [s \in S |-> s.failed]) /\ SumFailed(S) = f[S]
<1> DEFINE Adds(f) == f = [T \in SUBSET S |-> IF T = {} THEN 0 ELSE f[T \ {Pick(T)}] + Pick(T).failed]
           w == [s \in S |-> s.failed]
           g == CHOOSE f : Adds(f)
<1>1. SumFailed(S) = g[S]
  BY DEF SumFailed, FoldSet, MapThenFoldSet, Pick
<1>2. w \in [S -> Nat]
  BY DEF TheLines
<1>3. PICK f \in [SUBSET S -> Nat] : Sums(f, S, w)
  BY <1>2, SumExists
<1>4. \A T \in SUBSET S : T # {} => w[Pick(T)] = Pick(T).failed
  BY Picked
<1> HIDE DEF w
<1>5. Adds(f)
  BY <1>3, <1>4 DEF Sums
<1>6. Adds(g)
  BY <1>5
<1> HIDE DEF g
<1>7. Sums(g, S, w)
  BY <1>4, <1>6 DEF Sums
<1>8. \A T \in SUBSET S : g[T] = f[T]
  <2> SUFFICES ASSUME NEW T \in SUBSET S PROVE g[T] = f[T]
    OBVIOUS
  <2>1. IsFiniteSet(T)
    BY FS_Subset
  <2>2. Sums(f, T, w)
    BY <1>3 DEF Sums
  <2> QED
    BY <1>7, <2>1, <2>2, SumAgree
<1>9. g = f
  BY <1>6, <1>8
<1> QED
  BY <1>1, <1>3, <1>9 DEF w

\* v and w weigh the elements of S alike; g adds up v over A's subsets.
Same(v, w, S) == \A x \in S : v[x] = w[x]

SumOf(g, A, v) == v \in [A -> Nat] /\ g \in [SUBSET A -> Nat] /\ Sums(g, A, v)

\* An element more adds its own weight.
LEMMA SumAdd ==
  ASSUME NEW A, IsFiniteSet(A), NEW y \in A, NEW v, NEW g, SumOf(g, A, v),
         NEW w, NEW f, Sums(f, A \ {y}, w), Same(v, w, A \ {y})
  PROVE  g[A] = f[A \ {y}] + v[y]
<1> USE DEF SumOf
<1>1. IsFiniteSet(A \ {y}) /\ A \ {y} \subseteq A
  BY FS_RemoveElement
<1>2. g[A \ {y}] = f[A \ {y}]
  BY <1>1, SumAgree DEF Same
<1>3. g[A] = g[A \ {y}] + v[y]
  BY SumRemove
<1> QED
  BY <1>2, <1>3

\* A host's line more adds its counts to the totals.
LEMMA RecapSums ==
  ASSUME NEW S, S \subseteq TheLines, IsFiniteSet(S), NEW y \in TheLines, y \notin S
  PROVE  /\ SumOK(S \union {y}) = SumOK(S) + y.ok
         /\ SumFailed(S \union {y}) = SumFailed(S) + y.failed
<1>1. S \union {y} \subseteq TheLines /\ IsFiniteSet(S \union {y})
  BY FS_AddElement
<1>2. SumOK(S \union {y}) = SumOK(S) + y.ok
  <2> DEFINE A == S \union {y}
             w == [s \in S |-> s.ok]
             v == [s \in A |-> s.ok]
  <2>1. PICK f : f \in [SUBSET S -> Nat] /\ Sums(f, S, w) /\ SumOK(S) = f[S]
    BY SumOKIs
  <2>2. A \subseteq TheLines /\ IsFiniteSet(A) /\ y \in A /\ A \ {y} = S
    BY <1>1
  <2>3. v \in [A -> Nat] /\ v[y] = y.ok /\ Same(v, w, S)
    BY <2>2 DEF TheLines, Same
  <2> HIDE DEF A
  <2>4. PICK g : g \in [SUBSET A -> Nat] /\ Sums(g, A, v) /\ SumOK(A) = g[A]
    BY <2>2, SumOKIs
  <2> HIDE DEF v, w
  <2>5. Sums(f, A \ {y}, w) /\ Same(v, w, A \ {y})
    BY <2>1, <2>2, <2>3
  <2>6. g[A] = f[A \ {y}] + v[y]
    <3>1. IsFiniteSet(A) /\ y \in A /\ SumOf(g, A, v)
      BY <2>2, <2>3, <2>4 DEF SumOf
    <3> QED
      BY ONLY <2>5, <3>1, SumAdd
  <2> QED
    BY <2>1, <2>2, <2>3, <2>4, <2>6 DEF A
<1>3. SumFailed(S \union {y}) = SumFailed(S) + y.failed
  <2> DEFINE A == S \union {y}
             w == [s \in S |-> s.failed]
             v == [s \in A |-> s.failed]
  <2>1. PICK f : f \in [SUBSET S -> Nat] /\ Sums(f, S, w) /\ SumFailed(S) = f[S]
    BY SumFailedIs
  <2>2. A \subseteq TheLines /\ IsFiniteSet(A) /\ y \in A /\ A \ {y} = S
    BY <1>1
  <2>3. v \in [A -> Nat] /\ v[y] = y.failed /\ Same(v, w, S)
    BY <2>2 DEF TheLines, Same
  <2> HIDE DEF A
  <2>4. PICK g : g \in [SUBSET A -> Nat] /\ Sums(g, A, v) /\ SumFailed(A) = g[A]
    BY <2>2, SumFailedIs
  <2> HIDE DEF v, w
  <2>5. Sums(f, A \ {y}, w) /\ Same(v, w, A \ {y})
    BY <2>1, <2>2, <2>3
  <2>6. g[A] = f[A \ {y}] + v[y]
    <3>1. IsFiniteSet(A) /\ y \in A /\ SumOf(g, A, v)
      BY <2>2, <2>3, <2>4 DEF SumOf
    <3> QED
      BY ONLY <2>5, <3>1, SumAdd
  <2> QED
    BY <2>1, <2>2, <2>3, <2>4, <2>6 DEF A
<1> QED
  BY <1>2, <1>3

\* The totals of no recap are zero.
LEMMA RecapSumsEmpty == SumOK({}) = 0 /\ SumFailed({}) = 0
<1>1. {} \subseteq TheLines /\ IsFiniteSet({}) /\ {} \in SUBSET {}
  BY FS_EmptySet
<1>2. PICK f \in [SUBSET {} -> Nat] : Sums(f, {}, [s \in {} |-> s.ok]) /\ SumOK({}) = f[{}]
  BY <1>1, SumOKIs
<1>3. PICK g \in [SUBSET {} -> Nat] : Sums(g, {}, [s \in {} |-> s.failed]) /\ SumFailed({}) = g[{}]
  BY <1>1, SumFailedIs
<1> QED
  BY <1>1, <1>2, <1>3 DEF Sums
-----------------------------------------------------------------------------
(* What is read back.                                                       *)

\* The tasks of host h; and what holds of every run that is read: a host with
\* stats has as many tasks in it as they count, and the totals are the sums.
Count(tasks, h) == Cardinality({i \in DOMAIN tasks : tasks[i].host = h})
RunInv(run) ==
  /\ DOMAIN run.stats \subseteq run.hosts
  /\ \A h \in DOMAIN run.stats :
       run.stats[h].host = h /\ run.stats[h].ok + run.stats[h].failed = Count(run.tasks, h)
  /\ IsFiniteSet(Recap(run))
  /\ run.totalOK = SumOK(Recap(run)) /\ run.totalFailed = SumFailed(Recap(run))

\* A line of a host is one more of that host.
LEMMA CountAppend ==
  ASSUME NEW tasks \in Seq(TheLines), NEW line \in TheLines, NEW h
  PROVE  /\ Count(tasks, h) \in Nat
         /\ Count(Append(tasks, line), h) = IF line.host = h THEN Count(tasks, h) + 1 ELSE Count(tasks, h)
<1> DEFINE n == Len(tasks)
           A == {i \in DOMAIN tasks : tasks[i].host = h}
           B == {i \in DOMAIN Append(tasks, line) : Append(tasks, line)[i].host = h}
<1>1. /\ DOMAIN tasks = 1..n /\ DOMAIN Append(tasks, line) = 1..(n + 1) /\ n \in Nat
      /\ Append(tasks, line)[n + 1] = line /\ \A i \in 1..n : Append(tasks, line)[i] = tasks[i]
  OBVIOUS
<1>2. IsFiniteSet(A) /\ n + 1 \notin A
  <2>1. IsFiniteSet(1..n)
    BY <1>1, FS_Interval
  <2> QED
    BY <1>1, <2>1, FS_Subset
<1>3. B = IF line.host = h THEN A \union {n + 1} ELSE A
  BY <1>1
<1> HIDE DEF A, B
<1>4. Cardinality(A) \in Nat /\ Cardinality(A \union {n + 1}) = Cardinality(A) + 1
  BY <1>2, FS_CardinalityType, FS_AddElement
<1> QED
  BY <1>3, <1>4 DEF Count, A, B

\* No host has a line in nothing.
LEMMA CountEmpty == \A h : Count(<<>>, h) = 0
<1>1. DOMAIN <<>> = {}
  OBVIOUS
<1> QED
  BY <1>1, FS_EmptySet DEF Count

\* Half a line does not parse, and changes nothing (ParseRun's continue).
LEMMA TornSame ==
  ASSUME NEW run \in Runs
  PROVE  ParseLine(run, Torn) = run
<1>1. run = [known |-> run.known, tasks |-> run.tasks, hosts |-> run.hosts, stats |-> run.stats,
             totalOK |-> run.totalOK, totalFailed |-> run.totalFailed]
      /\ run.known \in BOOLEAN /\ run.totalOK \in Nat /\ run.totalFailed \in Nat
  BY DEF Runs
<1>2. Torn.type = "torn" /\ Torn.host = "" /\ Torn.ok = 0 /\ Torn.failed = 0
  BY DEF Torn, Line
<1>3. (run.known \/ Torn.type = "run") = run.known
  BY <1>1, <1>2
<1>4. run.totalOK + Torn.ok = run.totalOK /\ run.totalFailed + Torn.failed = run.totalFailed
  <2>1. run.totalOK \in Nat /\ run.totalFailed \in Nat
    BY <1>1
  <2>2. \A n \in Nat : \A z : z = 0 => n + z = n
    OBVIOUS
  <2> QED
    BY <1>2, <2>1, <2>2
<1>5. ParseLine(run, Torn) = [known |-> run.known, tasks |-> run.tasks, hosts |-> run.hosts, stats |-> run.stats,
             totalOK |-> run.totalOK, totalFailed |-> run.totalFailed]
  BY <1>2, <1>3, <1>4 DEF ParseLine
<1> QED
  BY <1>1, <1>5

\* A task's line leaves the recap, and what is said of it, alone.
LEMMA TaskRead ==
  ASSUME NEW run \in Runs, RunInv(run), DOMAIN run.stats = {},
         NEW line \in TheLines, line.type = "task", line.ok = 0, line.failed = 0
  PROVE  /\ RunInv(ParseLine(run, line)) /\ Recap(ParseLine(run, line)) = {} /\ Recap(run) = {}
         /\ DOMAIN ParseLine(run, line).stats = {}
<1> DEFINE r == ParseLine(run, line)
<1>1. r.stats = run.stats /\ r.totalOK = run.totalOK + 0 /\ r.totalFailed = run.totalFailed + 0
  BY DEF ParseLine
<1>2. run.totalOK \in Nat /\ run.totalFailed \in Nat
  BY DEF Runs
<1> HIDE DEF r
<1>3. Recap(run) = {} /\ Recap(r) = {}
  BY <1>1 DEF Recap
<1> QED
  BY <1>1, <1>2, <1>3 DEF RunInv, r

\* A host's line adds it to the recap, once.
LEMMA StatsRead ==
  ASSUME NEW run \in Runs, RunInv(run), NEW line \in TheLines, line.type = "stats",
         line.host # "", line.host \notin DOMAIN run.stats,
         line.ok + line.failed = Count(run.tasks, line.host)
  PROVE  /\ RunInv(ParseLine(run, line))
         /\ DOMAIN ParseLine(run, line).stats = DOMAIN run.stats \union {line.host}
         /\ ParseLine(run, line).tasks = run.tasks
<1> DEFINE r == ParseLine(run, line)
<1>1. /\ r.stats = [h \in DOMAIN run.stats \union {line.host} |-> IF h = line.host THEN line ELSE run.stats[h]]
      /\ r.hosts = run.hosts \union {line.host} /\ r.tasks = run.tasks
      /\ r.totalOK = run.totalOK + line.ok /\ r.totalFailed = run.totalFailed + line.failed
  BY DEF ParseLine
<1> HIDE DEF r
<1>2. /\ DOMAIN r.stats = DOMAIN run.stats \union {line.host} /\ r.stats[line.host] = line
      /\ \A h \in DOMAIN run.stats : r.stats[h] = run.stats[h]
  BY <1>1
<1>3. Recap(run) = {run.stats[h] : h \in DOMAIN run.stats} /\ Recap(r) = {r.stats[h] : h \in DOMAIN r.stats}
  BY <1>1, <1>2 DEF Recap, RunInv
<1>4. Recap(r) = Recap(run) \union {line}
  <2>1. ASSUME NEW x \in Recap(r) PROVE x \in Recap(run) \union {line}
    <3>1. PICK h \in DOMAIN r.stats : x = r.stats[h]
      BY <1>3, <2>1
    <3>2. CASE h = line.host
      BY <1>2, <3>1, <3>2
    <3>3. CASE h \in DOMAIN run.stats
      BY <1>2, <1>3, <3>1, <3>3
    <3> QED
      BY <1>2, <3>1, <3>2, <3>3
  <2>2. ASSUME NEW h \in DOMAIN run.stats PROVE run.stats[h] \in Recap(r)
    BY <1>2, <1>3, <2>2
  <2>3. line \in Recap(r)
    BY <1>2, <1>3
  <2>4. Recap(run) \subseteq Recap(r)
    BY <1>3, <2>2
  <2> QED
    BY <2>1, <2>3, <2>4
<1>5. line \notin Recap(run)
  BY <1>3 DEF RunInv
<1>6. Recap(run) \subseteq TheLines
  <2>1. PICK H \in SUBSET Names : run.stats \in [H -> TheLines]
    BY DEF Runs
  <2> QED
    BY <1>3, <2>1
<1>7. IsFiniteSet(Recap(run)) /\ IsFiniteSet(Recap(run) \union {line})
  BY FS_AddElement DEF RunInv
<1>8. r.totalOK = SumOK(Recap(r)) /\ r.totalFailed = SumFailed(Recap(r))
  <2> DEFINE S == Recap(run)
  <2>1. run.totalOK = SumOK(S) /\ run.totalFailed = SumFailed(S) /\ r.totalOK = SumOK(S) + line.ok
        /\ r.totalFailed = SumFailed(S) + line.failed
    BY <1>1 DEF RunInv
  <2> HIDE DEF S
  <2>2. SumOK(S \union {line}) = SumOK(S) + line.ok /\ SumFailed(S \union {line}) = SumFailed(S) + line.failed
    BY <1>5, <1>6, <1>7, RecapSums DEF S
  <2> QED
    BY <1>4, <2>1, <2>2 DEF S
<1>9. \A h \in DOMAIN r.stats : r.stats[h].host = h /\ r.stats[h].ok + r.stats[h].failed = Count(r.tasks, h)
  BY <1>1, <1>2 DEF RunInv
<1>10. DOMAIN r.stats \subseteq r.hosts
  BY <1>1, <1>2 DEF RunInv
<1>11. RunInv(r)
  BY <1>4, <1>7, <1>8, <1>9, <1>10 DEF RunInv
<1> QED
  BY <1>1, <1>2, <1>11 DEF r
-----------------------------------------------------------------------------
(* Every beginning of a run.                                                *)

\* Of each beginning of the run s, what is read back of it.
PrefixOK(s) ==
  \A k \in 0..Len(s) :
    LET run == ParseRun(SubSeq(s, 1, k))
    IN /\ RunInv(run)
       /\ k > 0 => run.known
       /\ \A h \in DOMAIN run.stats : \E i \in 1..k : s[i].type = "stats" /\ s[i].host = h
       /\ Recap(run) # {} \/ k = Len(s) => run.tasks = Results(s)

\* A line more leaves the beginnings of the run as they were, so that all is in
\* what the whole run then reads as.
LEMMA ReadOn ==
  ASSUME NEW s \in Seq(TheLines), s # <<>>, PrefixOK(s), NEW x \in TheLines,
         RunInv(ParseLine(ParseRun(s), x)),
         \A h \in DOMAIN ParseLine(ParseRun(s), x).stats :
           h \in DOMAIN ParseRun(s).stats \/ (x.type = "stats" /\ x.host = h),
         x.type = "task" => \A k \in 0..Len(s) : Recap(ParseRun(SubSeq(s, 1, k))) = {}
  PROVE  PrefixOK(Append(s, x))
<1> DEFINE t == Append(s, x)
           n == Len(s)
           P(k) == ParseRun(SubSeq(s, 1, k))
           Q(k) == ParseRun(SubSeq(t, 1, k))
<1>1. /\ t \in Seq(TheLines) /\ Len(t) = n + 1 /\ n \in Nat /\ n > 0
      /\ t[n + 1] = x /\ \A i \in 1..n : t[i] = s[i]
  OBVIOUS
<1>2. /\ SubSeq(t, 1, n + 1) = t /\ SubSeq(s, 1, n) = s
      /\ \A k \in 0..n : SubSeq(t, 1, k) = SubSeq(s, 1, k)
  OBVIOUS
<1>3. Results(t) = IF x.type = "task" THEN Append(Results(s), x) ELSE Results(s)
  BY ResultsAppend DEF Select
<1>4. ParseRun(t) = ParseLine(ParseRun(s), x) /\ ParseRun(s) \in Runs
  BY ParseAppend
<1> HIDE DEF t, n
<1>5. P(n) = ParseRun(s) /\ Q(n + 1) = ParseRun(t) /\ \A k \in 0..n : Q(k) = P(k)
  BY <1>2
<1>6. \A k \in 0..n :
        /\ RunInv(P(k))
        /\ k > 0 => P(k).known
        /\ \A h \in DOMAIN P(k).stats : \E i \in 1..k : s[i].type = "stats" /\ s[i].host = h
        /\ Recap(P(k)) # {} \/ k = n => P(k).tasks = Results(s)
  BY DEF PrefixOK, n
<1>7. x.type = "task" => \A k \in 0..n : Recap(P(k)) = {}
  BY DEF n
<1> HIDE DEF P, Q
<1>8. ASSUME NEW k \in 0..n
      PROVE  /\ RunInv(Q(k))
             /\ k > 0 => Q(k).known
             /\ \A h \in DOMAIN Q(k).stats : \E i \in 1..k : t[i].type = "stats" /\ t[i].host = h
             /\ Recap(Q(k)) # {} \/ k = n + 1 => Q(k).tasks = Results(t)
  <2>1. Q(k) = P(k) /\ k # n + 1 /\ \A i \in 1..k : t[i] = s[i]
    BY <1>1, <1>5
  <2>2. Recap(P(k)) # {} => Results(t) = Results(s)
    BY <1>3, <1>7
  <2> QED
    BY <1>6, <2>1, <2>2
<1>9. /\ RunInv(Q(n + 1))
      /\ Q(n + 1).known
      /\ \A h \in DOMAIN Q(n + 1).stats : \E i \in 1..(n + 1) : t[i].type = "stats" /\ t[i].host = h
      /\ Q(n + 1).tasks = Results(t)
  <2>0. n \in 0..n /\ n + 1 \in 1..(n + 1) /\ \A i \in 1..n : i \in 1..(n + 1)
    BY <1>1
  <2>1. Q(n + 1) = ParseLine(P(n), x) /\ P(n) = ParseRun(s)
    BY <1>4, <1>5
  <2>2. P(n).known /\ P(n).tasks = Results(s)
        /\ \A h \in DOMAIN P(n).stats : \E i \in 1..n : s[i].type = "stats" /\ s[i].host = h
    BY <1>1, <1>6, <2>0
  <2>3. Q(n + 1).known /\ Q(n + 1).tasks = Results(t)
    <3>0. /\ ParseLine(P(n), x).known = (P(n).known \/ x.type = "run")
          /\ ParseLine(P(n), x).tasks = IF x.type = "task" THEN Append(P(n).tasks, x) ELSE P(n).tasks
      BY ParseFields
    <3>1. Q(n + 1).known = (P(n).known \/ x.type = "run")
      BY <2>1, <3>0, Zenon
    <3>2. Q(n + 1).tasks = IF x.type = "task" THEN Append(P(n).tasks, x) ELSE P(n).tasks
      BY <2>1, <3>0, Zenon
    <3>3. Q(n + 1).known
      BY <2>2, <3>1, Zenon
    <3> QED
      BY <1>3, <2>2, <3>2, <3>3
  <2>4. ASSUME NEW h \in DOMAIN Q(n + 1).stats
        PROVE  \E i \in 1..(n + 1) : t[i].type = "stats" /\ t[i].host = h
    <3>1. CASE h \in DOMAIN P(n).stats
      <4>1. PICK i \in 1..n : s[i].type = "stats" /\ s[i].host = h
        BY <2>2, <3>1
      <4> QED
        BY <1>1, <2>0, <4>1
    <3>2. CASE x.type = "stats" /\ x.host = h
      BY <1>1, <2>0, <3>2
    <3> QED
      BY <2>1, <3>1, <3>2
  <2> QED
    BY <2>1, <2>3, <2>4
<1>10. \A k \in 0..(n + 1) : k \in 0..n \/ k = n + 1
  BY <1>1
<1> QED
  BY <1>1, <1>8, <1>9, <1>10 DEF PrefixOK, Q, t

\* The shape of a run, and what the plugin has counted.
TellInv ==
  /\ lines \in Seq(TheLines) /\ lines # <<>> /\ PrefixOK(lines)
  /\ tally \in [HostNames -> [ok : Nat, failed : Nat]]
  /\ plugin = "playing" => \A i \in DOMAIN lines : lines[i].type # "stats"
  /\ plugin \in {"playing", "recap"} =>
       \A h \in HostNames : tally[h].ok + tally[h].failed = Count(Results(lines), h)
  /\ plugin = "recap" => \A i \in DOMAIN lines : lines[i].type = "stats" =>
       LET h == lines[i].host IN h \in HostNames /\ lines[i] = StatsLine(h, tally[h].ok, tally[h].failed)
  /\ local \in Nat /\ local <= size

\* The lines the plugin writes.
LEMMA LineTypes ==
  /\ RunLine \in TheLines /\ Torn \in TheLines
  /\ \A h \in HostNames, status \in {"ok", "failed"} : TaskLine(h, status) \in TheLines
  /\ \A h \in HostNames, m, n \in Nat : StatsLine(h, m, n) \in TheLines
  /\ \A h \in HostNames : h # ""
<1>1. \A type \in {"run", "task", "stats", "torn"}, h \in Names, status \in {"ok", "failed", ""}, m \in Nat, n \in Nat :
        Line(type, h, status, m, n) \in TheLines
  BY DEF Line, TheLines
<1>2. "" \in Names /\ 0 \in Nat /\ \A h \in HostNames : h \in Names
  BY DEF Names
<1> HIDE DEF TheLines
<1>3. RunLine \in TheLines /\ Torn \in TheLines
  BY <1>1, <1>2 DEF RunLine, Torn
<1>4. \A h \in HostNames, status \in {"ok", "failed"} : TaskLine(h, status) \in TheLines
  BY <1>1, <1>2 DEF TaskLine
<1>5. \A h \in HostNames, m, n \in Nat : StatsLine(h, m, n) \in TheLines
  BY <1>1, <1>2 DEF StatsLine
<1>6. \A h \in HostNames : h # ""
  BY HostsAssumption DEF HostNames, ToSet
<1> QED
  BY <1>3, <1>4, <1>5, <1>6

\* The run's first line.
LEMMA TellInit == Init => TellInv
<1> SUFFICES ASSUME Init PROVE TellInv
  OBVIOUS
<1>1. lines = <<RunLine>> /\ Len(lines) = 1 /\ lines \in Seq(TheLines) /\ lines[1] = RunLine /\ lines = Append(<<>>, RunLine)
  <2>1. lines = <<RunLine>>
    BY DEF Init
  <2>2. RunLine \in TheLines
    BY LineTypes
  <2> HIDE DEF RunLine
  <2> QED
    BY <2>1, <2>2
<1>2. /\ RunLine.type = "run" /\ RunLine.host = "" /\ RunLine.ok = 0 /\ RunLine.failed = 0
  BY DEF RunLine, Line
<1> DEFINE e == EmptyRun
           r == ParseLine(EmptyRun, RunLine)
<1>3. <<>> \in Seq(TheLines) /\ SubSeq(lines, 1, 0) = <<>> /\ SubSeq(lines, 1, 1) = lines
  <2>1. <<>> \in Seq(TheLines) /\ \A q \in Seq(TheLines) : SubSeq(q, 1, 0) = <<>> /\ SubSeq(q, 1, Len(q)) = q
    OBVIOUS
  <2> QED
    BY <1>1, <2>1
<1>4. ParseRun(SubSeq(lines, 1, 0)) = e /\ ParseRun(SubSeq(lines, 1, 1)) = r
  BY <1>1, <1>3, LineTypes, ParseAppend, ParseEmpty
<1>5. Results(lines) = <<>>
  BY <1>1, <1>2, <1>3, LineTypes, ResultsAppend, ResultsEmpty DEF Select
<1>6. /\ e.tasks = <<>> /\ DOMAIN e.stats = {} /\ e.totalOK = 0 /\ e.totalFailed = 0
      /\ r.tasks = <<>> /\ DOMAIN r.stats = {} /\ r.totalOK = 0 /\ r.totalFailed = 0 /\ r.known
  <2>1. e.known = FALSE /\ e.tasks = <<>> /\ e.stats = <<>> /\ e.totalOK = 0 /\ e.totalFailed = 0
    BY DEF EmptyRun
  <2>2. /\ r.known = (e.known \/ RunLine.type = "run")
        /\ r.tasks = IF RunLine.type = "task" THEN Append(e.tasks, RunLine) ELSE e.tasks
        /\ r.stats = IF RunLine.type = "stats"
                     THEN [h \in DOMAIN e.stats \union {RunLine.host} |->
                             IF h = RunLine.host THEN RunLine ELSE e.stats[h]]
                     ELSE e.stats
        /\ r.totalOK = e.totalOK + RunLine.ok /\ r.totalFailed = e.totalFailed + RunLine.failed
    BY ParseFields
  <2>3. DOMAIN <<>> = {}
    OBVIOUS
  <2> HIDE DEF e, r
  <2>4. r.known
    BY <1>2, <2>1, <2>2, Zenon
  <2>5. r.tasks = <<>> /\ r.stats = <<>>
    BY <1>2, <2>1, <2>2
  <2>6. r.totalOK = 0 /\ r.totalFailed = 0
    <3>1. r.totalOK = 0 + 0 /\ r.totalFailed = 0 + 0
      BY <1>2, <2>1, <2>2
    <3> QED
      BY <3>1
  <2> QED
    BY <2>1, <2>3, <2>4, <2>5, <2>6
<1> HIDE DEF e, r
<1>7. Recap(e) = {} /\ Recap(r) = {}
  BY <1>6 DEF Recap
<1>8. RunInv(e) /\ RunInv(r)
  BY <1>6, <1>7, RecapSumsEmpty, FS_EmptySet DEF RunInv
<1>9. PrefixOK(lines)
  <2>1. 0..1 = {0, 1}
    OBVIOUS
  <2> QED
    BY <1>1, <1>4, <1>5, <1>6, <1>7, <1>8, <2>1 DEF PrefixOK
<1>10. \A i \in DOMAIN lines : lines[i].type # "stats"
  <2>1. DOMAIN lines = {1}
    BY <1>1
  <2> QED
    BY <1>1, <1>2, <2>1
<1>11. \A h \in HostNames : tally[h].ok + tally[h].failed = Count(Results(lines), h)
  BY <1>5, CountEmpty DEF Init
<1> QED
  BY <1>1, <1>9, <1>10, <1>11 DEF Init, TellInv, size
-----------------------------------------------------------------------------
\* While the plugin plays there is no recap in any part of the run.
LEMMA NoneYet ==
  ASSUME NEW s \in Seq(TheLines), PrefixOK(s), \A i \in DOMAIN s : s[i].type # "stats", NEW k \in 0..Len(s)
  PROVE  LET run == ParseRun(SubSeq(s, 1, k)) IN DOMAIN run.stats = {} /\ Recap(run) = {}
<1> DEFINE run == ParseRun(SubSeq(s, 1, k))
<1>1. \A h \in DOMAIN run.stats : \E i \in 1..k : s[i].type = "stats" /\ s[i].host = h
  BY DEF PrefixOK
<1>2. \A i \in 1..k : i \in DOMAIN s
  OBVIOUS
<1> HIDE DEF run
<1>3. DOMAIN run.stats = {}
  BY <1>1, <1>2
<1>4. Recap(run) = {}
  BY <1>3 DEF Recap
<1> QED
  BY <1>3, <1>4 DEF run

\* What the whole run reads as.
LEMMA ReadWhole ==
  ASSUME NEW s \in Seq(TheLines), PrefixOK(s)
  PROVE  /\ ParseRun(s) \in Runs /\ RunInv(ParseRun(s)) /\ ParseRun(s).tasks = Results(s)
         /\ \A h \in DOMAIN ParseRun(s).stats : \E i \in DOMAIN s : s[i].type = "stats" /\ s[i].host = h
<1>1. SubSeq(s, 1, Len(s)) = s /\ Len(s) \in 0..Len(s) /\ DOMAIN s = 1..Len(s)
  OBVIOUS
<1>2. ParseRun(s) \in Runs
  BY LineTypes, ParseAppend
<1> QED
  BY <1>1, <1>2 DEF PrefixOK

\* A result more in the plugin's count of a host.
LEMMA OneMore ==
  ASSUME NEW r \in [ok : Nat, failed : Nat], NEW count \in {"ok", "failed"}
  PROVE  LET more == [r EXCEPT ![count] = @ + 1]
         IN  more \in [ok : Nat, failed : Nat] /\ more.ok + more.failed = r.ok + r.failed + 1
<1> DEFINE more == [r EXCEPT ![count] = @ + 1]
<1>1. r.ok \in Nat /\ r.failed \in Nat /\ DOMAIN r = {"ok", "failed"}
  OBVIOUS
<1>2. /\ more.ok = IF count = "ok" THEN r.ok + 1 ELSE r.ok
      /\ more.failed = IF count = "failed" THEN r.failed + 1 ELSE r.failed
  OBVIOUS
<1>3. more \in [ok : Nat, failed : Nat]
  OBVIOUS
<1> QED
  BY <1>1, <1>2, <1>3

\* The positions of a sequence.
LEMMA SeqDomain ==
  ASSUME NEW S, NEW s \in Seq(S)
  PROVE  DOMAIN s = 1..Len(s) /\ Len(s) \in Nat /\ DOMAIN s \subseteq Nat
OBVIOUS

\* A task ends: no host's line is in the run yet, and the plugin counts it.
LEMMA TaskTold ==
  ASSUME TellInv, TaskEnds
  PROVE  TellInv'
<1> USE DEF TellInv
<1>1. PICK h \in HostNames, status \in {"ok", "failed"}, count \in {"ok", "failed"} :
        tally' = [tally EXCEPT ![h][count] = @ + 1] /\ emit(TaskLine(h, status))
  BY DEF TaskEnds
<1> DEFINE line == TaskLine(h, status)
<1>2. line \in TheLines
  BY LineTypes
<1>3. line.type = "task" /\ line.host = h /\ line.ok = 0 /\ line.failed = 0
  BY DEF TaskLine, Line
<1>4. plugin = "playing" /\ local' = local
  BY DEF TaskEnds
<1>5. /\ tally' \in [HostNames -> [ok : Nat, failed : Nat]]
      /\ tally'[h].ok + tally'[h].failed = tally[h].ok + tally[h].failed + 1
      /\ \A g \in HostNames \ {h} : tally'[g] = tally[g]
  <2>1. tally[h] \in [ok : Nat, failed : Nat] /\ tally[h].ok \in Nat /\ tally[h].failed \in Nat
    OBVIOUS
  <2>2. DOMAIN tally = HostNames /\ DOMAIN tally[h] = {"ok", "failed"}
    BY <2>1
  <2>3. /\ tally' = [g \in HostNames |-> IF g = h THEN [tally[h] EXCEPT ![count] = @ + 1] ELSE tally[g]]
    BY <1>1, <2>2
  <2> DEFINE more == [tally[h] EXCEPT ![count] = @ + 1]
  <2>4. more \in [ok : Nat, failed : Nat] /\ more.ok + more.failed = tally[h].ok + tally[h].failed + 1
    BY <2>1, OneMore
  <2>5. tally'[h] = more /\ \A g \in HostNames \ {h} : tally'[g] = tally[g]
    BY <2>3
  <2> HIDE DEF more
  <2>6. tally' \in [HostNames -> [ok : Nat, failed : Nat]]
    BY <2>3, <2>4 DEF more
  <2> QED
    BY <2>4, <2>5, <2>6
<1> HIDE DEF line
<1>6. CASE ingest = "failed"
  BY <1>1, <1>4, <1>5, <1>6 DEF emit, size
<1>7. CASE ingest # "failed"
  <2>1. lines' = Append(lines, line) /\ plugin' = "playing"
    BY <1>1, <1>4, <1>7 DEF emit, line
  <2>2. \A k \in 0..Len(lines) : LET run == ParseRun(SubSeq(lines, 1, k)) IN DOMAIN run.stats = {} /\ Recap(run) = {}
    BY <1>4, NoneYet
  <2>3. SubSeq(lines, 1, Len(lines)) = lines /\ Len(lines) \in 0..Len(lines)
    OBVIOUS
  <2> DEFINE run == ParseRun(lines)
  <2>4. run \in Runs /\ RunInv(run) /\ DOMAIN run.stats = {}
    BY <2>2, <2>3, ReadWhole
  <2> HIDE DEF run
  <2>5. RunInv(ParseLine(run, line)) /\ DOMAIN ParseLine(run, line).stats = {}
    BY <1>2, <1>3, <2>4, TaskRead
  <2>6. PrefixOK(lines')
    BY <1>2, <2>1, <2>2, <2>5, ReadOn DEF run
  <2>7. Results(lines') = Append(Results(lines), line) /\ Results(lines) \in Seq(TheLines)
    BY <1>2, <1>3, <2>1, ResultsAppend DEF Select
  <2>8. \A g \in HostNames : tally'[g].ok + tally'[g].failed = Count(Results(lines'), g)
    <3> SUFFICES ASSUME NEW g \in HostNames
                 PROVE  tally'[g].ok + tally'[g].failed = Count(Results(lines'), g)
      OBVIOUS
    <3>1. tally[g].ok + tally[g].failed = Count(Results(lines), g)
      BY <1>4
    <3>2. Count(Results(lines'), g) = IF h = g THEN Count(Results(lines), g) + 1 ELSE Count(Results(lines), g)
      BY <1>2, <1>3, <2>7, CountAppend
    <3> QED
      BY <1>5, <3>1, <3>2
  <2>9. /\ lines' \in Seq(TheLines) /\ lines' # <<>> /\ size' = size + 2
        /\ \A i \in DOMAIN lines' : lines'[i].type # "stats"
    <3>1. lines' \in Seq(TheLines) /\ Len(lines') = Len(lines) + 1 /\ lines'[Len(lines) + 1] = line
          /\ \A i \in 1..Len(lines) : lines'[i] = lines[i]
      BY <1>2, <2>1
    <3> QED
      BY <1>3, <1>4, <3>1 DEF size
  <2> QED
    BY <1>4, <1>5, <2>1, <2>6, <2>8, <2>9 DEF size
<1> QED
  BY <1>6, <1>7

\* A host's line is written once, with the counts of the tasks in the run.
LEMMA StatsTold ==
  ASSUME TellInv, EmitStats
  PROVE  TellInv'
<1> USE DEF TellInv
<1> DEFINE h == Hosts[Min(ToRecap)]
           line == StatsLine(h, tally[h].ok, tally[h].failed)
<1>1. plugin = "recap" /\ local' = local /\ tally' = tally /\ emit(line)
  BY DEF EmitStats
<1>2. h \in HostNames /\ line \notin ToSet(lines)
  <2>1. ToRecap \subseteq Nat /\ ToRecap # {}
    <3>1. DOMAIN Hosts \subseteq Nat
      BY HostsAssumption, SeqDomain
    <3>2. ToRecap \subseteq DOMAIN Hosts
      BY DEF ToRecap
    <3>3. ToRecap # {}
      BY DEF EmitStats
    <3> QED
      BY <3>1, <3>2, <3>3
  <2>2. PICK i \in ToRecap : \A j \in ToRecap : i <= j
    BY <2>1, Least
  <2>3. Min(ToRecap) \in ToRecap
    BY <2>2 DEF Min
  <2> QED
    BY <2>3 DEF ToRecap, HostNames, ToSet
<1> HIDE DEF h
<1>3. tally[h].ok \in Nat /\ tally[h].failed \in Nat
  BY <1>2
<1>4. line \in TheLines /\ h # ""
  BY <1>2, <1>3, LineTypes
<1>5. line.type = "stats" /\ line.host = h /\ line.ok = tally[h].ok /\ line.failed = tally[h].failed
  BY DEF StatsLine, Line
<1>6. CASE ingest = "failed"
  BY <1>1, <1>6 DEF emit, size
<1>7. CASE ingest # "failed"
  <2>1. lines' = Append(lines, line) /\ plugin' = "recap"
    BY <1>1, <1>7 DEF emit
  <2> DEFINE run == ParseRun(lines)
  <2>2. /\ run \in Runs /\ RunInv(run) /\ run.tasks = Results(lines)
        /\ \A g \in DOMAIN run.stats : \E i \in DOMAIN lines : lines[i].type = "stats" /\ lines[i].host = g
    BY ReadWhole
  <2> HIDE DEF run
  <2>3. h \notin DOMAIN run.stats
    <3> SUFFICES ASSUME h \in DOMAIN run.stats PROVE FALSE
      OBVIOUS
    <3>1. PICK i \in DOMAIN lines : lines[i].type = "stats" /\ lines[i].host = h
      BY <2>2
    <3>2. lines[i] = line
      BY <1>1, <3>1
    <3> QED
      BY <1>2, <3>2 DEF ToSet
  <2>4. line.ok + line.failed = Count(run.tasks, line.host)
    BY <1>1, <1>2, <1>5, <2>2
  <2> HIDE DEF line
  <2>5. RunInv(ParseLine(run, line)) /\ DOMAIN ParseLine(run, line).stats = DOMAIN run.stats \union {h}
    BY <1>4, <1>5, <2>2, <2>3, <2>4, StatsRead
  <2>6. PrefixOK(lines')
    BY <1>4, <1>5, <2>1, <2>5, ReadOn DEF run
  <2>7. Results(lines') = Results(lines)
    BY <1>4, <1>5, <2>1, ResultsAppend DEF Select
  <2>8. /\ lines' \in Seq(TheLines) /\ lines' # <<>> /\ Len(lines') = Len(lines) + 1 /\ lines'[Len(lines) + 1] = line
        /\ \A i \in 1..Len(lines) : lines'[i] = lines[i]
    <3>1. lines \in Seq(TheLines) /\ line \in TheLines
      BY <1>4
    <3> HIDE DEF TellInv
    <3> QED
      BY <2>1, <3>1
  <2>9. \A i \in DOMAIN lines' : lines'[i].type = "stats" =>
          lines'[i].host \in HostNames
          /\ lines'[i] = StatsLine(lines'[i].host, tally[lines'[i].host].ok, tally[lines'[i].host].failed)
    <3> SUFFICES ASSUME NEW i \in DOMAIN lines', lines'[i].type = "stats"
                 PROVE  lines'[i].host \in HostNames
                        /\ lines'[i] = StatsLine(lines'[i].host, tally[lines'[i].host].ok, tally[lines'[i].host].failed)
      OBVIOUS
    <3>1. CASE i \in 1..Len(lines)
      BY <1>1, <2>8, <3>1
    <3>2. CASE i = Len(lines) + 1
      BY <1>2, <1>5, <2>8, <3>2 DEF line
    <3> QED
      BY <2>8, <3>1, <3>2
  <2> QED
    BY <1>1, <2>1, <2>6, <2>7, <2>8, <2>9 DEF size
<1> QED
  BY <1>6, <1>7

\* A step that adds no line and counts nothing.
LEMMA KeepTold ==
  ASSUME TellInv, lines' = lines, tally' = tally, local' \in Nat, local' <= size,
         plugin' \in {"playing", "recap"} => plugin' = plugin
  PROVE  TellInv'
BY DEF TellInv, size

\* The playbook is through: there is no recap in the run yet.
LEMMA EndTold ==
  ASSUME TellInv, PlaybookEnds
  PROVE  TellInv'
BY DEF TellInv, size, PlaybookEnds, runVars

\* A plugin that dies leaves at most half a line more, which reads as nothing.
LEMMA TornTold ==
  ASSUME TellInv, PluginDies
  PROVE  TellInv'
<1>1. lines \in Seq(TheLines) /\ lines # <<>> /\ PrefixOK(lines) /\ local \in Nat /\ local <= size
      /\ tally \in [HostNames -> [ok : Nat, failed : Nat]]
  BY DEF TellInv
<1>2. plugin' = "gone" /\ tally' = tally /\ local' = local
  BY DEF PluginDies
<1>3. CASE lines' = lines
  BY <1>1, <1>2, <1>3, KeepTold DEF size
<1>4. CASE lines' = Append(lines, Torn)
  <2>1. Torn \in TheLines /\ Torn.type = "torn"
    BY LineTypes DEF Torn, Line
  <2>2. lines' \in Seq(TheLines) /\ lines' # <<>> /\ Len(lines') = Len(lines) + 1 /\ Len(lines) \in Nat
    BY <1>1, <1>4, <2>1
  <2>3. ParseLine(ParseRun(lines), Torn) = ParseRun(lines) /\ RunInv(ParseRun(lines))
    BY <1>1, ReadWhole, TornSame
  <2> HIDE DEF Torn
  <2>4. PrefixOK(lines')
    BY <1>1, <1>4, <2>1, <2>3, ReadOn
  <2> QED
    BY <1>1, <1>2, <2>2, <2>4 DEF TellInv, size
<1> QED
  BY <1>3, <1>4 DEF PluginDies

\* No other process writes the run.
LEMMA TellStep == TellInv /\ [Next]_vars => TellInv'
<1> SUFFICES ASSUME TellInv, [Next]_vars PROVE TellInv'
  OBVIOUS
<1>1. local \in Nat /\ local <= size /\ size \in Nat
  BY DEF TellInv, size
<1>2. CASE TaskEnds BY <1>2, TaskTold
<1>3. CASE PlaybookEnds BY <1>3, EndTold
<1>4. CASE EmitStats BY <1>4, StatsTold
<1>5. CASE CloseIngest BY <1>1, <1>5, KeepTold DEF CloseIngest, runVars
<1>6. CASE PluginReturns BY <1>1, <1>6, KeepTold DEF PluginReturns, runVars
<1>7. CASE PluginDies BY <1>7, TornTold
<1>8. CASE WriteLocal BY <1>1, <1>8, KeepTold DEF WriteLocal, runVars
<1>9. CASE ReadStdin BY <1>1, <1>9, KeepTold DEF ReadStdin, runVars
<1>10. CASE Dial BY <1>1, <1>10, KeepTold DEF Dial, runVars
<1>11. CASE SendChunk BY <1>1, <1>11, KeepTold DEF SendChunk, runVars
<1>12. CASE SendFails BY <1>1, <1>12, KeepTold DEF SendFails, runVars
<1>13. CASE AllSent BY <1>1, <1>13, KeepTold DEF AllSent, runVars
<1>14. CASE ReadReply BY <1>1, <1>14, KeepTold DEF ReadReply, runVars
<1>15. CASE HandlerStep
  BY <1>1, <1>15, KeepTold
  DEF HandlerStep, Open, Header, ReadChunk, WriteFails, EndOfUpload, SyncFile, CloseConn, runVars
<1>16. CASE Killed BY <1>1, <1>16, KeepTold DEF Killed, runVars
<1>17. CASE Stop \/ Die BY <1>1, <1>17, KeepTold DEF Stop, Die, runVars
<1>18. CASE UNCHANGED vars BY <1>1, <1>18, KeepTold DEF vars, runVars
<1> QED
  BY <1>2, <1>3, <1>4, <1>5, <1>6, <1>7, <1>8, <1>9, <1>10, <1>11, <1>12, <1>13, <1>14, <1>15,
     <1>16, <1>17, <1>18
  DEF Next, Plugin, IngestStep

\* A copy of the run reads as some beginning of it.
LEMMA CopyReads ==
  ASSUME NEW s \in Seq(TheLines), PrefixOK(s), NEW n \in Nat, n <= 2 * Len(s)
  PROVE  \E k \in 0..Len(s) :
           ParseRun(SubSeq(s, 1, n \div 2) \o (IF n % 2 = 1 THEN <<Torn>> ELSE <<>>)) = ParseRun(SubSeq(s, 1, k))
<1> DEFINE k == n \div 2
           p == SubSeq(s, 1, k)
<1>1. k \in 0..Len(s)
  <2>1. Len(s) \in Nat
    OBVIOUS
  <2> QED
    BY <2>1, SMTT(30)
<1> HIDE DEF k
<1>2. p \in Seq(TheLines)
  BY <1>1
<1>3. p \o <<>> = p /\ p \o <<Torn>> = Append(p, Torn)
  BY <1>2, LineTypes, AppendIsConcat, ConcatEmptySeq
<1> HIDE DEF p
<1>4. ParseRun(Append(p, Torn)) = ParseRun(p)
  BY <1>2, LineTypes, ParseAppend, TornSame
<1>5. ParseRun(p \o (IF n % 2 = 1 THEN <<Torn>> ELSE <<>>)) = ParseRun(p)
  BY <1>3, <1>4
<1> QED
  BY <1>1, <1>5 DEF k, p

\* What PrefixOK says of a copy.
LEMMA CopyTells ==
  ASSUME NEW s \in Seq(TheLines), PrefixOK(s), NEW n \in Nat, n <= 2 * Len(s)
  PROVE  LET run == ParseRun(SubSeq(s, 1, n \div 2) \o (IF n % 2 = 1 THEN <<Torn>> ELSE <<>>))
             recap == Recap(run)
         IN /\ run.tasks # <<>> \/ recap # {} => run.known
            /\ recap # {} => run.tasks = Results(s)
            /\ \A r \in recap : r.ok + r.failed = Cardinality({i \in DOMAIN run.tasks : run.tasks[i].host = r.host})
            /\ run.totalOK = FoldSet(LAMBDA r, sum : sum + r.ok, 0, recap)
            /\ run.totalFailed = FoldSet(LAMBDA r, sum : sum + r.failed, 0, recap)
<1> DEFINE run == ParseRun(SubSeq(s, 1, n \div 2) \o (IF n % 2 = 1 THEN <<Torn>> ELSE <<>>))
<1>1. PICK k \in 0..Len(s) : run = ParseRun(SubSeq(s, 1, k))
  BY CopyReads
<1>2. /\ RunInv(run)
      /\ k > 0 => run.known
      /\ Recap(run) # {} => run.tasks = Results(s)
  BY <1>1 DEF PrefixOK
<1>3. k = 0 => run = EmptyRun
  <2>1. \A q \in Seq(TheLines) : SubSeq(q, 1, 0) = <<>>
    OBVIOUS
  <2> QED
    BY <1>1, <2>1, ParseEmpty
<1>4. EmptyRun.tasks = <<>> /\ Recap(EmptyRun) = {}
  BY DEF EmptyRun, Recap
<1> HIDE DEF run
<1>5. run.tasks # <<>> \/ Recap(run) # {} => run.known
  BY <1>2, <1>3, <1>4
<1>6. \A r \in Recap(run) : r.ok + r.failed = Cardinality({i \in DOMAIN run.tasks : run.tasks[i].host = r.host})
  <2> SUFFICES ASSUME NEW r \in Recap(run)
               PROVE  r.ok + r.failed = Cardinality({i \in DOMAIN run.tasks : run.tasks[i].host = r.host})
    OBVIOUS
  <2>1. PICK h \in DOMAIN run.stats : r = run.stats[h]
    BY DEF Recap
  <2>2. r.host = h /\ r.ok + r.failed = Count(run.tasks, h)
    BY <1>2, <2>1 DEF RunInv
  <2> QED
    BY <2>2 DEF Count
<1>7. /\ run.totalOK = FoldSet(LAMBDA r, sum : sum + r.ok, 0, Recap(run))
      /\ run.totalFailed = FoldSet(LAMBDA r, sum : sum + r.failed, 0, Recap(run))
  BY <1>2 DEF RunInv, SumOK, SumFailed
<1> QED
  BY <1>2, <1>5, <1>6, <1>7 DEF run

\* What a copy in the store or in the caller's directory reads as.
LEMMA Tells == TellInv /\ file \in Nat /\ file <= size => RecapTellsTheTasks
<1> SUFFICES ASSUME TellInv, file \in Nat, file <= size, NEW n \in {file, local}
             PROVE  LET run == ParseRun(Text(n))
                        recap == Recap(run)
                    IN /\ run.tasks # <<>> \/ recap # {} => run.known
                       /\ recap # {} => run.tasks = Reported
                       /\ \A s \in recap : s.ok + s.failed = Cardinality({i \in DOMAIN run.tasks : run.tasks[i].host = s.host})
                       /\ run.totalOK = FoldSet(LAMBDA s, sum : sum + s.ok, 0, recap)
                       /\ run.totalFailed = FoldSet(LAMBDA s, sum : sum + s.failed, 0, recap)
  BY DEF RecapTellsTheTasks
<1>1. n \in Nat /\ n <= 2 * Len(lines) /\ lines \in Seq(TheLines) /\ PrefixOK(lines)
  BY DEF TellInv, size
<1> QED
  BY <1>1, CopyTells DEF Text, Reported

\* The inductive invariant of the run and of what is read of it.
THEOREM TellInvariance == Spec => []TellInv
BY TellInit, TellStep, PTL DEF Spec

\* Whoever shows the run, from the store or from the caller's own directory,
\* and wherever the copy was cut, shows no recap but below every task that was
\* reported, one that counts exactly those tasks, and `list` shows its sums
\* (ParseRun, Show).
THEOREM RecapTold == Spec => []RecapTellsTheTasks
<1>1. IInv /\ TellInv => RecapTellsTheTasks
  <2> SUFFICES ASSUME IInv, TellInv PROVE RecapTellsTheTasks
    OBVIOUS
  <2>1. file \in Nat /\ file <= size
    BY SizeNat DEF IInv, Types, ChunksInv
  <2> QED
    BY <2>1, Tells
<1> QED
  BY Invariance, TellInvariance, <1>1, PTL
=============================================================================
