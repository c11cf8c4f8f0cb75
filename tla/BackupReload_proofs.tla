------------------------ MODULE BackupReload_proofs ------------------------
(***************************************************************************)
(* What SIGHUP does, for any texts of the file and any number of edits,    *)
(* signals and rotations: lines go to the log file, what was announced is  *)
(* in force, and --check warns of what is ignored.                         *)
(*                                                                         *)
(* The invariant follows the two things a signal sets going.  The log: who *)
(* owns which descriptor, and which file the teed one is of.  The          *)
(* configuration: where in the pipeline of two channels the latest one is, *)
(* in front of every older one.                                            *)
(***************************************************************************)
EXTENDS BackupReload, TLAPS

\* The log: its descriptors, each with one owner.
Slot == Descriptors \cup {None}
Held == {tee, opened, old.reopen, old.restore} \ {None}
LogInv ==
  /\ named \in Nat /\ stale \in BOOLEAN
  /\ fds \in [Descriptors -> Int]
  /\ tee \in Slot /\ opened \in Slot /\ old \in [reopen : Slot, restore : Slot]
  /\ reopening \in {"no", "swap", "close"} /\ restoring \in {"no", "close", "done"}
  /\ reopening = "swap" <=> opened # None
  /\ reopening # "close" => old.reopen = None
  /\ restoring # "close" => old.restore = None
  /\ restoring = "no" => tee # None
OneOwner ==
  /\ \A d \in Descriptors : fds[d] # Closed <=> d \in Held
  /\ tee # None => tee \notin {opened, old.reopen, old.restore}
  /\ opened # None => opened \notin {old.reopen, old.restore}
  /\ old.reopen # None => old.reopen # old.restore

\* The file lines are teed to is one rotation behind at most, and not even that
\* once the rotation's signal has been served.
TeeInv ==
  /\ wrote # "lost"
  /\ opened # None => fds[opened] = named
  /\ tee # None /\ ~stale => fds[tee] + 1 >= named
  /\ tee # None /\ ~stale /\ ~sighup /\ reopening # "swap" => fds[tee] = named
  /\ hup = "reopen" <=> reopening # "no"
  /\ sighup \in BOOLEAN

\* The lines of the file: what the editor has written and has still to write.
TextInv == disk \in Seq(Lines) /\ unwritten \in Seq(Lines)

\* Where what the operator announced is, while no signal waits.
ChanInv ==
  /\ announced \in BOOLEAN
  /\ unwritten # <<>> => ~announced
  /\ hup \in {"wait", "reopen", "parse", "hand"}
  /\ hup = "hand" => parsed # Empty
  /\ announced /\ ~sighup =>
       /\ hup = "hand" => parsed = Configured(disk, Env)
       /\ hup = "wait" /\ "reload" \notin missed =>
            (IF reload = Empty THEN applied ELSE reload) = Configured(disk, Env)

\* Where the backup settings of the applied configuration are.
BackupInv ==
  /\ BackupOf(IF handing = Empty THEN prev ELSE handing) = BackupOf(applied)
  /\ "backup" \notin missed =>
       BackupOf(IF updates = Empty THEN cur ELSE updates) = BackupOf(prev)

IInv == LogInv /\ OneOwner /\ TeeInv /\ TextInv /\ ChanInv /\ BackupInv
-----------------------------------------------------------------------------
(* The log.                                                                 *)

LEMMA FreeDescriptor ==
  ASSUME LogInv, OneOwner, reopening = "no"
  PROVE  LowestFree \in Free
<1>1. Free # {}
  BY DEF LogInv, OneOwner, Free, Held, Slot, Descriptors, None, Closed
<1>2. \A e \in Free : e \in 1..3
  BY DEF Free, Descriptors
<1>3. \E d \in Free : \A e \in Free : d <= e
  <2>1. CASE 1 \in Free
    BY <1>2, <2>1
  <2>2. CASE 1 \notin Free /\ 2 \in Free
    <3>1. \A e \in Free : 2 <= e
      BY <1>2, <2>2
    <3> QED
      BY <2>2, <3>1
  <2>3. CASE 1 \notin Free /\ 2 \notin Free
    <3>1. \A e \in Free : e = 3
      BY <1>2, <2>3
    <3> QED
      BY <1>1, <3>1
  <2> QED
    BY <2>1, <2>2, <2>3
<1> QED
  BY <1>3 DEF LowestFree

LEMMA LogStep ==
  ASSUME IInv, [Next]_vars
  PROVE  (LogInv /\ OneOwner /\ TeeInv)'
<1> USE DEF IInv, LogInv, OneOwner, TeeInv, Held, Slot, Descriptors, None, Closed
<1>1. CASE Edit BY <1>1 DEF Edit, logVars, hupVars
<1>2. CASE FinishEdit BY <1>2 DEF FinishEdit, logVars, hupVars
<1>3. CASE Hup BY <1>3 DEF Hup, Signalled, logVars, hupVars
<1>4. CASE LogRotates BY <1>4 DEF LogRotates, Rotate, Signalled
<1>5. CASE TakeSignal
  <2> DEFINE d0 == LowestFree
  <2>1. d0 \in 1..3 /\ fds[d0] = -1
    BY <1>5, FreeDescriptor DEF TakeSignal, Free
  <2> HIDE DEF d0
  <2>2. CASE opened' = d0 /\ fds' = [fds EXCEPT ![d0] = named] /\ reopening' = "swap" /\ UNCHANGED stale
    <3>1. /\ reopening = "no" /\ opened = 0 /\ old.reopen = 0 /\ d0 \notin Held /\ d0 # 0
          /\ UNCHANGED <<named, tee, old, restoring, wrote>>
          /\ hup' = "reopen" /\ sighup' = FALSE
      BY <1>5, <2>1, <2>2 DEF TakeSignal, ReopenBegins
    <3>2. Held' = Held \cup {d0}
      BY <2>2, <3>1
    <3>3. OneOwner'
      BY <2>1, <2>2, <3>1, <3>2
    <3>4. LogInv'
      BY <2>1, <2>2, <3>1
    <3>5. TeeInv'
      <4>1. fds'[d0] = named /\ (tee # 0 => fds'[tee] = fds[tee])
        BY <2>1, <2>2, <3>1
      <4> QED
        BY <2>2, <3>1, <4>1
    <3> QED
      BY <3>3, <3>4, <3>5
  <2>3. CASE stale' = TRUE /\ UNCHANGED <<fds, opened, reopening>>
    BY <1>5, <2>3 DEF TakeSignal, ReopenBegins
  <2> QED
    BY <1>5, <2>2, <2>3 DEF TakeSignal, ReopenBegins, d0
<1>6. CASE ReopenLog
  <2>1. CASE ReopenSwaps
    <3>1. old' = [reopen |-> tee, restore |-> old.restore]
      BY <2>1 DEF ReopenSwaps
    <3>2. /\ opened # 0 /\ old.reopen = 0 /\ tee' = opened /\ opened' = 0 /\ reopening' = "close"
          /\ stale' = FALSE /\ UNCHANGED <<named, fds, restoring, wrote, sighup>> /\ hup' = "reopen"
      BY <1>6, <2>1 DEF ReopenLog, ReopenSwaps
    <3>3. Held' = Held
      BY <3>1, <3>2
    <3>4. OneOwner'
      BY <3>1, <3>2, <3>3
    <3>5. LogInv'
      <4>1. old.restore \in 1..3 \cup {0} /\ tee \in 1..3 \cup {0}
        OBVIOUS
      <4>2. old' \in [reopen : 1..3 \cup {0}, restore : 1..3 \cup {0}] /\ old'.restore = old.restore
        BY <3>1, <4>1
      <4> QED
        BY <3>2, <4>2
    <3>6. TeeInv'
      BY <3>1, <3>2
    <3> QED
      BY <3>4, <3>5, <3>6
  <2>2. CASE ReopenEnds
    BY <1>6, <2>2 DEF ReopenLog, ReopenEnds
  <2> QED
    BY <1>6, <2>1, <2>2 DEF ReopenLog
<1>7. CASE Parse BY <1>7 DEF Parse, logVars
<1>8. CASE HandOver BY <1>8 DEF HandOver, logVars
<1>9. CASE Reloading \/ ReceiveUpdate \/ StartBackup \/ FinishBackup
  BY <1>9 DEF Reloading, ApplyReload, NotifyBackup, ReceiveUpdate, StartBackup, FinishBackup, logVars, hupVars
<1>10. CASE LogLine BY <1>10 DEF LogLine, Emit, hupVars
<1>11. CASE CloseLog BY <1>11 DEF CloseLog, RestoreSwaps, RestoreEnds, hupVars
<1>12. CASE UNCHANGED vars BY <1>12 DEF vars, logVars, hupVars
<1> QED
  BY <1>1, <1>2, <1>3, <1>4, <1>5, <1>6, <1>7, <1>8, <1>9, <1>10, <1>11, <1>12 DEF Next, SignalLoop
-----------------------------------------------------------------------------
(* The configuration on its way.                                            *)

LEMMA ConfiguredIsSome == ASSUME NEW text PROVE Configured(text, Env) # Empty
<1>1. DOMAIN Configured(text, Env) = Keys
  BY DEF Configured, ApplyEnv
<1>2. "log_file" \in Keys
  BY DEF Keys, PathKeys, Paths
<1>3. DOMAIN Empty = {}
  BY DEF Empty
<1> QED
  BY <1>1, <1>2, <1>3

LEMMA TextStep == ASSUME IInv, [Next]_vars PROVE TextInv'
<1> USE DEF IInv, TextInv
<1>1. CASE Edit
  <2>1. PICK text \in Texts : \E k \in 0..Len(text) :
          disk' = SubSeq(text, 1, k) /\ unwritten' = SubSeq(text, k + 1, Len(text))
    BY <1>1 DEF Edit
  <2>2. text \in Seq(Lines)
    BY TextsAssumption
  <2> QED
    BY <2>1, <2>2
<1>2. CASE FinishEdit BY <1>2 DEF FinishEdit
<1>3. CASE Hup \/ LogRotates \/ SignalLoop \/ LogLine \/ CloseLog
  BY <1>3 DEF Hup, LogRotates, SignalLoop, TakeSignal, ReopenLog, Parse, HandOver, LogLine, CloseLog, fileVars
<1>4. CASE Reloading \/ ReceiveUpdate \/ StartBackup \/ FinishBackup
  BY <1>4 DEF Reloading, ApplyReload, NotifyBackup, ReceiveUpdate, StartBackup, FinishBackup, fileVars
<1>5. CASE UNCHANGED vars BY <1>5 DEF vars, fileVars
<1> QED
  BY <1>1, <1>2, <1>3, <1>4, <1>5 DEF Next

LEMMA ChanStep == ASSUME IInv, [Next]_vars PROVE ChanInv'
<1> DEFINE C(text) == Configured(text, Env)
<1>0. \A text : C(text) # Empty
  BY ConfiguredIsSome
<1> HIDE DEF C
<1>a. ChanInv <=>
        /\ announced \in BOOLEAN
        /\ unwritten # <<>> => ~announced
        /\ hup \in {"wait", "reopen", "parse", "hand"}
        /\ hup = "hand" => parsed # Empty
        /\ announced /\ ~sighup =>
             /\ hup = "hand" => parsed = C(disk)
             /\ hup = "wait" /\ "reload" \notin missed =>
                  (IF reload = Empty THEN applied ELSE reload) = C(disk)
  BY DEF ChanInv, C
<1>b. ChanInv' <=>
        /\ announced' \in BOOLEAN
        /\ unwritten' # <<>> => ~announced'
        /\ hup' \in {"wait", "reopen", "parse", "hand"}
        /\ hup' = "hand" => parsed' # Empty
        /\ announced' /\ ~sighup' =>
             /\ hup' = "hand" => parsed' = C(disk')
             /\ hup' = "wait" /\ "reload" \notin missed' =>
                  (IF reload' = Empty THEN applied' ELSE reload') = C(disk')
  BY DEF ChanInv, C
<1> USE <1>a, <1>b DEF IInv, hupVars, fileVars, runVars
<1>1. CASE Edit BY <1>1 DEF Edit
<1>2. CASE FinishEdit BY <1>2 DEF FinishEdit
<1>3. CASE Hup BY <1>3 DEF Hup, Signalled
<1>4. CASE LogRotates BY <1>4 DEF LogRotates, Signalled
<1>5. CASE TakeSignal BY <1>5 DEF TakeSignal
<1>6. CASE ReopenLog BY <1>6 DEF ReopenLog
<1>7. CASE Parse BY <1>7, <1>0 DEF Parse, C
<1>8. CASE HandOver BY <1>8 DEF HandOver
<1>9. CASE ApplyReload BY <1>9 DEF ApplyReload
<1>10. CASE NotifyBackup BY <1>10 DEF NotifyBackup
<1>11. CASE ReceiveUpdate \/ StartBackup \/ FinishBackup
  BY <1>11 DEF ReceiveUpdate, StartBackup, FinishBackup
<1>12. CASE LogLine BY <1>12 DEF LogLine
<1>13. CASE CloseLog BY <1>13 DEF CloseLog
<1>14. CASE UNCHANGED vars BY <1>14 DEF vars
<1> QED
  BY <1>1, <1>2, <1>3, <1>4, <1>5, <1>6, <1>7, <1>8, <1>9, <1>10, <1>11, <1>12, <1>13, <1>14
  DEF Next, SignalLoop, Reloading

LEMMA BackupStep == ASSUME IInv, [Next]_vars PROVE BackupInv'
<1> USE DEF IInv, BackupInv, runVars, backupVars
<1>1. CASE Edit \/ FinishEdit \/ Hup \/ LogRotates
  BY <1>1 DEF Edit, FinishEdit, Hup, LogRotates
<1>2. CASE TakeSignal \/ ReopenLog \/ Parse
  BY <1>2 DEF TakeSignal, ReopenLog, Parse
<1>3. CASE HandOver BY <1>3 DEF HandOver
<1>4. CASE ApplyReload BY <1>4 DEF ApplyReload, Changed
<1>5. CASE NotifyBackup BY <1>5 DEF NotifyBackup
<1>6. CASE ReceiveUpdate BY <1>6 DEF ReceiveUpdate
<1>7. CASE StartBackup \/ FinishBackup BY <1>7 DEF StartBackup, FinishBackup
<1>8. CASE LogLine \/ CloseLog BY <1>8 DEF LogLine, CloseLog
<1>9. CASE UNCHANGED vars BY <1>9 DEF vars
<1> QED
  BY <1>1, <1>2, <1>3, <1>4, <1>5, <1>6, <1>7, <1>8, <1>9 DEF Next, SignalLoop, Reloading
-----------------------------------------------------------------------------
LEMMA InitInv == Init => IInv
<1> SUFFICES ASSUME Init PROVE IInv
  OBVIOUS
<1>0. /\ fds \in [1..3 -> Int] /\ fds[1] = 0 /\ fds[2] = -1 /\ fds[3] = -1
      /\ named = 0 /\ wrote = "kept" /\ tee = 1 /\ opened = 0
      /\ old = [reopen |-> 0, restore |-> 0] /\ old.reopen = 0 /\ old.restore = 0
      /\ reopening = "no" /\ restoring = "no" /\ stale = FALSE /\ hup = "wait" /\ sighup = FALSE
  BY DEF Init, LogInit, Descriptors, None, Closed
<1>1. LogInv /\ OneOwner
  <2>1. Held = {1}
    BY <1>0 DEF Held, None
  <2>2. LogInv
    <3> HIDE DEF Slot
    <3>a. 0 \in Slot /\ 1 \in Slot
      BY DEF Slot, Descriptors, None
    <3>1. /\ named \in Nat /\ stale \in BOOLEAN /\ tee \in Slot /\ opened \in Slot
          /\ old \in [reopen : Slot, restore : Slot]
      BY <1>0, <3>a
    <3> QED
      BY <1>0, <3>1 DEF LogInv, Descriptors, None
  <2>3. OneOwner
    BY <1>0, <2>1 DEF OneOwner, Descriptors, None, Closed
  <2> QED
    BY <2>2, <2>3
<1>2. TeeInv
  <2>1. fds[tee] + 1 >= named /\ fds[tee] = named
    BY <1>0
  <2>2. sighup \in BOOLEAN /\ wrote # "lost" /\ reopening = "no" /\ hup # "reopen" /\ opened = None
    BY <1>0 DEF None
  <2> QED
    BY <2>1, <2>2 DEF TeeInv
<1>3. TextInv
  BY TextsAssumption DEF Init, TextInv
<1>4. ChanInv
  BY DEF Init, ChanInv
<1>5. BackupInv
  BY DEF Init, BackupInv
<1> QED
  BY <1>1, <1>2, <1>3, <1>4, <1>5 DEF IInv

\* The inductive invariant: each descriptor has one owner, and the latest
\* configuration is in front of every older one.
THEOREM Invariance == Spec => []IInv
<1>1. IInv /\ [Next]_vars => IInv'
  BY LogStep, TextStep, ChanStep, BackupStep DEF IInv
<1> QED
  BY InitInv, <1>1, PTL DEF Spec

\* However often the log is rotated, a line gets into the file of the log's name
\* or the one before it, and no descriptor is lost (logger.Reopen).
THEOREM LogFollows == Spec => []LogFollowsRotation
<1>1. IInv => LogFollowsRotation
  BY DEF IInv, LogInv, OneOwner, TeeInv, Held, Slot, LogFollowsRotation, Descriptors, None, Closed
<1> QED
  BY Invariance, <1>1, PTL

\* Whatever was edited, signalled and dropped before, once all is quiet what was
\* announced is in force (main's signal loop, Run's reload goroutine,
\* backupLoop).
THEOREM InForce == Spec => []AnnouncedInForce
<1>1. IInv => AnnouncedInForce
  BY DEF IInv, ChanInv, BackupInv, AnnouncedInForce, Settled
<1> QED
  BY Invariance, <1>1, PTL
-----------------------------------------------------------------------------
(* Validate.                                                                *)

LEMMA AllKeys ==
  Keys = {"socket_path", "central_dir", "log_file", "key_file", "backup_target", "ansible_output_cap",
          "scroll_buffer", "log_level", "session_cap", "backup_interval_sec", "dial_timeout_sec",
          "eof_grace_ms", "backup_type"}
<1>1. DOMAIN Bounds = {"ansible_output_cap", "scroll_buffer", "log_level", "session_cap", "backup_interval_sec"}
  BY DEF Bounds
<1> QED
  BY <1>1 DEF Keys, PathKeys, Paths

\* No field of the sentinel has its default.
LEMMA SentinelDiffers ==
  /\ DOMAIN Defaults = Keys /\ DOMAIN Sentinel = Keys
  /\ \A k \in Keys : Defaults[k] # Sentinel[k]
<1> USE DEF Defaults, Sentinel
<1>1. DOMAIN Defaults = Keys /\ DOMAIN Sentinel = Keys
  BY AllKeys
<1>2. \A form1, form2 : \A n1, n2 : form1 # form2 \/ n1 # n2 => Value(form1, n1) # Value(form2, n2)
  BY DEF Value
<1> HIDE DEF Value
<1>3. /\ Defaults.socket_path # Sentinel.socket_path /\ Defaults.central_dir # Sentinel.central_dir
      /\ Defaults.log_file # Sentinel.log_file /\ Defaults.key_file # Sentinel.key_file
      /\ Defaults.backup_target # Sentinel.backup_target /\ Defaults.backup_type # Sentinel.backup_type
  BY <1>2 DEF Nothing
<1>4. /\ Defaults.ansible_output_cap # Sentinel.ansible_output_cap
      /\ Defaults.scroll_buffer # Sentinel.scroll_buffer
      /\ Defaults.log_level # Sentinel.log_level /\ Defaults.session_cap # Sentinel.session_cap
      /\ Defaults.backup_interval_sec # Sentinel.backup_interval_sec
  BY <1>2 DEF Num, MiB, sessionCapMax, backupIntervalSecMax
<1>5. /\ Defaults.dial_timeout_sec # Sentinel.dial_timeout_sec
      /\ Defaults.eof_grace_ms # Sentinel.eof_grace_ms
  BY <1>2 DEF Num
<1> HIDE DEF Defaults, Sentinel
<1>6. \A k \in Keys : Defaults[k] # Sentinel[k]
  BY <1>3, <1>4, <1>5, AllKeys
<1> QED
  BY <1>1, <1>6

LEMMA WarnsLine ==
  ASSUME NEW line \in Lines, line.kind # "blank"
  PROVE  Warned(line) <=> ~TakesEffect(line)
<1>1. CASE line.kind = "other"
  BY <1>1 DEF Warned, TakesEffect
<1>2. CASE line.kind = "setting" /\ line.key \notin Keys
  BY <1>2 DEF Warned, TakesEffect, Rejected, ApplyKey
<1>3. CASE line.kind = "setting" /\ line.key \in Keys
  <2> DEFINE k == line.key
             v == StripInlineComment(k, line.value)
             sv == Stored(k, v)
  <2>1. \A cfg : ParseLine(cfg, line) = IF Takes(k, v) THEN [cfg EXCEPT ![k] = sv] ELSE cfg
    BY <1>3 DEF ParseLine, ApplyKey
  <2>2. Rejected(k, v) <=> (Takes(k, v) => Defaults[k] = sv /\ Sentinel[k] = sv)
    BY <1>3, SentinelDiffers DEF Rejected, ApplyKey
  <2>3. Warned(line) <=> Rejected(k, v)
    BY <1>3 DEF Warned, KnownKeys
  <2> DEFINE Probe(w) == [Defaults EXCEPT ![k] = w]
             Probes == {Defaults[k], Num(1), Num(2), Value("rel", 1), Value("abs", 1)}
  <2>a. TakesEffect(line) <=> \E w \in Probes : ParseLine(Probe(w), line) # Probe(w)
    BY <1>3 DEF TakesEffect
  <2>b. \A w : DOMAIN Probe(w) = Keys /\ Probe(w)[k] = w /\ [Probe(w) EXCEPT ![k] = sv][k] = sv
    BY <1>3, SentinelDiffers
  <2> HIDE DEF v, sv, Probe
  <2>4. CASE Takes(k, v)
    <3>1. ~Warned(line)
      BY <1>3, <2>2, <2>3, <2>4, SentinelDiffers
    <3>2. Num(1) # Num(2)
      BY DEF Num, Value
    <3>3. PICK w \in Probes : w # sv
      BY <3>2
    <3>4. ParseLine(Probe(w), line) # Probe(w)
      BY <2>1, <2>4, <2>b, <3>3
    <3> QED
      BY <2>a, <3>1, <3>3, <3>4
  <2>5. CASE ~Takes(k, v)
    <3>1. Warned(line)
      BY <2>2, <2>3, <2>5
    <3>2. \A w : ParseLine(Probe(w), line) = Probe(w)
      BY <2>1, <2>5
    <3> QED
      BY <2>a, <3>1, <3>2
  <2> QED
    BY <2>4, <2>5
<1> QED
  BY <1>1, <1>2, <1>3 DEF Lines

\* --check warns of the lines Parse ignores and of no others, whatever text the
\* operator has written and however much of it is there (config.Validate).
THEOREM Warns == Spec => []WarnsOfIgnored
<1>1. IInv => WarnsOfIgnored
  <2> SUFFICES ASSUME IInv, NEW i \in DOMAIN disk, disk[i].kind # "blank"
               PROVE  i \in Validate(disk) <=> ~TakesEffect(disk[i])
    BY DEF WarnsOfIgnored
  <2>1. disk[i] \in Lines
    BY DEF IInv, TextInv
  <2> QED
    BY <2>1, WarnsLine DEF Validate
<1> QED
  BY Invariance, <1>1, PTL
=============================================================================
