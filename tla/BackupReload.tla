---------------------------- MODULE BackupReload ---------------------------
(***************************************************************************)
(* What SIGHUP does: the signal loop of cmd/ghostshell-daemon/main.go,     *)
(* which reopens the log (Logger) and parses the configuration (Config),   *)
(* the reload goroutine of daemon.Run and backupLoop, with the two         *)
(* channels of one place between them.                                     *)
(*                                                                         *)
(* The operator's editor is not atomic: between two steps of it the file   *)
(* holds the first lines of the new text.  logrotate sends SIGHUP as well, *)
(* at any moment, so that an edit may be read before it is finished.       *)
(***************************************************************************)
EXTENDS Config, Logger

CONSTANTS
  Texts,      \* what the operator writes into ghostshell.conf
  Env,        \* the GHOSTSHELL_ variables of the daemon's environment, by key
  MaxEdits    \* bound: edits of the configuration file

ASSUME MaxEditsAssumption == MaxEdits \in Nat
ASSUME EnvAssumption == DOMAIN Env \subseteq Keys
ASSUME TextsAssumption == Texts \subseteq Seq(Lines)

Empty == <<>>     \* no configuration: an empty channel, an idle goroutine
LogLines == {1, 3, 5}   \* levels of the lines that may be logged

VARIABLES
  disk,       \* the lines in the configuration file
  unwritten,  \* those the editor has still to write
  edits,      \* edits begun
  announced,  \* SIGHUP was sent since the file last changed
  sighup,     \* a signal waits in the channel sighup
  hup,        \* where the signal loop is: "wait", "reopen", "parse" or "hand"
  parsed,     \* what it has parsed and is about to hand over
  reload,     \* the channel reload
  applied,    \* the configuration whose cap and log level are in force
  handing,    \* what the reload goroutine is about to hand to backupLoop
  prev,       \* the configuration its prevBackup... variables come from
  updates,    \* the channel backupCfgCh
  cur,        \* backupLoop's cur
  running,    \* backupLoop is in runFn
  missed      \* history: a full channel took nothing, and nothing newer since

fileVars == <<disk, unwritten, edits, announced>>
hupVars == <<sighup, hup, parsed>>
runVars == <<applied, handing, prev>>
backupVars == <<cur, running>>
vars == <<logVars, fileVars, hupVars, reload, runVars, updates, backupVars, missed>>

Init ==
  /\ LogInit
  /\ disk \in Texts /\ unwritten = <<>>
  /\ edits = 0 /\ announced = TRUE
  /\ sighup = FALSE /\ hup = "wait" /\ parsed = Empty
  /\ reload = Empty /\ updates = Empty
  /\ LET cfg == Configured(disk, Env) IN applied = cfg /\ prev = cfg /\ cur = cfg
  /\ handing = Empty
  /\ running = FALSE
  /\ missed = {}

-----------------------------------------------------------------------------
(* The operator, logrotate, and the signal, until main has left Run.        *)

\* The editor truncates the file and writes the new text, not all at once.
Edit ==
  /\ unwritten = <<>> /\ edits < MaxEdits /\ restoring = "no"
  /\ edits' = edits + 1
  /\ announced' = FALSE
  /\ \E text \in Texts : \E k \in 0..Len(text) :
       disk' = SubSeq(text, 1, k) /\ unwritten' = SubSeq(text, k + 1, Len(text))
  /\ UNCHANGED <<logVars, hupVars, reload, runVars, updates, backupVars, missed>>

FinishEdit ==
  /\ unwritten # <<>>
  /\ disk' = disk \o unwritten
  /\ unwritten' = <<>>
  /\ UNCHANGED <<edits, announced, logVars, hupVars, reload, runVars, updates, backupVars, missed>>

\* A second signal is not queued behind one that still waits.
Signalled == sighup' = TRUE /\ announced' = (unwritten = <<>>)
Hup ==
  /\ edits > 0 /\ unwritten = <<>> /\ restoring = "no"
  /\ Signalled
  /\ UNCHANGED <<disk, unwritten, edits, logVars, hup, parsed, reload, runVars, updates, backupVars, missed>>

\* Rotation and its postrotate; the signal of the one before has been served.
LogRotates ==
  /\ ~sighup /\ hup # "reopen" /\ restoring = "no"
  /\ Rotate
  /\ Signalled
  /\ UNCHANGED <<disk, unwritten, edits, hup, parsed, reload, runVars, updates, backupVars, missed>>

-----------------------------------------------------------------------------
(* main's signal loop.                                                      *)

\* A log file that cannot be reopened does not keep the configuration back.
TakeSignal ==
  /\ hup = "wait" /\ sighup
  /\ sighup' = FALSE
  /\ ReopenBegins
  /\ hup' = IF reopening' = "swap" THEN "reopen" ELSE "parse"
  /\ UNCHANGED <<fileVars, parsed, reload, runVars, updates, backupVars, missed>>

ReopenLog ==
  /\ hup = "reopen"
  /\ ReopenSwaps \/ ReopenEnds
  /\ hup' = IF reopening' = "no" THEN "parse" ELSE hup
  /\ UNCHANGED <<fileVars, sighup, parsed, reload, runVars, updates, backupVars, missed>>

Parse ==
  /\ hup = "parse"
  /\ parsed' = Configured(disk, Env)
  /\ hup' = "hand"
  /\ UNCHANGED <<logVars, fileVars, sighup, reload, runVars, updates, backupVars, missed>>

HandOver ==
  /\ hup = "hand"
  /\ IF reload = Empty
     THEN reload' = parsed /\ missed' = missed \ {"reload"}
     ELSE missed' = missed \cup {"reload"} /\ UNCHANGED reload
  /\ parsed' = Empty
  /\ hup' = "wait"
  /\ UNCHANGED <<logVars, fileVars, sighup, runVars, updates, backupVars>>

-----------------------------------------------------------------------------
(* Run's reload goroutine.                                                  *)

BackupOf(cfg) == <<cfg["backup_type"], cfg["backup_target"], cfg["backup_interval_sec"]>>

\* backupConfigChanged, against what was handed over last.
Changed_toInForce(cfg) == BackupOf(cfg) # BackupOf(cur)
Changed(cfg) == BackupOf(cfg) # BackupOf(prev)

\* Log level and cap are set; a change of the backup settings goes on.
ApplyReload ==
  /\ reload # Empty /\ handing = Empty
  /\ applied' = reload
  /\ handing' = IF Changed(reload) THEN reload ELSE Empty
  /\ reload' = Empty
  /\ UNCHANGED <<logVars, fileVars, hupVars, prev, updates, backupVars, missed>>

\* The send gives up on a full channel, and prev moves on either way.
NotifyBackup ==
  /\ handing # Empty
  /\ IF updates = Empty
     THEN updates' = handing /\ missed' = missed \ {"backup"}
     ELSE missed' = missed \cup {"backup"} /\ UNCHANGED updates
  /\ prev' = handing
  /\ handing' = Empty
  /\ UNCHANGED <<logVars, fileVars, hupVars, reload, applied, backupVars>>

-----------------------------------------------------------------------------
(* backupLoop.                                                              *)

ReceiveUpdate ==
  /\ ~running /\ updates # Empty
  /\ cur' = updates
  /\ updates' = Empty
  /\ UNCHANGED <<logVars, fileVars, hupVars, reload, runVars, running, missed>>

\* The ticker of resetTicker fires, if there is one, and the transfer runs in
\* this goroutine.
StartBackup ==
  /\ ~running
  /\ cur["backup_interval_sec"].n > 0 /\ cur["backup_type"] # Nothing
  /\ running' = TRUE
  /\ UNCHANGED <<logVars, fileVars, hupVars, reload, runVars, updates, cur, missed>>

FinishBackup ==
  /\ running
  /\ running' = FALSE
  /\ UNCHANGED <<logVars, fileVars, hupVars, reload, runVars, updates, cur, missed>>

-----------------------------------------------------------------------------

\* Any goroutine logs, and at the end main's deferred closeLog.
LogLine ==
  /\ \E line \in LogLines : Emit(line, applied["log_level"].n)
  /\ UNCHANGED <<fileVars, hupVars, reload, runVars, updates, backupVars, missed>>
CloseLog ==
  /\ RestoreSwaps \/ RestoreEnds
  /\ UNCHANGED <<fileVars, hupVars, reload, runVars, updates, backupVars, missed>>

SignalLoop == TakeSignal \/ ReopenLog \/ Parse \/ HandOver
Reloading == ApplyReload \/ NotifyBackup
Next ==
  \/ Edit \/ FinishEdit \/ Hup \/ LogRotates
  \/ SignalLoop \/ Reloading
  \/ ReceiveUpdate \/ StartBackup \/ FinishBackup
  \/ LogLine \/ CloseLog

Spec == Init /\ [][Next]_vars

\* A transfer may take for ever, and the ticker may always win the select.
FairSpec == Spec /\ WF_vars(SignalLoop) /\ WF_vars(Reloading)
-----------------------------------------------------------------------------
(* What must hold.                                                          *)

TypeOK ==
  /\ {applied, prev, cur} \subseteq [Keys -> Values]
  /\ sighup \in BOOLEAN /\ running \in BOOLEAN /\ announced \in BOOLEAN
  /\ hup \in {"wait", "reopen", "parse", "hand"}
  /\ hup = "reopen" <=> reopening # "no"
  /\ missed \subseteq {"reload", "backup"}

\* No goroutine has anything left to do with an edit.
Settled == ~sighup /\ hup = "wait" /\ reload = Empty /\ handing = Empty /\ updates = Empty

\* Once all is quiet, what the file says that the operator announced, with the
\* environment over it, is in force: the cap and the log level unless the last
\* configuration parsed was dropped, and the backup settings unless a change of
\* them was.  An unfinished edit that logrotate's signal had read, settings
\* changed to and fro, and a log that cannot be reopened make no difference.
AnnouncedInForce ==
  Settled /\ announced /\ "reload" \notin missed =>
    LET cfg == Configured(disk, Env)
    IN /\ applied = cfg
       /\ "backup" \notin missed => BackupOf(cur) = BackupOf(cfg)

\* Whenever a goroutine logs, its line gets into the log file or the one that
\* was rotated away last; and after a rotation's signal has been served lines go
\* to the new file, and the old one is closed (Reopen): no descriptor is lost
\* or closed twice.  A Reopen that fails leaves the old file in use.
LogFollowsRotation ==
  /\ wrote # "lost"
  /\ ~sighup /\ hup # "reopen" /\ restoring = "no" =>
       /\ \A d \in Descriptors : d # tee => fds[d] = Closed
       /\ ~stale => fds[tee] = named

\* Validate (ghostshell --check) warns of a line exactly when there is no
\* configuration that Parse changes by it, whatever the defaults are ("A value
\* that equals an existing default must NOT be reported as invalid",
\* config.go:428), also of a file that is half written.
TakesEffect(line) ==
  /\ line.kind = "setting" /\ line.key \in Keys
  /\ \E v \in {Defaults[line.key], Num(1), Num(2), Value("rel", 1), Value("abs", 1)} :
       LET cfg == [Defaults EXCEPT ![line.key] = v] IN ParseLine(cfg, line) # cfg
WarnsOfIgnored ==
  \A i \in DOMAIN disk : disk[i].kind # "blank" => (i \in Validate(disk) <=> ~TakesEffect(disk[i]))

\* A transfer that takes for ever holds up neither the signals nor the cap and
\* the log level: each signal is taken, and what was parsed is soon applied
\* (the sends to a full channel give up).
CapNotHeldUp == (sighup ~> ~sighup) /\ (reload # Empty ~> reload = Empty)
-----------------------------------------------------------------------------
(* What the documentation says and the code does not do; TLC refutes each    *)
(* (README, "Where the code and its documentation part").                    *)

\* "A reload is already queued; the latest config will be received on next
\* tick." (daemon.go:506): when all is quiet, backups run with the settings
\* of the latest reload.
LatestBackupReceived == Settled => BackupOf(cur) = BackupOf(applied)

\* "so an edited config takes effect without a daemon restart" (setCap): when
\* all is quiet, what the operator announced is in force.
AnnouncedCapInForce == Settled /\ announced => applied = Configured(disk, Env)

\* "LogFile ... Empty disables file logging" (config.go:46): an empty value of a
\* path is ignored.
EmptyDisablesLogging ==
  \A i \in DOMAIN disk :
    disk[i] = Setting("log_file", Nothing) => ParseLine(Defaults, disk[i])["log_file"] = Nothing

\* "whitelist it so Validate never reports it" (config.go:226): it is reported,
\* as a value that is invalid.
PasswordNotReported == \A i \in Validate(disk) : disk[i].key # "playback_password"
=============================================================================
