--------------------------- MODULE MCBackupReload ---------------------------
(* Texts that set what a reload can apply, with lines that are ignored.       *)
EXTENDS BackupReload

MCTexts ==
  { << Setting("session_cap", Num(2)), Setting("session_cap", Num(0)), Other >>,
    << Setting("session_cap", Noted(Num(1))), Setting("backup_type", Value("type", 3)),
       Setting("backup_interval_sec", Num(60)) >>,
    << Setting("backup_type", Nothing), Setting("log_level", Num(3)), Setting("session_capp", Num(1)),
       Setting("log_level", Num(5)) >>,
    << Setting("log_file", Noted(Value("abs", 1))), Setting("backup_target", Value("up", 1)),
       Setting("ansible_output_cap", Num(1)), Setting("playback_password", Value("word", 1)),
       Setting("log_file", Nothing) >> }

\* A variable that is no number, one that wins over the file.
MCEnv == [session_cap |-> Noted(Num(7)), log_level |-> Num(1)]

\* Edits and rotations, up to two between them.
Budget == edits + named <= 2
=============================================================================
