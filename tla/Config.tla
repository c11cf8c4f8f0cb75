------------------------------- MODULE Config -------------------------------
(***************************************************************************)
(* How a configuration is made of a file and the environment               *)
(* (internal/config/config.go): Parse, which skips what it cannot use, and *)
(* Validate, which tells the operator what Parse will skip.                *)
(*                                                                         *)
(* A value is what the code can tell of its text: its form ("num", "frac"  *)
(* of a second, a backup "type", "abs"olute, "rel"ative, "up" with a .. in *)
(* it, "word", "empty"), which one of that form it is (n), and whether     *)
(* something that looks like a comment follows it (note).                  *)
(***************************************************************************)
EXTENDS Integers, SequencesExt

Forms == {"num", "frac", "type", "abs", "rel", "up", "word", "empty"}
Values == [form : Forms, n : Int, note : BOOLEAN]
Value(form, n) == [form |-> form, n |-> n, note |-> FALSE]
Noted(v) == [v EXCEPT !.note = TRUE]
Nothing == Value("empty", 0)
Num(n) == Value("num", n)

MiB == 1048576
sessionCapMax == 100000
backupIntervalSecMax == 365 * 24 * 60 * 60
\* setInt's bounds, and setIntClampLow's, which lifts what is below the floor.
Bounds ==
  [ansible_output_cap |-> 1..(64 * MiB), scroll_buffer |-> 4096..(64 * MiB),
   log_level |-> 0..5, session_cap |-> 1..sessionCapMax, backup_interval_sec |-> 0..backupIntervalSecMax]
Floor == 256

Paths == {"socket_path", "central_dir", "log_file"}
PathKeys == Paths \cup {"key_file", "backup_target"}
Keys == PathKeys \cup DOMAIN Bounds \cup {"dial_timeout_sec", "eof_grace_ms", "backup_type"}
KnownKeys == Keys \cup {"playback_password"}

Defaults ==
  [socket_path |-> Value("abs", 0), central_dir |-> Value("abs", 0), log_file |-> Value("abs", 0),
   key_file |-> Nothing, backup_type |-> Nothing, backup_target |-> Nothing,
   backup_interval_sec |-> Num(0), ansible_output_cap |-> Num(8192), scroll_buffer |-> Num(32768),
   log_level |-> Num(3), session_cap |-> Num(10), dial_timeout_sec |-> Num(1), eof_grace_ms |-> Num(500)]

\* A configuration that differs from the defaults in every field.
Sentinel ==
  [socket_path |-> Value("abs", 99), central_dir |-> Value("abs", 99), log_file |-> Value("abs", 99),
   key_file |-> Value("rel", 99), backup_type |-> Value("type", 3), backup_target |-> Value("rel", 99),
   backup_interval_sec |-> Num(backupIntervalSecMax), ansible_output_cap |-> Num(64 * MiB),
   scroll_buffer |-> Num(64 * MiB), log_level |-> Num(5), session_cap |-> Num(sessionCapMax),
   dial_timeout_sec |-> Num(123), eof_grace_ms |-> Num(123)]

\* stripInlineComment finds a # behind a blank: paths keep theirs, and a value
\* that is nothing but a comment has lost its blank.
StripInlineComment(k, v) == IF k \in PathKeys \/ v.form = "empty" THEN v ELSE [v EXCEPT !.note = FALSE]
IsEmpty(v) == v = Nothing

\* Whether the set function of a key takes the value.
Takes(k, v) ==
  \/ k \in Paths /\ v.form = "abs"
  \/ k = "key_file" /\ v.form # "up"
  \/ k = "backup_target" /\ v.form # "up" /\ ~IsEmpty(v)
  \/ k \in DOMAIN Bounds /\ v.form = "num" /\ ~v.note /\ v.n \in Bounds[k]
  \/ k = "dial_timeout_sec" /\ v.form \in {"num", "frac"} /\ ~v.note /\ v.n > 0
  \/ k = "eof_grace_ms" /\ v.form = "num" /\ ~v.note /\ v.n >= 0
  \/ k = "backup_type" /\ (IsEmpty(v) \/ (v.form = "type" /\ ~v.note))

Stored(k, v) == IF k = "ansible_output_cap" /\ v.n < Floor THEN Num(Floor) ELSE v
ApplyKey(cfg, k, v) == IF k \in Keys /\ Takes(k, v) THEN [cfg EXCEPT ![k] = Stored(k, v)] ELSE cfg

-----------------------------------------------------------------------------
(* A file is a sequence of lines: settings, blank lines and comments, and   *)
(* "other" lines without a "=".                                             *)

Lines == [kind : {"setting", "blank", "other"}, key : STRING, value : Values]
Setting(k, v) == [kind |-> "setting", key |-> k, value |-> v]
Blank == [kind |-> "blank", key |-> "", value |-> Nothing]
Other == [kind |-> "other", key |-> "", value |-> Nothing]

ParseLine(cfg, line) ==
  IF line.kind = "setting" THEN ApplyKey(cfg, line.key, StripInlineComment(line.key, line.value)) ELSE cfg
ParseFile(text) == FoldLeft(ParseLine, Defaults, text)

\* applyEnv: the variables that are set, comments and all; an empty one counts
\* only for the backup type.
ApplyEnv(cfg, env) ==
  [k \in Keys |-> IF k \in DOMAIN env /\ (k = "backup_type" \/ ~IsEmpty(env[k]))
                  THEN ApplyKey(cfg, k, env[k])[k] ELSE cfg[k]]
Configured(text, env) == ApplyEnv(ParseFile(text), env)

-----------------------------------------------------------------------------
(* Validate.                                                                *)

\* Mutant: only the defaults are probed.
Rejected_oneProbe(k, v) == ApplyKey(Defaults, k, v) = Defaults
\* A value is rejected when it leaves both of two different configurations as
\* they are.
Rejected(k, v) == ApplyKey(Defaults, k, v) = Defaults /\ ApplyKey(Sentinel, k, v) = Sentinel

Warned(line) ==
  \/ line.kind = "other"
  \/ /\ line.kind = "setting"
     /\ \/ line.key \notin KnownKeys
        \/ Rejected(line.key, StripInlineComment(line.key, line.value))
Validate(text) == {i \in DOMAIN text : Warned(text[i])}
=============================================================================
