----------------------------- MODULE KeyManagement ----------------------------
(***************************************************************************)
(* The at-rest key and what is encrypted with it (internal/daemon/         *)
(* daemon.go: ensureKey, encryptedRecordingsExist, the start of Run), over *)
(* starts, crashes, power losses, full disks, and an operator who loses    *)
(* the key, restores a backup of it and prunes the store.                  *)
(*                                                                         *)
(* Keys are numbered in the order they are generated.  The store is a set  *)
(* of encrypted files: casts, Ansible runs, trace chunks.  The key file    *)
(* and the files are kept as the daemon sees them and as a power loss      *)
(* would leave them; the kernel writes either back when it likes.          *)
(***************************************************************************)
EXTENDS Naturals, FiniteSets

CONSTANTS
  MaxKeys,    \* bound: keys generated
  Kinds       \* of encrypted files the store may get, out of AllKinds

AllKinds == {"cast", "ansible", "span"}

ASSUME MaxKeysAssumption == MaxKeys \in Nat
ASSUME KindsAssumption == Kinds \subseteq AllKinds

Missing == 0               \* no key file
Short == MaxKeys + 1       \* a key file of the wrong size
Keys == 1..MaxKeys
KeyFiles == 0..(MaxKeys + 1)

\* Files of one kind under one key are one: the code tells no more apart.
Files == Kinds \X Keys

VARIABLES
  keyFile,    \* what is at the key path
  keySafe,    \* what a power loss may leave there
  store,      \* the encrypted files in the store
  storeSafe,  \* those a power loss leaves
  minted,     \* how many keys were generated
  backup,     \* the operator's copy of the key, Missing for none
  pc,         \* the daemon: "down", "read", "scan", "create", "write", "up", "refused"
  key         \* the key in its memory, Missing while it has none

fileVars == <<keyFile, keySafe, store, storeSafe>>
vars == <<fileVars, minted, backup, pc, key>>

Init ==
  /\ keyFile = Missing /\ keySafe = Missing
  /\ store = {} /\ storeSafe = {}
  /\ minted = 0
  /\ backup = Missing
  /\ pc = "down"
  /\ key = Missing

Under(f) == f[2]
-----------------------------------------------------------------------------
(* Run up to the listener: ensureKey.                                       *)

Start ==
  /\ pc \in {"down", "refused"}
  /\ pc' = "read"
  /\ UNCHANGED <<fileVars, minted, backup, key>>

\* A key file is used as it is, or refused for its size.
ReadKey_scansFirst ==
  /\ pc = "read"
  /\ pc' = (IF (\E f \in store : f[1] = "cast") THEN "refused" ELSE IF keyFile = Short THEN "refused"
            ELSE IF keyFile = Missing THEN "scan" ELSE "up")
  /\ key' = (IF pc' = "up" THEN keyFile ELSE key)
  /\ UNCHANGED <<fileVars, minted, backup>>
ReadKey ==
  /\ pc = "read"
  /\ \/ keyFile = Missing /\ pc' = "scan" /\ UNCHANGED key
     \/ keyFile = Short /\ pc' = "refused" /\ UNCHANGED key
     \/ keyFile \in Keys /\ pc' = "up" /\ key' = keyFile
  /\ UNCHANGED <<fileVars, minted, backup>>

\* Any other error in reading it.
ReadFails ==
  /\ pc = "read" /\ keyFile # Missing
  /\ pc' = "refused"
  /\ UNCHANGED <<fileVars, minted, backup, key>>

\* encryptedRecordingsExist looks at the casts of every user.
EncryptedRecordingsExist_ofBackup == \E f \in store : f[1] = "cast" /\ Under(f) = backup
EncryptedRecordingsExist == \E f \in store : f[1] = "cast"

Scan ==
  /\ pc = "scan"
  /\ pc' = IF EncryptedRecordingsExist THEN "refused" ELSE "create"
  /\ UNCHANGED <<fileVars, minted, backup, key>>

\* os.WriteFile creates the file, then fills it.
CreateKeyFile ==
  /\ pc = "create" /\ minted < MaxKeys
  /\ minted' = minted + 1
  /\ keyFile' = Short
  /\ pc' = "write"
  /\ UNCHANGED <<keySafe, store, storeSafe, backup, key>>

WriteKey ==
  /\ pc = "write"
  /\ keyFile' = minted
  /\ key' = minted
  /\ pc' = "up"
  /\ UNCHANGED <<keySafe, store, storeSafe, minted, backup>>

\* The disk is full: the file stays as it is.
WriteFails ==
  /\ pc = "write"
  /\ pc' = "refused"
  /\ UNCHANGED <<fileVars, minted, backup, key>>

-----------------------------------------------------------------------------
(* The daemon at work, and how it ends.                                     *)

\* handleRec, handleAnsible, handleSpan and the sweep encrypt with the key in
\* memory.
Encrypt(k) ==
  /\ pc = "up"
  /\ store' = store \union {<<k, key>>}
  /\ UNCHANGED <<keyFile, keySafe, storeSafe, minted, backup, pc, key>>

\* Stopped, killed or crashed, at any point.
Stop ==
  /\ pc \notin {"down", "refused"}
  /\ pc' = "down"
  /\ key' = Missing
  /\ UNCHANGED <<fileVars, minted, backup>>

-----------------------------------------------------------------------------
(* The kernel and the power.                                                *)

WriteBack ==
  /\ \/ keySafe' = keyFile /\ UNCHANGED storeSafe
     \/ \E f \in store : storeSafe' = storeSafe \union {f} /\ UNCHANGED keySafe
  /\ UNCHANGED <<keyFile, store, minted, backup, pc, key>>

\* A key file that was created and not written back may come back empty.
PowerLoss ==
  /\ keyFile' \in {keySafe} \union (IF keyFile \in {keySafe, Missing} THEN {} ELSE {Short})
  /\ keySafe' = keyFile'
  /\ store' = storeSafe
  /\ pc' = "down"
  /\ key' = Missing
  /\ UNCHANGED <<storeSafe, minted, backup>>

-----------------------------------------------------------------------------
(* The operator.                                                            *)

BackUpKey ==
  /\ keyFile \in Keys
  /\ backup' = keyFile
  /\ UNCHANGED <<fileVars, minted, pc, key>>

\* Out of order: the key path on a lost volume, chattr -i and rm.
LoseKey ==
  /\ keyFile # Missing
  /\ keyFile' = Missing /\ keySafe' = Missing
  /\ UNCHANGED <<store, storeSafe, minted, backup, pc, key>>

\* With the daemon refusing to start, the last key is put back from its copy.
RestoreKey ==
  /\ pc = "refused" /\ keyFile \notin Keys
  /\ backup = minted /\ backup # Missing
  /\ keyFile' = backup /\ keySafe' = backup
  /\ UNCHANGED <<store, storeSafe, minted, backup, pc, key>>

\* A key file of the wrong size is moved away.
ClearShortKey ==
  /\ pc = "refused" /\ keyFile = Short
  /\ keyFile' = Missing /\ keySafe' = Missing
  /\ UNCHANGED <<store, storeSafe, minted, backup, pc, key>>

\* ghostshell prune, or rm: recordings may go one by one.
Prune(f) ==
  /\ f \in store
  /\ store' = store \ {f} /\ storeSafe' = storeSafe \ {f}
  /\ UNCHANGED <<keyFile, keySafe, minted, backup, pc, key>>
-----------------------------------------------------------------------------

EnsureKey == ReadKey \/ ReadFails \/ Scan \/ CreateKeyFile \/ WriteKey \/ WriteFails

Next ==
  \/ Start \/ EnsureKey
  \/ \E k \in Kinds : Encrypt(k)
  \/ Stop \/ WriteBack \/ PowerLoss
  \/ BackUpKey \/ LoseKey \/ RestoreKey \/ ClearShortKey
  \/ \E f \in Files : Prune(f)

Spec == Init /\ [][Next]_vars

\* systemd starts the daemon again (Restart=on-failure; Stop stands for its own
\* restarts), and reading and writing the key do not fail each time.
FairSpec ==
  /\ Spec
  /\ WF_vars(Start)
  /\ SF_vars(ReadKey) /\ SF_vars(Scan) /\ SF_vars(CreateKeyFile) /\ SF_vars(WriteKey)
-----------------------------------------------------------------------------
(* What must hold.                                                          *)

TypeOK ==
  /\ keyFile \in KeyFiles /\ keySafe \in KeyFiles
  /\ store \subseteq Files /\ storeSafe \subseteq store
  /\ minted \in 0..MaxKeys
  /\ backup \in KeyFiles \ {Short}
  /\ pc \in {"down", "read", "scan", "create", "write", "up", "refused"}
  /\ key \in Keys \union {Missing}
  /\ key # Missing <=> pc = "up"

\* The casts of the store are always under one key, the last one generated,
\* and a daemon that serves has it: whatever was lost, restored or left half
\* written, no cast that can still be read becomes unreadable by a new key
\* ("a new key would make them permanently unreadable", daemon.go:960).
CastsUnderOneKey ==
  \A f \in store : f[1] = "cast" => Under(f) = minted /\ (pc = "up" => key = Under(f))

\* A key that is there, found or put back, gets the daemon started again,
\* whatever the store holds and however often it had refused.
KeyServes == <>[](keyFile \in Keys) => []<>(pc = "up")
-----------------------------------------------------------------------------
(* What the documentation says and the code does not do; TLC refutes each    *)
(* (README, "Where the code and its documentation part").                    *)

\* "The daemon refuses to start if the key is missing while encrypted
\* recordings exist" (README.md:388), whatever their kind.
RefusesWhileEncryptedExist ==
  [][pc = "scan" /\ pc' = "create" => store = {}]_vars

\* "ensureKey loads the at-rest key, creating it on first run" (daemon.go:958):
\* a disk that was full when the first key was written is not full for ever.
\* (The premise leaves out the runs that use up the bound on keys.)
FirstRunCreatesKey == [](minted < MaxKeys) => <>(pc = "up")
=============================================================================
