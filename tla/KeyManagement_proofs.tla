------------------------ MODULE KeyManagement_proofs ------------------------
(***************************************************************************)
(* Casts are under one key, for any number of keys and any kinds of files. *)
(*                                                                         *)
(* CastsUnderOneKey is not inductive: that a new key is made only when     *)
(* there is no cast rests on where ensureKey stands, and that an old key   *)
(* never comes back on what a power loss can leave at the key's path.      *)
(***************************************************************************)
EXTENDS KeyManagement, TLAPS

Casts == {f \in store : f[1] = "cast"}

\* At the key's path, and where a power loss may put it back, is the key that
\* was generated last or none; what is not there is not there after a power
\* loss either.
PathInv ==
  /\ keyFile \in Keys => keyFile = minted
  /\ keySafe \in Keys => keySafe = minted
  /\ keyFile = Missing => keySafe = Missing

\* ensureKey goes on to a new key without a key file and without a cast.
CreateInv ==
  /\ pc \in {"scan", "create"} => keyFile = Missing
  /\ pc \in {"create", "write"} => Casts = {}
  /\ pc = "write" => minted \in Keys

IInv == TypeOK /\ PathInv /\ CreateInv /\ (pc = "up" => key = minted) /\ CastsUnderOneKey
-----------------------------------------------------------------------------
LEMMA KeyNumbers ==
  /\ Missing \notin Keys /\ Short \notin Keys /\ Missing # Short
  /\ KeyFiles = Keys \union {Missing, Short}
  /\ \A n \in 0..MaxKeys : n < MaxKeys => n + 1 \in Keys
BY MaxKeysAssumption DEF Missing, Short, Keys, KeyFiles

LEMMA InitInv == Init => IInv
BY MaxKeysAssumption, KeyNumbers
   DEF Init, IInv, TypeOK, PathInv, CreateInv, CastsUnderOneKey, Casts, Missing

\* The types.
LEMMA TypeStep == IInv /\ [Next]_vars => TypeOK'
<1> SUFFICES ASSUME IInv, [Next]_vars PROVE TypeOK'
  OBVIOUS
<1> USE MaxKeysAssumption, KeyNumbers DEF IInv, TypeOK, PathInv, CreateInv, fileVars
<1>1. CASE Start BY <1>1 DEF Start
<1>2. CASE ReadKey BY <1>2 DEF ReadKey
<1>3. CASE ReadFails BY <1>3 DEF ReadFails
<1>4. CASE Scan BY <1>4 DEF Scan
<1>5. CASE CreateKeyFile BY <1>5 DEF CreateKeyFile
<1>6. CASE WriteKey BY <1>6 DEF WriteKey
<1>7. CASE WriteFails BY <1>7 DEF WriteFails
<1>8. ASSUME NEW k \in Kinds, Encrypt(k) PROVE TypeOK'
  BY <1>8 DEF Encrypt, Files
<1>9. CASE Stop BY <1>9 DEF Stop
<1>10. CASE WriteBack BY <1>10 DEF WriteBack
<1>11. CASE PowerLoss BY <1>11 DEF PowerLoss
<1>12. CASE BackUpKey BY <1>12 DEF BackUpKey
<1>13. CASE LoseKey BY <1>13 DEF LoseKey
<1>14. CASE RestoreKey BY <1>14 DEF RestoreKey
<1>15. CASE ClearShortKey BY <1>15 DEF ClearShortKey
<1>16. ASSUME NEW f \in Files, Prune(f) PROVE TypeOK'
  BY <1>16 DEF Prune
<1>17. CASE UNCHANGED vars BY <1>17 DEF vars
<1> QED
  BY <1>1, <1>2, <1>3, <1>4, <1>5, <1>6, <1>7, <1>8, <1>9, <1>10, <1>11, <1>12, <1>13,
     <1>14, <1>15, <1>16, <1>17 DEF Next, EnsureKey

\* A new key is made at an empty path, and only the last one is put back.
LEMMA PathStep == IInv /\ [Next]_vars => PathInv'
<1> SUFFICES ASSUME IInv, [Next]_vars PROVE PathInv'
  OBVIOUS
<1> USE MaxKeysAssumption, KeyNumbers DEF IInv, TypeOK, PathInv, CreateInv, fileVars
<1>1. CASE Start BY <1>1 DEF Start
<1>2. CASE ReadKey BY <1>2 DEF ReadKey
<1>3. CASE ReadFails BY <1>3 DEF ReadFails
<1>4. CASE Scan BY <1>4 DEF Scan
<1>5. CASE CreateKeyFile BY <1>5 DEF CreateKeyFile
<1>6. CASE WriteKey BY <1>6 DEF WriteKey
<1>7. CASE WriteFails BY <1>7 DEF WriteFails
<1>8. ASSUME NEW k \in Kinds, Encrypt(k) PROVE PathInv'
  BY <1>8 DEF Encrypt
<1>9. CASE Stop BY <1>9 DEF Stop
<1>10. CASE WriteBack BY <1>10 DEF WriteBack
<1>11. CASE PowerLoss BY <1>11 DEF PowerLoss
<1>12. CASE BackUpKey BY <1>12 DEF BackUpKey
<1>13. CASE LoseKey BY <1>13 DEF LoseKey
<1>14. CASE RestoreKey BY <1>14 DEF RestoreKey
<1>15. CASE ClearShortKey BY <1>15 DEF ClearShortKey
<1>16. ASSUME NEW f \in Files, Prune(f) PROVE PathInv'
  BY <1>16 DEF Prune
<1>17. CASE UNCHANGED vars BY <1>17 DEF vars
<1> QED
  BY <1>1, <1>2, <1>3, <1>4, <1>5, <1>6, <1>7, <1>8, <1>9,
     <1>10, <1>11, <1>12, <1>13, <1>14, <1>15, <1>16, <1>17
  DEF Next, EnsureKey

\* Neither the operator nor a crash gives ensureKey a key or a cast half-way.
LEMMA CreateStep == IInv /\ [Next]_vars => CreateInv'
<1> SUFFICES ASSUME IInv, [Next]_vars PROVE CreateInv'
  OBVIOUS
<1> USE MaxKeysAssumption, KeyNumbers DEF IInv, TypeOK, PathInv, CreateInv, Casts, fileVars
<1>1. CASE Start BY <1>1 DEF Start
<1>2. CASE ReadKey BY <1>2 DEF ReadKey
<1>3. CASE ReadFails BY <1>3 DEF ReadFails
<1>4. CASE Scan BY <1>4 DEF Scan, EncryptedRecordingsExist
<1>5. CASE CreateKeyFile BY <1>5 DEF CreateKeyFile
<1>6. CASE WriteKey BY <1>6 DEF WriteKey
<1>7. CASE WriteFails BY <1>7 DEF WriteFails
<1>8. ASSUME NEW k \in Kinds, Encrypt(k) PROVE CreateInv'
  BY <1>8 DEF Encrypt
<1>9. CASE Stop BY <1>9 DEF Stop
<1>10. CASE WriteBack BY <1>10 DEF WriteBack
<1>11. CASE PowerLoss BY <1>11 DEF PowerLoss
<1>12. CASE BackUpKey BY <1>12 DEF BackUpKey
<1>13. CASE LoseKey BY <1>13 DEF LoseKey
<1>14. CASE RestoreKey BY <1>14 DEF RestoreKey
<1>15. CASE ClearShortKey BY <1>15 DEF ClearShortKey
<1>16. ASSUME NEW f \in Files, Prune(f) PROVE CreateInv'
  BY <1>16 DEF Prune
<1>17. CASE UNCHANGED vars BY <1>17 DEF vars
<1> QED
  BY <1>1, <1>2, <1>3, <1>4, <1>5, <1>6, <1>7, <1>8, <1>9,
     <1>10, <1>11, <1>12, <1>13, <1>14, <1>15, <1>16, <1>17
  DEF Next, EnsureKey

\* A daemon that serves has the key that was generated last.
LEMMA KeyStep == IInv /\ [Next]_vars => (pc = "up" => key = minted)'
<1> SUFFICES ASSUME IInv, [Next]_vars PROVE (pc = "up" => key = minted)'
  OBVIOUS
<1> USE MaxKeysAssumption, KeyNumbers DEF IInv, TypeOK, PathInv, CreateInv, fileVars
<1>1. CASE Start BY <1>1 DEF Start
<1>2. CASE ReadKey BY <1>2 DEF ReadKey
<1>3. CASE ReadFails BY <1>3 DEF ReadFails
<1>4. CASE Scan BY <1>4 DEF Scan
<1>5. CASE CreateKeyFile BY <1>5 DEF CreateKeyFile
<1>6. CASE WriteKey BY <1>6 DEF WriteKey
<1>7. CASE WriteFails BY <1>7 DEF WriteFails
<1>8. ASSUME NEW k \in Kinds, Encrypt(k) PROVE (pc = "up" => key = minted)'
  BY <1>8 DEF Encrypt
<1>9. CASE Stop BY <1>9 DEF Stop
<1>10. CASE WriteBack BY <1>10 DEF WriteBack
<1>11. CASE PowerLoss BY <1>11 DEF PowerLoss
<1>12. CASE BackUpKey BY <1>12 DEF BackUpKey
<1>13. CASE LoseKey BY <1>13 DEF LoseKey
<1>14. CASE RestoreKey BY <1>14 DEF RestoreKey
<1>15. CASE ClearShortKey BY <1>15 DEF ClearShortKey
<1>16. ASSUME NEW f \in Files, Prune(f) PROVE (pc = "up" => key = minted)'
  BY <1>16 DEF Prune
<1>17. CASE UNCHANGED vars BY <1>17 DEF vars
<1> QED
  BY <1>1, <1>2, <1>3, <1>4, <1>5, <1>6, <1>7, <1>8, <1>9,
     <1>10, <1>11, <1>12, <1>13, <1>14, <1>15, <1>16, <1>17
  DEF Next, EnsureKey

\* The casts: none when the key changes, and under the daemon's key when it
\* writes one.
LEMMA CastsStep == IInv /\ [Next]_vars => CastsUnderOneKey'
<1> SUFFICES ASSUME IInv, [Next]_vars PROVE CastsUnderOneKey'
  OBVIOUS
<1> USE MaxKeysAssumption, KeyNumbers, KeyStep DEF IInv, TypeOK, PathInv, CreateInv, Casts,
      CastsUnderOneKey, Under, fileVars
<1>1. CASE Start BY <1>1 DEF Start
<1>2. CASE ReadKey BY <1>2 DEF ReadKey
<1>3. CASE ReadFails BY <1>3 DEF ReadFails
<1>4. CASE Scan BY <1>4 DEF Scan
<1>5. CASE CreateKeyFile BY <1>5 DEF CreateKeyFile
<1>6. CASE WriteKey BY <1>6 DEF WriteKey
<1>7. CASE WriteFails BY <1>7 DEF WriteFails
<1>8. ASSUME NEW k \in Kinds, Encrypt(k) PROVE CastsUnderOneKey'
  BY <1>8 DEF Encrypt
<1>9. CASE Stop BY <1>9 DEF Stop
<1>10. CASE WriteBack BY <1>10 DEF WriteBack
<1>11. CASE PowerLoss BY <1>11 DEF PowerLoss
<1>12. CASE BackUpKey BY <1>12 DEF BackUpKey
<1>13. CASE LoseKey BY <1>13 DEF LoseKey
<1>14. CASE RestoreKey BY <1>14 DEF RestoreKey
<1>15. CASE ClearShortKey BY <1>15 DEF ClearShortKey
<1>16. ASSUME NEW f \in Files, Prune(f) PROVE CastsUnderOneKey'
  BY <1>16 DEF Prune
<1>17. CASE UNCHANGED vars BY <1>17 DEF vars
<1> QED
  BY <1>1, <1>2, <1>3, <1>4, <1>5, <1>6, <1>7, <1>8, <1>9,
     <1>10, <1>11, <1>12, <1>13, <1>14, <1>15, <1>16, <1>17
  DEF Next, EnsureKey

-----------------------------------------------------------------------------
\* The inductive invariant: the types, the key's path and what ensureKey has
\* found hold in every state of the daemon's starts, crashes and power losses.
THEOREM Invariance == Spec => []IInv
<1>1. IInv /\ [Next]_vars => IInv'
  BY TypeStep, PathStep, CreateStep, KeyStep, CastsStep DEF IInv
<1> QED
  BY InitInv, <1>1, PTL DEF Spec

\* The daemon has a key in memory exactly while it serves, and what a power
\* loss leaves of the store is in the store.
THEOREM TypeCorrect == Spec => []TypeOK
<1>1. IInv => TypeOK
  BY DEF IInv
<1> QED
  BY Invariance, <1>1, PTL

\* ensureKey never leaves a cast behind under a key that a new one replaced,
\* however many keys there are and whatever is lost, restored or pruned.
THEOREM CastsSafe == Spec => []CastsUnderOneKey
<1>1. IInv => CastsUnderOneKey
  BY DEF IInv
<1> QED
  BY Invariance, <1>1, PTL
=============================================================================
