-------------------------- MODULE LoaderDeployProofs --------------------------
(***************************************************************************)
(* Type correctness of LoaderDeploy, the exclusion the ESP lock gives, the *)
(* permanence of a transaction's record, and what the normal boot entry    *)
(* starts, for every number of invocations and Boot numbers and every      *)
(* bound.                                                                  *)
(***************************************************************************)
EXTENDS LoaderProperties, TLAPS

-----------------------------------------------------------------------------
(* Types: one lemma per group of actions.  The actions that change only    *)
(* where an invocation is, and the lock, are one step together.            *)

LEMMA NoSnapshotType == NoSnapshot \in Snapshot
  BY DEF NoSnapshot, Snapshot, EntryRaw, BootNext, NoNext

LEMMA NoIntentType == NoIntent \in Intent
  BY NoSnapshotType DEF NoIntent, Intent, Operations

LEMMA RecordType ==
    ASSUME NEW operation \in Operations, NEW before \in Snapshot,
           NEW auth \in Nums \cup {NoNum}, Record(operation, before, auth)
    PROVE  intent' \in Intent
  BY DEF Record, Intent

LEMMA LocalMadeType ==
    ASSUME NEW l \in [Procs -> Local], NEW p \in Procs, NEW b \in BOOLEAN
    PROVE  [l EXCEPT ![p].made = b] \in [Procs -> Local]
  BY DEF Local

LEMMA LocalDeclaredType ==
    ASSUME NEW l \in [Procs -> Local], NEW p \in Procs, NEW b \in BOOLEAN
    PROVE  [l EXCEPT ![p].declared = b] \in [Procs -> Local]
  BY DEF Local

LEMMA BaselineType ==
    ASSUME TypeOK, NEW p \in Procs
    PROVE  Baseline(p) \in Snapshot
  BY DEF TypeOK, Baseline, Manifest, Intent

LEMMA InitTypeOK == Init => TypeOK
  <1> USE BootAssumption, ProcAssumption, BoundAssumption
  <1> SUFFICES ASSUME Init PROVE TypeOK OBVIOUS
  <1>1. esp \in Esp /\ disk \in Esp /\ tree \in Rest
    BY DEF Init, Esp, Slot, Scratch, Rest
  <1>2. nvram \in Snapshot
    BY DEF Init, Snapshot, Nums, EntryRaw, BootNext, StdNext
  <1>3. manifest \in Manifest
    BY <1>1, NoSnapshotType DEF Init, Manifest, BootNext, NoNext, States, Tree
  <1>4. intent \in Intent
    BY NoIntentType DEF Init
  <1>5. lock \in Procs \cup {NoProc} /\ pc \in [Procs -> Pcs] /\ loc \in [Procs -> Local]
    BY DEF Init, Pcs, Local, NoLocal, Slot
  <1>6. booted \in BOOLEAN /\ left \in Left
    BY DEF Init, Left
  <1> QED BY <1>1, <1>2, <1>3, <1>4, <1>5, <1>6 DEF TypeOK

LEMMA StageTypeOK == ASSUME TypeOK, NEW p \in Procs, StageStep(p) PROVE TypeOK'
  <1> USE DEF TypeOK, Goto, Acquire, Release, Raise, Locked, Pcs, StagePcs, NextPcs,
    PromotePcs, FinishPcs, RevertPcs, RollbackPcs
  <1>1. CASE StageRefused(p) \/ StageTempForeign(p) \/ StageRetryCreate(p)
             \/ StageCreateFull(p) \/ StageInspectRefused(p)
    BY <1>1 DEF StageRefused, StageTempForeign, StageRetryCreate, StageCreateFull,
      StageInspectRefused
  <1>2. CASE StageBegin(p)
    BY <1>2 DEF StageBegin, Manifest, States, NoNext, BootNext, Tree, TreeHash
  <1>3. CASE StageResume(p)
    BY <1>3 DEF StageResume, Local
  <1>4. CASE StageIntent(p)
    <2>1. intent' \in Intent
      BY <1>4, RecordType, NoSnapshotType DEF StageIntent, Operations
    <2> QED BY <1>4, <2>1 DEF StageIntent
  <1>5. CASE StageKeepSlot(p)
    BY <1>5 DEF StageKeepSlot, Esp, Slot, Scratch
  <1>6. CASE StageWriteTemp(p)
    <2>1. esp' \in Esp
      BY <1>6 DEF StageWriteTemp, Esp, Slot, Scratch
    <2>2. loc' \in [Procs -> Local]
      BY <1>6, LocalMadeType DEF StageWriteTemp
    <2> QED BY <1>6, <2>1, <2>2 DEF StageWriteTemp
  <1>7. CASE StageTempFails(p)
    BY <1>7 DEF StageTempFails, Esp, Slot, Scratch, Left
  <1>8. CASE StageRename(p)
    <2>1. esp' \in Esp
      BY <1>8 DEF StageRename, Esp, Slot, Scratch
    <2> QED BY <1>8, <2>1 DEF StageRename
  <1>9. CASE StageRenameFails(p)
    BY <1>9 DEF StageRenameFails, Esp, Slot, Scratch, Left
  <1>10. CASE StageSync(p)
    BY <1>10 DEF StageSync
  <1>11. CASE StagePublished(p)
    BY <1>11 DEF StagePublished, Manifest, States
  <1>12. CASE StageClear(p)
    BY <1>12, NoIntentType DEF StageClear
  <1>13. CASE StageDeclareEntry(p)
    <2>1. intent' \in Intent
      BY <1>13, RecordType DEF StageDeclareEntry, Operations
    <2>2. loc' \in [Procs -> Local]
      BY <1>13, LocalDeclaredType DEF StageDeclareEntry
    <2> QED BY <1>13, <2>1, <2>2 DEF StageDeclareEntry
  <1>14. CASE StageCreate(p)
    BY <1>14 DEF StageCreate, Snapshot, EntryRaw
  <1>15. CASE StageAdopt(p)
    BY <1>15 DEF StageAdopt, CreatedSince, Manifest, States
  <1>16. CASE StageConfirm(p)
    BY <1>16 DEF StageConfirm, Manifest, States
  <1>17. CASE StageDone(p)
    BY <1>17, NoIntentType DEF StageDone
  <1>18. CASE StageObserve(p)
    <2>1. intent' \in Intent
      BY <1>18, RecordType, BaselineType DEF StageObserve, Operations
    <2>2. pc' \in [Procs -> Pcs] /\ lock' \in Procs \cup {NoProc}
      BY <1>18 DEF StageObserve
    <2> QED BY <1>18, <2>1, <2>2 DEF StageObserve
  <1> QED BY <1>1, <1>2, <1>3, <1>4, <1>5, <1>6, <1>7, <1>8, <1>9, <1>10, <1>11,
    <1>12, <1>13, <1>14, <1>15, <1>16, <1>17, <1>18 DEF StageStep

LEMMA BootNextTypeOK == ASSUME TypeOK, NEW p \in Procs, NextStep(p) PROVE TypeOK'
  <1> USE DEF TypeOK, Goto, Acquire, Release, Raise, Locked, Pcs, StagePcs, NextPcs,
    PromotePcs, FinishPcs, RevertPcs, RollbackPcs
  <1>1. CASE NextConflict(p) \/ NextReadBackRefused(p)
    BY <1>1 DEF NextConflict, NextReadBackRefused
  <1>2. CASE NextSet(p)
    BY <1>2 DEF NextSet, Snapshot, BootNext, StdNext, Manifest, NoNext
  <1>3. CASE NextConflictClear(p)
    BY <1>3, NoIntentType DEF NextConflictClear
  <1>4. CASE NextSetFails(p)
    BY <1>4 DEF NextSetFails, Left
  <1>5. CASE NextReadBack(p)
    BY <1>5 DEF NextReadBack, Manifest, States, Armed, BootNext, Snapshot
  <1>6. CASE NextClear(p)
    BY <1>6, NoIntentType DEF NextClear
  <1> QED BY <1>1, <1>2, <1>3, <1>4, <1>5, <1>6 DEF NextStep

LEMMA PromoteTypeOK == ASSUME TypeOK, NEW p \in Procs, PromoteStep(p) PROVE TypeOK'
  <1> USE DEF TypeOK, Goto, Acquire, Release, Raise, Locked, Pcs, StagePcs, NextPcs,
    PromotePcs, FinishPcs, RevertPcs, RollbackPcs
  <1>1. CASE FinishRefused(p)
    BY <1>1 DEF FinishRefused
  <1>2. CASE PromoteExchange(p)
    <2>1. esp' \in Esp
      BY <1>2 DEF PromoteExchange, Esp, Slot, Scratch, Exchanged
    <2> QED BY <1>2, <2>1 DEF PromoteExchange
  <1>3. CASE FinishSync(p)
    BY <1>3 DEF FinishSync
  <1>4. CASE FinishManifest(p)
    BY <1>4 DEF FinishManifest, Manifest, States, Settled, NoNext, BootNext
  <1>5. CASE FinishClear(p)
    BY <1>5, NoIntentType DEF FinishClear
  <1>6. CASE FinishFails(p)
    BY <1>6 DEF FinishFails, Left
  <1>7. CASE FinishClearFails(p)
    BY <1>7, NoIntentType DEF FinishClearFails, Left
  <1>8. CASE RevertIntent(p)
    <2>1. intent' \in Intent
      BY <1>8, RecordType, NoSnapshotType DEF RevertIntent, Operations, Intent
    <2> QED BY <1>8, <2>1 DEF RevertIntent
  <1>9. CASE RevertExchange(p)
    <2>1. esp' \in Esp
      BY <1>9 DEF RevertExchange, Esp, Slot, Scratch, Exchanged
    <2> QED BY <1>9, <2>1 DEF RevertExchange
  <1>10. CASE RevertSync(p)
    BY <1>10 DEF RevertSync
  <1>11. CASE RevertManifest(p)
    BY <1>11 DEF RevertManifest, Manifest, States, Settled, NoNext, BootNext
  <1>12. CASE RevertClear(p)
    BY <1>12, NoIntentType DEF RevertClear
  <1> QED BY <1>1, <1>2, <1>3, <1>4, <1>5, <1>6, <1>7, <1>8, <1>9, <1>10, <1>11,
    <1>12 DEF PromoteStep

LEMMA RollbackTypeOK == ASSUME TypeOK, NEW p \in Procs, RollbackStep(p) PROVE TypeOK'
  <1> USE DEF TypeOK, Goto, Acquire, Release, Raise, Locked, Pcs, StagePcs, NextPcs,
    PromotePcs, FinishPcs, RevertPcs, RollbackPcs
  <1>1. CASE RollbackSlots(p) \/ RollbackCleared(p) \/ RollbackNoCandidate(p)
    BY <1>1 DEF RollbackSlots, RollbackCleared, RollbackNoCandidate
  <1>2. CASE RollbackExchange(p)
    <2>1. esp' \in Esp
      BY <1>2 DEF RollbackExchange, Esp, Slot, Scratch, Exchanged
    <2> QED BY <1>2, <2>1 DEF RollbackExchange
  <1>3. CASE RollbackRestore(p)
    <2>1. esp' \in Esp
      BY <1>3 DEF RollbackRestore, Esp, Slot, Scratch
    <2>2. loc' \in [Procs -> Local]
      BY <1>3, LocalMadeType DEF RollbackRestore
    <2> QED BY <1>3, <2>1, <2>2 DEF RollbackRestore
  <1>4. CASE RollbackRestoreFails(p)
    BY <1>4 DEF RollbackRestoreFails, Esp, Slot, Scratch, Left
  <1>5. CASE RollbackReplace(p)
    <2>1. esp' \in Esp
      BY <1>5 DEF RollbackReplace, Esp, Slot, Scratch
    <2> QED BY <1>5, <2>1 DEF RollbackReplace
  <1>6. CASE RollbackReplaceFails(p)
    BY <1>6 DEF RollbackReplaceFails, Esp, Slot, Scratch, Left
  <1>7. CASE RollbackSync(p)
    BY <1>7 DEF RollbackSync
  <1>8. CASE RollbackClearNext(p)
    BY <1>8 DEF RollbackClearNext, Snapshot, BootNext, NoNext
  <1>9. CASE RollbackKeepNext(p)
    BY <1>9 DEF RollbackKeepNext, Local
  <1>10. CASE RollbackDeleteEntry(p)
    BY <1>10 DEF RollbackDeleteEntry, Snapshot, EntryRaw
  <1>11. CASE RollbackKeepEntry(p)
    BY <1>11 DEF RollbackKeepEntry, Local
  <1>12. CASE RollbackQuarantine(p)
    <2>1. esp' \in Esp
      BY <1>12 DEF RollbackQuarantine, Esp, Slot, Scratch
    <2>2. loc' \in [Procs -> Local]
      BY <1>12 DEF RollbackQuarantine, Local
    <2> QED BY <1>12, <2>1, <2>2 DEF RollbackQuarantine
  <1>13. CASE RollbackQuarantined(p)
    BY <1>13 DEF RollbackQuarantined, Local
  <1>14. CASE RollbackUnlink(p)
    BY <1>14 DEF RollbackUnlink, Esp, Slot, Scratch
  <1>15. CASE RollbackUnlinkFails(p)
    <2>1. esp' \in Esp
      BY <1>15 DEF RollbackUnlinkFails, Esp, Slot, Scratch
    <2> QED BY <1>15, <2>1 DEF RollbackUnlinkFails, Left
  <1>16. CASE RollbackFlush(p)
    BY <1>16 DEF RollbackFlush
  <1>17. CASE RollbackManifest(p)
    BY <1>17 DEF RollbackManifest, Manifest, States, NoNext, BootNext, Tree,
      TreeHash
  <1>18. CASE RollbackPartial(p)
    BY <1>18 DEF RollbackPartial, Manifest, States
  <1>19. CASE RollbackClear(p)
    BY <1>19, NoIntentType DEF RollbackClear
  <1> QED BY <1>1, <1>2, <1>3, <1>4, <1>5, <1>6, <1>7, <1>8, <1>9, <1>10, <1>11,
    <1>12, <1>13, <1>14, <1>15, <1>16, <1>17, <1>18, <1>19 DEF RollbackStep

LEMMA StartTypeOK == ASSUME TypeOK, NEW p \in Procs, Start(p) PROVE TypeOK'
  <1> USE DEF TypeOK, Goto, Acquire, Release, Raise, Locked, Pcs, StagePcs, NextPcs,
    PromotePcs, FinishPcs, RevertPcs, RollbackPcs
  <1>1. CASE PromoteResume(p) \/ PromoteRevert(p)
    BY <1>1 DEF PromoteResume, PromoteRevert
  <1>2. CASE StageEnter(p)
    <2>1. loc' \in [Procs -> Local]
      BY <1>2 DEF StageEnter, Local, NoLocal, Esp, Slot
    <2> QED BY <1>2, <2>1 DEF StageEnter
  <1>3. CASE NextStart(p)
    <2>1. intent' \in Intent
      BY <1>3, RecordType DEF NextStart, Operations
    <2> QED BY <1>3, <2>1 DEF NextStart
  <1>4. CASE NextAdopt(p)
    BY <1>4 DEF NextAdopt, Manifest, States, Armed, BootNext, Snapshot
  <1>5. CASE PromoteStart(p)
    <2>1. intent' \in Intent
      BY <1>5, RecordType, NoSnapshotType DEF PromoteStart, Operations, Manifest
    <2> QED BY <1>5, <2>1 DEF PromoteStart
  <1>6. CASE RollbackStart(p)
    <2>1. intent' \in Intent
      BY <1>6, RecordType, NoSnapshotType DEF RollbackStart, Operations
    <2>2. loc' \in [Procs -> Local]
      BY <1>6 DEF RollbackStart, Local, NoLocal, Esp, Slot
    <2> QED BY <1>6, <2>1, <2>2 DEF RollbackStart
  <1> QED BY <1>1, <1>2, <1>3, <1>4, <1>5, <1>6 DEF Start

LEMMA FirmwareType ==
    ASSUME TypeOK, NEW e \in Esp, Firmware(e) PROVE nvram' \in Snapshot /\ booted' \in BOOLEAN
  <1> PICK n \in Nums :
        /\ nvram' = [nvram EXCEPT !.next = NoNext, !.current = n]
        /\ booted' = (booted \/ (nvram.entries[n] = "cand" /\ e.cand = "new"))
    BY DEF Firmware
  <1>1. nvram' \in Snapshot
    BY DEF TypeOK, Snapshot, NoNext, BootNext
  <1>2. booted' \in BOOLEAN
    BY Zenon DEF TypeOK
  <1> QED BY <1>1, <1>2

LEMMA EnvironmentTypeOK == ASSUME TypeOK, Environment PROVE TypeOK'
  <1>1. CASE Reboot
    <2> esp \in Esp /\ left' \in Left BY <1>1 DEF Reboot, TypeOK, Left
    <2> QED BY <1>1, FirmwareType DEF Reboot, TypeOK
  <1>2. CASE PowerLoss
    <2>1. left' \in Left /\ pc' \in [Procs -> Pcs]
      BY <1>2 DEF PowerLoss, TypeOK, Left, Pcs
    <2> QED BY <1>2, <2>1, FirmwareType DEF PowerLoss, TypeOK
  <1>3. CASE WriteBack
    BY <1>3 DEF WriteBack, TypeOK
  <1>4. ASSUME NEW kind, Drift(kind) PROVE left' \in Left
    BY <1>4 DEF Drift, TypeOK, Left
  <1>5. CASE DriftNext
    <2>1. nvram' \in Snapshot
      BY <1>5 DEF DriftNext, TypeOK, Snapshot, BootNext
    <2> QED BY <1>4, <1>5, <2>1 DEF DriftNext, TypeOK
  <1>6. CASE DriftOrder
    BY <1>4, <1>6 DEF DriftOrder, TypeOK, Snapshot
  <1>7. CASE DriftEntry
    <2>1. nvram' \in Snapshot
      BY <1>7 DEF DriftEntry, TypeOK, Snapshot, EntryRaw
    <2> QED BY <1>4, <1>7, <2>1 DEF DriftEntry, TypeOK
  <1>8. CASE DriftTree
    BY <1>4, <1>8 DEF DriftTree, TypeOK, Rest
  <1>9. CASE DriftSlot
    <2>1. esp' \in Esp
      BY <1>9 DEF DriftSlot, TypeOK, Esp, Slot
    <2> QED BY <1>4, <1>9, <2>1 DEF DriftSlot, TypeOK
  <1>10. CASE DriftRace
    <2>1. esp' \in Esp
      BY <1>10 DEF DriftRace, TypeOK, Esp, Slot
    <2> QED BY <1>4, <1>10, <2>1 DEF DriftRace, TypeOK
  <1> QED
    BY <1>1, <1>2, <1>3, <1>5, <1>6, <1>7, <1>8, <1>9, <1>10 DEF Environment

LEMMA FailureTypeOK ==
    ASSUME TypeOK, NEW p \in Procs, Fails(p) \/ Killed(p) PROVE TypeOK'
  <1>1. "idle" \in Pcs BY DEF Pcs
  <1>2. CASE Fails(p)
    BY <1>1, <1>2 DEF Fails, Release, Goto, TypeOK, Left
  <1>3. CASE Killed(p)
    <2>1. esp' \in Esp
      BY <1>3 DEF Killed, TypeOK, Esp, Scratch
    <2> QED BY <1>1, <1>3, <2>1 DEF Killed, Goto, TypeOK, Left
  <1> QED BY <1>2, <1>3

LEMMA NextTypeOK == ASSUME TypeOK, [Next]_vars PROVE TypeOK'
  <1>1. CASE UNCHANGED vars
    BY <1>1 DEF TypeOK, vars
  <1>2. ASSUME NEW p \in Procs, Start(p) \/ Continue(p) PROVE TypeOK'
    BY <1>2, StartTypeOK, StageTypeOK, BootNextTypeOK, PromoteTypeOK, RollbackTypeOK
       DEF Continue
  <1>3. CASE Environment
    BY <1>3, EnvironmentTypeOK
  <1> QED BY <1>1, <1>2, <1>3, FailureTypeOK DEF Next

\* Every reachable state is well typed: in particular no rename, exchange or restore
\* ever leaves a loader slot half written.
THEOREM TypeCorrect == Spec => []TypeOK
  <1>1. Init => TypeOK BY InitTypeOK
  <1>2. TypeOK /\ [Next]_vars => TypeOK' BY NextTypeOK
  <1> QED BY <1>1, <1>2, PTL DEF Spec

-----------------------------------------------------------------------------
(* The lock.                                                               *)

\* What an invocation's step does to its place and to the lock.
Moves(p) ==
    \/ \E label \in Locked : Acquire(p, label)
    \/ lock = p /\ Release(p)
    \/ \E label \in Locked : pc[p] \in Locked /\ Goto(p, label) /\ UNCHANGED lock
    \/ \E label \in {"idle", "stage_wait"} :
         pc[p] \notin Locked /\ Goto(p, label) /\ UNCHANGED lock

LEMMA MoveKeepsLock ==
    ASSUME TypeOK, LockHeldByRunner, NEW p \in Procs, Moves(p)
    PROVE  LockHeldByRunner'
  <1>1. "idle" \notin Locked /\ "stage_wait" \notin Locked
    BY DEF Locked, StagePcs, NextPcs, PromotePcs, FinishPcs, RevertPcs, RollbackPcs
  <1> QED
    BY <1>1, ProcAssumption DEF TypeOK, LockHeldByRunner, Moves, Acquire, Release, Goto

LEMMA StageMoves ==
    ASSUME TypeOK, LockHeldByRunner, NEW p \in Procs, StageStep(p)
    PROVE  Moves(p)
  BY DEF StageStep, StageBegin, StageResume, StageRefused, StageIntent,
    StageKeepSlot, StageWriteTemp, StageTempForeign, StageTempFails, StageRename,
    StageRenameFails, StageSync, StagePublished, StageClear, StageDeclareEntry,
    StageRetryCreate, StageCreate, StageCreateFull, StageObserve, StageAdopt,
    StageConfirm, StageInspectRefused, StageDone, Moves, TypeOK,
    LockHeldByRunner, Acquire, Release, Raise, Goto, Locked, Pcs, StagePcs, NextPcs,
    PromotePcs, FinishPcs, RevertPcs, RollbackPcs

LEMMA BootNextMoves ==
    ASSUME TypeOK, LockHeldByRunner, NEW p \in Procs, NextStep(p)
    PROVE  Moves(p)
  BY DEF NextStep, NextSet, NextConflict, NextConflictClear, NextSetFails,
    NextReadBack, NextReadBackRefused, NextClear, Moves, TypeOK, LockHeldByRunner,
    Acquire, Release, Raise, Goto, Locked, Pcs, StagePcs, NextPcs, PromotePcs,
    FinishPcs, RevertPcs, RollbackPcs

LEMMA PromoteMoves ==
    ASSUME TypeOK, LockHeldByRunner, NEW p \in Procs, PromoteStep(p)
    PROVE  Moves(p)
  BY DEF PromoteStep, PromoteExchange, FinishSync, FinishManifest, FinishRefused,
    FinishClear, FinishFails, FinishClearFails, RevertIntent, RevertExchange,
    RevertSync, RevertManifest, RevertClear, Moves, TypeOK, LockHeldByRunner,
    Acquire, Release, Raise, Goto, Locked, Pcs, StagePcs, NextPcs, PromotePcs,
    FinishPcs, RevertPcs, RollbackPcs

LEMMA RollbackMoves ==
    ASSUME TypeOK, LockHeldByRunner, NEW p \in Procs, RollbackStep(p)
    PROVE  Moves(p)
  BY DEF RollbackStep, RollbackExchange, RollbackSlots, RollbackRestore,
    RollbackRestoreFails, RollbackReplace, RollbackReplaceFails, RollbackSync,
    RollbackClearNext, RollbackKeepNext, RollbackCleared, RollbackDeleteEntry,
    RollbackKeepEntry, RollbackQuarantine, RollbackQuarantined, RollbackNoCandidate,
    RollbackUnlink, RollbackUnlinkFails, RollbackFlush, RollbackManifest,
    RollbackPartial, RollbackClear, Moves, TypeOK, LockHeldByRunner, Acquire,
    Release, Raise, Goto, Locked, Pcs, StagePcs, NextPcs, PromotePcs, FinishPcs,
    RevertPcs, RollbackPcs

LEMMA StartMoves ==
    ASSUME TypeOK, LockHeldByRunner, NEW p \in Procs, Start(p)
    PROVE  Moves(p)
  BY DEF Start, StageEnter, NextStart, NextAdopt, PromoteStart, PromoteResume,
    PromoteRevert, RollbackStart, Moves, TypeOK, LockHeldByRunner, Acquire, Release,
    Raise, Goto, Locked, Pcs, StagePcs, NextPcs, PromotePcs, FinishPcs, RevertPcs,
    RollbackPcs

LEMMA EnvironmentKeepsLock ==
    ASSUME TypeOK, LockHeldByRunner, Environment
    PROVE  LockHeldByRunner'
  <1>1. CASE PowerLoss
    BY <1>1, ProcAssumption DEF PowerLoss, LockHeldByRunner, Locked, StagePcs, NextPcs,
       PromotePcs, FinishPcs, RevertPcs, RollbackPcs
  <1>2. CASE ~PowerLoss
    BY <1>2 DEF Environment, Reboot, WriteBack, DriftNext, DriftOrder, DriftEntry,
       DriftTree, DriftSlot, DriftRace, LockHeldByRunner
  <1> QED BY <1>1, <1>2

LEMMA FailureKeepsLock ==
    ASSUME TypeOK, LockHeldByRunner, NEW p \in Procs, Fails(p) \/ Killed(p)
    PROVE  LockHeldByRunner'
  <1> USE ProcAssumption DEF TypeOK, LockHeldByRunner, Goto, Release, Locked, StagePcs,
      NextPcs, PromotePcs, FinishPcs, RevertPcs, RollbackPcs
  <1>1. CASE Fails(p)
    BY <1>1 DEF Fails
  <1>2. CASE Killed(p)
    BY <1>2 DEF Killed, Idle
  <1> QED BY <1>1, <1>2

LEMMA NextKeepsLock ==
    ASSUME TypeOK, LockHeldByRunner, [Next]_vars
    PROVE  LockHeldByRunner'
  <1>1. CASE UNCHANGED vars
    BY <1>1 DEF LockHeldByRunner, vars
  <1>2. ASSUME NEW p \in Procs, Start(p) \/ Continue(p) PROVE LockHeldByRunner'
    <2>1. Moves(p)
      BY <1>2, StartMoves, StageMoves, BootNextMoves, PromoteMoves, RollbackMoves
         DEF Continue
    <2> QED BY <2>1, MoveKeepsLock
  <1> QED
    BY <1>1, <1>2, EnvironmentKeepsLock, FailureKeepsLock DEF Next

\* At most one invocation is inside the lock, and it is its holder, for any number of
\* invocations: what each operation reads under the lock, no other operation changes.
THEOREM LockExcludes == Spec => []LockHeldByRunner
  <1>1. Init => LockHeldByRunner
    BY ProcAssumption DEF Init, LockHeldByRunner, Locked, StagePcs, NextPcs, PromotePcs,
       FinishPcs, RevertPcs, RollbackPcs
  <1>2. TypeOK /\ LockHeldByRunner /\ [Next]_vars => LockHeldByRunner'
    BY NextKeepsLock
  <1> QED BY <1>1, <1>2, TypeCorrect, PTL DEF Spec

-----------------------------------------------------------------------------
(* The record.                                                             *)

\* A step after which the transaction is still the one that was begun.
RecordKept ==
    /\ HasTransaction'
    /\ manifest'.initial = manifest.initial /\ manifest'.tree = manifest.tree

LEMMA StageBegun ==
    ASSUME TypeOK, HasTransaction, NEW p \in Procs, StageStep(p)
    PROVE  RecordKept
  <1> USE DEF RecordKept, TypeOK, HasTransaction, Manifest, States, Raise
  <1>1. CASE StageResume(p) \/ StageRefused(p) \/ StageIntent(p)
             \/ StageKeepSlot(p) \/ StageWriteTemp(p) \/ StageTempForeign(p)
             \/ StageTempFails(p) \/ StageRename(p) \/ StageRenameFails(p)
             \/ StageSync(p) \/ StageClear(p) \/ StageDeclareEntry(p)
             \/ StageRetryCreate(p) \/ StageCreate(p) \/ StageCreateFull(p)
             \/ StageInspectRefused(p) \/ StageObserve(p)
             \/ StageDone(p)
    BY <1>1 DEF StageResume, StageRefused, StageIntent, StageKeepSlot,
      StageWriteTemp, StageTempForeign, StageTempFails, StageRename,
      StageRenameFails, StageSync, StageClear, StageDeclareEntry, StageRetryCreate,
      StageCreate, StageCreateFull, StageInspectRefused,
      StageObserve, StageDone, MayBegin
  <1>2. CASE StageBegin(p)
    BY <1>2 DEF StageBegin, MayBegin
  <1>3. CASE StagePublished(p)
    BY <1>3 DEF StagePublished
  <1>4. CASE StageAdopt(p)
    BY <1>4 DEF StageAdopt
  <1>5. CASE StageConfirm(p)
    BY <1>5 DEF StageConfirm
  <1> QED BY <1>1, <1>2, <1>3, <1>4, <1>5 DEF StageStep

LEMMA BootNextBegun ==
    ASSUME TypeOK, HasTransaction, NEW p \in Procs, NextStep(p)
    PROVE  RecordKept
  <1> USE DEF RecordKept, TypeOK, HasTransaction, Manifest, States, Raise
  <1>1. CASE NextSet(p) \/ NextConflict(p) \/ NextConflictClear(p)
             \/ NextSetFails(p) \/ NextReadBackRefused(p) \/ NextClear(p)
    BY <1>1 DEF NextSet, NextConflict, NextConflictClear, NextSetFails,
      NextReadBackRefused, NextClear, Armed
  <1>2. CASE NextReadBack(p)
    BY <1>2 DEF NextReadBack, Armed
  <1> QED BY <1>1, <1>2 DEF NextStep

LEMMA PromoteBegun ==
    ASSUME TypeOK, HasTransaction, NEW p \in Procs, PromoteStep(p)
    PROVE  RecordKept
  <1> USE DEF RecordKept, TypeOK, HasTransaction, Manifest, States, Raise
  <1>1. CASE PromoteExchange(p) \/ FinishSync(p) \/ FinishRefused(p)
             \/ FinishClear(p) \/ FinishFails(p) \/ FinishClearFails(p)
             \/ RevertIntent(p) \/ RevertExchange(p) \/ RevertSync(p)
             \/ RevertClear(p)
    BY <1>1 DEF PromoteExchange, FinishSync, FinishRefused, FinishClear,
      FinishFails, FinishClearFails, RevertIntent, RevertExchange, RevertSync,
      RevertClear
  <1>2. CASE FinishManifest(p)
    BY <1>2 DEF FinishManifest, Settled
  <1>3. CASE RevertManifest(p)
    BY <1>3 DEF RevertManifest, Settled
  <1> QED BY <1>1, <1>2, <1>3 DEF PromoteStep

LEMMA RollbackBegun ==
    ASSUME TypeOK, HasTransaction, NEW p \in Procs, RollbackStep(p)
    PROVE  RecordKept
  <1> USE DEF RecordKept, TypeOK, HasTransaction, Manifest, States, Raise
  <1>1. CASE RollbackExchange(p) \/ RollbackSlots(p) \/ RollbackRestore(p)
             \/ RollbackRestoreFails(p) \/ RollbackReplace(p)
             \/ RollbackReplaceFails(p) \/ RollbackSync(p) \/ RollbackClearNext(p)
             \/ RollbackKeepNext(p) \/ RollbackCleared(p) \/ RollbackDeleteEntry(p)
             \/ RollbackKeepEntry(p) \/ RollbackQuarantine(p)
             \/ RollbackQuarantined(p) \/ RollbackNoCandidate(p) \/ RollbackUnlink(p)
             \/ RollbackUnlinkFails(p) \/ RollbackFlush(p) \/ RollbackClear(p)
    BY <1>1 DEF RollbackExchange, RollbackSlots, RollbackRestore,
      RollbackRestoreFails, RollbackReplace, RollbackReplaceFails, RollbackSync,
      RollbackClearNext, RollbackKeepNext, RollbackCleared, RollbackDeleteEntry,
      RollbackKeepEntry, RollbackQuarantine, RollbackQuarantined,
      RollbackNoCandidate, RollbackUnlink, RollbackUnlinkFails, RollbackFlush,
      RollbackClear
  <1>2. CASE RollbackManifest(p)
    BY <1>2 DEF RollbackManifest
  <1>3. CASE RollbackPartial(p)
    BY <1>3 DEF RollbackPartial
  <1> QED BY <1>1, <1>2, <1>3 DEF RollbackStep

LEMMA StartBegun ==
    ASSUME TypeOK, HasTransaction, NEW p \in Procs, Start(p)
    PROVE  RecordKept
  <1> USE DEF RecordKept, TypeOK, HasTransaction, Manifest, States, Raise
  <1>1. CASE StageEnter(p) \/ NextStart(p) \/ PromoteStart(p) \/ PromoteResume(p)
             \/ PromoteRevert(p) \/ RollbackStart(p)
    BY <1>1 DEF StageEnter, NextStart, PromoteStart, PromoteResume, PromoteRevert,
      RollbackStart
  <1>2. CASE NextAdopt(p)
    BY <1>2 DEF NextAdopt, Armed
  <1> QED BY <1>1, <1>2 DEF Start

LEMMA OthersKeepRecord ==
    ASSUME Environment \/ (\E p \in Procs : Fails(p) \/ Killed(p))
    PROVE  UNCHANGED manifest
  BY DEF Environment, Reboot, PowerLoss, WriteBack, DriftNext, DriftOrder, DriftEntry,
     DriftTree, DriftSlot, DriftRace, Fails, Killed

LEMMA NextKeepsRecord == ASSUME TypeOK, HasTransaction, [Next]_vars PROVE RecordKept
  <1>1. CASE UNCHANGED manifest
    BY <1>1 DEF RecordKept, HasTransaction
  <1>2. ASSUME NEW p \in Procs, Start(p) \/ Continue(p) PROVE RecordKept
    BY <1>2, StartBegun, StageBegun, BootNextBegun, PromoteBegun, RollbackBegun
       DEF Continue
  <1> QED
    BY <1>1, <1>2, OthersKeepRecord DEF Next, vars

\* The snapshot and the tree hash a transaction begins with are never written again, by
\* any number of invocations: every later check compares with the same record.
THEOREM RecordPermanent == Spec => TransactionBegunOnce
  <1>1. TypeOK /\ [Next]_vars =>
          [HasTransaction => /\ manifest'.initial = manifest.initial
                             /\ manifest'.tree = manifest.tree]_vars
    BY NextKeepsRecord DEF RecordKept
  <1> QED BY <1>1, TypeCorrect, PTL DEF Spec, TransactionBegunOnce

-----------------------------------------------------------------------------
(* The normal boot entry.                                                  *)

\* A view of the ESP in which every way the new loader can reach the active slot, or the
\* old one leave it, lies behind a boot of the candidate.
BootKnown(e) ==
    /\ e.active \in {"old", "new"}
    /\ e.active = "new" \/ e.cand = "old" \/ e.quar = "old" => booted

\* The inductive invariant: the slots a promotion is between its checks and its second
\* exchange, and that neither a running promotion, nor a recorded authorization, nor a
\* BootCurrent that could authorize one exists before the candidate has booted.
BootInv ==
    /\ BootKnown(esp) /\ BootKnown(disk)
    /\ \A p \in Procs :
        /\ pc[p] = "promote_exchange" => Slots(esp) = OldNew
        /\ pc[p] \in FinishPcs \cup {"revert_intent", "revert_exchange"} =>
             Slots(esp) = NewOld
        /\ pc[p] \in PromotePcs => booted
    /\ intent.auth # NoNum => booted
    /\ \A n \in Normal : nvram.entries[n] \in {"initial", "other"}
    /\ nvram.current \in Nums
    /\ nvram.entries[nvram.current] \in {"none", "cand"} => booted

LEMMA InitBootInv == Init => BootInv
  BY BootAssumption DEF Init, BootInv, BootKnown, Nums, NoIntent, PromotePcs, FinishPcs,
     RevertPcs

\* A step that touches nothing the invariant speaks of and ends outside a promotion.
QuietStep(p) ==
    /\ UNCHANGED <<esp, disk, nvram, booted, intent>>
    /\ \E label \in {"idle"} \cup StagePcs \cup RollbackPcs : Goto(p, label)

LEMMA QuietBootInv ==
    ASSUME TypeOK, BootInv, NEW p \in Procs, QuietStep(p)
    PROVE  BootInv'
  <1>1. \A q \in Procs : pc'[q] = pc[q] \/ pc'[q] \notin PromotePcs
    BY DEF QuietStep, Goto, TypeOK, StagePcs, RollbackPcs, PromotePcs, FinishPcs,
       RevertPcs
  <1>2. BootKnown(esp)' /\ BootKnown(disk)'
    BY DEF QuietStep, BootInv, BootKnown
  <1> QED
    BY <1>1, <1>2 DEF QuietStep, BootInv, Slots, PromotePcs, FinishPcs, RevertPcs

LEMMA QuietStage ==
    ASSUME NEW p \in Procs,
           StageBegin(p) \/ StageResume(p) \/ StageRefused(p)
           \/ StageTempForeign(p) \/ StagePublished(p) \/ StageRetryCreate(p)
           \/ StageCreateFull(p) \/ StageAdopt(p) \/ StageConfirm(p)
           \/ StageInspectRefused(p)
    PROVE  QuietStep(p)
  BY DEF QuietStep, Raise, Release, Acquire, StagePcs, RollbackPcs,
     StageBegin, StageResume, StageRefused, StageTempForeign,
     StagePublished, StageRetryCreate, StageCreateFull, StageAdopt, StageConfirm,
     StageInspectRefused

LEMMA QuietRollback ==
    ASSUME NEW p \in Procs,
           RollbackSlots(p) \/ RollbackKeepNext(p) \/ RollbackCleared(p)
           \/ RollbackKeepEntry(p) \/ RollbackQuarantined(p)
           \/ RollbackNoCandidate(p) \/ RollbackManifest(p) \/ RollbackPartial(p)
    PROVE  QuietStep(p)
  BY DEF QuietStep, Raise, Release, Acquire, StagePcs, RollbackPcs,
     RollbackSlots, RollbackKeepNext, RollbackCleared,
     RollbackKeepEntry, RollbackQuarantined, RollbackNoCandidate,
     RollbackManifest, RollbackPartial

LEMMA StageBootInv ==
    ASSUME TypeOK, LockHeldByRunner, BootInv, NEW p \in Procs, StageStep(p)
    PROVE  BootInv'
  <1> USE ProcAssumption, BootAssumption DEF TypeOK, LockHeldByRunner, BootInv,
    BootKnown, Slots, OldNew, NewOld, Esp, Slot, Scratch, Snapshot, Acquire,
    Release, Raise, Goto, Locked, StagePcs, NextPcs, PromotePcs, FinishPcs,
    RevertPcs, RollbackPcs
  <1>1. CASE StageBegin(p) \/ StageResume(p) \/ StageRefused(p)
             \/ StageTempForeign(p) \/ StagePublished(p) \/ StageRetryCreate(p)
             \/ StageCreateFull(p) \/ StageAdopt(p) \/ StageConfirm(p)
             \/ StageInspectRefused(p)
    BY <1>1, QuietStage, QuietBootInv
  <1>2. CASE StageIntent(p)
    BY <1>2 DEF StageIntent, Record
  <1>3. CASE StageKeepSlot(p)
    BY <1>3 DEF StageKeepSlot
  <1>4. CASE StageWriteTemp(p)
    BY <1>4 DEF StageWriteTemp
  <1>5. CASE StageTempFails(p)
    BY <1>5 DEF StageTempFails
  <1>6. CASE StageRename(p)
    BY <1>6 DEF StageRename
  <1>7. CASE StageRenameFails(p)
    BY <1>7 DEF StageRenameFails
  <1>8. CASE StageSync(p)
    BY <1>8 DEF StageSync
  <1>9. CASE StageClear(p)
    BY <1>9 DEF StageClear, NoIntent
  <1>10. CASE StageDeclareEntry(p)
    BY <1>10 DEF StageDeclareEntry, Record
  <1>11. CASE StageCreate(p)
    BY <1>11 DEF StageCreate
  <1>12. CASE StageDone(p)
    BY <1>12 DEF StageDone, NoIntent
  <1>13. CASE StageObserve(p)
    BY <1>13 DEF StageObserve, Record
  <1> QED BY <1>1, <1>2, <1>3, <1>4, <1>5, <1>6, <1>7, <1>8, <1>9, <1>10, <1>11,
    <1>12, <1>13 DEF StageStep

LEMMA BootNextBootInv ==
    ASSUME TypeOK, LockHeldByRunner, BootInv, NEW p \in Procs, NextStep(p)
    PROVE  BootInv'
  <1> USE ProcAssumption, BootAssumption DEF TypeOK, LockHeldByRunner, BootInv,
    BootKnown, Slots, OldNew, NewOld, Esp, Slot, Scratch, Snapshot, Acquire,
    Release, Raise, Goto, Locked, StagePcs, NextPcs, PromotePcs, FinishPcs,
    RevertPcs, RollbackPcs
  <1>1. CASE NextConflict(p) \/ NextSetFails(p) \/ NextReadBack(p)
             \/ NextReadBackRefused(p)
    BY <1>1 DEF NextConflict, NextSetFails, NextReadBack, NextReadBackRefused
  <1>2. CASE NextSet(p)
    BY <1>2 DEF NextSet
  <1>3. CASE NextConflictClear(p)
    BY <1>3 DEF NextConflictClear, NoIntent
  <1>4. CASE NextClear(p)
    BY <1>4 DEF NextClear, NoIntent
  <1> QED BY <1>1, <1>2, <1>3, <1>4 DEF NextStep

LEMMA PromoteBootInv ==
    ASSUME TypeOK, LockHeldByRunner, BootInv, NEW p \in Procs, PromoteStep(p)
    PROVE  BootInv'
  <1> USE ProcAssumption, BootAssumption DEF TypeOK, LockHeldByRunner, BootInv,
    BootKnown, Slots, OldNew, NewOld, Esp, Slot, Scratch, Snapshot, Acquire,
    Release, Raise, Goto, Locked, StagePcs, NextPcs, PromotePcs, FinishPcs,
    RevertPcs, RollbackPcs
  <1>1. CASE FinishManifest(p) \/ FinishRefused(p) \/ FinishFails(p)
             \/ RevertManifest(p)
    BY <1>1 DEF FinishManifest, FinishRefused, FinishFails, RevertManifest
  <1>2. CASE PromoteExchange(p)
    BY <1>2 DEF PromoteExchange, Exchanged
  <1>3. CASE FinishSync(p)
    BY <1>3 DEF FinishSync
  <1>4. CASE FinishClear(p)
    BY <1>4 DEF FinishClear, NoIntent
  <1>5. CASE FinishClearFails(p)
    BY <1>5 DEF FinishClearFails, NoIntent
  <1>6. CASE RevertIntent(p)
    BY <1>6 DEF RevertIntent, Record
  <1>7. CASE RevertExchange(p)
    BY <1>7 DEF RevertExchange, Exchanged
  <1>8. CASE RevertSync(p)
    BY <1>8 DEF RevertSync
  <1>9. CASE RevertClear(p)
    BY <1>9 DEF RevertClear, NoIntent
  <1> QED BY <1>1, <1>2, <1>3, <1>4, <1>5, <1>6, <1>7, <1>8, <1>9 DEF PromoteStep

LEMMA RollbackBootInv ==
    ASSUME TypeOK, LockHeldByRunner, BootInv, NEW p \in Procs, RollbackStep(p)
    PROVE  BootInv'
  <1> USE ProcAssumption, BootAssumption DEF TypeOK, LockHeldByRunner, BootInv,
    BootKnown, Slots, OldNew, NewOld, Esp, Slot, Scratch, Snapshot, Acquire,
    Release, Raise, Goto, Locked, StagePcs, NextPcs, PromotePcs, FinishPcs,
    RevertPcs, RollbackPcs
  <1>1. CASE RollbackSlots(p) \/ RollbackKeepNext(p) \/ RollbackCleared(p)
             \/ RollbackKeepEntry(p) \/ RollbackQuarantined(p)
             \/ RollbackNoCandidate(p) \/ RollbackManifest(p) \/ RollbackPartial(p)
    BY <1>1, QuietRollback, QuietBootInv
  <1>2. CASE RollbackExchange(p)
    BY <1>2 DEF RollbackExchange, Exchanged
  <1>3. CASE RollbackRestore(p)
    BY <1>3 DEF RollbackRestore
  <1>4. CASE RollbackRestoreFails(p)
    BY <1>4 DEF RollbackRestoreFails
  <1>5. CASE RollbackReplace(p)
    BY <1>5 DEF RollbackReplace
  <1>6. CASE RollbackReplaceFails(p)
    BY <1>6 DEF RollbackReplaceFails
  <1>7. CASE RollbackSync(p)
    BY <1>7 DEF RollbackSync
  <1>8. CASE RollbackClearNext(p)
    BY <1>8 DEF RollbackClearNext
  <1>9. CASE RollbackDeleteEntry(p)
    BY <1>9 DEF RollbackDeleteEntry
  <1>10. CASE RollbackQuarantine(p)
    BY <1>10 DEF RollbackQuarantine
  <1>11. CASE RollbackUnlink(p)
    BY <1>11 DEF RollbackUnlink
  <1>12. CASE RollbackUnlinkFails(p)
    <2>1. BootKnown(esp)' /\ BootKnown(disk)'
      <3>1. CASE loc[p].made
        <4>1. esp' = [esp EXCEPT !.cand = esp.quar, !.quar = "absent"] /\ disk' = esp'
          BY <1>12, <3>1 DEF RollbackUnlinkFails
        <4>2. esp'.active = esp.active /\ esp'.cand = esp.quar /\ esp'.quar = "absent"
          BY <4>1 DEF TypeOK, Esp
        <4> QED BY <1>12, <4>1, <4>2 DEF RollbackUnlinkFails, BootInv, BootKnown, TypeOK
      <3>2. CASE ~loc[p].made
        BY <1>12, <3>2 DEF RollbackUnlinkFails, BootInv, BootKnown, TypeOK
      <3> QED BY <3>1, <3>2
    <2> QED BY <1>12, <2>1 DEF RollbackUnlinkFails
  <1>13. CASE RollbackFlush(p)
    BY <1>13 DEF RollbackFlush
  <1>14. CASE RollbackClear(p)
    BY <1>14 DEF RollbackClear, NoIntent
  <1> QED BY <1>1, <1>2, <1>3, <1>4, <1>5, <1>6, <1>7, <1>8, <1>9, <1>10, <1>11,
    <1>12, <1>13, <1>14 DEF RollbackStep

LEMMA StartBootInv ==
    ASSUME TypeOK, LockHeldByRunner, BootInv, NEW p \in Procs, Start(p)
    PROVE  BootInv'
  <1> USE ProcAssumption, BootAssumption DEF TypeOK, LockHeldByRunner, BootInv,
    BootKnown, Slots, OldNew, NewOld, Esp, Slot, Scratch, Snapshot, Acquire,
    Release, Raise, Goto, Locked, StagePcs, NextPcs, PromotePcs, FinishPcs,
    RevertPcs, RollbackPcs
  <1>1. CASE StageEnter(p) \/ NextAdopt(p) \/ PromoteResume(p) \/ PromoteRevert(p)
    BY <1>1 DEF StageEnter, NextAdopt, PromoteResume, PromoteRevert, Authorized,
      MayPromote, Nums, OwnsNvram, OwnsVariables
  <1>2. CASE NextStart(p)
    BY <1>2 DEF NextStart, Record
  <1>3. CASE PromoteStart(p)
    BY <1>3 DEF PromoteStart, Record, MayPromote, Authorized, OwnsNvram,
      OwnsVariables, Nums
  <1>4. CASE RollbackStart(p)
    BY <1>4 DEF RollbackStart, Record
  <1> QED BY <1>1, <1>2, <1>3, <1>4 DEF Start

-----------------------------------------------------------------------------
(* Firmware, power and failures.                                           *)

\* An entry that runs the candidate slot runs the new loader, or the old one of a
\* candidate that has booted before.
LEMMA FirmwareBoots ==
    ASSUME TypeOK, BootInv, NEW e \in Esp, BootKnown(e), Firmware(e)
    PROVE  /\ booted => booted'
           /\ \A n \in Normal : nvram'.entries[n] \in {"initial", "other"}
           /\ nvram'.current \in Nums
           /\ nvram'.entries[nvram'.current] \in {"none", "cand"} => booted'
  <1>1. PICK n \in Nums :
        /\ nvram.entries[n] # "none"
        /\ \/ n \in Normal
           \/ n = nvram.next.num /\ (nvram.entries[n] = "cand" => Bootable(e.cand))
        /\ nvram' = [nvram EXCEPT !.next = NoNext, !.current = n]
        /\ booted' = (booted \/ (nvram.entries[n] = "cand" /\ e.cand = "new"))
    BY DEF Firmware
  <1>2. nvram'.entries = nvram.entries /\ nvram'.current = n
    BY <1>1 DEF TypeOK, Snapshot
  <1>3. nvram.entries[n] = "cand" => e.cand \in {"old", "new"}
    BY <1>1 DEF BootInv, Bootable
  <1>4. booted => booted'
    BY <1>1
  <1>5. nvram.entries[n] = "cand" => booted'
    BY <1>1, <1>3, <1>4 DEF BootKnown
  <1> QED BY <1>1, <1>2, <1>4, <1>5 DEF BootInv

LEMMA EnvironmentBootInv ==
    ASSUME "slot" \notin Drifts, TypeOK, LockHeldByRunner, BootInv, Environment
    PROVE  BootInv'
  <1>1. CASE Reboot
    <2>1. booted => booted'
      BY <1>1, FirmwareBoots DEF Reboot, TypeOK, BootInv
    <2>2. BootKnown(esp)' /\ BootKnown(disk)'
      BY <1>1, <2>1 DEF Reboot, BootInv, BootKnown
    <2> QED BY <1>1, <2>1, <2>2, FirmwareBoots DEF Reboot, TypeOK, BootInv, Slots
  <1>2. CASE PowerLoss
    <2>1. booted => booted'
      BY <1>2, FirmwareBoots DEF PowerLoss, TypeOK, BootInv
    <2>2. BootKnown(esp)' /\ BootKnown(disk)'
      BY <1>2, <2>1 DEF PowerLoss, BootInv, BootKnown
    <2>3. \A p \in Procs : pc'[p] \notin PromotePcs
      BY <1>2 DEF PowerLoss, PromotePcs, FinishPcs, RevertPcs
    <2> QED
      BY <1>2, <2>1, <2>2, <2>3, FirmwareBoots
         DEF PowerLoss, TypeOK, BootInv, PromotePcs, FinishPcs, RevertPcs
  <1>3. CASE WriteBack
    BY <1>3 DEF WriteBack, BootInv, BootKnown, Slots
  <1>4. CASE DriftNext \/ DriftOrder \/ DriftTree
    <2>1. nvram'.entries = nvram.entries /\ nvram'.current = nvram.current
      BY <1>4 DEF DriftNext, DriftOrder, DriftTree, TypeOK, Snapshot
    <2> QED
      BY <1>4, <2>1 DEF DriftNext, DriftOrder, DriftTree, BootInv, BootKnown, Slots
  <1>5. CASE DriftEntry
    BY <1>5, BootAssumption
       DEF DriftEntry, TypeOK, Snapshot, BootInv, BootKnown, Slots, Nums
  <1>6. CASE DriftRace
    <2>1. \A p \in Procs : pc'[p] \notin Locked
      BY <1>6, ProcAssumption DEF DriftRace, LockHeldByRunner
    <2>2. BootKnown(esp)' /\ BootKnown(disk)'
      BY <1>6 DEF DriftRace, TypeOK, Esp, BootInv, BootKnown
    <2> QED
      BY <1>6, <2>1, <2>2
         DEF DriftRace, BootInv, Locked, PromotePcs, FinishPcs, RevertPcs
  <1> QED
    BY <1>1, <1>2, <1>3, <1>4, <1>5, <1>6 DEF Environment, DriftSlot, Drift

LEMMA FailureBootInv ==
    ASSUME TypeOK, LockHeldByRunner, BootInv, NEW p \in Procs, Fails(p) \/ Killed(p)
    PROVE  BootInv'
  <1> USE DEF TypeOK, LockHeldByRunner, BootInv, BootKnown, Goto, Release, Locked,
      StagePcs, RollbackPcs, PromotePcs, FinishPcs, RevertPcs, Slots, Esp
  <1>1. CASE Fails(p)
    BY <1>1 DEF Fails
  <1>2. CASE Killed(p)
    BY <1>2 DEF Killed
  <1> QED BY <1>1, <1>2

LEMMA NextBootInv ==
    ASSUME "slot" \notin Drifts, TypeOK, LockHeldByRunner, BootInv, [Next]_vars
    PROVE  BootInv'
  <1>1. CASE UNCHANGED vars
    BY <1>1 DEF vars, BootInv, BootKnown, Slots
  <1>2. ASSUME NEW p \in Procs, Start(p) \/ Continue(p) PROVE BootInv'
    BY <1>2, StartBootInv, StageBootInv, BootNextBootInv, PromoteBootInv,
       RollbackBootInv DEF Continue
  <1> QED
    BY <1>1, <1>2, EnvironmentBootInv, FailureBootInv DEF Next

\* Unless other software writes the loader slots, the normal boot entry starts the old
\* loader, or the new one after firmware has booted it through its own entry; at any
\* point a power loss may hit, for any number of promotions, crashes and retries.
THEOREM NormalBootSafe == "slot" \notin Drifts /\ Spec => []NormalEntryBoots
  <1>1. ASSUME "slot" \notin Drifts PROVE Spec => []NormalEntryBoots
    <2>1. Init => BootInv
      BY InitBootInv
    <2>2. TypeOK /\ LockHeldByRunner /\ BootInv /\ [Next]_vars => BootInv'
      BY <1>1, NextBootInv
    <2>3. BootInv => NormalEntryBoots
      BY DEF BootInv, BootKnown, NormalEntryBoots
    <2> QED BY <2>1, <2>2, <2>3, TypeCorrect, LockExcludes, PTL DEF Spec
  <1> QED BY <1>1
=============================================================================
