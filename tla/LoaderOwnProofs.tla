---------------------------- MODULE LoaderOwnProofs ----------------------------
(***************************************************************************)
(* A transaction touches what is its own, for every number of invocations, *)
(* crashes and failures, and whatever other software changes: it writes    *)
(* only its own EFI variables, destroys no file it does not know, leaves   *)
(* no scratch file without the intent that knows its name, and reports a   *)
(* rollback only over the machine it recorded.                             *)
(***************************************************************************)
EXTENDS LoaderDeployProofs

\* The inductive invariant: an entry is created, or recorded as the transaction's, only
\* where the recorded snapshot has none.
OwnInv ==
    /\ \A p \in Procs :
        /\ pc[p] \in Locked => HasTransaction
        /\ pc[p] = "stage_create" => EntriesKept(manifest.initial, nvram)
        /\ pc[p] = "stage_record" => intent.op = "create_entry"
    /\ ~HasTransaction => intent.op = "none" /\ manifest.num = NoNum
    /\ intent.op = "create_entry" => intent.before.entries = manifest.initial.entries
    /\ manifest.num \in Nums => manifest.initial.entries[manifest.num] = "none"

LEMMA InitOwnInv == Init => OwnInv
  BY BootAssumption DEF Init, OwnInv, HasTransaction, NoIntent, Locked, StagePcs, NextPcs,
     PromotePcs, FinishPcs, RevertPcs, RollbackPcs

LEMMA StageOwnInv ==
    ASSUME TypeOK, LockHeldByRunner, OwnInv, NEW p \in Procs, StageStep(p)
    PROVE  OwnInv'
  <1> USE ProcAssumption, BootAssumption DEF TypeOK, LockHeldByRunner, OwnInv,
    HasTransaction, Manifest, Snapshot, Nums, Acquire, Release, Raise, Goto, Locked,
    StagePcs, NextPcs, PromotePcs, FinishPcs, RevertPcs, RollbackPcs
  <1>1. CASE StageResume(p) \/ StageRefused(p) \/ StageKeepSlot(p)
             \/ StageWriteTemp(p) \/ StageTempForeign(p) \/ StageTempFails(p)
             \/ StageRename(p) \/ StageRenameFails(p) \/ StageSync(p)
             \/ StageRetryCreate(p) \/ StageCreateFull(p) \/ StageInspectRefused(p)
    BY <1>1 DEF StageResume, StageRefused, StageKeepSlot, StageWriteTemp,
      StageTempForeign, StageTempFails, StageRename, StageRenameFails, StageSync,
      StageRetryCreate, StageCreateFull, StageInspectRefused,
      CreatedSince, EntriesKept, MayBegin, MayDeclareEntry, MayResume, MayRetryCreate,
      UnchangedSinceBegin
  <1>2. CASE StageBegin(p)
    BY <1>2 DEF StageBegin, MayBegin
  <1>3. CASE StageIntent(p)
    BY <1>3 DEF StageIntent, Record
  <1>4. CASE StagePublished(p)
    BY <1>4 DEF StagePublished
  <1>5. CASE StageClear(p)
    BY <1>5 DEF StageClear, NoIntent
  <1>6. CASE StageDeclareEntry(p)
    BY <1>6 DEF StageDeclareEntry, Record, MayDeclareEntry, UnchangedSinceBegin,
      EntriesKept
  <1>7. CASE StageCreate(p)
    BY <1>7 DEF StageCreate
  <1>8. CASE StageAdopt(p)
    BY <1>8 DEF StageAdopt, CreatedSince
  <1>9. CASE StageConfirm(p)
    BY <1>9 DEF StageConfirm
  <1>10. CASE StageDone(p)
    BY <1>10 DEF StageDone, NoIntent
  <1>11. CASE StageObserve(p)
    BY <1>11 DEF StageObserve, Observed, Baseline, Record
  <1> QED BY <1>1, <1>2, <1>3, <1>4, <1>5, <1>6, <1>7, <1>8, <1>9, <1>10, <1>11 DEF
    StageStep

LEMMA BootNextOwnInv ==
    ASSUME TypeOK, LockHeldByRunner, OwnInv, NEW p \in Procs, NextStep(p)
    PROVE  OwnInv'
  <1> USE ProcAssumption, BootAssumption DEF TypeOK, LockHeldByRunner, OwnInv,
    HasTransaction, Manifest, Snapshot, Nums, Acquire, Release, Raise, Goto, Locked,
    StagePcs, NextPcs, PromotePcs, FinishPcs, RevertPcs, RollbackPcs
  <1>1. CASE NextConflict(p) \/ NextSetFails(p) \/ NextReadBackRefused(p)
    BY <1>1 DEF NextConflict, NextSetFails, NextReadBackRefused, Armed
  <1>2. CASE NextSet(p)
    BY <1>2 DEF NextSet
  <1>3. CASE NextConflictClear(p)
    BY <1>3 DEF NextConflictClear, NoIntent
  <1>4. CASE NextReadBack(p)
    BY <1>4 DEF NextReadBack, Armed
  <1>5. CASE NextClear(p)
    BY <1>5 DEF NextClear, NoIntent
  <1> QED BY <1>1, <1>2, <1>3, <1>4, <1>5 DEF NextStep

LEMMA PromoteOwnInv ==
    ASSUME TypeOK, LockHeldByRunner, OwnInv, NEW p \in Procs, PromoteStep(p)
    PROVE  OwnInv'
  <1> USE ProcAssumption, BootAssumption DEF TypeOK, LockHeldByRunner, OwnInv,
    HasTransaction, Manifest, Snapshot, Nums, Acquire, Release, Raise, Goto, Locked,
    StagePcs, NextPcs, PromotePcs, FinishPcs, RevertPcs, RollbackPcs
  <1>1. CASE PromoteExchange(p) \/ FinishSync(p) \/ FinishRefused(p)
             \/ FinishFails(p) \/ RevertExchange(p) \/ RevertSync(p)
    BY <1>1 DEF PromoteExchange, FinishSync, FinishRefused, FinishFails,
      RevertExchange, RevertSync
  <1>2. CASE FinishManifest(p)
    BY <1>2 DEF FinishManifest, Settled
  <1>3. CASE FinishClear(p)
    BY <1>3 DEF FinishClear, NoIntent
  <1>4. CASE FinishClearFails(p)
    BY <1>4 DEF FinishClearFails, NoIntent
  <1>5. CASE RevertIntent(p)
    BY <1>5 DEF RevertIntent, Record
  <1>6. CASE RevertManifest(p)
    BY <1>6 DEF RevertManifest, Settled
  <1>7. CASE RevertClear(p)
    BY <1>7 DEF RevertClear, NoIntent
  <1> QED BY <1>1, <1>2, <1>3, <1>4, <1>5, <1>6, <1>7 DEF PromoteStep

LEMMA RollbackOwnInv ==
    ASSUME TypeOK, LockHeldByRunner, OwnInv, NEW p \in Procs, RollbackStep(p)
    PROVE  OwnInv'
  <1> USE ProcAssumption, BootAssumption DEF TypeOK, LockHeldByRunner, OwnInv,
    HasTransaction, Manifest, Snapshot, Nums, Acquire, Release, Raise, Goto, Locked,
    StagePcs, NextPcs, PromotePcs, FinishPcs, RevertPcs, RollbackPcs
  <1>1. CASE RollbackExchange(p) \/ RollbackSlots(p) \/ RollbackRestore(p)
             \/ RollbackRestoreFails(p) \/ RollbackReplace(p)
             \/ RollbackReplaceFails(p) \/ RollbackSync(p) \/ RollbackKeepNext(p)
             \/ RollbackCleared(p) \/ RollbackKeepEntry(p) \/ RollbackQuarantine(p)
             \/ RollbackQuarantined(p) \/ RollbackNoCandidate(p) \/ RollbackUnlink(p)
             \/ RollbackUnlinkFails(p) \/ RollbackFlush(p)
    BY <1>1 DEF RollbackExchange, RollbackSlots, RollbackRestore,
      RollbackRestoreFails, RollbackReplace, RollbackReplaceFails, RollbackSync,
      RollbackKeepNext, RollbackCleared, RollbackKeepEntry, RollbackQuarantine,
      RollbackQuarantined, RollbackNoCandidate, RollbackUnlink, RollbackUnlinkFails,
      RollbackFlush, OwnsLiveNext, SelectsCandidate
  <1>2. CASE RollbackClearNext(p)
    BY <1>2 DEF RollbackClearNext, OwnsLiveNext, SelectsCandidate
  <1>3. CASE RollbackDeleteEntry(p)
    BY <1>3 DEF RollbackDeleteEntry
  <1>4. CASE RollbackManifest(p)
    BY <1>4 DEF RollbackManifest
  <1>5. CASE RollbackPartial(p)
    BY <1>5 DEF RollbackPartial
  <1>6. CASE RollbackClear(p)
    BY <1>6 DEF RollbackClear, NoIntent
  <1> QED BY <1>1, <1>2, <1>3, <1>4, <1>5, <1>6 DEF RollbackStep

LEMMA StartOwnInv ==
    ASSUME TypeOK, LockHeldByRunner, OwnInv, NEW p \in Procs, Start(p)
    PROVE  OwnInv'
  <1> USE ProcAssumption, BootAssumption DEF TypeOK, LockHeldByRunner, OwnInv,
    HasTransaction, Manifest, Snapshot, Nums, Acquire, Release, Raise, Goto, Locked,
    StagePcs, NextPcs, PromotePcs, FinishPcs, RevertPcs, RollbackPcs
  <1>1. CASE StageEnter(p) \/ PromoteResume(p) \/ PromoteRevert(p)
    BY <1>1 DEF StageEnter, PromoteResume, PromoteRevert, MayPromote
  <1>2. CASE NextStart(p)
    BY <1>2 DEF NextStart, Record, MayArm
  <1>3. CASE NextAdopt(p)
    BY <1>3 DEF NextAdopt, Armed, MayArm
  <1>4. CASE PromoteStart(p)
    BY <1>4 DEF PromoteStart, Record, MayPromote
  <1>5. CASE RollbackStart(p)
    BY <1>5 DEF RollbackStart, Record, MayRollback
  <1> QED BY <1>1, <1>2, <1>3, <1>4, <1>5 DEF Start

LEMMA EnvironmentOwnInv ==
    ASSUME TypeOK, OwnInv, Environment
    PROVE  OwnInv'
  <1>1. UNCHANGED <<manifest, intent>>
    BY DEF Environment, Reboot, PowerLoss, WriteBack, DriftNext, DriftOrder, DriftEntry,
       DriftTree, DriftSlot, DriftRace
  <1>2. ASSUME NEW p \in Procs PROVE pc'[p] = pc[p] \/ pc'[p] = "idle"
    BY DEF Environment, Reboot, PowerLoss, WriteBack, DriftNext, DriftOrder, DriftEntry,
       DriftTree, DriftSlot, DriftRace
  <1>3. ASSUME NEW p \in Procs, pc'[p] = "stage_create"
        PROVE  pc[p] = "stage_create" /\ nvram'.entries = nvram.entries
    <2>1. pc[p] = "stage_create"
      BY <1>2, <1>3
    <2>2. CASE Reboot \/ PowerLoss \/ DriftEntry
      BY <1>3, <2>1, <2>2 DEF Reboot, PowerLoss, DriftEntry, Quiet, Idle
    <2>3. CASE DriftNext \/ DriftOrder
      BY <2>1, <2>3 DEF DriftNext, DriftOrder, TypeOK, Snapshot
    <2>4. CASE WriteBack \/ DriftTree \/ DriftSlot \/ DriftRace
      BY <2>1, <2>4 DEF WriteBack, DriftTree, DriftSlot, DriftRace
    <2> QED BY <2>2, <2>3, <2>4 DEF Environment
  <1>4. "idle" \notin Locked
    BY DEF Locked, StagePcs, NextPcs, PromotePcs, FinishPcs, RevertPcs, RollbackPcs
  <1> QED
    BY <1>1, <1>2, <1>3, <1>4 DEF OwnInv, HasTransaction, EntriesKept

LEMMA FailureOwnInv ==
    ASSUME TypeOK, OwnInv, NEW p \in Procs, Fails(p) \/ Killed(p)
    PROVE  OwnInv'
  <1>1. "idle" \notin Locked
    BY DEF Locked, StagePcs, NextPcs, PromotePcs, FinishPcs, RevertPcs, RollbackPcs
  <1> QED
    BY <1>1 DEF Fails, Killed, Goto, Release, OwnInv, HasTransaction, EntriesKept,
       TypeOK

LEMMA NextOwnInv ==
    ASSUME TypeOK, LockHeldByRunner, OwnInv, [Next]_vars
    PROVE  OwnInv'
  <1>1. CASE UNCHANGED vars
    BY <1>1 DEF vars, OwnInv, HasTransaction, EntriesKept
  <1>2. ASSUME NEW p \in Procs, Start(p) \/ Continue(p) PROVE OwnInv'
    BY <1>2, StartOwnInv, StageOwnInv, BootNextOwnInv, PromoteOwnInv, RollbackOwnInv
       DEF Continue
  <1> QED
    BY <1>1, <1>2, EnvironmentOwnInv, FailureOwnInv DEF Next

-----------------------------------------------------------------------------
(* What a step of the program does to the variables.                       *)

LEMMA StageOnlyOwn ==
    ASSUME TypeOK, OwnInv, NEW p \in Procs, StageStep(p)
    PROVE  OnlyOwnVariables
  <1> USE BootAssumption DEF TypeOK, OwnInv, OnlyOwnVariables, Snapshot, Nums,
    EntriesKept
  <1>1. CASE StageBegin(p) \/ StageResume(p) \/ StageRefused(p) \/ StageIntent(p)
             \/ StageKeepSlot(p) \/ StageWriteTemp(p) \/ StageTempForeign(p)
             \/ StageTempFails(p) \/ StageRename(p) \/ StageRenameFails(p)
             \/ StageSync(p) \/ StagePublished(p) \/ StageClear(p)
             \/ StageDeclareEntry(p) \/ StageRetryCreate(p) \/ StageCreateFull(p)
             \/ StageObserve(p) \/ StageAdopt(p) \/ StageConfirm(p)
             \/ StageInspectRefused(p) \/ StageDone(p)
    <2>1. nvram' = nvram
      BY <1>1 DEF StageBegin, StageResume, StageRefused, StageIntent, StageKeepSlot,
        StageWriteTemp, StageTempForeign, StageTempFails, StageRename,
        StageRenameFails, StageSync, StagePublished, StageClear, StageDeclareEntry,
        StageRetryCreate, StageCreateFull, StageObserve, StageAdopt, StageConfirm,
        StageInspectRefused, StageDone, Raise
    <2> QED BY <2>1 DEF OnlyOwnVariables
  <1>2. CASE StageCreate(p)
    BY <1>2 DEF StageCreate
  <1> QED BY <1>1, <1>2 DEF StageStep

LEMMA BootNextOnlyOwn ==
    ASSUME TypeOK, OwnInv, NEW p \in Procs, NextStep(p)
    PROVE  OnlyOwnVariables
  <1> USE BootAssumption DEF TypeOK, OwnInv, OnlyOwnVariables, Snapshot, Nums,
    EntriesKept
  <1>1. CASE NextConflict(p) \/ NextConflictClear(p) \/ NextSetFails(p)
             \/ NextReadBack(p) \/ NextReadBackRefused(p) \/ NextClear(p)
    <2>1. nvram' = nvram
      BY <1>1 DEF NextConflict, NextConflictClear, NextSetFails, NextReadBack,
        NextReadBackRefused, NextClear, Raise
    <2> QED BY <2>1 DEF OnlyOwnVariables
  <1>2. CASE NextSet(p)
    BY <1>2 DEF NextSet
  <1> QED BY <1>1, <1>2 DEF NextStep

LEMMA PromoteOnlyOwn ==
    ASSUME TypeOK, OwnInv, NEW p \in Procs, PromoteStep(p)
    PROVE  OnlyOwnVariables
  <1> USE BootAssumption DEF TypeOK, OwnInv, OnlyOwnVariables, Snapshot, Nums,
    EntriesKept
  <1>1. CASE PromoteExchange(p) \/ FinishSync(p) \/ FinishManifest(p)
             \/ FinishRefused(p) \/ FinishClear(p) \/ FinishFails(p)
             \/ FinishClearFails(p) \/ RevertIntent(p) \/ RevertExchange(p)
             \/ RevertSync(p) \/ RevertManifest(p) \/ RevertClear(p)
    <2>1. nvram' = nvram
      BY <1>1 DEF PromoteExchange, FinishSync, FinishManifest, FinishRefused,
        FinishClear, FinishFails, FinishClearFails, RevertIntent, RevertExchange,
        RevertSync, RevertManifest, RevertClear, Raise
    <2> QED BY <2>1 DEF OnlyOwnVariables
  <1> QED BY <1>1 DEF PromoteStep

LEMMA RollbackOnlyOwn ==
    ASSUME TypeOK, OwnInv, NEW p \in Procs, RollbackStep(p)
    PROVE  OnlyOwnVariables
  <1> USE BootAssumption DEF TypeOK, OwnInv, OnlyOwnVariables, Snapshot, Nums,
    EntriesKept
  <1>1. CASE RollbackExchange(p) \/ RollbackSlots(p) \/ RollbackRestore(p)
             \/ RollbackRestoreFails(p) \/ RollbackReplace(p)
             \/ RollbackReplaceFails(p) \/ RollbackSync(p) \/ RollbackKeepNext(p)
             \/ RollbackCleared(p) \/ RollbackKeepEntry(p) \/ RollbackQuarantine(p)
             \/ RollbackQuarantined(p) \/ RollbackNoCandidate(p) \/ RollbackUnlink(p)
             \/ RollbackUnlinkFails(p) \/ RollbackFlush(p) \/ RollbackManifest(p)
             \/ RollbackPartial(p) \/ RollbackClear(p)
    <2>1. nvram' = nvram
      BY <1>1 DEF RollbackExchange, RollbackSlots, RollbackRestore,
        RollbackRestoreFails, RollbackReplace, RollbackReplaceFails, RollbackSync,
        RollbackKeepNext, RollbackCleared, RollbackKeepEntry, RollbackQuarantine,
        RollbackQuarantined, RollbackNoCandidate, RollbackUnlink,
        RollbackUnlinkFails, RollbackFlush, RollbackManifest, RollbackPartial,
        RollbackClear, Raise
    <2> QED BY <2>1 DEF OnlyOwnVariables
  <1>2. CASE RollbackClearNext(p)
    BY <1>2 DEF RollbackClearNext, OwnsLiveNext, SelectsCandidate
  <1>3. CASE RollbackDeleteEntry(p)
    BY <1>3 DEF RollbackDeleteEntry
  <1> QED BY <1>1, <1>2, <1>3 DEF RollbackStep

LEMMA StartOnlyOwn ==
    ASSUME TypeOK, OwnInv, NEW p \in Procs, Start(p)
    PROVE  OnlyOwnVariables
  <1> USE BootAssumption DEF TypeOK, OwnInv, OnlyOwnVariables, Snapshot, Nums,
    EntriesKept
  <1>1. CASE StageEnter(p) \/ NextStart(p) \/ NextAdopt(p) \/ PromoteStart(p)
             \/ PromoteResume(p) \/ PromoteRevert(p) \/ RollbackStart(p)
    <2>1. nvram' = nvram
      BY <1>1 DEF StageEnter, NextStart, NextAdopt, PromoteStart, PromoteResume,
        PromoteRevert, RollbackStart, Raise
    <2> QED BY <2>1 DEF OnlyOwnVariables
  <1> QED BY <1>1 DEF Start

LEMMA ProgramOnlyOwn ==
    ASSUME TypeOK, OwnInv, NEW p \in Procs, Start(p) \/ Continue(p)
    PROVE  OnlyOwnVariables
  BY StartOnlyOwn, StageOnlyOwn, BootNextOnlyOwn, PromoteOnlyOwn, RollbackOnlyOwn
     DEF Continue

\* Whatever other software changes and whenever an invocation dies: BootOrder is never
\* written, an entry only where the recorded snapshot has none and only as the candidate's,
\* and BootNext only when it is absent or is the one the transaction recorded as its own.
THEOREM OnlyOwnVariablesChange == Spec => OtherVariablesPreserved
  <1>1. Init => OwnInv
    BY InitOwnInv
  <1>2. TypeOK /\ LockHeldByRunner /\ OwnInv /\ [Next]_vars => OwnInv'
    BY NextOwnInv
  <1>3. TypeOK /\ OwnInv => [ProgramStep => OnlyOwnVariables]_vars
    BY ProgramOnlyOwn DEF ProgramStep
  <1> QED
    BY <1>1, <1>2, <1>3, TypeCorrect, LockExcludes, PTL DEF Spec,
       OtherVariablesPreserved

-----------------------------------------------------------------------------
(* Intents.                                                                *)

\* Failures, firmware and other software stop invocations; they never move one on.
LEMMA OthersStop ==
    ASSUME TypeOK, Environment \/ (\E p \in Procs : Fails(p) \/ Killed(p))
    PROVE  /\ UNCHANGED <<manifest, intent, loc>>
           /\ \A q \in Procs : pc'[q] = pc[q] \/ pc'[q] = "idle"
  <1>1. CASE Environment
    BY <1>1 DEF Environment, Reboot, PowerLoss, WriteBack, DriftNext, DriftOrder,
       DriftEntry, DriftTree, DriftSlot, DriftRace
  <1>2. ASSUME NEW p \in Procs, Fails(p) \/ Killed(p)
        PROVE  /\ UNCHANGED <<manifest, intent, loc>>
               /\ \A q \in Procs : pc'[q] = pc[q] \/ pc'[q] = "idle"
    BY <1>2 DEF Fails, Killed, Release, Goto, TypeOK
  <1> QED BY <1>1, <1>2

\* The inductive invariant: which intent covers each step, and that a transaction has
\* its entry's number from the moment it is staged.
IntentInv ==
    /\ intent.op = "publish_candidate" =>
         manifest.state \in {"backup_ready", "candidate_published"}
    /\ intent.op = "create_entry" =>
         manifest.state \in {"candidate_published", "staged"}
    /\ intent.op = "rollback" => manifest.num \in Nums
    /\ manifest.num = NoNum <=>
         manifest.state \in {"none", "backup_ready", "candidate_published"}
    /\ \A p \in Procs :
        /\ pc[p] = "stage_intent" => intent.op = "none" /\ manifest.state = "backup_ready"
        /\ pc[p] \in {"stage_temp", "stage_rename", "stage_sync", "stage_published",
                      "stage_clear"} => intent.op = "publish_candidate"
        /\ pc[p] = "stage_clear" => manifest.state = "candidate_published"
        /\ pc[p] = "stage_inspect" =>
             /\ intent.op \in {"none", "create_entry"}
             /\ manifest.state # "backup_ready"
        /\ pc[p] \in {"stage_create", "stage_staged", "stage_record"} =>
             /\ intent.op = "create_entry"
             /\ manifest.num = NoNum
        /\ pc[p] = "stage_done" => intent.op = "create_entry" /\ manifest.state = "staged"
        /\ pc[p] \in NextPcs => intent.op = "set_boot_next"
        /\ pc[p] \in {"promote_exchange"} \cup FinishPcs \cup {"revert_intent"} =>
             intent.op \in {"none", "promote", "promote_revert"}
        /\ pc[p] \in RevertPcs \ {"revert_intent"} => intent.op = "promote_revert"
        /\ pc[p] \in NextPcs \cup PromotePcs => manifest.num \in Nums
        /\ pc[p] \in RollbackPcs => intent.op = "rollback"

LEMMA InitIntentInv == Init => IntentInv
  BY DEF Init, IntentInv, NoIntent, Locked, StagePcs, NextPcs, PromotePcs, FinishPcs,
     RevertPcs, RollbackPcs

LEMMA StageIntentInv ==
    ASSUME TypeOK, LockHeldByRunner, OwnInv, IntentInv, NEW p \in Procs, StageStep(p)
    PROVE  IntentInv'
  <1> USE ProcAssumption, BootAssumption DEF TypeOK, LockHeldByRunner, OwnInv, IntentInv,
    HasTransaction, Acquire, Release, Raise, Goto, Locked, StagePcs, NextPcs,
    PromotePcs, FinishPcs, RevertPcs, RollbackPcs, Manifest, Intent
  <1>1. CASE StageResume(p) \/ StageRefused(p) \/ StageKeepSlot(p)
             \/ StageWriteTemp(p) \/ StageTempForeign(p) \/ StageTempFails(p)
    BY <1>1 DEF StageResume, StageRefused, StageKeepSlot, StageWriteTemp,
      StageTempForeign, StageTempFails, MayResume, PublishPending, MayBegin
  <1>2. CASE StageRename(p) \/ StageRenameFails(p) \/ StageSync(p)
             \/ StageRetryCreate(p) \/ StageCreate(p) \/ StageCreateFull(p)
    BY <1>2 DEF StageRename, StageRenameFails, StageSync, StageRetryCreate,
      StageCreate, StageCreateFull, MayRetryCreate
  <1>3. CASE StageInspectRefused(p)
    BY <1>3 DEF StageInspectRefused, MayDeclareEntry, MayRetryCreate, OwnsNvram, OwnsVariables
  <1>4. CASE StageBegin(p)
    BY <1>4 DEF StageBegin, MayBegin
  <1>5. CASE StageIntent(p)
    BY <1>5 DEF StageIntent, Record
  <1>6. CASE StagePublished(p)
    BY <1>6 DEF StagePublished
  <1>7. CASE StageClear(p)
    BY <1>7 DEF StageClear, NoIntent
  <1>8. CASE StageDeclareEntry(p)
    BY <1>8 DEF StageDeclareEntry, MayDeclareEntry, Record
  <1>9. CASE StageAdopt(p)
    BY <1>9 DEF StageAdopt, CreatedSince
  <1>10. CASE StageConfirm(p)
    BY <1>10 DEF StageConfirm, Incomplete, OwnsNvram, OwnsVariables
  <1>11. CASE StageDone(p)
    BY <1>11 DEF StageDone, NoIntent
  <1>12. CASE StageObserve(p)
    BY <1>12 DEF StageObserve, Observed, Record
  <1> QED BY <1>1, <1>2, <1>3, <1>4, <1>5, <1>6, <1>7, <1>8, <1>9, <1>10, <1>11, <1>12
    DEF StageStep

LEMMA BootNextIntentInv ==
    ASSUME TypeOK, LockHeldByRunner, OwnInv, IntentInv, NEW p \in Procs, NextStep(p)
    PROVE  IntentInv'
  <1> USE ProcAssumption, BootAssumption DEF TypeOK, LockHeldByRunner, OwnInv, IntentInv,
    HasTransaction, Acquire, Release, Raise, Goto, Locked, StagePcs, NextPcs,
    PromotePcs, FinishPcs, RevertPcs, RollbackPcs, Manifest, Intent
  <1>1. CASE NextSet(p) \/ NextConflict(p) \/ NextSetFails(p)
             \/ NextReadBackRefused(p)
    BY <1>1 DEF NextSet, NextConflict, NextSetFails, NextReadBackRefused
  <1>2. CASE NextConflictClear(p)
    BY <1>2 DEF NextConflictClear, NoIntent
  <1>3. CASE NextReadBack(p)
    BY <1>3 DEF NextReadBack, Armed
  <1>4. CASE NextClear(p)
    BY <1>4 DEF NextClear, NoIntent
  <1> QED BY <1>1, <1>2, <1>3, <1>4 DEF NextStep

LEMMA PromoteIntentInv ==
    ASSUME TypeOK, LockHeldByRunner, OwnInv, IntentInv, NEW p \in Procs, PromoteStep(p)
    PROVE  IntentInv'
  <1> USE ProcAssumption, BootAssumption DEF TypeOK, LockHeldByRunner, OwnInv, IntentInv,
    HasTransaction, Acquire, Release, Raise, Goto, Locked, StagePcs, NextPcs,
    PromotePcs, FinishPcs, RevertPcs, RollbackPcs, Manifest, Intent
  <1>1. CASE PromoteExchange(p) \/ FinishSync(p) \/ FinishRefused(p) \/ FinishFails(p)
             \/ RevertExchange(p) \/ RevertSync(p)
    BY <1>1 DEF PromoteExchange, FinishSync, FinishRefused, FinishFails,
      RevertExchange, RevertSync
  <1>2. CASE FinishManifest(p)
    BY <1>2 DEF FinishManifest, Settled
  <1>3. CASE FinishClear(p)
    BY <1>3 DEF FinishClear, NoIntent
  <1>4. CASE FinishClearFails(p)
    BY <1>4 DEF FinishClearFails, NoIntent
  <1>5. CASE RevertIntent(p)
    BY <1>5 DEF RevertIntent, Record
  <1>6. CASE RevertManifest(p)
    BY <1>6 DEF RevertManifest, Settled
  <1>7. CASE RevertClear(p)
    BY <1>7 DEF RevertClear, NoIntent
  <1> QED BY <1>1, <1>2, <1>3, <1>4, <1>5, <1>6, <1>7 DEF PromoteStep

LEMMA RollbackIntentInv ==
    ASSUME TypeOK, LockHeldByRunner, OwnInv, IntentInv, NEW p \in Procs, RollbackStep(p)
    PROVE  IntentInv'
  <1> USE ProcAssumption, BootAssumption DEF TypeOK, LockHeldByRunner, OwnInv, IntentInv,
    HasTransaction, Acquire, Release, Raise, Goto, Locked, StagePcs, NextPcs,
    PromotePcs, FinishPcs, RevertPcs, RollbackPcs, Manifest, Intent
  <1>1. CASE RollbackExchange(p) \/ RollbackSlots(p) \/ RollbackRestore(p)
             \/ RollbackRestoreFails(p) \/ RollbackReplace(p)
             \/ RollbackReplaceFails(p)
    BY <1>1 DEF RollbackExchange, RollbackSlots, RollbackRestore,
      RollbackRestoreFails, RollbackReplace, RollbackReplaceFails
  <1>2. CASE RollbackSync(p) \/ RollbackClearNext(p) \/ RollbackKeepNext(p)
             \/ RollbackCleared(p) \/ RollbackDeleteEntry(p) \/ RollbackKeepEntry(p)
    BY <1>2 DEF RollbackSync, RollbackClearNext, RollbackKeepNext, RollbackCleared,
      RollbackDeleteEntry, RollbackKeepEntry
  <1>3. CASE RollbackQuarantine(p) \/ RollbackQuarantined(p) \/ RollbackNoCandidate(p)
             \/ RollbackUnlink(p) \/ RollbackUnlinkFails(p) \/ RollbackFlush(p)
    BY <1>3 DEF RollbackQuarantine, RollbackQuarantined, RollbackNoCandidate,
      RollbackUnlink, RollbackUnlinkFails, RollbackFlush
  <1>4. CASE RollbackManifest(p)
    BY <1>4 DEF RollbackManifest
  <1>5. CASE RollbackPartial(p)
    BY <1>5 DEF RollbackPartial
  <1>6. CASE RollbackClear(p)
    BY <1>6 DEF RollbackClear, NoIntent
  <1> QED BY <1>1, <1>2, <1>3, <1>4, <1>5, <1>6 DEF RollbackStep

LEMMA StartIntentInv ==
    ASSUME TypeOK, LockHeldByRunner, OwnInv, IntentInv, NEW p \in Procs, Start(p)
    PROVE  IntentInv'
  <1> USE ProcAssumption, BootAssumption DEF TypeOK, LockHeldByRunner, OwnInv, IntentInv,
    HasTransaction, Acquire, Release, Raise, Goto, Locked, StagePcs, NextPcs,
    PromotePcs, FinishPcs, RevertPcs, RollbackPcs, Manifest, Intent
  <1>1. CASE StageEnter(p) \/ PromoteResume(p) \/ PromoteRevert(p)
    BY <1>1 DEF StageEnter, PromoteResume, PromoteRevert, MayPromote, OwnsNvram,
      OwnsVariables
  <1>2. CASE NextStart(p)
    BY <1>2 DEF NextStart, MayArm, OwnsVariables, Record
  <1>3. CASE NextAdopt(p)
    BY <1>3 DEF NextAdopt, Armed, MayArm, OwnsVariables
  <1>4. CASE PromoteStart(p)
    BY <1>4 DEF PromoteStart, MayPromote, OwnsNvram, OwnsVariables, Record
  <1>5. CASE RollbackStart(p)
    BY <1>5 DEF RollbackStart, EntryRemovable, MayRollback, Record, RemovableNvram
  <1> QED BY <1>1, <1>2, <1>3, <1>4, <1>5 DEF Start

LEMMA OthersIntentInv ==
    ASSUME TypeOK, IntentInv, Environment \/ (\E p \in Procs : Fails(p) \/ Killed(p))
    PROVE  IntentInv'
  BY OthersStop DEF IntentInv, StagePcs, NextPcs, PromotePcs, FinishPcs, RevertPcs,
     RollbackPcs

LEMMA NextIntentInv ==
    ASSUME TypeOK, LockHeldByRunner, OwnInv, IntentInv, [Next]_vars
    PROVE  IntentInv'
  <1>1. CASE UNCHANGED vars
    BY <1>1 DEF vars, IntentInv
  <1>2. ASSUME NEW p \in Procs, Start(p) \/ Continue(p) PROVE IntentInv'
    BY <1>2, StartIntentInv, StageIntentInv, BootNextIntentInv, PromoteIntentInv,
       RollbackIntentInv
       DEF Continue
  <1> QED
    BY <1>1, <1>2, OthersIntentInv DEF Next

-----------------------------------------------------------------------------
(* Scratch files.                                                          *)

Tidy(e) == e.quar = "absent" /\ e.rtemp = "absent"

\* The inductive invariant: a restore file lies beside an active slot that still needs
\* it, and the syncs between a scratch file's removal and the removal of its intent.
ScratchInv ==
    /\ \A e \in {esp, disk} :
        /\ e.temp # "absent" => intent.op = "publish_candidate"
        /\ ~Tidy(e) => intent.op = "rollback"
        /\ e.rtemp # "absent" => e.active # "old" /\ Slots(e) # NewOld
    /\ \A p \in Procs :
        /\ pc[p] \in {"stage_sync", "stage_published", "stage_clear"} =>
             esp.temp = "absent"
        /\ pc[p] \in {"stage_published", "stage_clear"} => disk.temp = "absent"
        /\ pc[p] = "rollback_slots" /\ ~loc[p].flush => Tidy(esp) /\ Tidy(disk)
        /\ pc[p] \in {"rollback_restore", "rollback_replace"} =>
             esp.active # "old" /\ Slots(esp) # NewOld
        /\ pc[p] \in RollbackPcs
                    \ {"rollback_slots", "rollback_restore", "rollback_replace"} =>
             esp.active = "old"
        /\ pc[p] \in {"rollback_next", "rollback_cleared", "rollback_entry",
                      "rollback_candidate"} =>
             disk.rtemp = "absent" /\ (esp.quar = "absent" => disk.quar = "absent")
        /\ pc[p] = "rollback_flush" => esp.quar = "absent"
        /\ pc[p] \in {"rollback_manifest", "rollback_clear"} => Tidy(esp) /\ Tidy(disk)

LEMMA InitScratchInv == Init => ScratchInv
  BY DEF Init, ScratchInv, Tidy, NoIntent, RollbackPcs

LEMMA RollbackStartScratchInv ==
    ASSUME TypeOK, LockHeldByRunner, IntentInv, ScratchInv, NEW p \in Procs,
           RollbackStart(p)
    PROVE  ScratchInv'
  <1>1. \A q \in Procs \ {p} : pc'[q] = pc[q] /\ pc[q] \notin Locked
    BY ProcAssumption DEF RollbackStart, Acquire, Goto, TypeOK, LockHeldByRunner
  <1>2. pc'[p] = "rollback_slots" /\ (~loc'[p].flush => intent.op # "rollback")
    <2>1. pc'[p] = "rollback_slots" /\ loc'[p].flush = (intent.op = "rollback")
      BY DEF RollbackStart, Acquire, Goto, TypeOK, Local, NoLocal
    <2> QED BY <2>1
  <1>3. intent.op = "publish_candidate" => manifest.num \notin Nums
    BY BootAssumption DEF IntentInv
  <1>4. intent'.op = "rollback" /\ manifest.num \in Nums
    BY DEF RollbackStart, Record, MayRollback, RemovableNvram, EntryRemovable
  <1>5. UNCHANGED <<esp, disk>>
    BY DEF RollbackStart
  <1> QED
    BY <1>1, <1>2, <1>3, <1>4, <1>5 DEF ScratchInv, Tidy, Slots, Locked, StagePcs,
       RollbackPcs

LEMMA UnlinkFailsScratchInv ==
    ASSUME TypeOK, LockHeldByRunner, IntentInv, ScratchInv, NEW p \in Procs,
           RollbackUnlinkFails(p)
    PROVE  ScratchInv'
  <1>1. \A q \in Procs : pc'[q] \notin Locked
    BY DEF RollbackUnlinkFails, Release, Goto, TypeOK, LockHeldByRunner, Locked,
       StagePcs, NextPcs, PromotePcs, FinishPcs, RevertPcs, RollbackPcs
  <1>2. intent' = intent /\ intent.op = "rollback"
    BY DEF RollbackUnlinkFails, IntentInv, RollbackPcs
  <1>3. esp'.temp = esp.temp /\ esp'.rtemp = esp.rtemp /\ esp'.active = esp.active
        /\ esp.active = "old" /\ (disk' = disk \/ disk' = esp')
    BY DEF RollbackUnlinkFails, TypeOK, Esp, ScratchInv, RollbackPcs
  <1> QED
    BY <1>1, <1>2, <1>3 DEF ScratchInv, Tidy, Slots, NewOld, Locked, StagePcs,
       RollbackPcs

LEMMA StageScratchInv ==
    ASSUME TypeOK, LockHeldByRunner, IntentInv, ScratchInv, NEW p \in Procs,
           StageStep(p)
    PROVE  ScratchInv'
  <1> USE ProcAssumption, BootAssumption DEF TypeOK, LockHeldByRunner, IntentInv,
    ScratchInv, Tidy, Slots, OldNew, NewOld, Esp, Slot, Scratch, Acquire, Release,
    Raise, Goto, Locked, StagePcs, NextPcs, PromotePcs, FinishPcs, RevertPcs, RollbackPcs
  <1>1. CASE StageBegin(p) \/ StageRefused(p) \/ StageTempForeign(p)
             \/ StagePublished(p) \/ StageRetryCreate(p)
    BY <1>1 DEF StageBegin, StageRefused, StageTempForeign, StagePublished,
      StageRetryCreate, MayBegin, MayResume, PublishPending
  <1>2. CASE StageCreate(p) \/ StageCreateFull(p)
    BY <1>2 DEF StageCreate, StageCreateFull
  <1>3. CASE StageResume(p)
    BY <1>3 DEF StageResume, MayResume, PublishPending
  <1>4. CASE StageIntent(p)
    BY <1>4 DEF StageIntent, Record
  <1>5. CASE StageKeepSlot(p)
    BY <1>5 DEF StageKeepSlot, SlotTaken
  <1>6. CASE StageWriteTemp(p)
    BY <1>6 DEF StageWriteTemp, SlotTaken
  <1>7. CASE StageTempFails(p)
    BY <1>7 DEF StageTempFails, SlotTaken
  <1>8. CASE StageRename(p)
    BY <1>8 DEF StageRename
  <1>9. CASE StageRenameFails(p)
    BY <1>9 DEF StageRenameFails
  <1>10. CASE StageSync(p)
    BY <1>10 DEF StageSync
  <1>11. CASE StageClear(p)
    BY <1>11 DEF StageClear, NoIntent
  <1>12. CASE StageDeclareEntry(p)
    BY <1>12 DEF StageDeclareEntry, Record
  <1>13. CASE StageAdopt(p)
    BY <1>13 DEF StageAdopt
  <1>14. CASE StageConfirm(p)
    BY <1>14 DEF StageConfirm
  <1>15. CASE StageInspectRefused(p)
    BY <1>15 DEF StageInspectRefused
  <1>16. CASE StageDone(p)
    BY <1>16 DEF StageDone, NoIntent
  <1>17. CASE StageObserve(p)
    BY <1>17 DEF StageObserve, Observed, Record
  <1> QED BY <1>1, <1>2, <1>3, <1>4, <1>5, <1>6, <1>7, <1>8, <1>9, <1>10, <1>11,
    <1>12, <1>13, <1>14, <1>15, <1>16, <1>17 DEF StageStep

LEMMA BootNextScratchInv ==
    ASSUME TypeOK, LockHeldByRunner, IntentInv, ScratchInv, NEW p \in Procs, NextStep(p)
    PROVE  ScratchInv'
  <1> USE ProcAssumption, BootAssumption DEF TypeOK, LockHeldByRunner, IntentInv,
    ScratchInv, Tidy, Slots, OldNew, NewOld, Esp, Slot, Scratch, Acquire, Release,
    Raise, Goto, Locked, StagePcs, NextPcs, PromotePcs, FinishPcs, RevertPcs, RollbackPcs
  <1>1. CASE NextSet(p) \/ NextConflict(p) \/ NextSetFails(p) \/ NextReadBack(p)
             \/ NextReadBackRefused(p)
    BY <1>1 DEF NextSet, NextConflict, NextSetFails, NextReadBack, NextReadBackRefused
  <1>2. CASE NextConflictClear(p)
    BY <1>2 DEF NextConflictClear, NoIntent
  <1>3. CASE NextClear(p)
    BY <1>3 DEF NextClear, NoIntent
  <1> QED BY <1>1, <1>2, <1>3 DEF NextStep

LEMMA PromoteScratchInv ==
    ASSUME TypeOK, LockHeldByRunner, IntentInv, ScratchInv, NEW p \in Procs,
           PromoteStep(p)
    PROVE  ScratchInv'
  <1> USE ProcAssumption, BootAssumption DEF TypeOK, LockHeldByRunner, IntentInv,
    ScratchInv, Tidy, Slots, OldNew, NewOld, Esp, Slot, Scratch, Acquire, Release,
    Raise, Goto, Locked, StagePcs, NextPcs, PromotePcs, FinishPcs, RevertPcs, RollbackPcs
  <1>1. CASE FinishManifest(p) \/ FinishRefused(p) \/ FinishFails(p)
             \/ RevertManifest(p)
    BY <1>1 DEF FinishManifest, FinishRefused, FinishFails, RevertManifest
  <1>2. CASE PromoteExchange(p)
    BY <1>2 DEF PromoteExchange, Exchanged
  <1>3. CASE FinishSync(p)
    BY <1>3 DEF FinishSync
  <1>4. CASE FinishClear(p)
    BY <1>4 DEF FinishClear, NoIntent
  <1>5. CASE FinishClearFails(p)
    BY <1>5 DEF FinishClearFails, NoIntent
  <1>6. CASE RevertIntent(p)
    BY <1>6 DEF RevertIntent, Record
  <1>7. CASE RevertExchange(p)
    BY <1>7 DEF RevertExchange, Exchanged
  <1>8. CASE RevertSync(p)
    BY <1>8 DEF RevertSync
  <1>9. CASE RevertClear(p)
    BY <1>9 DEF RevertClear, NoIntent
  <1> QED BY <1>1, <1>2, <1>3, <1>4, <1>5, <1>6, <1>7, <1>8, <1>9 DEF PromoteStep

LEMMA RollbackScratchInv ==
    ASSUME TypeOK, LockHeldByRunner, IntentInv, ScratchInv, NEW p \in Procs,
           RollbackStep(p)
    PROVE  ScratchInv'
  <1> USE ProcAssumption, BootAssumption DEF TypeOK, LockHeldByRunner, IntentInv,
    ScratchInv, Tidy, Slots, OldNew, NewOld, Esp, Slot, Scratch, Acquire, Release,
    Raise, Goto, Locked, StagePcs, NextPcs, PromotePcs, FinishPcs, RevertPcs, RollbackPcs
  <1>1. CASE RollbackSlots(p) \/ RollbackClearNext(p) \/ RollbackCleared(p)
             \/ RollbackDeleteEntry(p) \/ RollbackNoCandidate(p)
    BY <1>1 DEF RollbackSlots, RollbackClearNext, RollbackCleared,
      RollbackDeleteEntry, RollbackNoCandidate
  <1>2. CASE RollbackManifest(p) \/ RollbackPartial(p)
    BY <1>2 DEF RollbackManifest, RollbackPartial
  <1>3. CASE RollbackExchange(p)
    BY <1>3 DEF RollbackExchange, Exchanged
  <1>4. CASE RollbackRestore(p)
    BY <1>4 DEF RollbackRestore
  <1>5. CASE RollbackRestoreFails(p)
    BY <1>5 DEF RollbackRestoreFails
  <1>6. CASE RollbackReplace(p)
    BY <1>6 DEF RollbackReplace
  <1>7. CASE RollbackReplaceFails(p)
    BY <1>7 DEF RollbackReplaceFails
  <1>8. CASE RollbackSync(p)
    BY <1>8 DEF RollbackSync
  <1>9. CASE RollbackKeepNext(p)
    BY <1>9 DEF RollbackKeepNext
  <1>10. CASE RollbackKeepEntry(p)
    BY <1>10 DEF RollbackKeepEntry
  <1>11. CASE RollbackQuarantine(p)
    BY <1>11 DEF RollbackQuarantine
  <1>12. CASE RollbackQuarantined(p)
    BY <1>12 DEF RollbackQuarantined
  <1>13. CASE RollbackUnlink(p)
    BY <1>13 DEF RollbackUnlink
  <1>14. CASE RollbackUnlinkFails(p)
    BY <1>14, UnlinkFailsScratchInv
  <1>15. CASE RollbackFlush(p)
    BY <1>15 DEF RollbackFlush
  <1>16. CASE RollbackClear(p)
    BY <1>16 DEF RollbackClear, NoIntent
  <1> QED BY <1>1, <1>2, <1>3, <1>4, <1>5, <1>6, <1>7, <1>8, <1>9, <1>10, <1>11,
    <1>12, <1>13, <1>14, <1>15, <1>16 DEF RollbackStep

LEMMA StartScratchInv ==
    ASSUME TypeOK, LockHeldByRunner, IntentInv, ScratchInv, NEW p \in Procs, Start(p)
    PROVE  ScratchInv'
  <1> USE ProcAssumption, BootAssumption DEF TypeOK, LockHeldByRunner, IntentInv,
    ScratchInv, Tidy, Slots, OldNew, NewOld, Esp, Slot, Scratch, Acquire, Release,
    Raise, Goto, Locked, StagePcs, NextPcs, PromotePcs, FinishPcs, RevertPcs, RollbackPcs
  <1>1. CASE NextAdopt(p) \/ PromoteResume(p) \/ PromoteRevert(p)
    BY <1>1 DEF NextAdopt, PromoteResume, PromoteRevert, MayArm, MayPromote
  <1>2. CASE StageEnter(p)
    BY <1>2 DEF StageEnter
  <1>3. CASE NextStart(p)
    BY <1>3 DEF NextStart, MayArm, Record
  <1>4. CASE PromoteStart(p)
    BY <1>4 DEF PromoteStart, MayPromote, Record
  <1>5. CASE RollbackStart(p)
    BY <1>5, RollbackStartScratchInv
  <1> QED BY <1>1, <1>2, <1>3, <1>4, <1>5 DEF Start

LEMMA EnvironmentScratchInv ==
    ASSUME TypeOK, LockHeldByRunner, ScratchInv, Environment
    PROVE  ScratchInv'
  <1> USE DEF ScratchInv, Tidy, Slots, NewOld
  <1>1. CASE Reboot \/ PowerLoss
    <2>1. \A q \in Procs : pc'[q] = "idle"
      BY <1>1 DEF Reboot, PowerLoss, Idle
    <2> QED BY <1>1, <2>1 DEF Reboot, PowerLoss, RollbackPcs
  <1>2. CASE WriteBack
    BY <1>2 DEF WriteBack, RollbackPcs
  <1>3. CASE DriftNext \/ DriftOrder \/ DriftEntry \/ DriftTree
    BY <1>3 DEF DriftNext, DriftOrder, DriftEntry, DriftTree
  <1>4. CASE DriftSlot \/ DriftRace
    <2>1. \A q \in Procs : pc'[q] \notin Locked
      BY <1>4, ProcAssumption DEF DriftSlot, DriftRace, Quiet, Idle, LockHeldByRunner,
         Locked, StagePcs, NextPcs, PromotePcs, FinishPcs, RevertPcs, RollbackPcs
    <2>2. /\ UNCHANGED intent /\ disk' = esp'
          /\ esp'.temp = esp.temp /\ esp'.quar = esp.quar /\ esp'.rtemp = esp.rtemp
          /\ esp'.active \in {esp.active, "absent", "other"}
          /\ esp'.active = esp.active => esp'.cand \in {esp.cand, "absent", "other"}
      BY <1>4 DEF DriftSlot, DriftRace, TypeOK, Esp
    <2> QED BY <2>1, <2>2 DEF Locked, StagePcs, RollbackPcs
  <1> QED BY <1>1, <1>2, <1>3, <1>4 DEF Environment

LEMMA FailureScratchInv ==
    ASSUME TypeOK, LockHeldByRunner, IntentInv, ScratchInv, NEW p \in Procs, Fails(p)
           \/ Killed(p)
    PROVE  ScratchInv'
  <1> USE DEF ScratchInv, Tidy, Slots, NewOld, RollbackPcs
  <1>1. CASE UNCHANGED esp
    <2>1. UNCHANGED disk
      BY DEF Fails, Killed
    <2> QED BY <1>1, <2>1, OthersStop
  <1>2. CASE Killed(p) /\ esp' # esp
    <2>1. pc'[p] = "idle" /\ \A q \in Procs \ {p} : pc'[q] \notin Locked
      BY <1>2 DEF Killed, Goto, LockHeldByRunner, TypeOK, Locked, StagePcs
    <2>2. /\ UNCHANGED <<disk, intent>>
          /\ esp'.active = esp.active /\ esp'.cand = esp.cand /\ esp'.quar = esp.quar
          /\ \/ esp'.temp = esp.temp /\ pc[p] = "rollback_restore"
             \/ esp'.rtemp = esp.rtemp /\ pc[p] = "stage_temp"
      BY <1>2 DEF Killed, TypeOK, Esp
    <2>3. CASE pc[p] = "rollback_restore"
      BY <2>1, <2>2, <2>3 DEF IntentInv, Locked, StagePcs
    <2>4. CASE pc[p] = "stage_temp"
      BY <2>1, <2>2, <2>4 DEF IntentInv, Locked, StagePcs
    <2> QED BY <2>2, <2>3, <2>4
  <1> QED BY <1>1, <1>2 DEF Fails

LEMMA NextScratchInv ==
    ASSUME TypeOK, LockHeldByRunner, IntentInv, ScratchInv, [Next]_vars
    PROVE  ScratchInv'
  <1>1. CASE UNCHANGED vars
    BY <1>1 DEF vars, ScratchInv, Tidy, Slots
  <1>2. ASSUME NEW p \in Procs, Start(p) \/ Continue(p) PROVE ScratchInv'
    BY <1>2, StartScratchInv, StageScratchInv, BootNextScratchInv, PromoteScratchInv,
       RollbackScratchInv
       DEF Continue
  <1> QED
    BY <1>1, <1>2, EnvironmentScratchInv, FailureScratchInv DEF Next

\* Whatever crashes and whatever other software does to the rest of the machine: a
\* temporary, quarantine or restore file is never left, in memory or on the medium,
\* without the intent under which a later call recognises it.
THEOREM ArtifactsStayKnown == Spec => []ArtifactsHaveIntent
  <1>1. Init => OwnInv /\ IntentInv /\ ScratchInv
    BY InitOwnInv, InitIntentInv, InitScratchInv
  <1>2. /\ TypeOK /\ LockHeldByRunner /\ OwnInv /\ IntentInv /\ ScratchInv
        /\ [Next]_vars
        => OwnInv' /\ IntentInv' /\ ScratchInv'
    BY NextOwnInv, NextIntentInv, NextScratchInv
  <1>3. ScratchInv => ArtifactsHaveIntent
    BY DEF ScratchInv, Tidy, ArtifactsHaveIntent
  <1> QED BY <1>1, <1>2, <1>3, TypeCorrect, LockExcludes, PTL DEF Spec

-----------------------------------------------------------------------------
(* The loader slots.                                                       *)

\* The inductive invariant: what an invocation's checks found in the slots is still there
\* at each step that writes them.
SlotInv ==
    \A p \in Procs :
        /\ pc[p] = "stage_wait" /\ ~HasTransaction => esp.cand = "absent"
        /\ pc[p] \in {"stage_intent", "stage_temp"} =>
             loc[p].resume \/ esp.cand = "absent"
        /\ pc[p] = "stage_rename" => esp.cand = "absent"
        /\ pc[p] = "promote_exchange" => Slots(esp) = OldNew
        /\ pc[p] \in FinishPcs \cup {"revert_intent", "revert_exchange"} =>
             Slots(esp) = NewOld
        /\ pc[p] \in RollbackPcs => esp.active # "other" /\ esp.cand # "other"

LEMMA InitSlotInv == Init => SlotInv
  BY DEF Init, SlotInv, FinishPcs, RollbackPcs

LEMMA StageSlotInv ==
    ASSUME TypeOK, LockHeldByRunner, OwnInv, SlotInv, NEW p \in Procs, StageStep(p)
    PROVE  SlotInv'
  <1> USE ProcAssumption, BootAssumption DEF TypeOK, LockHeldByRunner, OwnInv,
    SlotInv, Slots, OldNew, NewOld, Esp, Slot, Scratch, Local, HasTransaction,
    Manifest, Acquire, Release, Raise, Goto, Locked, StagePcs, NextPcs, PromotePcs,
    FinishPcs, RevertPcs, RollbackPcs
  <1>1. CASE StageRefused(p) \/ StageIntent(p) \/ StageTempForeign(p) \/ StageSync(p)
             \/ StageClear(p) \/ StageDeclareEntry(p)
    BY <1>1 DEF StageRefused, StageIntent, StageTempForeign, StageSync, StageClear,
      StageDeclareEntry, MayBegin, MayResume, Record, NoIntent
  <1>2. CASE StageRetryCreate(p) \/ StageCreate(p) \/ StageCreateFull(p)
             \/ StageInspectRefused(p) \/ StageDone(p)
    BY <1>2 DEF StageRetryCreate, StageCreate, StageCreateFull, StageInspectRefused,
      StageDone, NoIntent
  <1>3. CASE StageBegin(p)
    BY <1>3 DEF StageBegin, MayBegin
  <1>4. CASE StageResume(p)
    BY <1>4 DEF StageResume, MayResume
  <1>5. CASE StageKeepSlot(p)
    BY <1>5 DEF StageKeepSlot, SlotTaken
  <1>6. CASE StageWriteTemp(p)
    BY <1>6 DEF StageWriteTemp, SlotTaken
  <1>7. CASE StageTempFails(p)
    BY <1>7 DEF StageTempFails, SlotTaken
  <1>8. CASE StageRename(p)
    BY <1>8 DEF StageRename
  <1>9. CASE StageRenameFails(p)
    BY <1>9 DEF StageRenameFails
  <1>10. CASE StagePublished(p)
    BY <1>10 DEF StagePublished
  <1>11. CASE StageAdopt(p)
    BY <1>11 DEF StageAdopt
  <1>12. CASE StageConfirm(p)
    BY <1>12 DEF StageConfirm
  <1>13. CASE StageObserve(p)
    BY <1>13 DEF StageObserve
  <1> QED BY <1>1, <1>2, <1>3, <1>4, <1>5, <1>6, <1>7, <1>8, <1>9, <1>10, <1>11, <1>12,
    <1>13 DEF StageStep

LEMMA BootNextSlotInv ==
    ASSUME TypeOK, LockHeldByRunner, OwnInv, SlotInv, NEW p \in Procs, NextStep(p)
    PROVE  SlotInv'
  <1> USE ProcAssumption, BootAssumption DEF TypeOK, LockHeldByRunner, OwnInv,
    SlotInv, Slots, OldNew, NewOld, Esp, Slot, Scratch, Local, HasTransaction,
    Manifest, Acquire, Release, Raise, Goto, Locked, StagePcs, NextPcs, PromotePcs,
    FinishPcs, RevertPcs, RollbackPcs
  <1>1. CASE NextSet(p) \/ NextConflict(p) \/ NextConflictClear(p) \/ NextSetFails(p)
             \/ NextReadBackRefused(p) \/ NextClear(p)
    BY <1>1 DEF NextSet, NextConflict, NextConflictClear, NextSetFails,
      NextReadBackRefused, NextClear, NoIntent
  <1>2. CASE NextReadBack(p)
    BY <1>2 DEF NextReadBack, Armed
  <1> QED BY <1>1, <1>2 DEF NextStep

LEMMA PromoteSlotInv ==
    ASSUME TypeOK, LockHeldByRunner, OwnInv, SlotInv, NEW p \in Procs, PromoteStep(p)
    PROVE  SlotInv'
  <1> USE ProcAssumption, BootAssumption DEF TypeOK, LockHeldByRunner, OwnInv,
    SlotInv, Slots, OldNew, NewOld, Esp, Slot, Scratch, Local, HasTransaction,
    Manifest, Acquire, Release, Raise, Goto, Locked, StagePcs, NextPcs, PromotePcs,
    FinishPcs, RevertPcs, RollbackPcs
  <1>1. CASE FinishSync(p) \/ FinishRefused(p) \/ FinishClear(p) \/ FinishFails(p)
             \/ FinishClearFails(p) \/ RevertIntent(p)
    BY <1>1 DEF FinishSync, FinishRefused, FinishClear, FinishFails, FinishClearFails,
      RevertIntent, NoIntent, Record
  <1>2. CASE RevertSync(p) \/ RevertClear(p)
    BY <1>2 DEF RevertSync, RevertClear, NoIntent
  <1>3. CASE PromoteExchange(p)
    BY <1>3 DEF PromoteExchange, Exchanged
  <1>4. CASE FinishManifest(p)
    BY <1>4 DEF FinishManifest, Settled
  <1>5. CASE RevertExchange(p)
    BY <1>5 DEF RevertExchange, Exchanged
  <1>6. CASE RevertManifest(p)
    BY <1>6 DEF RevertManifest, Settled
  <1> QED BY <1>1, <1>2, <1>3, <1>4, <1>5, <1>6 DEF PromoteStep

LEMMA RollbackSlotInv ==
    ASSUME TypeOK, LockHeldByRunner, OwnInv, SlotInv, NEW p \in Procs, RollbackStep(p)
    PROVE  SlotInv'
  <1> USE ProcAssumption, BootAssumption DEF TypeOK, LockHeldByRunner, OwnInv,
    SlotInv, Slots, OldNew, NewOld, Esp, Slot, Scratch, Local, HasTransaction,
    Manifest, Acquire, Release, Raise, Goto, Locked, StagePcs, NextPcs, PromotePcs,
    FinishPcs, RevertPcs, RollbackPcs
  <1>1. CASE RollbackSlots(p) \/ RollbackSync(p) \/ RollbackClearNext(p)
             \/ RollbackCleared(p) \/ RollbackDeleteEntry(p) \/ RollbackNoCandidate(p)
    BY <1>1 DEF RollbackSlots, RollbackSync, RollbackClearNext, RollbackCleared,
      RollbackDeleteEntry, RollbackNoCandidate
  <1>2. CASE RollbackFlush(p) \/ RollbackClear(p)
    BY <1>2 DEF RollbackFlush, RollbackClear, NoIntent
  <1>3. CASE RollbackExchange(p)
    BY <1>3 DEF RollbackExchange, Exchanged
  <1>4. CASE RollbackRestore(p)
    BY <1>4 DEF RollbackRestore
  <1>5. CASE RollbackRestoreFails(p)
    BY <1>5 DEF RollbackRestoreFails
  <1>6. CASE RollbackReplace(p)
    BY <1>6 DEF RollbackReplace
  <1>7. CASE RollbackReplaceFails(p)
    BY <1>7 DEF RollbackReplaceFails
  <1>8. CASE RollbackKeepNext(p)
    BY <1>8 DEF RollbackKeepNext
  <1>9. CASE RollbackKeepEntry(p)
    BY <1>9 DEF RollbackKeepEntry
  <1>10. CASE RollbackQuarantine(p)
    BY <1>10 DEF RollbackQuarantine
  <1>11. CASE RollbackQuarantined(p)
    BY <1>11 DEF RollbackQuarantined
  <1>12. CASE RollbackUnlink(p)
    BY <1>12 DEF RollbackUnlink
  <1>13. CASE RollbackUnlinkFails(p)
    BY <1>13 DEF RollbackUnlinkFails
  <1>14. CASE RollbackManifest(p)
    BY <1>14 DEF RollbackManifest
  <1>15. CASE RollbackPartial(p)
    BY <1>15 DEF RollbackPartial
  <1> QED BY <1>1, <1>2, <1>3, <1>4, <1>5, <1>6, <1>7, <1>8, <1>9, <1>10, <1>11,
    <1>12, <1>13, <1>14, <1>15 DEF RollbackStep

LEMMA StartSlotInv ==
    ASSUME TypeOK, LockHeldByRunner, OwnInv, SlotInv, NEW p \in Procs, Start(p)
    PROVE  SlotInv'
  <1> USE ProcAssumption, BootAssumption DEF TypeOK, LockHeldByRunner, OwnInv,
    SlotInv, Slots, OldNew, NewOld, Esp, Slot, Scratch, Local, HasTransaction,
    Manifest, Acquire, Release, Raise, Goto, Locked, StagePcs, NextPcs, PromotePcs,
    FinishPcs, RevertPcs, RollbackPcs
  <1>1. CASE NextStart(p) \/ PromoteStart(p) \/ PromoteResume(p) \/ PromoteRevert(p)
    BY <1>1 DEF NextStart, PromoteStart, PromoteResume, PromoteRevert, MayArm, Record,
      MayPromote
  <1>2. CASE StageEnter(p)
    BY <1>2 DEF StageEnter, NoLocal
  <1>3. CASE NextAdopt(p)
    BY <1>3 DEF NextAdopt, Armed, MayArm
  <1>4. CASE RollbackStart(p)
    BY <1>4 DEF RollbackStart, MayRollback, NoLocal, Record
  <1> QED BY <1>1, <1>2, <1>3, <1>4 DEF Start

LEMMA OthersSlotInv ==
    ASSUME "race" \notin Drifts, TypeOK, LockHeldByRunner, SlotInv,
           Environment \/ (\E p \in Procs : Fails(p) \/ Killed(p))
    PROVE  SlotInv'
  <1>1. CASE DriftSlot \/ Reboot \/ PowerLoss
    <2>1. \A q \in Procs : pc'[q] = "idle"
      BY <1>1 DEF DriftSlot, Quiet, Reboot, PowerLoss, Idle
    <2> QED BY <2>1 DEF SlotInv, FinishPcs, RollbackPcs
  <1>2. CASE ~(DriftSlot \/ Reboot \/ PowerLoss)
    <2>1. esp'.active = esp.active /\ esp'.cand = esp.cand
      BY <1>2 DEF Environment, WriteBack, DriftNext, DriftOrder, DriftEntry, DriftTree,
         DriftRace, Drift, Fails, Killed, TypeOK, Esp
    <2> QED BY <2>1, OthersStop DEF SlotInv, Slots, HasTransaction, FinishPcs, RollbackPcs
  <1> QED BY <1>1, <1>2

LEMMA NextSlotInv ==
    ASSUME "race" \notin Drifts, TypeOK, LockHeldByRunner, OwnInv, SlotInv, [Next]_vars
    PROVE  SlotInv'
  <1>1. CASE UNCHANGED vars
    BY <1>1 DEF vars, SlotInv, Slots, HasTransaction
  <1>2. ASSUME NEW p \in Procs, Start(p) \/ Continue(p) PROVE SlotInv'
    BY <1>2, StartSlotInv, StageSlotInv, BootNextSlotInv, PromoteSlotInv,
       RollbackSlotInv
       DEF Continue
  <1> QED
    BY <1>1, <1>2, OthersSlotInv DEF Next

FilesKept ==
    /\ esp.active = "other" => esp'.active = "other"
    /\ esp.cand = "other" => esp'.cand = "other"

LEMMA StageKeepsFiles ==
    ASSUME TypeOK, SlotInv, NEW p \in Procs, StageStep(p)
    PROVE  FilesKept
  <1> USE DEF TypeOK, SlotInv, FilesKept, Slots, OldNew, NewOld, Esp
  <1>1. CASE StageBegin(p) \/ StageResume(p) \/ StageRefused(p) \/ StageIntent(p)
             \/ StageKeepSlot(p) \/ StageWriteTemp(p) \/ StageTempForeign(p)
             \/ StageTempFails(p) \/ StageRenameFails(p) \/ StageSync(p)
             \/ StagePublished(p) \/ StageClear(p) \/ StageDeclareEntry(p)
             \/ StageRetryCreate(p) \/ StageCreate(p) \/ StageCreateFull(p)
             \/ StageObserve(p) \/ StageAdopt(p) \/ StageConfirm(p)
             \/ StageInspectRefused(p) \/ StageDone(p)
    <2>1. esp'.active = esp.active /\ esp'.cand = esp.cand
      BY <1>1 DEF StageBegin, StageResume, StageRefused, StageIntent, StageKeepSlot,
        StageWriteTemp, StageTempForeign, StageTempFails, StageRenameFails, StageSync,
        StagePublished, StageClear, StageDeclareEntry, StageRetryCreate, StageCreate,
        StageCreateFull, StageObserve, StageAdopt, StageConfirm, StageInspectRefused,
        StageDone, Raise
    <2> QED BY <2>1
  <1>2. CASE StageRename(p)
    BY <1>2 DEF StageRename, Exchanged, FinishPcs, RollbackPcs
  <1> QED BY <1>1, <1>2 DEF StageStep

LEMMA BootNextKeepsFiles ==
    ASSUME TypeOK, SlotInv, NEW p \in Procs, NextStep(p)
    PROVE  FilesKept
  <1> USE DEF TypeOK, SlotInv, FilesKept, Slots, OldNew, NewOld, Esp
  <1>1. CASE NextSet(p) \/ NextConflict(p) \/ NextConflictClear(p) \/ NextSetFails(p)
             \/ NextReadBack(p) \/ NextReadBackRefused(p) \/ NextClear(p)
    <2>1. esp'.active = esp.active /\ esp'.cand = esp.cand
      BY <1>1 DEF NextSet, NextConflict, NextConflictClear, NextSetFails,
        NextReadBack, NextReadBackRefused, NextClear, Raise
    <2> QED BY <2>1
  <1> QED BY <1>1 DEF NextStep

LEMMA PromoteKeepsFiles ==
    ASSUME TypeOK, SlotInv, NEW p \in Procs, PromoteStep(p)
    PROVE  FilesKept
  <1> USE DEF TypeOK, SlotInv, FilesKept, Slots, OldNew, NewOld, Esp
  <1>1. CASE FinishSync(p) \/ FinishManifest(p) \/ FinishRefused(p) \/ FinishClear(p)
             \/ FinishFails(p) \/ FinishClearFails(p) \/ RevertIntent(p)
             \/ RevertSync(p) \/ RevertManifest(p) \/ RevertClear(p)
    <2>1. esp'.active = esp.active /\ esp'.cand = esp.cand
      BY <1>1 DEF FinishSync, FinishManifest, FinishRefused, FinishClear, FinishFails,
        FinishClearFails, RevertIntent, RevertSync, RevertManifest, RevertClear
    <2> QED BY <2>1
  <1>2. CASE PromoteExchange(p) \/ RevertExchange(p)
    BY <1>2 DEF PromoteExchange, RevertExchange, Exchanged, FinishPcs, RollbackPcs
  <1> QED BY <1>1, <1>2 DEF PromoteStep

LEMMA RollbackKeepsFiles ==
    ASSUME TypeOK, SlotInv, NEW p \in Procs, RollbackStep(p)
    PROVE  FilesKept
  <1> USE DEF TypeOK, SlotInv, FilesKept, Slots, OldNew, NewOld, Esp
  <1>1. CASE RollbackSlots(p) \/ RollbackRestore(p) \/ RollbackRestoreFails(p)
             \/ RollbackReplaceFails(p) \/ RollbackSync(p) \/ RollbackClearNext(p)
             \/ RollbackKeepNext(p) \/ RollbackCleared(p) \/ RollbackDeleteEntry(p)
             \/ RollbackKeepEntry(p) \/ RollbackQuarantined(p)
             \/ RollbackNoCandidate(p) \/ RollbackUnlink(p) \/ RollbackFlush(p)
             \/ RollbackManifest(p) \/ RollbackPartial(p) \/ RollbackClear(p)
    <2>1. esp'.active = esp.active /\ esp'.cand = esp.cand
      BY <1>1 DEF RollbackSlots, RollbackRestore, RollbackRestoreFails,
        RollbackReplaceFails, RollbackSync, RollbackClearNext, RollbackKeepNext,
        RollbackCleared, RollbackDeleteEntry, RollbackKeepEntry, RollbackQuarantined,
        RollbackNoCandidate, RollbackUnlink, RollbackFlush, RollbackManifest,
        RollbackPartial, RollbackClear
    <2> QED BY <2>1
  <1>2. CASE RollbackExchange(p) \/ RollbackReplace(p) \/ RollbackQuarantine(p)
             \/ RollbackUnlinkFails(p)
    BY <1>2 DEF RollbackExchange, RollbackReplace, RollbackQuarantine,
      RollbackUnlinkFails, Exchanged, FinishPcs, RollbackPcs
  <1> QED BY <1>1, <1>2 DEF RollbackStep

LEMMA StartKeepsFiles ==
    ASSUME TypeOK, SlotInv, NEW p \in Procs, Start(p)
    PROVE  FilesKept
  <1> USE DEF TypeOK, SlotInv, FilesKept, Slots, OldNew, NewOld, Esp
  <1>1. CASE StageEnter(p) \/ NextStart(p) \/ NextAdopt(p) \/ PromoteStart(p)
             \/ PromoteResume(p) \/ PromoteRevert(p) \/ RollbackStart(p)
    <2>1. esp'.active = esp.active /\ esp'.cand = esp.cand
      BY <1>1 DEF StageEnter, NextStart, NextAdopt, PromoteStart, PromoteResume,
        PromoteRevert, RollbackStart
    <2> QED BY <2>1
  <1> QED BY <1>1 DEF Start

LEMMA ProgramKeepsFiles ==
    ASSUME TypeOK, SlotInv, NEW p \in Procs, Start(p) \/ Continue(p)
    PROVE  FilesKept
  BY StartKeepsFiles, StageKeepsFiles, BootNextKeepsFiles, PromoteKeepsFiles,
     RollbackKeepsFiles DEF Continue

\* Unless a file appears in the candidate slot while a stage waits for the lock, no step
\* of the program overwrites, moves or removes a file in a loader slot that is neither
\* the recorded loader nor the candidate, whatever other software puts there.
THEOREM ForeignFilesStay == "race" \notin Drifts /\ Spec => OtherFilesPreserved
  <1>1. ASSUME "race" \notin Drifts PROVE Spec => OtherFilesPreserved
    <2>1. Init => OwnInv /\ SlotInv
      BY InitOwnInv, InitSlotInv
    <2>2. TypeOK /\ LockHeldByRunner /\ OwnInv /\ SlotInv /\ [Next]_vars
            => OwnInv' /\ SlotInv'
      BY <1>1, NextOwnInv, NextSlotInv
    <2>3. TypeOK /\ SlotInv =>
            [ProgramStep => /\ esp.active = "other" => esp'.active = "other"
                            /\ esp.cand = "other" => esp'.cand = "other"]_vars
      BY ProgramKeepsFiles DEF ProgramStep, FilesKept
    <2> QED
      BY <2>1, <2>2, <2>3, TypeCorrect, LockExcludes, PTL DEF Spec, OtherFilesPreserved
  <1> QED BY <1>1

-----------------------------------------------------------------------------
(* The verdict of a rollback.                                              *)

\* The inductive invariant: the variables a rollback checked at its start are still as it
\* found them, but for the entry it deletes and BootNext.
RecordInv ==
    \A p \in Procs :
        /\ pc[p] \in RollbackPcs =>
             /\ nvram.order = manifest.initial.order
             /\ EntriesKept(manifest.initial, nvram)
        /\ pc[p] \in {"rollback_candidate", "rollback_unlink", "rollback_flush",
                      "rollback_manifest"} /\ ~loc[p].clash =>
             nvram.entries[manifest.num] = "none"

LEMMA InitRecordInv == Init => RecordInv
  BY DEF Init, RecordInv, RollbackPcs

LEMMA KeepEntryRecordInv ==
    ASSUME TypeOK, LockHeldByRunner, OwnInv, IntentInv, RecordInv, NEW p \in Procs,
           RollbackKeepEntry(p)
    PROVE  RecordInv'
  <1>1. \A q \in Procs \ {p} : pc'[q] = pc[q] /\ pc[q] \notin Locked
    BY DEF RollbackKeepEntry, Goto, TypeOK, LockHeldByRunner, Locked, RollbackPcs
  <1>2. pc[p] \in RollbackPcs /\ pc'[p] = "rollback_candidate"
    BY DEF RollbackKeepEntry, Goto, TypeOK, RollbackPcs
  <1>3. UNCHANGED <<nvram, manifest>>
    BY DEF RollbackKeepEntry
  <1>4. loc'[p].clash = (loc[p].clash \/ nvram.entries[manifest.num] # "none")
    BY DEF RollbackKeepEntry, TypeOK, Local
  <1>5. ~loc'[p].clash => nvram.entries[manifest.num] = "none"
    BY <1>4
  <1> QED BY <1>1, <1>2, <1>3, <1>5 DEF RecordInv, Locked, RollbackPcs, EntriesKept

LEMMA StageRecordInv ==
    ASSUME TypeOK, LockHeldByRunner, OwnInv, IntentInv, RecordInv, NEW p \in Procs,
      StageStep(p)
    PROVE  RecordInv'
  <1> USE ProcAssumption, BootAssumption DEF TypeOK, LockHeldByRunner, OwnInv, IntentInv,
    RecordInv, EntriesKept, Snapshot, Local, Manifest, HasTransaction, Acquire, Release,
    Raise, Goto, Locked, StagePcs, NextPcs, PromotePcs, FinishPcs, RevertPcs,
    RollbackPcs
  <1>1. CASE StageRefused(p) \/ StageIntent(p) \/ StageKeepSlot(p)
             \/ StageTempForeign(p) \/ StageTempFails(p) \/ StageRename(p)
    BY <1>1 DEF StageRefused, StageIntent, StageKeepSlot, StageTempForeign,
      StageTempFails, StageRename
  <1>2. CASE StageRenameFails(p) \/ StageSync(p) \/ StageClear(p)
             \/ StageDeclareEntry(p) \/ StageRetryCreate(p) \/ StageCreateFull(p)
    BY <1>2 DEF StageRenameFails, StageSync, StageClear, StageDeclareEntry,
      StageRetryCreate, StageCreateFull
  <1>3. CASE StageInspectRefused(p) \/ StageDone(p)
    BY <1>3 DEF StageInspectRefused, StageDone
  <1>4. CASE StageBegin(p)
    BY <1>4 DEF StageBegin
  <1>5. CASE StageResume(p)
    BY <1>5 DEF StageResume
  <1>6. CASE StageWriteTemp(p)
    BY <1>6 DEF StageWriteTemp
  <1>7. CASE StagePublished(p)
    BY <1>7 DEF StagePublished
  <1>8. CASE StageCreate(p)
    BY <1>8 DEF StageCreate
  <1>9. CASE StageAdopt(p)
    BY <1>9 DEF StageAdopt
  <1>10. CASE StageConfirm(p)
    BY <1>10 DEF StageConfirm
  <1>11. CASE StageObserve(p)
    BY <1>11 DEF StageObserve
  <1> QED BY <1>1, <1>2, <1>3, <1>4, <1>5, <1>6, <1>7, <1>8, <1>9, <1>10, <1>11
    DEF StageStep

LEMMA BootNextRecordInv ==
    ASSUME TypeOK, LockHeldByRunner, OwnInv, IntentInv, RecordInv, NEW p \in Procs,
      NextStep(p)
    PROVE  RecordInv'
  <1> USE ProcAssumption, BootAssumption DEF TypeOK, LockHeldByRunner, OwnInv, IntentInv,
    RecordInv, EntriesKept, Snapshot, Local, Manifest, HasTransaction, Acquire, Release,
    Raise, Goto, Locked, StagePcs, NextPcs, PromotePcs, FinishPcs, RevertPcs,
    RollbackPcs
  <1>1. CASE NextConflict(p) \/ NextConflictClear(p) \/ NextSetFails(p)
             \/ NextReadBackRefused(p) \/ NextClear(p)
    BY <1>1 DEF NextConflict, NextConflictClear, NextSetFails, NextReadBackRefused,
      NextClear
  <1>2. CASE NextSet(p)
    BY <1>2 DEF NextSet
  <1>3. CASE NextReadBack(p)
    BY <1>3 DEF NextReadBack, Armed
  <1> QED BY <1>1, <1>2, <1>3 DEF NextStep

LEMMA PromoteRecordInv ==
    ASSUME TypeOK, LockHeldByRunner, OwnInv, IntentInv, RecordInv, NEW p \in Procs,
      PromoteStep(p)
    PROVE  RecordInv'
  <1> USE ProcAssumption, BootAssumption DEF TypeOK, LockHeldByRunner, OwnInv, IntentInv,
    RecordInv, EntriesKept, Snapshot, Local, Manifest, HasTransaction, Acquire, Release,
    Raise, Goto, Locked, StagePcs, NextPcs, PromotePcs, FinishPcs, RevertPcs,
    RollbackPcs
  <1>1. CASE PromoteExchange(p) \/ FinishSync(p) \/ FinishRefused(p) \/ FinishClear(p)
             \/ FinishFails(p) \/ FinishClearFails(p)
    BY <1>1 DEF PromoteExchange, FinishSync, FinishRefused, FinishClear, FinishFails,
      FinishClearFails
  <1>2. CASE RevertIntent(p) \/ RevertExchange(p) \/ RevertSync(p) \/ RevertClear(p)
    BY <1>2 DEF RevertIntent, RevertExchange, RevertSync, RevertClear
  <1>3. CASE FinishManifest(p)
    BY <1>3 DEF FinishManifest, Settled
  <1>4. CASE RevertManifest(p)
    BY <1>4 DEF RevertManifest, Settled
  <1> QED BY <1>1, <1>2, <1>3, <1>4 DEF PromoteStep

LEMMA RollbackRecordInv ==
    ASSUME TypeOK, LockHeldByRunner, OwnInv, IntentInv, RecordInv, NEW p \in Procs,
      RollbackStep(p)
    PROVE  RecordInv'
  <1> USE ProcAssumption, BootAssumption DEF TypeOK, LockHeldByRunner, OwnInv, IntentInv,
    RecordInv, EntriesKept, Snapshot, Local, Manifest, HasTransaction, Acquire, Release,
    Raise, Goto, Locked, StagePcs, NextPcs, PromotePcs, FinishPcs, RevertPcs,
    RollbackPcs
  <1>1. CASE RollbackExchange(p) \/ RollbackSlots(p) \/ RollbackRestoreFails(p)
             \/ RollbackReplace(p) \/ RollbackReplaceFails(p) \/ RollbackSync(p)
    BY <1>1 DEF RollbackExchange, RollbackSlots, RollbackRestoreFails,
      RollbackReplace, RollbackReplaceFails, RollbackSync
  <1>2. CASE RollbackCleared(p) \/ RollbackNoCandidate(p) \/ RollbackUnlink(p)
             \/ RollbackUnlinkFails(p) \/ RollbackFlush(p) \/ RollbackClear(p)
    BY <1>2 DEF RollbackCleared, RollbackNoCandidate, RollbackUnlink,
      RollbackUnlinkFails, RollbackFlush, RollbackClear
  <1>3. CASE RollbackRestore(p)
    BY <1>3 DEF RollbackRestore
  <1>4. CASE RollbackClearNext(p)
    BY <1>4 DEF RollbackClearNext
  <1>5. CASE RollbackKeepNext(p)
    BY <1>5 DEF RollbackKeepNext
  <1>6. CASE RollbackDeleteEntry(p)
    BY <1>6 DEF RollbackDeleteEntry
  <1>7. CASE RollbackKeepEntry(p)
    BY <1>7, KeepEntryRecordInv
  <1>8. CASE RollbackQuarantine(p)
    BY <1>8 DEF RollbackQuarantine
  <1>9. CASE RollbackQuarantined(p)
    BY <1>9 DEF RollbackQuarantined
  <1>10. CASE RollbackManifest(p)
    BY <1>10 DEF RollbackManifest
  <1>11. CASE RollbackPartial(p)
    BY <1>11 DEF RollbackPartial
  <1> QED BY <1>1, <1>2, <1>3, <1>4, <1>5, <1>6, <1>7, <1>8, <1>9, <1>10, <1>11 DEF
    RollbackStep

LEMMA StartRecordInv ==
    ASSUME TypeOK, LockHeldByRunner, OwnInv, IntentInv, RecordInv, NEW p \in Procs,
           Start(p)
    PROVE  RecordInv'
  <1> USE ProcAssumption, BootAssumption DEF TypeOK, LockHeldByRunner, OwnInv, IntentInv,
    RecordInv, EntriesKept, Snapshot, Local, Manifest, HasTransaction, Acquire, Release,
    Raise, Goto, Locked, StagePcs, NextPcs, PromotePcs, FinishPcs, RevertPcs,
    RollbackPcs
  <1>1. CASE NextStart(p) \/ PromoteStart(p) \/ PromoteResume(p) \/ PromoteRevert(p)
    BY <1>1 DEF NextStart, PromoteStart, PromoteResume, PromoteRevert
  <1>2. CASE StageEnter(p)
    BY <1>2 DEF StageEnter, NoLocal
  <1>3. CASE NextAdopt(p)
    BY <1>3 DEF NextAdopt, Armed
  <1>4. CASE RollbackStart(p)
    BY <1>4 DEF RollbackStart, MayRollback, NoLocal, RemovableNvram
  <1> QED BY <1>1, <1>2, <1>3, <1>4 DEF Start

LEMMA OthersRecordInv ==
    ASSUME TypeOK, LockHeldByRunner, RecordInv,
           Environment \/ (\E p \in Procs : Fails(p) \/ Killed(p))
    PROVE  RecordInv'
  <1>1. CASE \E q \in Procs : pc'[q] # "idle"
    <2>1. nvram'.order = nvram.order /\ nvram'.entries = nvram.entries
      BY <1>1 DEF Environment, Reboot, PowerLoss, WriteBack, DriftNext, DriftOrder,
         DriftEntry, DriftTree, DriftSlot, DriftRace, Quiet, Idle, Fails, Killed, TypeOK,
         Snapshot
    <2> QED BY <2>1, OthersStop DEF RecordInv, EntriesKept, RollbackPcs
  <1>2. CASE \A q \in Procs : pc'[q] = "idle"
    BY <1>2 DEF RecordInv, RollbackPcs
  <1> QED BY <1>1, <1>2

LEMMA NextRecordInv ==
    ASSUME TypeOK, LockHeldByRunner, OwnInv, IntentInv, RecordInv, [Next]_vars
    PROVE  RecordInv'
  <1>1. CASE UNCHANGED vars
    BY <1>1 DEF vars, RecordInv, EntriesKept
  <1>2. ASSUME NEW p \in Procs, Start(p) \/ Continue(p) PROVE RecordInv'
    BY <1>2, StartRecordInv, StageRecordInv, BootNextRecordInv, PromoteRecordInv,
       RollbackRecordInv
       DEF Continue
  <1> QED
    BY <1>1, <1>2, OthersRecordInv DEF Next

\* The one step that declares the machine rolled back.
LEMMA OnlyRollbackDeclares ==
    ASSUME TypeOK, [Next]_vars, manifest'.state = "rolled_back",
           manifest.state # "rolled_back"
    PROVE  \E p \in Procs : RollbackManifest(p)
  <1> USE DEF TypeOK, Manifest
  <1>1. ~UNCHANGED manifest
    OBVIOUS
  <1>2. ASSUME NEW p \in Procs, StageStep(p), manifest'.state = "rolled_back"
        PROVE  UNCHANGED manifest
    <2>1. CASE StageResume(p) \/ StageRefused(p) \/ StageIntent(p) \/ StageKeepSlot(p)
               \/ StageWriteTemp(p) \/ StageTempForeign(p) \/ StageTempFails(p)
               \/ StageRename(p) \/ StageRenameFails(p) \/ StageSync(p)
               \/ StageClear(p)
      BY <2>1 DEF StageResume, StageRefused, StageIntent, StageKeepSlot,
        StageWriteTemp, StageTempForeign, StageTempFails, StageRename,
        StageRenameFails, StageSync, StageClear, Raise
    <2>2. CASE StageDeclareEntry(p) \/ StageRetryCreate(p) \/ StageCreate(p)
               \/ StageCreateFull(p) \/ StageInspectRefused(p)
               \/ StageObserve(p) \/ StageDone(p)
      BY <2>2 DEF StageDeclareEntry, StageRetryCreate, StageCreate, StageCreateFull,
        StageObserve, StageInspectRefused, StageDone, Raise
    <2>3. CASE StageBegin(p)
      BY <1>2, <2>3 DEF StageBegin
    <2>4. CASE StagePublished(p)
      BY <1>2, <2>4 DEF StagePublished
    <2>5. CASE StageAdopt(p)
      BY <1>2, <2>5 DEF StageAdopt
    <2>6. CASE StageConfirm(p)
      BY <1>2, <2>6 DEF StageConfirm
    <2> QED BY <1>2, <2>1, <2>2, <2>3, <2>4, <2>5, <2>6 DEF StageStep
  <1>3. ASSUME NEW p \in Procs, NextStep(p), manifest'.state = "rolled_back"
        PROVE  UNCHANGED manifest
    <2>1. CASE NextSet(p) \/ NextConflict(p) \/ NextConflictClear(p)
               \/ NextSetFails(p) \/ NextReadBackRefused(p) \/ NextClear(p)
      BY <2>1 DEF NextSet, NextConflict, NextConflictClear, NextSetFails,
        NextReadBackRefused, NextClear, Raise
    <2>2. CASE NextReadBack(p)
      BY <1>3, <2>2 DEF NextReadBack, Armed
    <2> QED BY <1>3, <2>1, <2>2 DEF NextStep
  <1>4. ASSUME NEW p \in Procs, PromoteStep(p), manifest'.state = "rolled_back"
        PROVE  UNCHANGED manifest
    <2>1. CASE PromoteExchange(p) \/ FinishSync(p) \/ FinishRefused(p)
               \/ FinishClear(p) \/ FinishFails(p) \/ FinishClearFails(p)
               \/ RevertIntent(p) \/ RevertExchange(p) \/ RevertSync(p)
               \/ RevertClear(p)
      BY <2>1 DEF PromoteExchange, FinishSync, FinishRefused, FinishClear,
        FinishFails, FinishClearFails, RevertIntent, RevertExchange, RevertSync,
        RevertClear
    <2>2. CASE FinishManifest(p)
      BY <1>4, <2>2 DEF FinishManifest, Settled
    <2>3. CASE RevertManifest(p)
      BY <1>4, <2>3 DEF RevertManifest, Settled
    <2> QED BY <1>4, <2>1, <2>2, <2>3 DEF PromoteStep
  <1>5. ASSUME NEW p \in Procs, RollbackStep(p), manifest'.state = "rolled_back",
               ~RollbackManifest(p)
        PROVE  UNCHANGED manifest
    <2>1. CASE RollbackExchange(p) \/ RollbackSlots(p) \/ RollbackRestore(p)
               \/ RollbackRestoreFails(p) \/ RollbackReplace(p)
               \/ RollbackReplaceFails(p) \/ RollbackSync(p) \/ RollbackClearNext(p)
               \/ RollbackKeepNext(p) \/ RollbackCleared(p) \/ RollbackDeleteEntry(p)
      BY <2>1 DEF RollbackExchange, RollbackSlots, RollbackRestore,
        RollbackRestoreFails, RollbackReplace, RollbackReplaceFails, RollbackSync,
        RollbackClearNext, RollbackKeepNext, RollbackCleared, RollbackDeleteEntry
    <2>2. CASE RollbackKeepEntry(p) \/ RollbackQuarantine(p) \/ RollbackQuarantined(p)
               \/ RollbackNoCandidate(p) \/ RollbackUnlink(p)
               \/ RollbackUnlinkFails(p) \/ RollbackFlush(p) \/ RollbackClear(p)
      BY <2>2 DEF RollbackKeepEntry, RollbackQuarantine, RollbackQuarantined,
        RollbackNoCandidate, RollbackUnlink, RollbackUnlinkFails, RollbackFlush,
        RollbackClear
    <2>3. CASE RollbackPartial(p)
      BY <1>5, <2>3 DEF RollbackPartial
    <2> QED BY <1>5, <2>1, <2>2, <2>3 DEF RollbackStep
  <1>6. ASSUME NEW p \in Procs, Start(p), manifest'.state = "rolled_back"
        PROVE  UNCHANGED manifest
    <2>1. CASE StageEnter(p) \/ NextStart(p) \/ PromoteStart(p) \/ PromoteResume(p)
               \/ PromoteRevert(p) \/ RollbackStart(p)
      BY <2>1 DEF StageEnter, NextStart, PromoteStart, PromoteResume, PromoteRevert,
        RollbackStart
    <2>2. CASE NextAdopt(p)
      BY <1>6, <2>2 DEF NextAdopt, Armed
    <2> QED BY <1>6, <2>1, <2>2 DEF Start
  <1> QED
    BY <1>1, <1>2, <1>3, <1>4, <1>5, <1>6, OthersStop DEF Next, Continue, vars

\* A rollback that reports success leaves BootOrder, every entry the record names and
\* every file under EFI/ as recorded, and no entry for the candidate, whatever other
\* software changed before it and beside it.
THEOREM RolledBackAsFirstRecorded == Spec => RollbackRestoresRecord
  <1>1. Init => OwnInv /\ IntentInv /\ RecordInv
    BY InitOwnInv, InitIntentInv, InitRecordInv
  <1>2. /\ TypeOK /\ LockHeldByRunner /\ OwnInv /\ IntentInv /\ RecordInv
        /\ [Next]_vars
        => OwnInv' /\ IntentInv' /\ RecordInv'
    BY NextOwnInv, NextIntentInv, NextRecordInv
  <1>3. TypeOK /\ OwnInv /\ IntentInv /\ RecordInv /\ [Next]_vars =>
          [manifest'.state = "rolled_back" /\ manifest.state # "rolled_back"
             => AsFirstRecorded]_vars
    <2> SUFFICES ASSUME TypeOK, OwnInv, IntentInv, RecordInv, [Next]_vars,
                         manifest'.state = "rolled_back",
                         manifest.state # "rolled_back"
                  PROVE  AsFirstRecorded
      OBVIOUS
    <2>2. PICK p \in Procs : RollbackManifest(p)
      BY OnlyRollbackDeclares
    <2>3. manifest.num \in Nums /\ nvram.entries[manifest.num] = "none"
      BY <2>2 DEF RollbackManifest, IntentInv, RecordInv, RollbackPcs
    <2>4. esp = manifest.tree.esp /\ tree = manifest.tree.rest
      BY <2>2 DEF RollbackManifest, TreeHash
    <2>5. nvram.order = manifest.initial.order /\ EntriesKept(manifest.initial, nvram)
      BY <2>2 DEF RollbackManifest, RecordInv, RollbackPcs
    <2>6. manifest.initial.entries[manifest.num] = "none"
      BY <2>3 DEF OwnInv
    <2> QED BY <2>3, <2>4, <2>5, <2>6 DEF AsFirstRecorded, EntriesKept
  <1> QED
    BY <1>1, <1>2, <1>3, TypeCorrect, LockExcludes, PTL DEF Spec, RollbackRestoresRecord
=============================================================================
