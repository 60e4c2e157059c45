-------------------------- MODULE LoaderRestProofs --------------------------
(***************************************************************************)
(* The machine a transaction leaves when other software keeps off the      *)
(* loader's slots, the boot entries and BootNext: what every pair of       *)
(* manifest state and pending intent stands for, in memory and on the      *)
(* medium, whatever crashed, failed or was retried; that the operator is   *)
(* told the truth about it; and that the transaction implements            *)
(* LoaderUpgrade.                                                          *)
(***************************************************************************)
EXTENDS LoaderOwnProofs

\* What other software may change and meet the transaction nowhere but in its checks:
\* BootOrder, and the files outside the loader's slots.
Elsewhere == {"order", "tree"}

\* The states of a transaction whose entry exists.
LiveStates == {"staged", "armed", "promotion_failed", "promoted"}

\* The entries a machine has before the first stage.
Initially == [n \in Nums |-> IF n \in Normal THEN "initial" ELSE "none"]

\* EFI/refind holds these slots and no scratch file.
Only(e, slots) == Slots(e) = slots /\ e.temp = "absent" /\ Tidy(e)
OldOnly == <<"old", "absent">>  \* before a stage, and after a rollback
Both(e) == Only(e, OldNew) \/ Only(e, NewOld)

\* A rollback has moved the candidate aside and not removed it yet.
Quarantined(e) ==
    Slots(e) = OldOnly /\ e.temp = "absent" /\ e.quar = "new" /\ e.rtemp = "absent"

\* The variables: nothing but the candidate's entry is ever added, it exists from the
\* moment the transaction is staged until a rollback deletes it, and the record names
\* exactly what was there before.
EntryInv ==
    /\ "tree" \notin Drifts => tree = "initial" /\ manifest.tree.rest = "initial"
    /\ "order" \notin Drifts =>
        /\ nvram.order = "initial"
        /\ HasTransaction => manifest.initial.order = "initial"
    /\ \A n \in Normal : nvram.entries[n] = "initial"
    /\ \A n \in Free : nvram.entries[n] \in {"none", "cand"}
    /\ \A n \in Free : nvram.entries[n] = "cand" =>
          n = manifest.num \/ (manifest.num = NoNum /\ intent.op = "create_entry")
    /\ \A m, n \in Free : nvram.entries[m] = "cand" /\ nvram.entries[n] = "cand" => m = n
    /\ manifest.num \in Free \cup {NoNum}
    /\ Only(manifest.tree.esp, OldOnly)
    /\ HasTransaction =>
        /\ manifest.initial.entries = Initially
        /\ manifest.initial.next.num \notin Free
    /\ manifest.state \in LiveStates /\ intent.op # "rollback" =>
         nvram.entries[manifest.num] = "cand"
    /\ manifest.state = "rolled_back" => \A n \in Free : nvram.entries[n] = "none"
    /\ intent.op = "create_entry" => intent.before.entries = Initially
    /\ \A p \in Procs :
        /\ pc[p] = "stage_create" => \A n \in Free : nvram.entries[n] = "none"
        /\ pc[p] \in {"rollback_candidate", "rollback_unlink", "rollback_flush",
                      "rollback_manifest", "rollback_clear"} =>
             nvram.entries[manifest.num] = "none"

\* The states an intent or a step is compatible with; a rollback meets no conflict.
StateInv ==
    /\ manifest.num = NoNum <=>
         manifest.state \in {"none", "backup_ready", "candidate_published"}
    /\ manifest.state # "rollback_partial"
    /\ intent.op = "set_boot_next" =>
         manifest.state \in {"staged", "armed", "promotion_failed"}
    /\ intent.op \in {"promote", "promote_revert"} => manifest.state \in LiveStates
    /\ intent.op = "rollback" => manifest.state \in LiveStates \cup {"rolled_back"}
    /\ \A p \in Procs :
        /\ pc[p] = "stage_rename" => manifest.state = "backup_ready"
        /\ pc[p] \in PromotePcs => manifest.state \in LiveStates
        /\ pc[p] = "promote_exchange" =>
             intent.op = "promote" /\ manifest.state # "promoted"
        /\ pc[p] \in FinishPcs => intent.op \in {"none", "promote"}
        /\ pc[p] \in FinishPcs \cup {"revert_intent"} /\ intent.op = "none" =>
             manifest.state = "promoted"
        /\ pc[p] = "finish_clear" => manifest.state = "promoted"
        /\ pc[p] = "revert_clear" => manifest.state = "promotion_failed"
        /\ pc[p] = "rollback_clear" => manifest.state = "rolled_back"
        /\ pc[p] \in RollbackPcs => ~loc[p].clash

\* BootNext: firmware's own, absent, or the candidate's, and then either recorded as
\* owned or about to be, so that no promotion starts while it waits.
ArmInv ==
    /\ nvram.next = StdNext(nvram.next.num)
    /\ nvram.next.num \in Normal \cup {NoNum, manifest.num}
    /\ manifest.owned => manifest.state = "armed" /\ manifest.raw = StdNext(manifest.num)
    /\ Recorded /\ nvram.next.num = manifest.num =>
         manifest.owned \/ intent.op = "set_boot_next"
    /\ intent.op \in {"promote", "promote_revert"} => nvram.next.num # manifest.num
    /\ nvram.current # NoNum /\ nvram.current \in Normal \cup {manifest.num}
    /\ InitialNext = {NoNum} =>
         /\ nvram.next.num \notin Normal
         /\ HasTransaction => manifest.initial.next = NoNext
    /\ \A p \in Procs :
        /\ pc[p] = "next_set" => nvram.next = NoNext
        /\ pc[p] # "next_conflict"
        /\ pc[p] = "next_clear" => manifest.owned

BeforeNext == {"rollback_slots", "rollback_restore", "rollback_replace",
               "rollback_sync", "rollback_next"}

\* What the checks of a rollback found out about BootNext holds until it is cleared,
\* and what the record says of it holds from then on.
MayClear ==
    /\ SelectsCandidate => OwnsLiveNext
    /\ ~SelectsCandidate => nvram.next = manifest.initial.next

CheckInv ==
    \A p \in Procs :
        /\ pc[p] \in BeforeNext => MayClear
        /\ pc[p] = "rollback_cleared" =>
             nvram.next = NoNext /\ manifest.initial.next = NoNext
        /\ pc[p] \in RollbackPcs \ BeforeNext => nvram.next = manifest.initial.next

\* The files: what each state and intent leaves in memory and on the medium, and what
\* lies between a step and the sync that makes it durable.
FilesInv ==
    /\ intent.op = "none" /\ manifest.state \in {"none", "backup_ready"} =>
         Only(esp, OldOnly) /\ Only(disk, OldOnly)
    /\ intent.op = "publish_candidate" =>
         /\ \A e \in {esp, disk} :
              e.active = "old" /\ e.cand \in {"absent", "new"} /\ Tidy(e)
         /\ disk.cand = "new" => esp.cand = "new"
    /\ manifest.state = "candidate_published" => Only(esp, OldNew) /\ Only(disk, OldNew)
    /\ (/\ manifest.state \in {"staged", "armed", "promotion_failed"}
        /\ intent.op \in {"none", "create_entry", "set_boot_next"}) =>
         Only(esp, OldNew) /\ Only(disk, OldNew)
    /\ intent.op \in {"promote", "promote_revert"} => Both(esp) /\ Both(disk)
    /\ manifest.state = "promoted" /\ intent.op \in {"none", "promote"} =>
         Only(esp, NewOld) /\ Only(disk, NewOld)
    /\ manifest.state = "rolled_back" => Only(esp, OldOnly) /\ Only(disk, OldOnly)
    /\ intent.op = "rollback" =>
         /\ \A e \in {esp, disk} : Both(e) \/ Only(e, OldOnly) \/ Quarantined(e)
         /\ disk.cand = "absent" => Slots(esp) # NewOld
         /\ nvram.entries[manifest.num] = "cand" => Both(esp) /\ Both(disk)
    /\ \A p \in Procs :
        /\ pc[p] = "stage_temp" => loc[p].resume \/ esp.cand = "absent"
        /\ pc[p] = "stage_sync" => Only(esp, OldNew)
        /\ pc[p] \in {"stage_published", "stage_clear"} =>
             Only(esp, OldNew) /\ Only(disk, OldNew)
        /\ pc[p] \in {"promote_exchange", "revert_sync"} => Only(esp, OldNew)
        /\ pc[p] \in {"revert_manifest", "revert_clear"} =>
             Only(esp, OldNew) /\ Only(disk, OldNew)
        /\ pc[p] \in FinishPcs \cup {"revert_intent", "revert_exchange"} =>
             Only(esp, NewOld)
        /\ pc[p] \in {"finish_manifest", "finish_clear"} => Only(disk, NewOld)
        /\ pc[p] \notin {"rollback_restore", "rollback_replace"}
        /\ pc[p] = "rollback_slots" /\ ~loc[p].flush /\ esp.cand = "absent" =>
             Only(esp, OldOnly) /\ Only(disk, OldOnly)
        /\ pc[p] \in {"rollback_next", "rollback_cleared", "rollback_entry",
                      "rollback_candidate"} =>
             (esp.cand = "absent" => disk = esp)
        /\ pc[p] \in {"rollback_sync", "rollback_next", "rollback_cleared",
                      "rollback_entry", "rollback_candidate"} =>
             esp.active = "old"
        /\ pc[p] = "rollback_unlink" => Quarantined(esp)
        /\ pc[p] = "rollback_flush" => Only(esp, OldOnly)
        /\ pc[p] \in {"rollback_manifest", "rollback_clear"} =>
             Only(esp, OldOnly) /\ Only(disk, OldOnly)

\* The inductive invariant: each part needs the others.
RestInv == EntryInv /\ StateInv /\ ArmInv /\ CheckInv /\ FilesInv

LEMMA InitRestInv == Init => RestInv
  <1> SUFFICES ASSUME Init PROVE RestInv
    OBVIOUS
  <1>1. /\ \A p \in Procs : pc[p] = "idle"
        /\ intent.op = "none" /\ manifest.state = "none" /\ manifest.num = NoNum
        /\ ~manifest.owned
        /\ manifest.tree.rest = "initial" /\ manifest.tree.esp = esp
    BY DEF Init, NoIntent
  <1>2. Only(esp, OldOnly) /\ Only(disk, OldOnly) /\ disk = esp /\ esp.active = "old"
    BY DEF Init, Only, OldOnly, Slots, Tidy
  <1>3. PICK next \in InitialNext, current \in Normal :
        nvram = [order |-> "initial",
                 entries |-> [n \in Nums |-> IF n \in Normal THEN "initial" ELSE "none"],
                 next |-> StdNext(next), current |-> current]
    BY DEF Init
  <1>4. /\ nvram.order = "initial" /\ nvram.next = StdNext(next)
        /\ nvram.next.num = next /\ nvram.current = current
        /\ \A n \in Normal : nvram.entries[n] = "initial"
        /\ \A n \in Free : nvram.entries[n] = "none"
    BY <1>3, BootAssumption DEF Nums, StdNext
  <1>5. next \in Normal \cup {NoNum} /\ current # NoNum /\ NoNum \notin Normal
    BY BootAssumption DEF Nums
  <1>6. EntryInv
    BY <1>1, <1>2, <1>4 DEF EntryInv, Init, HasTransaction, LiveStates
  <1>7. StateInv
    BY <1>1 DEF StateInv, PromotePcs, FinishPcs, RevertPcs, RollbackPcs
  <1>8. ArmInv
    <2>1. InitialNext = {NoNum} => next = NoNum
      OBVIOUS
    <2> QED BY <1>1, <1>4, <1>5, <2>1, BootAssumption DEF ArmInv, Recorded,
       HasTransaction
  <1>9. CheckInv
    BY <1>1 DEF CheckInv, BeforeNext, RollbackPcs
  <1>10. FilesInv
    BY <1>1, <1>2 DEF FilesInv, FinishPcs
  <1> QED BY <1>6, <1>7, <1>8, <1>9, <1>10 DEF RestInv

\* Beside the program and the machine itself, all that acts is somebody elsewhere.
LEMMA OnlyMachine ==
    ASSUME Drifts \subseteq Elsewhere, Environment
    PROVE  \/ Reboot \/ PowerLoss \/ WriteBack
           \/ DriftOrder /\ "order" \in Drifts
           \/ DriftTree /\ "tree" \in Drifts
  BY DEF Environment, DriftNext, DriftOrder, DriftEntry, DriftTree, DriftSlot,
     DriftRace, Drift, Elsewhere

\* What they do leaves the slots, the entries and BootNext, and waits for the program.
LEMMA DriftElsewhere ==
    ASSUME TypeOK, DriftOrder \/ DriftTree
    PROVE  /\ UNCHANGED <<esp, disk, manifest, intent, loc, booted>>
           /\ nvram'.entries = nvram.entries /\ nvram'.next = nvram.next
           /\ nvram'.current = nvram.current
           /\ \A q \in Procs : pc'[q] = "idle"
  BY DEF DriftOrder, DriftTree, Quiet, Idle, TypeOK, Snapshot

LEMMA FirmwareSelects ==
    ASSUME TypeOK, ArmInv, NEW e, Firmware(e)
    PROVE  /\ nvram'.order = nvram.order /\ nvram'.entries = nvram.entries
           /\ nvram'.next = NoNext
           /\ nvram'.current \in Nums /\ nvram'.current \in Normal \cup {manifest.num}
  <1>1. PICK n \in Nums :
        /\ n \in Normal \/ n = nvram.next.num
        /\ nvram' = [nvram EXCEPT !.next = NoNext, !.current = n]
    BY DEF Firmware
  <1>2. n \in Normal \cup {manifest.num}
    BY <1>1, BootAssumption DEF ArmInv, Nums
  <1> QED BY <1>1, <1>2 DEF TypeOK, Snapshot

-----------------------------------------------------------------------------
(* The boot entries.                                                       *)

\* The record names what was there before.
LEMMA BeginEntryInv ==
    ASSUME TypeOK, LockHeldByRunner, OwnInv, IntentInv, EntryInv, StateInv, ArmInv,
           FilesInv,
           NEW p \in Procs, StageBegin(p)
    PROVE  EntryInv'
  <1>1. /\ manifest' = [state |-> "backup_ready", initial |-> nvram,
                        tree |-> TreeHash(esp), num |-> NoNum, owned |-> FALSE,
                        raw |-> NoNext]
        /\ UNCHANGED <<esp, disk, tree, nvram, intent, loc>>
        /\ ~HasTransaction /\ lock = NoProc
        /\ pc' = [pc EXCEPT ![p] = "stage_intent"]
    BY DEF StageBegin, MayBegin, Acquire, Goto
  <1>2. manifest.state = "none" /\ manifest.num = NoNum /\ intent.op = "none"
    BY <1>1 DEF HasTransaction, OwnInv
  <1>3. Only(esp, OldOnly)
    BY <1>2 DEF FilesInv
  <1>4. \A n \in Free : nvram.entries[n] = "none"
    BY <1>2, BootAssumption DEF EntryInv, Nums
  <1>5. nvram.entries = Initially
    <2>1. nvram.entries \in [Nums -> EntryRaw]
      BY DEF TypeOK, Snapshot
    <2>2. \A n \in Nums : nvram.entries[n] = Initially[n]
      BY <1>4 DEF EntryInv, Initially, Nums
    <2> QED BY <2>1, <2>2 DEF Initially
  <1>6. nvram.next.num \notin Free
    BY <1>2, BootAssumption DEF ArmInv, Nums
  <1>7. /\ manifest'.num = NoNum /\ manifest'.state = "backup_ready"
        /\ manifest'.initial = nvram /\ manifest'.tree = [esp |-> esp, rest |-> tree]
    BY <1>1 DEF TreeHash
  <1>8. manifest'.tree.esp = esp /\ manifest'.tree.rest = tree
    BY <1>7
  <1>9. \A q \in Procs : pc'[q] = pc[q] \/ pc'[q] = "stage_intent"
    BY <1>1 DEF TypeOK
  <1>10. \A q \in Procs : pc[q] \notin Locked
    BY <1>1, ProcAssumption DEF LockHeldByRunner
  <1>11. \A q \in Procs : pc'[q] \notin RollbackPcs /\ pc'[q] # "stage_create"
    BY <1>9, <1>10 DEF Locked, StagePcs, RollbackPcs
  <1> QED
    BY <1>1, <1>2, <1>3, <1>4, <1>5, <1>6, <1>7, <1>8, <1>11
       DEF EntryInv, HasTransaction, Only, Tidy, Slots, OldOnly, LiveStates, RollbackPcs

\* The number a stage records is one of those the firmware had free.
LEMMA AdoptedIsFree ==
    ASSUME TypeOK, IntentInv, EntryInv, NEW p \in Procs, StageAdopt(p)
    PROVE  \E n \in Free :
             /\ manifest' = [manifest EXCEPT !.state = "staged", !.num = n]
             /\ nvram.entries[n] = "cand"
  <1>1. PICK n \in CreatedSince(intent.before, nvram) :
        manifest' = [manifest EXCEPT !.state = "staged", !.num = n]
    BY DEF StageAdopt
  <1>2. intent.before.entries = Initially
    BY DEF StageAdopt, IntentInv, EntryInv
  <1>3. n \in Nums /\ n \notin Normal
    BY <1>1, <1>2 DEF CreatedSince, Initially
  <1>4. n \in Free
    BY <1>3 DEF Nums
  <1>5. nvram.entries[n] = "cand"
    BY <1>1, <1>4 DEF CreatedSince, EntryInv
  <1> QED BY <1>1, <1>4, <1>5

LEMMA StageEntryInv ==
    ASSUME TypeOK, LockHeldByRunner, OwnInv, IntentInv, SlotInv, EntryInv, StateInv,
      ArmInv, CheckInv, FilesInv, NEW p \in Procs, StageStep(p)
    PROVE  EntryInv'
  <1> USE ProcAssumption, BootAssumption DEF TypeOK, LockHeldByRunner, OwnInv,
    IntentInv, EntryInv, StateInv, Nums, Snapshot, Manifest, HasTransaction,
    Initially, LiveStates, Acquire, Release, Raise, Goto, Locked, StagePcs, NextPcs,
    PromotePcs, FinishPcs, RevertPcs, RollbackPcs
  <1>1. CASE StageResume(p) \/ StageRefused(p) \/ StageKeepSlot(p)
             \/ StageWriteTemp(p) \/ StageTempForeign(p)
    BY <1>1 DEF StageResume, StageRefused, StageKeepSlot, StageWriteTemp,
      StageTempForeign, MayResume, PublishPending, MayBegin
  <1>2. CASE StageTempFails(p) \/ StageRename(p) \/ StageRenameFails(p)
             \/ StageSync(p) \/ StageRetryCreate(p)
    BY <1>2 DEF StageTempFails, StageRename, StageRenameFails, StageSync,
      StageRetryCreate, CreatedSince, EntriesKept, MayRetryCreate
  <1>3. CASE StageCreateFull(p) \/ StageInspectRefused(p)
    BY <1>3 DEF StageCreateFull, StageInspectRefused
  <1>4. CASE StageBegin(p)
    BY <1>4, BeginEntryInv
  <1>5. CASE StageIntent(p)
    BY <1>5 DEF StageIntent, Record
  <1>6. CASE StagePublished(p)
    BY <1>6 DEF StagePublished
  <1>7. CASE StageClear(p)
    BY <1>7 DEF StageClear, NoIntent
  <1>8. CASE StageDeclareEntry(p)
    BY <1>8 DEF StageDeclareEntry, MayDeclareEntry, Record, UnchangedSinceBegin
  <1>9. CASE StageCreate(p)
    BY <1>9 DEF StageCreate
  <1>10. CASE StageAdopt(p)
    BY <1>10 DEF StageAdopt, CreatedSince
  <1>11. CASE StageConfirm(p)
    BY <1>11 DEF StageConfirm, EntriesKept, Incomplete, OwnsNvram, OwnsVariables
  <1>12. CASE StageDone(p)
    BY <1>12 DEF StageDone, NoIntent
  <1>13. CASE StageObserve(p)
    BY <1>13 DEF StageObserve, Observed, Baseline, Record
  <1> QED BY <1>1, <1>2, <1>3, <1>4, <1>5, <1>6, <1>7, <1>8, <1>9, <1>10, <1>11, <1>12,
    <1>13 DEF StageStep

LEMMA BootNextEntryInv ==
    ASSUME TypeOK, LockHeldByRunner, OwnInv, IntentInv, SlotInv, EntryInv, StateInv,
      ArmInv, CheckInv, FilesInv, NEW p \in Procs, NextStep(p)
    PROVE  EntryInv'
  <1> USE ProcAssumption, BootAssumption DEF TypeOK, LockHeldByRunner, OwnInv,
    IntentInv, EntryInv, StateInv, Nums, Snapshot, Manifest, HasTransaction,
    Initially, LiveStates, Acquire, Release, Raise, Goto, Locked, StagePcs, NextPcs,
    PromotePcs, FinishPcs, RevertPcs, RollbackPcs
  <1>1. CASE NextConflict(p) \/ NextSetFails(p) \/ NextReadBackRefused(p)
    BY <1>1 DEF NextConflict, NextSetFails, NextReadBackRefused
  <1>2. CASE NextSet(p)
    BY <1>2 DEF NextSet
  <1>3. CASE NextConflictClear(p)
    BY <1>3 DEF NextConflictClear, NoIntent
  <1>4. CASE NextReadBack(p)
    BY <1>4 DEF NextReadBack, Armed
  <1>5. CASE NextClear(p)
    BY <1>5 DEF NextClear, NoIntent
  <1> QED BY <1>1, <1>2, <1>3, <1>4, <1>5 DEF NextStep

LEMMA PromoteEntryInv ==
    ASSUME TypeOK, LockHeldByRunner, OwnInv, IntentInv, SlotInv, EntryInv, StateInv,
      ArmInv, CheckInv, FilesInv, NEW p \in Procs, PromoteStep(p)
    PROVE  EntryInv'
  <1> USE ProcAssumption, BootAssumption DEF TypeOK, LockHeldByRunner, OwnInv,
    IntentInv, EntryInv, StateInv, Nums, Snapshot, Manifest, HasTransaction,
    Initially, LiveStates, Acquire, Release, Raise, Goto, Locked, StagePcs, NextPcs,
    PromotePcs, FinishPcs, RevertPcs, RollbackPcs
  <1>1. CASE PromoteExchange(p) \/ FinishSync(p) \/ FinishRefused(p) \/ FinishFails(p)
             \/ RevertExchange(p)
    BY <1>1 DEF PromoteExchange, FinishSync, FinishRefused, FinishFails,
      RevertExchange
  <1>2. CASE RevertSync(p)
    BY <1>2 DEF RevertSync
  <1>3. CASE FinishManifest(p)
    BY <1>3 DEF FinishManifest, Settled
  <1>4. CASE FinishClear(p)
    BY <1>4 DEF FinishClear, NoIntent
  <1>5. CASE FinishClearFails(p)
    BY <1>5 DEF FinishClearFails, NoIntent
  <1>6. CASE RevertIntent(p)
    BY <1>6 DEF RevertIntent, Record
  <1>7. CASE RevertManifest(p)
    BY <1>7 DEF RevertManifest, Settled
  <1>8. CASE RevertClear(p)
    BY <1>8 DEF RevertClear, NoIntent
  <1> QED BY <1>1, <1>2, <1>3, <1>4, <1>5, <1>6, <1>7, <1>8 DEF PromoteStep

LEMMA RollbackEntryInv ==
    ASSUME TypeOK, LockHeldByRunner, OwnInv, IntentInv, SlotInv, EntryInv, StateInv,
      ArmInv, CheckInv, FilesInv, NEW p \in Procs, RollbackStep(p)
    PROVE  EntryInv'
  <1> USE ProcAssumption, BootAssumption DEF TypeOK, LockHeldByRunner, OwnInv,
    IntentInv, EntryInv, StateInv, Nums, Snapshot, Manifest, HasTransaction,
    Initially, LiveStates, Acquire, Release, Raise, Goto, Locked, StagePcs, NextPcs,
    PromotePcs, FinishPcs, RevertPcs, RollbackPcs
  <1>1. CASE RollbackExchange(p) \/ RollbackSlots(p) \/ RollbackRestore(p)
             \/ RollbackRestoreFails(p) \/ RollbackReplace(p)
    BY <1>1 DEF RollbackExchange, RollbackSlots, RollbackRestore,
      RollbackRestoreFails, RollbackReplace
  <1>2. CASE RollbackReplaceFails(p) \/ RollbackSync(p) \/ RollbackKeepNext(p)
             \/ RollbackCleared(p) \/ RollbackKeepEntry(p)
    BY <1>2 DEF RollbackReplaceFails, RollbackSync, RollbackKeepNext, RollbackCleared,
      RollbackKeepEntry
  <1>3. CASE RollbackQuarantine(p) \/ RollbackQuarantined(p) \/ RollbackNoCandidate(p)
             \/ RollbackUnlink(p) \/ RollbackUnlinkFails(p)
    BY <1>3 DEF RollbackQuarantine, RollbackQuarantined, RollbackNoCandidate,
      RollbackUnlink, RollbackUnlinkFails
  <1>4. CASE RollbackFlush(p)
    BY <1>4 DEF RollbackFlush
  <1>5. CASE RollbackClearNext(p)
    BY <1>5 DEF RollbackClearNext
  <1>6. CASE RollbackDeleteEntry(p)
    BY <1>6 DEF RollbackDeleteEntry
  <1>7. CASE RollbackManifest(p)
    BY <1>7 DEF RollbackManifest
  <1>8. CASE RollbackPartial(p)
    BY <1>8 DEF RollbackPartial
  <1>9. CASE RollbackClear(p)
    BY <1>9 DEF RollbackClear, NoIntent
  <1> QED BY <1>1, <1>2, <1>3, <1>4, <1>5, <1>6, <1>7, <1>8, <1>9 DEF RollbackStep

LEMMA StartEntryInv ==
    ASSUME TypeOK, LockHeldByRunner, OwnInv, IntentInv, SlotInv, EntryInv, StateInv,
      ArmInv, CheckInv, FilesInv, NEW p \in Procs, Start(p)
    PROVE  EntryInv'
  <1> USE ProcAssumption, BootAssumption DEF TypeOK, LockHeldByRunner, OwnInv,
    IntentInv, EntryInv, StateInv, Nums, Snapshot, Manifest, HasTransaction,
    Initially, LiveStates, Acquire, Release, Raise, Goto, Locked, StagePcs, NextPcs,
    PromotePcs, FinishPcs, RevertPcs, RollbackPcs
  <1>1. CASE StageEnter(p) \/ PromoteResume(p) \/ PromoteRevert(p)
    BY <1>1 DEF StageEnter, PromoteResume, PromoteRevert, EntriesKept, MayPromote,
      OwnsNvram, OwnsVariables
  <1>2. CASE NextStart(p)
    BY <1>2 DEF NextStart, EntriesKept, MayArm, OwnsVariables, Record
  <1>3. CASE NextAdopt(p)
    BY <1>3 DEF NextAdopt, Armed, EntriesKept, MayArm, OwnsVariables
  <1>4. CASE PromoteStart(p)
    BY <1>4 DEF PromoteStart, EntriesKept, MayPromote, OwnsNvram, OwnsVariables,
      Record
  <1>5. CASE RollbackStart(p)
    BY <1>5 DEF RollbackStart, EntriesKept, EntryRemovable, MayRollback, Record,
      RemovableNvram
  <1> QED BY <1>1, <1>2, <1>3, <1>4, <1>5 DEF Start

LEMMA OthersEntryInv ==
    ASSUME Drifts \subseteq Elsewhere, TypeOK, ArmInv, EntryInv,
           Environment \/ (\E p \in Procs : Fails(p) \/ Killed(p))
    PROVE  EntryInv'
  <1>1. /\ UNCHANGED <<manifest, intent>>
        /\ nvram'.entries = nvram.entries
        /\ "tree" \notin Drifts => UNCHANGED tree
        /\ "order" \notin Drifts => nvram'.order = nvram.order
    <2>1. CASE DriftOrder /\ "order" \in Drifts
      <3>1. UNCHANGED tree
        BY <2>1 DEF DriftOrder
      <3> QED BY <2>1, <3>1, DriftElsewhere
    <2>2. CASE DriftTree /\ "tree" \in Drifts
      <3>1. UNCHANGED nvram
        BY <2>2 DEF DriftTree
      <3> QED BY <2>2, <3>1, DriftElsewhere
    <2>3. CASE Reboot \/ PowerLoss
      BY <2>3, FirmwareSelects DEF Reboot, PowerLoss
    <2>4. CASE WriteBack \/ (\E p \in Procs : Fails(p) \/ Killed(p))
      BY <2>4 DEF WriteBack, Fails, Killed
    <2> QED BY <2>1, <2>2, <2>3, <2>4, OnlyMachine
  <1>2. \A q \in Procs : pc'[q] = pc[q] \/ pc'[q] = "idle"
    BY OthersStop
  <1> QED BY <1>1, <1>2 DEF EntryInv, HasTransaction, Only, Tidy, Slots

-----------------------------------------------------------------------------
(* States and intents.                                                     *)

LEMMA KeepNextStateInv ==
    ASSUME TypeOK, LockHeldByRunner, StateInv, CheckInv, NEW p \in Procs,
           RollbackKeepNext(p)
    PROVE  StateInv'
  <1>1. nvram.next = manifest.initial.next
    BY DEF RollbackKeepNext, CheckInv, MayClear, BeforeNext
  <1>2. /\ loc' = [loc EXCEPT ![p].clash = (nvram.next # manifest.initial.next)]
        /\ pc' = [pc EXCEPT ![p] = "rollback_entry"]
        /\ UNCHANGED <<manifest, intent>>
    BY DEF RollbackKeepNext, Goto
  <1>3. ~loc'[p].clash /\ \A q \in Procs \ {p} : loc'[q] = loc[q]
    BY <1>1, <1>2 DEF TypeOK, Local
  <1>4. \A q \in Procs \ {p} : pc'[q] = pc[q]
    BY <1>2 DEF TypeOK
  <1>5. pc'[p] = "rollback_entry"
    BY <1>2 DEF TypeOK
  <1> QED
    BY <1>2, <1>3, <1>4, <1>5 DEF StateInv, PromotePcs, FinishPcs, RevertPcs,
       RollbackPcs

LEMMA StageStateInv ==
    ASSUME TypeOK, LockHeldByRunner, OwnInv, IntentInv, SlotInv, EntryInv, StateInv,
      ArmInv, CheckInv, FilesInv, NEW p \in Procs, StageStep(p)
    PROVE  StateInv'
  <1> USE ProcAssumption, BootAssumption DEF TypeOK, LockHeldByRunner, OwnInv,
    IntentInv, SlotInv, StateInv, EntryInv, FilesInv, Only, Both, OldOnly, OldNew,
    NewOld, Slots, Manifest, HasTransaction, LiveStates, States, Local, Acquire,
    Release, Raise, Goto, Locked, StagePcs, NextPcs, PromotePcs, FinishPcs, RevertPcs,
    RollbackPcs
  <1>1. CASE StageRefused(p) \/ StageKeepSlot(p) \/ StageTempForeign(p)
             \/ StageTempFails(p) \/ StageRename(p)
    BY <1>1 DEF StageRefused, StageKeepSlot, StageTempForeign, StageTempFails,
      StageRename, MayBegin, MayResume, PublishPending, SlotTaken
  <1>2. CASE StageRenameFails(p) \/ StageSync(p) \/ StageRetryCreate(p)
             \/ StageCreate(p) \/ StageCreateFull(p)
    BY <1>2 DEF StageRenameFails, StageSync, StageRetryCreate, StageCreate,
      StageCreateFull
  <1>3. CASE StageInspectRefused(p)
    BY <1>3 DEF StageInspectRefused
  <1>4. CASE StageBegin(p)
    BY <1>4 DEF StageBegin, MayBegin
  <1>5. CASE StageResume(p)
    BY <1>5 DEF StageResume, MayResume, PublishPending
  <1>6. CASE StageIntent(p)
    BY <1>6 DEF StageIntent, Record
  <1>7. CASE StageWriteTemp(p)
    BY <1>7 DEF StageWriteTemp, SlotTaken
  <1>8. CASE StagePublished(p)
    BY <1>8 DEF StagePublished
  <1>9. CASE StageClear(p)
    BY <1>9 DEF StageClear, NoIntent
  <1>10. CASE StageDeclareEntry(p)
    BY <1>10 DEF StageDeclareEntry, Record
  <1>11. CASE StageAdopt(p)
    BY <1>11 DEF StageAdopt, CreatedSince
  <1>12. CASE StageConfirm(p)
    BY <1>12 DEF StageConfirm, Incomplete, OwnsNvram, OwnsVariables
  <1>13. CASE StageDone(p)
    BY <1>13 DEF StageDone, NoIntent
  <1>14. CASE StageObserve(p)
    BY <1>14 DEF StageObserve, Observed, Record
  <1> QED BY <1>1, <1>2, <1>3, <1>4, <1>5, <1>6, <1>7, <1>8, <1>9, <1>10, <1>11,
    <1>12, <1>13, <1>14 DEF StageStep

LEMMA BootNextStateInv ==
    ASSUME TypeOK, LockHeldByRunner, OwnInv, IntentInv, SlotInv, EntryInv, StateInv,
      ArmInv, CheckInv, FilesInv, NEW p \in Procs, NextStep(p)
    PROVE  StateInv'
  <1> USE ProcAssumption, BootAssumption DEF TypeOK, LockHeldByRunner, OwnInv,
    IntentInv, SlotInv, StateInv, EntryInv, FilesInv, Only, Both, OldOnly, OldNew,
    NewOld, Slots, Manifest, HasTransaction, LiveStates, States, Local, Acquire,
    Release, Raise, Goto, Locked, StagePcs, NextPcs, PromotePcs, FinishPcs, RevertPcs,
    RollbackPcs
  <1>1. CASE NextSet(p) \/ NextConflict(p) \/ NextSetFails(p)
             \/ NextReadBackRefused(p)
    BY <1>1 DEF NextSet, NextConflict, NextSetFails, NextReadBackRefused
  <1>2. CASE NextConflictClear(p)
    BY <1>2 DEF NextConflictClear, NoIntent
  <1>3. CASE NextReadBack(p)
    BY <1>3 DEF NextReadBack, Armed
  <1>4. CASE NextClear(p)
    BY <1>4 DEF NextClear, NoIntent
  <1> QED BY <1>1, <1>2, <1>3, <1>4 DEF NextStep

LEMMA PromoteStateInv ==
    ASSUME TypeOK, LockHeldByRunner, OwnInv, IntentInv, SlotInv, EntryInv, StateInv,
      ArmInv, CheckInv, FilesInv, NEW p \in Procs, PromoteStep(p)
    PROVE  StateInv'
  <1> USE ProcAssumption, BootAssumption DEF TypeOK, LockHeldByRunner, OwnInv,
    IntentInv, SlotInv, StateInv, EntryInv, FilesInv, Only, Both, OldOnly, OldNew,
    NewOld, Slots, Manifest, HasTransaction, LiveStates, States, Local, Acquire,
    Release, Raise, Goto, Locked, StagePcs, NextPcs, PromotePcs, FinishPcs, RevertPcs,
    RollbackPcs
  <1>1. CASE PromoteExchange(p) \/ FinishSync(p) \/ FinishRefused(p) \/ FinishFails(p)
             \/ RevertExchange(p)
    BY <1>1 DEF PromoteExchange, FinishSync, FinishRefused, FinishFails,
      RevertExchange
  <1>2. CASE RevertSync(p)
    BY <1>2 DEF RevertSync
  <1>3. CASE FinishManifest(p)
    BY <1>3 DEF FinishManifest, Settled
  <1>4. CASE FinishClear(p)
    BY <1>4 DEF FinishClear, NoIntent
  <1>5. CASE FinishClearFails(p)
    BY <1>5 DEF FinishClearFails, NoIntent
  <1>6. CASE RevertIntent(p)
    BY <1>6 DEF RevertIntent, Record
  <1>7. CASE RevertManifest(p)
    BY <1>7 DEF RevertManifest, Settled
  <1>8. CASE RevertClear(p)
    BY <1>8 DEF RevertClear, NoIntent
  <1> QED BY <1>1, <1>2, <1>3, <1>4, <1>5, <1>6, <1>7, <1>8 DEF PromoteStep

LEMMA RollbackStateInv ==
    ASSUME TypeOK, LockHeldByRunner, OwnInv, IntentInv, SlotInv, EntryInv, StateInv,
      ArmInv, CheckInv, FilesInv, NEW p \in Procs, RollbackStep(p)
    PROVE  StateInv'
  <1> USE ProcAssumption, BootAssumption DEF TypeOK, LockHeldByRunner, OwnInv,
    IntentInv, SlotInv, StateInv, EntryInv, FilesInv, Only, Both, OldOnly, OldNew,
    NewOld, Slots, Manifest, HasTransaction, LiveStates, States, Local, Acquire,
    Release, Raise, Goto, Locked, StagePcs, NextPcs, PromotePcs, FinishPcs, RevertPcs,
    RollbackPcs
  <1>1. CASE RollbackExchange(p) \/ RollbackSlots(p) \/ RollbackRestoreFails(p)
             \/ RollbackReplace(p) \/ RollbackReplaceFails(p)
    BY <1>1 DEF RollbackExchange, RollbackSlots, RollbackRestoreFails,
      RollbackReplace, RollbackReplaceFails
  <1>2. CASE RollbackSync(p) \/ RollbackClearNext(p) \/ RollbackCleared(p)
             \/ RollbackDeleteEntry(p) \/ RollbackNoCandidate(p)
    BY <1>2 DEF RollbackSync, RollbackClearNext, RollbackCleared, RollbackDeleteEntry,
      RollbackNoCandidate
  <1>3. CASE RollbackUnlink(p) \/ RollbackUnlinkFails(p) \/ RollbackFlush(p)
    BY <1>3 DEF RollbackUnlink, RollbackUnlinkFails, RollbackFlush
  <1>4. CASE RollbackRestore(p)
    BY <1>4 DEF RollbackRestore
  <1>5. CASE RollbackKeepNext(p)
    BY <1>5, KeepNextStateInv
  <1>6. CASE RollbackKeepEntry(p)
    BY <1>6 DEF RollbackKeepEntry
  <1>7. CASE RollbackQuarantine(p)
    BY <1>7 DEF RollbackQuarantine
  <1>8. CASE RollbackQuarantined(p)
    BY <1>8 DEF RollbackQuarantined
  <1>9. CASE RollbackManifest(p)
    BY <1>9 DEF RollbackManifest
  <1>10. CASE RollbackPartial(p)
    BY <1>10 DEF RollbackPartial
  <1>11. CASE RollbackClear(p)
    BY <1>11 DEF RollbackClear, NoIntent
  <1> QED BY <1>1, <1>2, <1>3, <1>4, <1>5, <1>6, <1>7, <1>8, <1>9, <1>10, <1>11 DEF
    RollbackStep

LEMMA StartStateInv ==
    ASSUME TypeOK, LockHeldByRunner, OwnInv, IntentInv, SlotInv, EntryInv, StateInv,
      ArmInv, CheckInv, FilesInv, NEW p \in Procs, Start(p)
    PROVE  StateInv'
  <1> USE ProcAssumption, BootAssumption DEF TypeOK, LockHeldByRunner, OwnInv,
    IntentInv, SlotInv, StateInv, EntryInv, FilesInv, Only, Both, OldOnly, OldNew,
    NewOld, Slots, Manifest, HasTransaction, LiveStates, States, Local, Acquire,
    Release, Raise, Goto, Locked, StagePcs, NextPcs, PromotePcs, FinishPcs, RevertPcs,
    RollbackPcs
  <1>1. CASE PromoteResume(p) \/ PromoteRevert(p)
    BY <1>1 DEF PromoteResume, PromoteRevert, MayPromote, OwnsNvram, OwnsVariables
  <1>2. CASE StageEnter(p)
    BY <1>2 DEF StageEnter, NoLocal
  <1>3. CASE NextStart(p)
    BY <1>3 DEF NextStart, MayArm, OwnsVariables, Record
  <1>4. CASE NextAdopt(p)
    BY <1>4 DEF NextAdopt, Armed, MayArm, OwnsVariables
  <1>5. CASE PromoteStart(p)
    BY <1>5 DEF PromoteStart, MayPromote, OwnsNvram, OwnsVariables, Record
  <1>6. CASE RollbackStart(p)
    BY <1>6 DEF RollbackStart, EntryRemovable, MayRollback, NoLocal, Record,
      RemovableNvram
  <1> QED BY <1>1, <1>2, <1>3, <1>4, <1>5, <1>6 DEF Start

LEMMA OthersStateInv ==
    ASSUME TypeOK, StateInv, Environment \/ (\E p \in Procs : Fails(p) \/ Killed(p))
    PROVE  StateInv'
  BY OthersStop DEF StateInv, PromotePcs, FinishPcs, RevertPcs, RollbackPcs

-----------------------------------------------------------------------------
(* BootNext.                                                               *)

\* A step that touches none of these variables and reaches no step of boot-next that the
\* invariant speaks of.
LEMMA QuietArmInv ==
    ASSUME ArmInv, UNCHANGED <<nvram, manifest, intent>>,
           \A q \in Procs : pc'[q] = pc[q] \/ pc'[q] \notin NextPcs \ {"next_readback"}
    PROVE  ArmInv'
  BY DEF ArmInv, Recorded, HasTransaction, NextPcs, StdNext, NoNext

LEMMA ConfirmArmInv ==
    ASSUME TypeOK, LockHeldByRunner, OwnInv, IntentInv, ArmInv, NEW p \in Procs,
           StageConfirm(p)
    PROVE  ArmInv'
  <1>1. pc' = [pc EXCEPT ![p] = "stage_done"] \/ pc' = [pc EXCEPT ![p] = "idle"]
    BY DEF StageConfirm, Goto, Release
  <1>2. UNCHANGED <<nvram, intent>>
    BY DEF StageConfirm
  <1>3. CASE UNCHANGED manifest
    BY <1>1, <1>2, <1>3 DEF ArmInv, HasTransaction, TypeOK, Recorded
  <1>4. CASE Incomplete /\ manifest' = [manifest EXCEPT !.state = "staged"]
    <2>1. ~manifest.owned
      BY <1>4 DEF Incomplete, StageConfirm, IntentInv, ArmInv
    <2>2. /\ manifest'.num = manifest.num /\ manifest'.owned = manifest.owned
          /\ manifest'.initial = manifest.initial
      BY <1>4 DEF TypeOK, Manifest
    <2>3. HasTransaction
      BY DEF StageConfirm, OwnInv, Locked, StagePcs
    <2> QED BY <1>1, <1>2, <2>1, <2>2, <2>3 DEF ArmInv, TypeOK, Recorded
  <1> QED BY <1>3, <1>4 DEF StageConfirm

LEMMA SetArmInv ==
    ASSUME TypeOK, LockHeldByRunner, IntentInv, EntryInv, ArmInv, NEW p \in Procs,
           NextSet(p)
    PROVE  ArmInv'
  <1>1. pc' = [pc EXCEPT ![p] = "next_readback"] /\ UNCHANGED <<manifest, intent>>
    BY DEF NextSet, Goto
  <1>2. nvram'.next = StdNext(manifest.num) /\ nvram'.current = nvram.current
    BY DEF NextSet, TypeOK, Snapshot
  <1>3. intent.op = "set_boot_next" /\ manifest.num \in Free
    BY BootAssumption DEF NextSet, IntentInv, EntryInv, NextPcs, Nums
  <1>4. \A q \in Procs \ {p} : pc[q] \notin NextPcs
    BY DEF NextSet, LockHeldByRunner, Locked, NextPcs
  <1> QED
    BY <1>1, <1>2, <1>3, <1>4, BootAssumption
       DEF ArmInv, StdNext, Recorded, TypeOK, NextPcs, HasTransaction

LEMMA ClearNextArmInv ==
    ASSUME TypeOK, LockHeldByRunner, IntentInv, EntryInv, ArmInv, NEW p \in Procs,
           RollbackClearNext(p)
    PROVE  ArmInv'
  <1>1. pc' = [pc EXCEPT ![p] = "rollback_cleared"] /\ UNCHANGED <<manifest, intent>>
    BY DEF RollbackClearNext, Goto
  <1>2. nvram'.next = NoNext /\ nvram'.current = nvram.current
    BY DEF RollbackClearNext, TypeOK, Snapshot
  <1>3. nvram'.next.num = NoNum /\ nvram'.next = StdNext(NoNum)
    BY <1>2 DEF NoNext, StdNext
  <1> QED
    BY <1>1, <1>2, <1>3, BootAssumption
       DEF ArmInv, Recorded, TypeOK, HasTransaction, IntentInv, RollbackClearNext,
           RollbackPcs, Nums

LEMMA ManifestArmInv ==
    ASSUME TypeOK, LockHeldByRunner, OwnInv, IntentInv, EntryInv, ArmInv, CheckInv,
           NEW p \in Procs, RollbackManifest(p)
    PROVE  ArmInv'
  <1>1. pc' = [pc EXCEPT ![p] = "rollback_clear"] /\ UNCHANGED <<nvram, intent>>
    BY DEF RollbackManifest, Goto
  <1>2. /\ manifest'.num = manifest.num /\ manifest'.initial = manifest.initial
        /\ ~manifest'.owned /\ manifest'.state = "rolled_back"
    BY DEF RollbackManifest, TypeOK, Manifest
  <1>3. HasTransaction /\ intent.op = "rollback" /\ nvram.next = manifest.initial.next
    BY DEF RollbackManifest, OwnInv, IntentInv, CheckInv, Locked, RollbackPcs,
       BeforeNext
  <1>4. manifest.num \in Nums => nvram.next.num # manifest.num
    BY <1>3, BootAssumption DEF EntryInv
  <1>5. \A q \in Procs \ {p} : pc[q] \notin NextPcs
    BY DEF RollbackManifest, LockHeldByRunner, Locked, NextPcs, RollbackPcs
  <1> QED
    BY <1>1, <1>2, <1>3, <1>4, <1>5 DEF ArmInv, Recorded, TypeOK, HasTransaction,
       NextPcs

LEMMA RollbackStartArmInv ==
    ASSUME TypeOK, LockHeldByRunner, OwnInv, IntentInv, EntryInv, ArmInv, NEW p \in
           Procs, RollbackStart(p)
    PROVE  ArmInv'
  <1>1. /\ pc' = [pc EXCEPT ![p] = "rollback_slots"] /\ UNCHANGED <<nvram, manifest>>
        /\ intent'.op = "rollback"
    BY DEF RollbackStart, Acquire, Goto, Record
  <1>2. \A q \in Procs \ {p} : pc[q] \notin NextPcs
    BY ProcAssumption DEF RollbackStart, Acquire, LockHeldByRunner, Locked
  <1>3. Recorded /\ nvram.next.num = manifest.num => manifest.owned
    BY BootAssumption DEF RollbackStart, MayRollback, RemovableNvram,
       SelectsCandidate, OwnsLiveNext, EntryInv, HasTransaction, Recorded
  <1> QED
    BY <1>1, <1>2, <1>3 DEF ArmInv, Recorded, TypeOK, HasTransaction, NextPcs

LEMMA AdoptArmInv ==
    ASSUME TypeOK, IntentInv, EntryInv, ArmInv, NEW p \in Procs, StageAdopt(p)
    PROVE  ArmInv'
  <1>1. PICK n \in Free :
        manifest' = [manifest EXCEPT !.state = "staged", !.num = n]
    BY AdoptedIsFree
  <1>2. /\ manifest'.num = n /\ manifest'.initial = manifest.initial
        /\ manifest'.owned = manifest.owned /\ manifest'.state = "staged"
    BY <1>1 DEF TypeOK, Manifest
  <1>3. /\ manifest.num = NoNum /\ manifest.state = "candidate_published"
        /\ intent.op = "create_entry" /\ HasTransaction
    BY DEF StageAdopt, IntentInv, HasTransaction
  <1>4. UNCHANGED <<nvram, intent>>
    BY DEF StageAdopt
  <1>5. \A q \in Procs : pc'[q] = pc[q] \/ pc'[q] = "stage_done"
    BY DEF StageAdopt, Goto, TypeOK
  <1>6. nvram.next.num # n /\ nvram.current \in Normal /\ ~manifest.owned
    BY <1>3, BootAssumption DEF ArmInv, Nums
  <1> QED
    BY <1>2, <1>3, <1>4, <1>5, <1>6, BootAssumption
       DEF ArmInv, Recorded, HasTransaction, NextPcs

LEMMA StageArmInv ==
    ASSUME TypeOK, LockHeldByRunner, OwnInv, IntentInv, SlotInv, EntryInv, StateInv,
      ArmInv, CheckInv, FilesInv, NEW p \in Procs, StageStep(p)
    PROVE  ArmInv'
  <1> USE ProcAssumption, BootAssumption DEF TypeOK, LockHeldByRunner, OwnInv,
    IntentInv, StateInv, EntryInv, ArmInv, Nums, Recorded, StdNext, NoNext, Snapshot,
    BootNext, Manifest, HasTransaction, LiveStates, States, Acquire, Release, Raise,
    Goto, Locked, StagePcs, NextPcs, PromotePcs, FinishPcs, RevertPcs, RollbackPcs
  <1>1. CASE StageResume(p) \/ StageRefused(p) \/ StageKeepSlot(p)
             \/ StageWriteTemp(p) \/ StageTempForeign(p) \/ StageTempFails(p)
             \/ StageRename(p) \/ StageRenameFails(p)
    <2>1. UNCHANGED <<nvram, manifest, intent>>
      BY <1>1 DEF StageResume, StageRefused, StageKeepSlot, StageWriteTemp,
        StageTempForeign, StageTempFails, StageRename, StageRenameFails
    <2>2. \A q \in Procs : pc'[q] = pc[q] \/ pc'[q] \notin NextPcs \ {"next_readback"}
      BY <1>1 DEF StageResume, StageRefused, StageKeepSlot, StageWriteTemp,
        StageTempForeign, StageTempFails, StageRename, StageRenameFails, Goto
    <2> QED BY <2>1, <2>2, QuietArmInv
  <1>2. CASE StageSync(p) \/ StageRetryCreate(p) \/ StageCreateFull(p)
             \/ StageInspectRefused(p)
    <2>1. UNCHANGED <<nvram, manifest, intent>>
      BY <1>2 DEF StageSync, StageRetryCreate, StageCreateFull, StageInspectRefused
    <2>2. \A q \in Procs : pc'[q] = pc[q] \/ pc'[q] \notin NextPcs \ {"next_readback"}
      BY <1>2 DEF StageSync, StageRetryCreate, StageCreateFull, StageInspectRefused,
        Goto
    <2> QED BY <2>1, <2>2, QuietArmInv
  <1>3. CASE StageBegin(p)
    BY <1>3 DEF StageBegin, MayBegin
  <1>4. CASE StageIntent(p)
    BY <1>4 DEF StageIntent, Record
  <1>5. CASE StagePublished(p)
    BY <1>5 DEF StagePublished
  <1>6. CASE StageClear(p)
    BY <1>6 DEF StageClear, NoIntent
  <1>7. CASE StageDeclareEntry(p)
    BY <1>7 DEF StageDeclareEntry, Record
  <1>8. CASE StageCreate(p)
    BY <1>8 DEF StageCreate
  <1>9. CASE StageAdopt(p)
    BY <1>9, AdoptArmInv
  <1>10. CASE StageConfirm(p)
    BY <1>10, ConfirmArmInv
  <1>11. CASE StageDone(p)
    BY <1>11 DEF StageDone, NoIntent
  <1>12. CASE StageObserve(p)
    BY <1>12 DEF StageObserve, Observed, Record
  <1> QED BY <1>1, <1>2, <1>3, <1>4, <1>5, <1>6, <1>7, <1>8, <1>9, <1>10, <1>11, <1>12
    DEF StageStep

LEMMA BootNextArmInv ==
    ASSUME TypeOK, LockHeldByRunner, OwnInv, IntentInv, SlotInv, EntryInv, StateInv,
      ArmInv, CheckInv, FilesInv, NEW p \in Procs, NextStep(p)
    PROVE  ArmInv'
  <1> USE ProcAssumption, BootAssumption DEF TypeOK, LockHeldByRunner, OwnInv,
    IntentInv, StateInv, EntryInv, ArmInv, Nums, Recorded, StdNext, NoNext, Snapshot,
    BootNext, Manifest, HasTransaction, LiveStates, States, Acquire, Release, Raise,
    Goto, Locked, StagePcs, NextPcs, PromotePcs, FinishPcs, RevertPcs, RollbackPcs
  <1>1. CASE NextSetFails(p) \/ NextReadBackRefused(p)
    <2>1. UNCHANGED <<nvram, manifest, intent>>
      BY <1>1 DEF NextSetFails, NextReadBackRefused
    <2>2. \A q \in Procs : pc'[q] = pc[q] \/ pc'[q] \notin NextPcs \ {"next_readback"}
      BY <1>1 DEF NextSetFails, NextReadBackRefused, Goto
    <2> QED BY <2>1, <2>2, QuietArmInv
  <1>2. CASE NextSet(p)
    BY <1>2, SetArmInv
  <1>3. CASE NextConflict(p)
    BY <1>3 DEF NextConflict
  <1>4. CASE NextConflictClear(p)
    BY <1>4 DEF NextConflictClear, NoIntent
  <1>5. CASE NextReadBack(p)
    BY <1>5 DEF NextReadBack, Armed, BootNextAsRecorded, CandidateBootFellBack,
      OwnsNvram, OwnsVariables, ReadBackArmed
  <1>6. CASE NextClear(p)
    BY <1>6 DEF NextClear, NoIntent
  <1> QED BY <1>1, <1>2, <1>3, <1>4, <1>5, <1>6 DEF NextStep

LEMMA PromoteArmInv ==
    ASSUME TypeOK, LockHeldByRunner, OwnInv, IntentInv, SlotInv, EntryInv, StateInv,
      ArmInv, CheckInv, FilesInv, NEW p \in Procs, PromoteStep(p)
    PROVE  ArmInv'
  <1> USE ProcAssumption, BootAssumption DEF TypeOK, LockHeldByRunner, OwnInv,
    IntentInv, StateInv, EntryInv, ArmInv, Nums, Recorded, StdNext, NoNext, Snapshot,
    BootNext, Manifest, HasTransaction, LiveStates, States, Acquire, Release, Raise,
    Goto, Locked, StagePcs, NextPcs, PromotePcs, FinishPcs, RevertPcs, RollbackPcs
  <1>1. CASE PromoteExchange(p) \/ FinishSync(p) \/ FinishRefused(p) \/ FinishFails(p)
             \/ RevertExchange(p) \/ RevertSync(p)
    <2>1. UNCHANGED <<nvram, manifest, intent>>
      BY <1>1 DEF PromoteExchange, FinishSync, FinishRefused, FinishFails,
        RevertExchange, RevertSync
    <2>2. \A q \in Procs : pc'[q] = pc[q] \/ pc'[q] \notin NextPcs \ {"next_readback"}
      BY <1>1 DEF PromoteExchange, FinishSync, FinishRefused, FinishFails,
        RevertExchange, RevertSync, Goto
    <2> QED BY <2>1, <2>2, QuietArmInv
  <1>2. CASE FinishManifest(p)
    BY <1>2 DEF FinishManifest, BootNextAsRecorded, CandidateBootFellBack, Finished,
      OwnsNvram, OwnsVariables, Settled
  <1>3. CASE FinishClear(p)
    BY <1>3 DEF FinishClear, NoIntent
  <1>4. CASE FinishClearFails(p)
    BY <1>4 DEF FinishClearFails, NoIntent
  <1>5. CASE RevertIntent(p)
    BY <1>5 DEF RevertIntent, Record
  <1>6. CASE RevertManifest(p)
    BY <1>6 DEF RevertManifest, Settled
  <1>7. CASE RevertClear(p)
    BY <1>7 DEF RevertClear, NoIntent
  <1> QED BY <1>1, <1>2, <1>3, <1>4, <1>5, <1>6, <1>7 DEF PromoteStep

LEMMA RollbackArmInv ==
    ASSUME TypeOK, LockHeldByRunner, OwnInv, IntentInv, SlotInv, EntryInv, StateInv,
      ArmInv, CheckInv, FilesInv, NEW p \in Procs, RollbackStep(p)
    PROVE  ArmInv'
  <1> USE ProcAssumption, BootAssumption DEF TypeOK, LockHeldByRunner, OwnInv,
    IntentInv, StateInv, EntryInv, ArmInv, Nums, Recorded, StdNext, NoNext, Snapshot,
    BootNext, Manifest, HasTransaction, LiveStates, States, Acquire, Release, Raise,
    Goto, Locked, StagePcs, NextPcs, PromotePcs, FinishPcs, RevertPcs, RollbackPcs
  <1>1. CASE RollbackExchange(p) \/ RollbackSlots(p) \/ RollbackRestore(p)
             \/ RollbackRestoreFails(p) \/ RollbackReplace(p)
             \/ RollbackReplaceFails(p) \/ RollbackSync(p) \/ RollbackKeepNext(p)
    <2>1. UNCHANGED <<nvram, manifest, intent>>
      BY <1>1 DEF RollbackExchange, RollbackSlots, RollbackRestore,
        RollbackRestoreFails, RollbackReplace, RollbackReplaceFails, RollbackSync,
        RollbackKeepNext
    <2>2. \A q \in Procs : pc'[q] = pc[q] \/ pc'[q] \notin NextPcs \ {"next_readback"}
      BY <1>1 DEF RollbackExchange, RollbackSlots, RollbackRestore,
        RollbackRestoreFails, RollbackReplace, RollbackReplaceFails, RollbackSync,
        RollbackKeepNext, Goto
    <2> QED BY <2>1, <2>2, QuietArmInv
  <1>2. CASE RollbackCleared(p) \/ RollbackKeepEntry(p) \/ RollbackQuarantine(p)
             \/ RollbackQuarantined(p) \/ RollbackNoCandidate(p) \/ RollbackUnlink(p)
             \/ RollbackUnlinkFails(p) \/ RollbackFlush(p)
    <2>1. UNCHANGED <<nvram, manifest, intent>>
      BY <1>2 DEF RollbackCleared, RollbackKeepEntry, RollbackQuarantine,
        RollbackQuarantined, RollbackNoCandidate, RollbackUnlink, RollbackUnlinkFails,
        RollbackFlush
    <2>2. \A q \in Procs : pc'[q] = pc[q] \/ pc'[q] \notin NextPcs \ {"next_readback"}
      BY <1>2 DEF RollbackCleared, RollbackKeepEntry, RollbackQuarantine,
        RollbackQuarantined, RollbackNoCandidate, RollbackUnlink, RollbackUnlinkFails,
        RollbackFlush, Goto
    <2> QED BY <2>1, <2>2, QuietArmInv
  <1>3. CASE RollbackClearNext(p)
    BY <1>3, ClearNextArmInv
  <1>4. CASE RollbackDeleteEntry(p)
    BY <1>4 DEF RollbackDeleteEntry
  <1>5. CASE RollbackManifest(p)
    BY <1>5, ManifestArmInv
  <1>6. CASE RollbackPartial(p)
    BY <1>6 DEF RollbackPartial
  <1>7. CASE RollbackClear(p)
    BY <1>7 DEF RollbackClear, NoIntent
  <1> QED BY <1>1, <1>2, <1>3, <1>4, <1>5, <1>6, <1>7 DEF RollbackStep

LEMMA StartArmInv ==
    ASSUME TypeOK, LockHeldByRunner, OwnInv, IntentInv, SlotInv, EntryInv, StateInv,
      ArmInv, CheckInv, FilesInv, NEW p \in Procs, Start(p)
    PROVE  ArmInv'
  <1> USE ProcAssumption, BootAssumption DEF TypeOK, LockHeldByRunner, OwnInv,
    IntentInv, StateInv, EntryInv, ArmInv, Nums, Recorded, StdNext, NoNext, Snapshot,
    BootNext, Manifest, HasTransaction, LiveStates, States, Acquire, Release, Raise,
    Goto, Locked, StagePcs, NextPcs, PromotePcs, FinishPcs, RevertPcs, RollbackPcs
  <1>1. CASE StageEnter(p) \/ PromoteResume(p) \/ PromoteRevert(p)
    <2>1. UNCHANGED <<nvram, manifest, intent>>
      BY <1>1 DEF StageEnter, PromoteResume, PromoteRevert
    <2>2. \A q \in Procs : pc'[q] = pc[q] \/ pc'[q] \notin NextPcs \ {"next_readback"}
      BY <1>1 DEF StageEnter, PromoteResume, PromoteRevert, Goto
    <2> QED BY <2>1, <2>2, QuietArmInv
  <1>2. CASE NextStart(p)
    BY <1>2 DEF NextStart, MayArm, OwnsVariables, Record
  <1>3. CASE NextAdopt(p)
    BY <1>3 DEF NextAdopt, Armed, MayArm, OwnsVariables
  <1>4. CASE PromoteStart(p)
    BY <1>4 DEF PromoteStart, Authorized, BootNextAsRecorded, CandidateBootFellBack,
      MayPromote, OwnsNvram, OwnsVariables, Record
  <1>5. CASE RollbackStart(p)
    BY <1>5, RollbackStartArmInv
  <1> QED BY <1>1, <1>2, <1>3, <1>4, <1>5 DEF Start

\* Firmware consumes BootNext when no invocation is left to miss it.
LEMMA OthersArmInv ==
    ASSUME Drifts \subseteq Elsewhere, TypeOK, StateInv, ArmInv,
           Environment \/ (\E p \in Procs : Fails(p) \/ Killed(p))
    PROVE  ArmInv'
  <1>1. /\ UNCHANGED <<manifest, intent>>
        /\ \A q \in Procs : pc'[q] = pc[q] \/ pc'[q] = "idle"
    BY OthersStop
  <1>2. CASE UNCHANGED nvram
    BY <1>1, <1>2 DEF ArmInv, Recorded, HasTransaction, StdNext, NoNext
  <1>3. CASE Reboot \/ PowerLoss
    <2>1. \A q \in Procs : pc'[q] = "idle"
      BY <1>3 DEF Reboot, PowerLoss, Idle
    <2>2. /\ nvram'.next = NoNext
          /\ nvram'.current \in Nums /\ nvram'.current \in Normal \cup {manifest.num}
      BY <1>3, FirmwareSelects DEF Reboot, PowerLoss
    <2>3. nvram'.next.num = NoNum /\ nvram'.next = StdNext(NoNum)
      BY <2>2 DEF NoNext, StdNext
    <2>4. intent.op \in {"promote", "promote_revert"} => manifest.num # NoNum
      BY DEF StateInv, LiveStates
    <2> QED
      BY <1>1, <2>1, <2>2, <2>3, <2>4, BootAssumption DEF ArmInv, Recorded,
         HasTransaction, Nums
  <1>4. CASE DriftOrder \/ DriftTree
    BY <1>1, <1>4, DriftElsewhere DEF ArmInv, Recorded, HasTransaction, StdNext, NoNext
  <1> QED BY <1>2, <1>3, <1>4, OnlyMachine DEF WriteBack, Fails, Killed

-----------------------------------------------------------------------------
(* What a rollback found out about BootNext.                               *)

LEMMA EnterCheckInv ==
    ASSUME TypeOK, CheckInv, NEW p \in Procs, StageEnter(p)
    PROVE  CheckInv'
  <1>1. UNCHANGED <<nvram, manifest>> /\ pc' = [pc EXCEPT ![p] = "stage_wait"]
    BY DEF StageEnter, Goto
  <1>2. \A q \in Procs : pc'[q] = pc[q] \/ pc'[q] = "stage_wait"
    BY <1>1 DEF TypeOK
  <1>3. MayClear => MayClear'
    BY <1>1 DEF MayClear, SelectsCandidate, OwnsLiveNext
  <1> QED BY <1>1, <1>2, <1>3 DEF CheckInv, BeforeNext, RollbackPcs

LEMMA StageCheckInv ==
    ASSUME TypeOK, LockHeldByRunner, OwnInv, IntentInv, SlotInv, EntryInv, StateInv,
      ArmInv, CheckInv, FilesInv, NEW p \in Procs, StageStep(p)
    PROVE  CheckInv'
  <1> USE ProcAssumption, BootAssumption DEF TypeOK, LockHeldByRunner, EntryInv,
    ArmInv, CheckInv, BeforeNext, Nums, Recorded, StdNext, NoNext, Snapshot, BootNext,
    Manifest, HasTransaction, LiveStates, States, Acquire, Release, Raise, Goto,
    Locked, StagePcs, NextPcs, PromotePcs, FinishPcs, RevertPcs, RollbackPcs
  <1>0. UNCHANGED <<nvram, manifest>> /\ MayClear => MayClear'
    BY DEF MayClear, SelectsCandidate, OwnsLiveNext
  <1>1. CASE StageResume(p) \/ StageRefused(p) \/ StageIntent(p) \/ StageKeepSlot(p)
             \/ StageWriteTemp(p)
    BY <1>1, <1>0 DEF StageResume, StageRefused, StageIntent, StageKeepSlot,
      StageWriteTemp, MayBegin, Record
  <1>2. CASE StageTempForeign(p) \/ StageTempFails(p) \/ StageRename(p)
             \/ StageRenameFails(p) \/ StageSync(p)
    BY <1>2, <1>0 DEF StageTempForeign, StageTempFails, StageRename, StageRenameFails,
      StageSync
  <1>3. CASE StageClear(p) \/ StageDeclareEntry(p) \/ StageRetryCreate(p)
             \/ StageCreateFull(p) \/ StageInspectRefused(p)
    BY <1>3, <1>0 DEF StageClear, StageDeclareEntry, StageRetryCreate,
      StageCreateFull, StageInspectRefused, NoIntent, Record
  <1>4. CASE StageObserve(p) \/ StageDone(p)
    BY <1>4, <1>0 DEF StageObserve, StageDone, Record, NoIntent
  <1>5. CASE StageBegin(p)
    BY <1>5, <1>0 DEF StageBegin, MayBegin
  <1>6. CASE StagePublished(p)
    BY <1>6, <1>0 DEF StagePublished
  <1>7. CASE StageCreate(p)
    BY <1>7, <1>0 DEF StageCreate
  <1>8. CASE StageAdopt(p)
    BY <1>8, <1>0 DEF StageAdopt, CreatedSince
  <1>9. CASE StageConfirm(p)
    BY <1>9, <1>0 DEF StageConfirm, BootNextAsRecorded, CandidateBootFellBack,
      Incomplete, OwnsNvram, OwnsVariables
  <1> QED BY <1>1, <1>2, <1>3, <1>4, <1>5, <1>6, <1>7, <1>8, <1>9 DEF StageStep

LEMMA BootNextCheckInv ==
    ASSUME TypeOK, LockHeldByRunner, OwnInv, IntentInv, SlotInv, EntryInv, StateInv,
      ArmInv, CheckInv, FilesInv, NEW p \in Procs, NextStep(p)
    PROVE  CheckInv'
  <1> USE ProcAssumption, BootAssumption DEF TypeOK, LockHeldByRunner, EntryInv,
    ArmInv, CheckInv, BeforeNext, Nums, Recorded, StdNext, NoNext, Snapshot, BootNext,
    Manifest, HasTransaction, LiveStates, States, Acquire, Release, Raise, Goto,
    Locked, StagePcs, NextPcs, PromotePcs, FinishPcs, RevertPcs, RollbackPcs
  <1>0. UNCHANGED <<nvram, manifest>> /\ MayClear => MayClear'
    BY DEF MayClear, SelectsCandidate, OwnsLiveNext
  <1>1. CASE NextConflict(p) \/ NextConflictClear(p) \/ NextSetFails(p)
             \/ NextReadBackRefused(p) \/ NextClear(p)
    BY <1>1, <1>0 DEF NextConflict, NextConflictClear, NextSetFails,
      NextReadBackRefused, NextClear, NoIntent, Armed, BootNextAsRecorded,
      CandidateBootFellBack, OwnsNvram, OwnsVariables, ReadBackArmed
  <1>2. CASE NextSet(p)
    BY <1>2, <1>0 DEF NextSet
  <1>3. CASE NextReadBack(p)
    BY <1>3, <1>0 DEF NextReadBack, Armed, BootNextAsRecorded, CandidateBootFellBack,
      OwnsNvram, OwnsVariables, ReadBackArmed
  <1> QED BY <1>1, <1>2, <1>3 DEF NextStep

LEMMA PromoteCheckInv ==
    ASSUME TypeOK, LockHeldByRunner, OwnInv, IntentInv, SlotInv, EntryInv, StateInv,
      ArmInv, CheckInv, FilesInv, NEW p \in Procs, PromoteStep(p)
    PROVE  CheckInv'
  <1> USE ProcAssumption, BootAssumption DEF TypeOK, LockHeldByRunner, EntryInv,
    ArmInv, CheckInv, BeforeNext, Nums, Recorded, StdNext, NoNext, Snapshot, BootNext,
    Manifest, HasTransaction, LiveStates, States, Acquire, Release, Raise, Goto,
    Locked, StagePcs, NextPcs, PromotePcs, FinishPcs, RevertPcs, RollbackPcs
  <1>0. UNCHANGED <<nvram, manifest>> /\ MayClear => MayClear'
    BY DEF MayClear, SelectsCandidate, OwnsLiveNext
  <1>1. CASE PromoteExchange(p) \/ FinishSync(p) \/ FinishRefused(p) \/ FinishClear(p)
             \/ FinishFails(p)
    BY <1>1, <1>0 DEF PromoteExchange, FinishSync, FinishRefused, FinishClear,
      FinishFails, BootNextAsRecorded, CandidateBootFellBack, Finished, OwnsNvram,
      OwnsVariables, NoIntent
  <1>2. CASE FinishClearFails(p) \/ RevertIntent(p) \/ RevertExchange(p)
             \/ RevertSync(p) \/ RevertClear(p)
    BY <1>2, <1>0 DEF FinishClearFails, RevertIntent, RevertExchange, RevertSync,
      RevertClear, NoIntent, Record
  <1>3. CASE FinishManifest(p)
    BY <1>3, <1>0 DEF FinishManifest, BootNextAsRecorded, CandidateBootFellBack,
      Finished, OwnsNvram, OwnsVariables, Settled
  <1>4. CASE RevertManifest(p)
    BY <1>4, <1>0 DEF RevertManifest, Settled
  <1> QED BY <1>1, <1>2, <1>3, <1>4 DEF PromoteStep

LEMMA RollbackCheckInv ==
    ASSUME TypeOK, LockHeldByRunner, OwnInv, IntentInv, SlotInv, EntryInv, StateInv,
      ArmInv, CheckInv, FilesInv, NEW p \in Procs, RollbackStep(p)
    PROVE  CheckInv'
  <1> USE ProcAssumption, BootAssumption DEF TypeOK, LockHeldByRunner, EntryInv,
    ArmInv, CheckInv, BeforeNext, Nums, Recorded, StdNext, NoNext, Snapshot, BootNext,
    Manifest, HasTransaction, LiveStates, States, Acquire, Release, Raise, Goto,
    Locked, StagePcs, NextPcs, PromotePcs, FinishPcs, RevertPcs, RollbackPcs
  <1>0. UNCHANGED <<nvram, manifest>> /\ MayClear => MayClear'
    BY DEF MayClear, SelectsCandidate, OwnsLiveNext
  <1>1. CASE RollbackExchange(p) \/ RollbackSlots(p) \/ RollbackRestore(p)
             \/ RollbackRestoreFails(p) \/ RollbackReplace(p)
    BY <1>1, <1>0 DEF RollbackExchange, RollbackSlots, RollbackRestore,
      RollbackRestoreFails, RollbackReplace
  <1>2. CASE RollbackReplaceFails(p) \/ RollbackSync(p) \/ RollbackCleared(p)
             \/ RollbackKeepEntry(p) \/ RollbackQuarantine(p)
    BY <1>2, <1>0 DEF RollbackReplaceFails, RollbackSync, RollbackCleared,
      RollbackKeepEntry, RollbackQuarantine
  <1>3. CASE RollbackQuarantined(p) \/ RollbackNoCandidate(p) \/ RollbackUnlink(p)
             \/ RollbackUnlinkFails(p) \/ RollbackFlush(p)
    BY <1>3, <1>0 DEF RollbackQuarantined, RollbackNoCandidate, RollbackUnlink,
      RollbackUnlinkFails, RollbackFlush
  <1>4. CASE RollbackClear(p)
    BY <1>4, <1>0 DEF RollbackClear, NoIntent
  <1>5. CASE RollbackClearNext(p)
    BY <1>5, <1>0 DEF RollbackClearNext, SelectsCandidate
  <1>6. CASE RollbackKeepNext(p)
    BY <1>6, <1>0 DEF RollbackKeepNext, MayClear
  <1>7. CASE RollbackDeleteEntry(p)
    BY <1>7, <1>0 DEF RollbackDeleteEntry
  <1>8. CASE RollbackManifest(p)
    BY <1>8, <1>0 DEF RollbackManifest
  <1>9. CASE RollbackPartial(p)
    BY <1>9, <1>0 DEF RollbackPartial
  <1> QED BY <1>1, <1>2, <1>3, <1>4, <1>5, <1>6, <1>7, <1>8, <1>9 DEF RollbackStep

LEMMA StartCheckInv ==
    ASSUME TypeOK, LockHeldByRunner, OwnInv, IntentInv, SlotInv, EntryInv, StateInv,
      ArmInv, CheckInv, FilesInv, NEW p \in Procs, Start(p)
    PROVE  CheckInv'
  <1> USE ProcAssumption, BootAssumption DEF TypeOK, LockHeldByRunner, EntryInv,
    ArmInv, CheckInv, BeforeNext, Nums, Recorded, StdNext, NoNext, Snapshot, BootNext,
    Manifest, HasTransaction, LiveStates, States, Acquire, Release, Raise, Goto,
    Locked, StagePcs, NextPcs, PromotePcs, FinishPcs, RevertPcs, RollbackPcs
  <1>0. UNCHANGED <<nvram, manifest>> /\ MayClear => MayClear'
    BY DEF MayClear, SelectsCandidate, OwnsLiveNext
  <1>1. CASE NextStart(p) \/ PromoteStart(p) \/ PromoteResume(p) \/ PromoteRevert(p)
    BY <1>1, <1>0 DEF NextStart, PromoteStart, PromoteResume, PromoteRevert, MayArm,
      OwnsVariables, Record, Authorized, BootNextAsRecorded, CandidateBootFellBack,
      MayPromote, OwnsNvram
  <1>2. CASE StageEnter(p)
    BY <1>2, EnterCheckInv
  <1>3. CASE NextAdopt(p)
    BY <1>3, <1>0 DEF NextAdopt, Armed, MayArm, OwnsVariables
  <1>4. CASE RollbackStart(p)
    BY <1>4, <1>0 DEF RollbackStart, EntryRemovable, MayRollback, Record,
      RemovableNvram, MayClear
  <1> QED BY <1>1, <1>2, <1>3, <1>4 DEF Start

LEMMA OthersCheckInv ==
    ASSUME Drifts \subseteq Elsewhere, TypeOK, CheckInv,
           Environment \/ (\E p \in Procs : Fails(p) \/ Killed(p))
    PROVE  CheckInv'
  <1>1. /\ UNCHANGED <<manifest, intent>>
        /\ \A q \in Procs : pc'[q] = pc[q] \/ pc'[q] = "idle"
    BY OthersStop
  <1>2. CASE UNCHANGED nvram
    <2>1. MayClear => MayClear'
      BY <1>1, <1>2 DEF MayClear, SelectsCandidate, OwnsLiveNext
    <2> QED BY <1>1, <1>2, <2>1 DEF CheckInv, BeforeNext, RollbackPcs
  <1>3. CASE Reboot \/ PowerLoss
    <2>1. \A q \in Procs : pc'[q] = "idle"
      BY <1>3 DEF Reboot, PowerLoss, Idle
    <2> QED BY <2>1 DEF CheckInv, BeforeNext, RollbackPcs
  <1>4. CASE DriftOrder \/ DriftTree
    BY <1>4, DriftElsewhere DEF CheckInv, BeforeNext, RollbackPcs
  <1> QED BY <1>2, <1>3, <1>4, OnlyMachine DEF WriteBack, Fails, Killed

-----------------------------------------------------------------------------
(* The files.                                                              *)

LEMMA RollbackStartFilesInv ==
    ASSUME TypeOK, LockHeldByRunner, OwnInv, IntentInv, StateInv, EntryInv, FilesInv,
           NEW p \in Procs, RollbackStart(p)
    PROVE  FilesInv'
  <1>1. /\ \A q \in Procs \ {p} : pc'[q] = pc[q] /\ pc[q] \notin Locked
        /\ pc'[p] = "rollback_slots"
    BY ProcAssumption DEF RollbackStart, Acquire, Goto, TypeOK, LockHeldByRunner
  <1>2. loc'[p].flush = (intent.op = "rollback")
    BY DEF RollbackStart, TypeOK, Local, NoLocal
  <1>3. intent'.op = "rollback" /\ manifest.num \in Free
    BY BootAssumption DEF RollbackStart, Record, MayRollback, RemovableNvram,
       EntryRemovable, EntryInv, Nums
  <1>4. UNCHANGED <<esp, disk, manifest, nvram>>
    BY DEF RollbackStart
  <1>5. manifest.state \in LiveStates \cup {"rolled_back"}
    BY <1>3, BootAssumption DEF StateInv, LiveStates, Nums, TypeOK, Manifest, States
  <1>6. CASE intent.op = "rollback"
    <2>1. \A q \in Procs : pc'[q] \in Locked =>
            pc'[q] = "rollback_slots" /\ loc'[q].flush
      BY <1>1, <1>2, <1>6
    <2>2. /\ \A e \in {esp', disk'} : Both(e) \/ Only(e, OldOnly) \/ Quarantined(e)
          /\ disk'.cand = "absent" => Slots(esp') # NewOld
          /\ nvram'.entries[manifest'.num] = "cand" => Both(esp') /\ Both(disk')
          /\ manifest'.state = "rolled_back" =>
               Only(esp', OldOnly) /\ Only(disk', OldOnly)
      BY <1>4, <1>6 DEF FilesInv
    <2> QED
      BY <1>3, <1>4, <1>5, <2>1, <2>2
         DEF FilesInv, LiveStates, Locked, StagePcs, PromotePcs, FinishPcs, RevertPcs,
             RollbackPcs
  <1>7. CASE intent.op # "rollback" /\ manifest.state = "rolled_back"
    <2>1. /\ Only(esp, OldOnly) /\ Only(disk, OldOnly)
          /\ nvram.entries[manifest.num] = "none"
      BY <1>3, <1>7 DEF FilesInv, EntryInv
    <2> QED
      BY <1>1, <1>2, <1>3, <1>4, <1>7, <2>1
       DEF FilesInv, Locked, StagePcs, PromotePcs, FinishPcs, RevertPcs,
           RollbackPcs, Only, Both, Tidy, Slots, OldOnly, NewOld
  <1>8. CASE intent.op # "rollback" /\ manifest.state \in LiveStates
    <2>1. intent.op \notin {"publish_candidate"}
      BY <1>8 DEF IntentInv, LiveStates
    <2>2. manifest.state = "promoted" =>
            intent.op \in {"none", "promote", "promote_revert"}
      BY <1>8, <2>1 DEF IntentInv, StateInv, TypeOK, Intent, Operations
    <2>3. Both(esp) /\ Both(disk)
      BY <1>8, <2>1, <2>2 DEF FilesInv, LiveStates, TypeOK, Intent, Operations, Both
    <2>4. disk.cand # "absent" /\ esp.cand # "absent"
      BY <2>3 DEF Both, Only, Slots, OldNew, NewOld
    <2>5. Both(esp)' /\ Both(disk)'
      BY <2>3, <1>4 DEF Both, Only, Slots, Tidy
    <2> QED
      BY <1>1, <1>2, <1>3, <1>4, <1>8, <2>3, <2>4, <2>5
       DEF FilesInv, Locked, StagePcs, PromotePcs, FinishPcs, RevertPcs,
           RollbackPcs, LiveStates
  <1> QED BY <1>5, <1>6, <1>7, <1>8

LEMMA UnlinkFailsFilesInv ==
    ASSUME TypeOK, LockHeldByRunner, OwnInv, IntentInv, StateInv, EntryInv, FilesInv,
           NEW p \in Procs, RollbackUnlinkFails(p)
    PROVE  FilesInv'
  <1>1. \A q \in Procs : pc'[q] \notin Locked
    BY DEF RollbackUnlinkFails, Release, Goto, TypeOK, LockHeldByRunner, Locked,
       StagePcs, NextPcs, PromotePcs, FinishPcs, RevertPcs, RollbackPcs
  <1>2. UNCHANGED <<intent, manifest, nvram>> /\ intent.op = "rollback"
    BY DEF RollbackUnlinkFails, IntentInv, RollbackPcs
  <1>3. Quarantined(esp) /\ manifest.state # "rolled_back" /\ manifest.num \in Free
        /\ nvram.entries[manifest.num] = "none"
    BY BootAssumption DEF RollbackUnlinkFails, FilesInv, Quarantined, Only, Tidy,
       IntentInv, EntryInv, Nums, RollbackPcs
  <1>4. CASE loc[p].made
    <2>1. esp' = [esp EXCEPT !.cand = esp.quar, !.quar = "absent"] /\ disk' = esp'
      BY <1>4 DEF RollbackUnlinkFails
    <2>2. Only(esp', OldNew)
      BY <1>3, <2>1 DEF Quarantined, Only, Slots, OldNew, OldOnly, Tidy, TypeOK, Esp
    <2>3. Both(esp') /\ Both(disk') /\ disk'.cand = "new" /\ Slots(esp') # NewOld
      BY <2>1, <2>2 DEF Both, Only, Slots, OldNew, NewOld, Tidy
    <2>4. manifest'.state \in LiveStates /\ intent'.op = "rollback"
      BY <1>2, <1>3 DEF StateInv
    <2> QED BY <1>1, <1>2, <1>3, <2>3, <2>4 DEF FilesInv, LiveStates, Locked,
       StagePcs, PromotePcs, FinishPcs, RevertPcs, RollbackPcs
  <1>5. CASE ~loc[p].made
    <2>1. UNCHANGED <<esp, disk>>
      BY <1>5 DEF RollbackUnlinkFails
    <2> QED BY <1>1, <1>2, <1>3, <2>1 DEF FilesInv, Locked, StagePcs, PromotePcs,
       FinishPcs, RevertPcs, RollbackPcs, Only, Both, Tidy, Slots, Quarantined
  <1> QED BY <1>4, <1>5

LEMMA AdoptFilesInv ==
    ASSUME TypeOK, LockHeldByRunner, OwnInv, IntentInv, StateInv, EntryInv, FilesInv,
           NEW p \in Procs, StageAdopt(p)
    PROVE  FilesInv'
  <1>1. PICK n \in CreatedSince(intent.before, nvram) :
        manifest' = [manifest EXCEPT !.state = "staged", !.num = n]
    BY DEF StageAdopt
  <1>2. /\ manifest'.num = n /\ manifest'.state = "staged"
        /\ UNCHANGED <<esp, disk, nvram, intent, loc>>
    BY <1>1 DEF StageAdopt, TypeOK, Manifest
  <1>3. intent.op = "create_entry" /\ manifest.state = "candidate_published"
    BY DEF StageAdopt, IntentInv
  <1>4. Only(esp, OldNew) /\ Only(disk, OldNew)
    BY <1>3 DEF FilesInv
  <1>5. \A q \in Procs \ {p} : pc'[q] = pc[q] /\ pc[q] \notin Locked
    BY DEF StageAdopt, Goto, TypeOK, LockHeldByRunner, Locked, StagePcs
  <1>6. pc'[p] = "stage_done"
    BY DEF StageAdopt, Goto, TypeOK
  <1> QED
    BY <1>2, <1>3, <1>4, <1>5, <1>6 DEF FilesInv, Locked, StagePcs, PromotePcs,
       FinishPcs, RevertPcs, RollbackPcs, Only, Both, Tidy, Slots, OldNew

LEMMA StageFilesInv ==
    ASSUME TypeOK, LockHeldByRunner, OwnInv, IntentInv, SlotInv, EntryInv, StateInv,
      ArmInv, CheckInv, FilesInv, NEW p \in Procs, StageStep(p)
    PROVE  FilesInv'
  <1> USE ProcAssumption, BootAssumption DEF TypeOK, LockHeldByRunner, OwnInv,
    IntentInv, SlotInv, StateInv, EntryInv, FilesInv, Only, Both, Tidy, Quarantined,
    OldOnly, OldNew, NewOld, Slots, Esp, Slot, Scratch, Local, Manifest,
    HasTransaction, LiveStates, States, Acquire, Release, Raise, Goto, Locked,
    StagePcs, NextPcs, PromotePcs, FinishPcs, RevertPcs, RollbackPcs
  <1>1. CASE StageRefused(p) \/ StageTempForeign(p) \/ StageRetryCreate(p)
             \/ StageCreateFull(p) \/ StageInspectRefused(p)
    BY <1>1 DEF StageRefused, StageTempForeign, StageRetryCreate, StageCreateFull,
      StageInspectRefused, MayBegin, MayResume, PublishPending, OwnsNvram,
      OwnsVariables
  <1>2. CASE StageBegin(p)
    BY <1>2 DEF StageBegin, MayBegin, TreeHash
  <1>3. CASE StageResume(p)
    BY <1>3 DEF StageResume, MayResume, PublishPending
  <1>4. CASE StageIntent(p)
    BY <1>4 DEF StageIntent, Record
  <1>5. CASE StageKeepSlot(p)
    BY <1>5 DEF StageKeepSlot, SlotTaken
  <1>6. CASE StageWriteTemp(p)
    BY <1>6 DEF StageWriteTemp, SlotTaken
  <1>7. CASE StageTempFails(p)
    BY <1>7 DEF StageTempFails, SlotTaken
  <1>8. CASE StageRename(p)
    BY <1>8 DEF StageRename
  <1>9. CASE StageRenameFails(p)
    BY <1>9 DEF StageRenameFails
  <1>10. CASE StageSync(p)
    BY <1>10 DEF StageSync
  <1>11. CASE StagePublished(p)
    BY <1>11 DEF StagePublished
  <1>12. CASE StageClear(p)
    BY <1>12 DEF StageClear, NoIntent
  <1>13. CASE StageDeclareEntry(p)
    BY <1>13 DEF StageDeclareEntry, Record
  <1>14. CASE StageCreate(p)
    BY <1>14 DEF StageCreate
  <1>15. CASE StageAdopt(p)
    BY <1>15, AdoptFilesInv
  <1>16. CASE StageConfirm(p)
    BY <1>16 DEF StageConfirm, Incomplete, OwnsNvram, OwnsVariables
  <1>17. CASE StageDone(p)
    BY <1>17 DEF StageDone, NoIntent
  <1>18. CASE StageObserve(p)
    BY <1>18 DEF StageObserve, Observed, Record
  <1> QED BY <1>1, <1>2, <1>3, <1>4, <1>5, <1>6, <1>7, <1>8, <1>9, <1>10,
    <1>11, <1>12, <1>13, <1>14, <1>15, <1>16, <1>17, <1>18 DEF StageStep

LEMMA BootNextFilesInv ==
    ASSUME TypeOK, LockHeldByRunner, OwnInv, IntentInv, SlotInv, EntryInv, StateInv,
      ArmInv, CheckInv, FilesInv, NEW p \in Procs, NextStep(p)
    PROVE  FilesInv'
  <1> USE ProcAssumption, BootAssumption DEF TypeOK, LockHeldByRunner, OwnInv,
    IntentInv, SlotInv, StateInv, EntryInv, FilesInv, Only, Both, Tidy, Quarantined,
    OldOnly, OldNew, NewOld, Slots, Esp, Slot, Scratch, Local, Manifest,
    HasTransaction, LiveStates, States, Acquire, Release, Raise, Goto, Locked,
    StagePcs, NextPcs, PromotePcs, FinishPcs, RevertPcs, RollbackPcs
  <1>1. CASE NextConflict(p) \/ NextSetFails(p) \/ NextReadBackRefused(p)
    BY <1>1 DEF NextConflict, NextSetFails, NextReadBackRefused
  <1>2. CASE NextSet(p)
    BY <1>2 DEF NextSet
  <1>3. CASE NextConflictClear(p)
    BY <1>3 DEF NextConflictClear, NoIntent
  <1>4. CASE NextReadBack(p)
    BY <1>4 DEF NextReadBack, Armed
  <1>5. CASE NextClear(p)
    BY <1>5 DEF NextClear, NoIntent
  <1> QED BY <1>1, <1>2, <1>3, <1>4, <1>5 DEF NextStep

LEMMA PromoteFilesInv ==
    ASSUME TypeOK, LockHeldByRunner, OwnInv, IntentInv, SlotInv, EntryInv, StateInv,
      ArmInv, CheckInv, FilesInv, NEW p \in Procs, PromoteStep(p)
    PROVE  FilesInv'
  <1> USE ProcAssumption, BootAssumption DEF TypeOK, LockHeldByRunner, OwnInv,
    IntentInv, SlotInv, StateInv, EntryInv, FilesInv, Only, Both, Tidy, Quarantined,
    OldOnly, OldNew, NewOld, Slots, Esp, Slot, Scratch, Local, Manifest,
    HasTransaction, LiveStates, States, Acquire, Release, Raise, Goto, Locked,
    StagePcs, NextPcs, PromotePcs, FinishPcs, RevertPcs, RollbackPcs
  <1>1. CASE FinishRefused(p) \/ FinishFails(p)
    BY <1>1 DEF FinishRefused, FinishFails, Finished, OwnsNvram, OwnsVariables
  <1>2. CASE PromoteExchange(p)
    BY <1>2 DEF PromoteExchange, Exchanged
  <1>3. CASE FinishSync(p)
    BY <1>3 DEF FinishSync
  <1>4. CASE FinishManifest(p)
    BY <1>4 DEF FinishManifest, Finished, OwnsNvram, OwnsVariables, Settled
  <1>5. CASE FinishClear(p)
    BY <1>5 DEF FinishClear, NoIntent
  <1>6. CASE FinishClearFails(p)
    BY <1>6 DEF FinishClearFails, NoIntent
  <1>7. CASE RevertIntent(p)
    BY <1>7 DEF RevertIntent, Record
  <1>8. CASE RevertExchange(p)
    BY <1>8 DEF RevertExchange, Exchanged
  <1>9. CASE RevertSync(p)
    BY <1>9 DEF RevertSync
  <1>10. CASE RevertManifest(p)
    BY <1>10 DEF RevertManifest, Settled
  <1>11. CASE RevertClear(p)
    BY <1>11 DEF RevertClear, NoIntent
  <1> QED BY <1>1, <1>2, <1>3, <1>4, <1>5, <1>6, <1>7, <1>8, <1>9, <1>10, <1>11 DEF
    PromoteStep

LEMMA RollbackFilesInv ==
    ASSUME TypeOK, LockHeldByRunner, OwnInv, IntentInv, SlotInv, EntryInv, StateInv,
      ArmInv, CheckInv, FilesInv, NEW p \in Procs, RollbackStep(p)
    PROVE  FilesInv'
  <1> USE ProcAssumption, BootAssumption DEF TypeOK, LockHeldByRunner, OwnInv,
    IntentInv, SlotInv, StateInv, EntryInv, FilesInv, Only, Both, Tidy, Quarantined,
    OldOnly, OldNew, NewOld, Slots, Esp, Slot, Scratch, Local, Manifest,
    HasTransaction, LiveStates, States, Acquire, Release, Raise, Goto, Locked,
    StagePcs, NextPcs, PromotePcs, FinishPcs, RevertPcs, RollbackPcs
  <1>1. CASE RollbackSlots(p) \/ RollbackCleared(p) \/ RollbackNoCandidate(p)
    BY <1>1 DEF RollbackSlots, RollbackCleared, RollbackNoCandidate
  <1>2. CASE RollbackExchange(p)
    BY <1>2 DEF RollbackExchange, Exchanged
  <1>3. CASE RollbackRestore(p)
    BY <1>3 DEF RollbackRestore
  <1>4. CASE RollbackRestoreFails(p)
    BY <1>4 DEF RollbackRestoreFails
  <1>5. CASE RollbackReplace(p)
    BY <1>5 DEF RollbackReplace
  <1>6. CASE RollbackReplaceFails(p)
    BY <1>6 DEF RollbackReplaceFails
  <1>7. CASE RollbackSync(p)
    BY <1>7 DEF RollbackSync
  <1>8. CASE RollbackClearNext(p)
    BY <1>8 DEF RollbackClearNext
  <1>9. CASE RollbackKeepNext(p)
    BY <1>9 DEF RollbackKeepNext
  <1>10. CASE RollbackDeleteEntry(p)
    BY <1>10 DEF RollbackDeleteEntry
  <1>11. CASE RollbackKeepEntry(p)
    BY <1>11 DEF RollbackKeepEntry
  <1>12. CASE RollbackQuarantine(p)
    BY <1>12 DEF RollbackQuarantine
  <1>13. CASE RollbackQuarantined(p)
    BY <1>13 DEF RollbackQuarantined
  <1>14. CASE RollbackUnlink(p)
    BY <1>14 DEF RollbackUnlink
  <1>15. CASE RollbackUnlinkFails(p)
    BY <1>15, UnlinkFailsFilesInv
  <1>16. CASE RollbackFlush(p)
    BY <1>16 DEF RollbackFlush
  <1>17. CASE RollbackManifest(p)
    BY <1>17 DEF RollbackManifest, TreeHash
  <1>18. CASE RollbackPartial(p)
    BY <1>18 DEF RollbackPartial
  <1>19. CASE RollbackClear(p)
    BY <1>19 DEF RollbackClear, NoIntent
  <1> QED BY <1>1, <1>2, <1>3, <1>4, <1>5, <1>6, <1>7, <1>8, <1>9, <1>10, <1>11,
    <1>12, <1>13, <1>14, <1>15, <1>16, <1>17, <1>18, <1>19 DEF RollbackStep

LEMMA StartFilesInv ==
    ASSUME TypeOK, LockHeldByRunner, OwnInv, IntentInv, SlotInv, EntryInv, StateInv,
      ArmInv, CheckInv, FilesInv, NEW p \in Procs, Start(p)
    PROVE  FilesInv'
  <1> USE ProcAssumption, BootAssumption DEF TypeOK, LockHeldByRunner, OwnInv,
    IntentInv, SlotInv, StateInv, EntryInv, FilesInv, Only, Both, Tidy, Quarantined,
    OldOnly, OldNew, NewOld, Slots, Esp, Slot, Scratch, Local, Manifest,
    HasTransaction, LiveStates, States, Acquire, Release, Raise, Goto, Locked,
    StagePcs, NextPcs, PromotePcs, FinishPcs, RevertPcs, RollbackPcs
  <1>1. CASE PromoteResume(p) \/ PromoteRevert(p)
    BY <1>1 DEF PromoteResume, PromoteRevert, MayPromote, OwnsNvram, OwnsVariables
  <1>2. CASE StageEnter(p)
    BY <1>2 DEF StageEnter, NoLocal
  <1>3. CASE NextStart(p)
    BY <1>3 DEF NextStart, MayArm, OwnsVariables, Record
  <1>4. CASE NextAdopt(p)
    BY <1>4 DEF NextAdopt, Armed, MayArm, OwnsVariables
  <1>5. CASE PromoteStart(p)
    BY <1>5 DEF PromoteStart, MayPromote, OwnsNvram, OwnsVariables, Record
  <1>6. CASE RollbackStart(p)
    BY <1>6, RollbackStartFilesInv
  <1> QED BY <1>1, <1>2, <1>3, <1>4, <1>5, <1>6 DEF Start

\* What a power loss leaves is what the medium held.
LEMMA MachineFilesInv ==
    ASSUME Drifts \subseteq Elsewhere, TypeOK, ArmInv, FilesInv, Environment
    PROVE  FilesInv'
  <1>1. UNCHANGED <<manifest, intent, loc>>
    BY OthersStop
  <1>2. CASE Reboot \/ PowerLoss
    <2>1. \A q \in Procs : pc'[q] = "idle"
      BY <1>2 DEF Reboot, PowerLoss, Idle
    <2>2. nvram'.entries = nvram.entries
      BY <1>2, FirmwareSelects DEF Reboot, PowerLoss
    <2>3. PICK e \in {esp, disk} : esp' = e /\ disk' = e
      BY <1>2 DEF Reboot, PowerLoss
    <2> QED BY <1>1, <2>1, <2>2, <2>3 DEF FilesInv, FinishPcs, Slots, NewOld
  <1>3. CASE WriteBack
    <2>1. UNCHANGED <<pc, nvram>>
      BY <1>3 DEF WriteBack
    <2>2. PICK e \in {esp, disk} : e = esp /\ esp' = e /\ disk' = e
      BY <1>3 DEF WriteBack
    <2> QED BY <1>1, <2>1, <2>2 DEF FilesInv, FinishPcs, Slots, NewOld
  <1>4. CASE DriftOrder \/ DriftTree
    BY <1>1, <1>4, DriftElsewhere DEF FilesInv, FinishPcs, Slots, NewOld
  <1> QED BY <1>2, <1>3, <1>4, OnlyMachine

LEMMA FailureFilesInv ==
    ASSUME TypeOK, LockHeldByRunner, IntentInv, FilesInv, NEW p \in Procs, Fails(p) \/
           Killed(p)
    PROVE  FilesInv'
  <1>1. /\ UNCHANGED <<nvram, disk, manifest, intent, loc>>
        /\ \A q \in Procs : pc'[q] = pc[q] \/ pc'[q] = "idle"
    BY OthersStop DEF Fails, Killed
  <1>2. CASE UNCHANGED esp
    BY <1>1, <1>2 DEF FilesInv, FinishPcs, Only, Both, Quarantined, Slots, Tidy
  <1>3. CASE /\ Killed(p) /\ pc[p] = "stage_temp" /\ ~SlotTaken(p)
             /\ esp' = [esp EXCEPT !.temp = "partial"]
    <2>1. intent.op = "publish_candidate" /\ esp.cand = "absent"
      BY <1>3 DEF IntentInv, FilesInv, SlotTaken
    <2>2. /\ esp'.active = esp.active /\ esp'.cand = esp.cand /\ esp'.quar = esp.quar
          /\ esp'.rtemp = esp.rtemp
      BY <1>3 DEF TypeOK, Esp
    <2>3. \A q \in Procs : pc'[q] \notin Locked
      BY <1>3 DEF Killed, Goto, LockHeldByRunner, TypeOK, Locked, StagePcs, NextPcs,
         PromotePcs, FinishPcs, RevertPcs, RollbackPcs
    <2>4. manifest.state = "backup_ready"
      BY <2>1 DEF IntentInv, FilesInv, Only, Slots, OldNew
    <2> QED
      BY <1>1, <2>1, <2>2, <2>3, <2>4 DEF FilesInv, Tidy, Locked, StagePcs,
         PromotePcs, FinishPcs, RevertPcs, RollbackPcs
  <1> QED BY <1>2, <1>3 DEF Fails, Killed, FilesInv

-----------------------------------------------------------------------------
(* What the machine is like when nothing runs.                             *)

LEMMA ProgramRestInv ==
    ASSUME TypeOK, LockHeldByRunner, OwnInv, IntentInv, SlotInv, RestInv,
           NEW p \in Procs, Start(p) \/ Continue(p)
    PROVE  RestInv'
  <1> USE DEF RestInv
  <1>1. CASE Start(p)
    BY <1>1, StartEntryInv, StartStateInv, StartArmInv, StartCheckInv, StartFilesInv
  <1>2. CASE StageStep(p)
    BY <1>2, StageEntryInv, StageStateInv, StageArmInv, StageCheckInv, StageFilesInv
  <1>3. CASE NextStep(p)
    BY <1>3, BootNextEntryInv, BootNextStateInv, BootNextArmInv, BootNextCheckInv,
       BootNextFilesInv
  <1>4. CASE PromoteStep(p)
    BY <1>4, PromoteEntryInv, PromoteStateInv, PromoteArmInv, PromoteCheckInv,
       PromoteFilesInv
  <1>5. CASE RollbackStep(p)
    BY <1>5, RollbackEntryInv, RollbackStateInv, RollbackArmInv, RollbackCheckInv,
       RollbackFilesInv
  <1> QED BY <1>1, <1>2, <1>3, <1>4, <1>5 DEF Continue

LEMMA NextRestInv ==
    ASSUME Drifts \subseteq Elsewhere, TypeOK, LockHeldByRunner, OwnInv, IntentInv,
           SlotInv, RestInv, [Next]_vars
    PROVE  RestInv'
  <1>1. CASE UNCHANGED vars
    BY <1>1 DEF vars, RestInv, EntryInv, StateInv, ArmInv, CheckInv, FilesInv, MayClear,
       SelectsCandidate, OwnsLiveNext, HasTransaction, Recorded, StdNext, Only, Both,
       Quarantined, Slots, Tidy
  <1>2. ASSUME NEW p \in Procs, Start(p) \/ Continue(p) PROVE RestInv'
    BY <1>2, ProgramRestInv
  <1>3. ASSUME Environment \/ (\E p \in Procs : Fails(p) \/ Killed(p)) PROVE RestInv'
    BY <1>3, OthersEntryInv, OthersStateInv, OthersArmInv, OthersCheckInv,
       MachineFilesInv, FailureFilesInv DEF RestInv
  <1> QED BY <1>1, <1>2, <1>3 DEF Next

\* Everything the theorems below rest on, as one inductive invariant.
SafeInv ==
    /\ TypeOK /\ LockHeldByRunner
    /\ OwnInv /\ IntentInv /\ SlotInv /\ BootInv /\ RestInv

LEMMA SafeStays ==
    ASSUME Drifts \subseteq Elsewhere
    PROVE  Spec => []SafeInv
  <1>0. "race" \notin Drifts /\ "slot" \notin Drifts
    BY DEF Elsewhere
  <1>1. Init => OwnInv /\ IntentInv /\ SlotInv /\ BootInv /\ RestInv
    BY InitOwnInv, InitIntentInv, InitSlotInv, InitBootInv, InitRestInv
  <1>2. /\ TypeOK /\ LockHeldByRunner
        /\ OwnInv /\ IntentInv /\ SlotInv /\ BootInv /\ RestInv
        /\ [Next]_vars
        => OwnInv' /\ IntentInv' /\ SlotInv' /\ BootInv' /\ RestInv'
    BY <1>0, NextOwnInv, NextIntentInv, NextSlotInv, NextBootInv, NextRestInv
  <1> QED BY <1>1, <1>2, TypeCorrect, LockExcludes, PTL DEF Spec, SafeInv

\* The transaction's entry offers the candidate slot.
Offered == Recorded /\ nvram.entries[manifest.num] = "cand"

LEMMA OfferedSlots ==
    ASSUME TypeOK, IntentInv, StateInv, EntryInv, FilesInv, Offered
    PROVE  manifest.num \in Free /\ Both(esp) /\ Both(disk)
  <1> USE DEF Offered
  <1>1. manifest.num \in Free
    BY BootAssumption DEF EntryInv, Recorded
  <1>2. manifest.state \in LiveStates
    BY <1>1, BootAssumption DEF EntryInv, Recorded, StateInv, LiveStates, Nums,
       TypeOK, Manifest, States
  <1>3. CASE intent.op \in {"promote", "promote_revert", "rollback"}
    BY <1>1, <1>3 DEF FilesInv
  <1>4. CASE intent.op \notin {"promote", "promote_revert", "rollback"}
    <2>1. intent.op \in {"none", "create_entry", "set_boot_next"}
      BY <1>2, <1>4 DEF IntentInv, LiveStates, TypeOK, Intent, Operations
    <2>2. manifest.state = "promoted" => intent.op = "none"
      BY <1>4, <2>1 DEF IntentInv, StateInv
    <2> QED BY <1>1, <1>2, <2>1, <2>2 DEF FilesInv, LiveStates, Both
  <1> QED BY <1>1, <1>3, <1>4

LEMMA RestEntries ==
    ASSUME TypeOK, IntentInv, StateInv, EntryInv, FilesInv
    PROVE  EntryNeverDangles
  BY OfferedSlots DEF Offered, EntryNeverDangles, Bootable, Both, Only, Slots, OldNew,
     NewOld

LEMMA RestMatches ==
    ASSUME TypeOK, OwnInv, IntentInv, StateInv, EntryInv, FilesInv
    PROVE  RestMatchesManifest
  <1> SUFFICES ASSUME intent.op = "none", NEW e \in {esp, disk}
               PROVE  /\ manifest.state \in {"none", "backup_ready", "rolled_back"} =>
                           Slots(e) = <<"old", "absent">>
                      /\ manifest.state \in {"candidate_published", "staged", "armed",
                                             "promotion_failed"} => Slots(e) = OldNew
                      /\ manifest.state = "promoted" => Slots(e) = NewOld
                      /\ manifest.state \in {"staged", "armed", "promotion_failed",
                                             "promoted"} =>
                           Recorded /\ nvram.entries[manifest.num] = "cand"
                      /\ manifest.state \in {"none", "rolled_back"} =>
                           \A n \in Free : nvram.entries[n] = "none"
                      /\ manifest.state # "rollback_partial"
    BY DEF RestMatchesManifest, AtRest
  <1>1. manifest.state \in {"none", "backup_ready", "rolled_back"} => Only(e, OldOnly)
    BY DEF FilesInv
  <1>2. manifest.state \in {"candidate_published", "staged", "armed", "promotion_failed"}
          => Only(e, OldNew)
    BY DEF FilesInv
  <1>3. manifest.state = "promoted" => Only(e, NewOld)
    BY DEF FilesInv
  <1>4. manifest.state \in LiveStates => Recorded /\ nvram.entries[manifest.num] = "cand"
    BY DEF EntryInv, StateInv, LiveStates, Recorded, TypeOK, Manifest
  <1>5. manifest.state \in {"none", "rolled_back"} =>
          \A n \in Free : nvram.entries[n] = "none"
    <2>1. manifest.state = "none" => manifest.num = NoNum
      BY DEF StateInv
    <2> QED BY <2>1, BootAssumption DEF EntryInv, Nums
  <1> QED BY <1>1, <1>2, <1>3, <1>4, <1>5 DEF StateInv, Only, OldOnly, LiveStates

LEMMA RestTruthful ==
    ASSUME TypeOK, OwnInv, IntentInv, BootInv, StateInv, EntryInv, FilesInv
    PROVE  StatusTruthful
  <1>1. ASSUME Status = "candidate_booted" PROVE booted /\ Slots(disk) = OldNew
    <2>1. /\ Recorded /\ intent.op = "none" /\ manifest.state # "rolled_back"
          /\ nvram.current = manifest.num /\ nvram.entries[manifest.num] = "cand"
          /\ Slots(esp) = OldNew
      BY <1>1 DEF Status, ObservedState, StatusChecks, OwnsNvram, OwnsVariables
    <2>2. booted
      BY <2>1 DEF BootInv
    <2>3. Slots(esp) # NewOld
      BY <2>1 DEF OldNew, NewOld
    <2>4. manifest.state \in {"staged", "armed", "promotion_failed"}
      BY <2>1, <2>3, BootAssumption DEF FilesInv, StateInv, Only, Recorded, TypeOK,
         Manifest, States
    <2> QED BY <2>1, <2>2, <2>4 DEF FilesInv, Only
  <1>2. ASSUME Status = "promoted" PROVE booted /\ Slots(disk) = NewOld
    <2>1. /\ Recorded /\ intent.op = "none" /\ manifest.state # "rolled_back"
          /\ Slots(esp) = NewOld
      BY <1>2 DEF Status, ObservedState, StatusChecks
    <2>2. Slots(esp) # OldNew
      BY <2>1 DEF OldNew, NewOld
    <2>3. manifest.state = "promoted"
      BY <2>1, <2>2, BootAssumption DEF FilesInv, StateInv, Only, Recorded, TypeOK,
         Manifest, States
    <2>4. Slots(disk) = NewOld
      BY <2>1, <2>3 DEF FilesInv, Only
    <2> QED BY <2>4 DEF BootInv, BootKnown, Slots, NewOld
  <1>3. ASSUME Status = "rolled_back"
        PROVE  Slots(disk) = <<"old", "absent">> /\ nvram.next # StdNext(manifest.num)
    <2>1. /\ Recorded /\ intent.op = "none" /\ manifest.state = "rolled_back"
          /\ nvram.next = manifest.initial.next
      BY <1>3 DEF Status, ObservedState, StatusChecks, RolledBackAsRecorded
    <2>2. manifest.initial.next.num # manifest.num
      BY <2>1, BootAssumption DEF EntryInv, HasTransaction, Recorded
    <2> QED BY <2>1, <2>2 DEF FilesInv, Only, OldOnly, StdNext
  <1> QED BY <1>1, <1>2, <1>3 DEF StatusTruthful

\* With no BootNext on the machine at first, BootNext is absent or the transaction's own.
LEMMA OwnNext ==
    ASSUME InitialNext = {NoNum}, TypeOK, ArmInv, HasTransaction
    PROVE  /\ manifest.initial.next = NoNext
           /\ nvram.next = NoNext \/ nvram.next = StdNext(manifest.num)
  BY DEF ArmInv, NoNext, StdNext

LEMMA RestAnswers ==
    ASSUME "order" \notin Drifts, InitialNext = {NoNum}, TypeOK, OwnInv, IntentInv,
           StateInv, EntryInv, ArmInv, FilesInv
    PROVE  StatusAnswers
  <1> SUFFICES ASSUME Recorded PROVE Status # "refused"
    BY DEF StatusAnswers
  <1>1. HasTransaction /\ manifest.num \in Free /\ manifest.num # NoNum
    BY BootAssumption DEF OwnInv, EntryInv, Recorded
  <1>2. /\ nvram.order = manifest.initial.order
        /\ EntriesKept(manifest.initial, nvram)
    BY <1>1, BootAssumption DEF EntryInv, EntriesKept, Initially, Nums
  <1>3. /\ manifest.initial.next = NoNext
        /\ nvram.next = NoNext \/ nvram.next = StdNext(manifest.num)
    BY <1>1, OwnNext
  <1>4. ASSUME intent.op = "none", manifest.state = "rolled_back" PROVE
         RolledBackAsRecorded
    <2>1. nvram.next # StdNext(manifest.num)
      BY <1>4 DEF ArmInv, StdNext
    <2> QED BY <1>1, <1>3, <1>4, <2>1 DEF RolledBackAsRecorded, EntryInv, FilesInv,
       Only, OldOnly
  <1>5. ASSUME intent.op = "none", manifest.state # "rolled_back"
        PROVE  OwnsNvram(manifest, nvram) /\ Slots(esp) \in {OldNew, NewOld}
    <2>1. manifest.state \in LiveStates
      BY <1>1, <1>5 DEF StateInv, LiveStates, TypeOK, Manifest, States
    <2>2. nvram.entries[manifest.num] = "cand"
      BY <1>5, <2>1 DEF EntryInv
    <2>3. Slots(esp) \in {OldNew, NewOld}
      BY <1>5, <2>1 DEF FilesInv, LiveStates, Only
    <2>4. BootNextAsRecorded(manifest, nvram)
      <3>1. manifest.owned =>
              manifest.raw = StdNext(manifest.num) /\ manifest.state = "armed"
        BY DEF ArmInv
      <3>2. ~manifest.owned => nvram.next = NoNext
        BY <1>3, <1>5 DEF ArmInv, StdNext
      <3>3. nvram.current = manifest.num \/ nvram.current \in Normal
        BY DEF ArmInv
      <3>4. nvram.current \in Normal => nvram.current # manifest.num
        BY <1>1, BootAssumption
      <3> QED BY <1>3, <3>1, <3>2, <3>3, <3>4 DEF BootNextAsRecorded,
         CandidateBootFellBack
    <2> QED BY <1>2, <2>2, <2>3, <2>4 DEF OwnsNvram, OwnsVariables, Recorded
  <1>6. StatusChecks
    BY <1>2, <1>4, <1>5 DEF StatusChecks
  <1> QED BY <1>6 DEF Status, ObservedState

LEMMA RestAvailable ==
    ASSUME Drifts = {}, InitialNext = {NoNum}, TypeOK, OwnInv, IntentInv,
           StateInv, EntryInv, ArmInv, FilesInv
    PROVE  RollbackAvailable
  <1> SUFFICES ASSUME Recorded, nvram.next = NoNext PROVE MayRollback
    BY DEF RollbackAvailable
  <1>1. HasTransaction /\ manifest.num \in Free /\ manifest.num # NoNum
    BY BootAssumption DEF OwnInv, EntryInv, Recorded
  <1>2. /\ nvram.order = manifest.initial.order
        /\ EntriesKept(manifest.initial, nvram)
    BY <1>1, BootAssumption DEF EntryInv, EntriesKept, Initially, Nums
  <1>3. nvram.next = manifest.initial.next /\ ~SelectsCandidate
    BY <1>1, OwnNext DEF SelectsCandidate, NoNext
  <1>4. RemovableNvram
    BY <1>1, <1>2, <1>3 DEF RemovableNvram, EntryRemovable, EntryInv, Recorded
  <1>5. Both(esp) \/ Only(esp, OldOnly) \/ (Quarantined(esp) /\ intent.op = "rollback")
    <2>1. manifest.state \in LiveStates \cup {"rolled_back"}
      BY <1>1 DEF StateInv, LiveStates, TypeOK, Manifest, States
    <2>2. CASE intent.op = "rollback" \/ manifest.state = "rolled_back"
      BY <2>2 DEF FilesInv
    <2>3. CASE intent.op # "rollback" /\ manifest.state \in LiveStates
      BY <2>3, OfferedSlots DEF EntryInv, Offered, Recorded
    <2> QED BY <2>1, <2>2, <2>3
  <1>6. /\ esp.active \in {"old", "new"} /\ esp.cand \in {"absent", "old", "new"}
        /\ esp.temp = "absent" /\ esp.rtemp = "absent"
        /\ esp.quar # "absent" =>
             esp.cand = "absent" /\ esp.quar = "new" /\ intent.op = "rollback"
    BY <1>5 DEF Both, Only, Quarantined, Slots, OldOnly, OldNew, NewOld, Tidy
  <1>7. ProjectedTreeHash(esp) = manifest.tree
    <2>1. manifest.tree = [esp |-> manifest.tree.esp, rest |-> "initial"]
      BY DEF EntryInv, TypeOK, Manifest, Tree
    <2>2. manifest.tree.esp = [active |-> "old", cand |-> "absent", temp |-> "absent",
                               quar |-> "absent", rtemp |-> "absent"]
      BY DEF EntryInv, Only, OldOnly, Slots, Tidy, TypeOK, Manifest, Tree, Esp
    <2>3. [esp EXCEPT !.active = "old", !.cand = "absent", !.quar = "absent",
                      !.rtemp = "absent"]
            = [active |-> "old", cand |-> "absent", temp |-> "absent",
               quar |-> "absent", rtemp |-> "absent"]
      <3> DEFINE e == [esp EXCEPT !.active = "old", !.cand = "absent", !.quar = "absent",
                                  !.rtemp = "absent"]
      <3>1. /\ e \in Esp /\ e.active = "old" /\ e.cand = "absent" /\ e.temp = esp.temp
            /\ e.quar = "absent" /\ e.rtemp = "absent"
        BY DEF TypeOK, Esp, Slot, Scratch
      <3> HIDE DEF e
      <3>2. e = [active |-> "old", cand |-> "absent", temp |-> "absent",
                 quar |-> "absent", rtemp |-> "absent"]
        BY <1>6, <3>1 DEF Esp
      <3> QED BY <3>2 DEF e
    <2> QED BY <2>1, <2>2, <2>3 DEF ProjectedTreeHash, TreeHash, EntryInv
  <1> QED BY <1>1, <1>4, <1>6, <1>7 DEF MayRollback, HasTransaction, ArtifactsRecognised

\* Unless other software changes slots, entries or BootNext: while the transaction's boot
\* entry exists, the slot it starts holds a loader on the medium, however many crashes and
\* retries led there.
THEOREM EntryLeadsToLoader == Drifts \subseteq Elsewhere /\ Spec => []EntryNeverDangles
  <1>1. ASSUME Drifts \subseteq Elsewhere PROVE Spec => []EntryNeverDangles
    <2>1. SafeInv => EntryNeverDangles
      BY RestEntries DEF SafeInv, RestInv
    <2> QED BY <1>1, <2>1, SafeStays, PTL
  <1> QED BY <1>1

\* Unless other software changes slots, entries or BootNext: with no operation running and
\* no intent pending, the slots, in memory and on the medium, and the transaction's entry
\* are those the manifest's state stands for.
THEOREM RestIsAsRecorded == Drifts \subseteq Elsewhere /\ Spec => []RestMatchesManifest
  <1>1. ASSUME Drifts \subseteq Elsewhere PROVE Spec => []RestMatchesManifest
    <2>1. SafeInv => RestMatchesManifest
      BY RestMatches DEF SafeInv, RestInv
    <2> QED BY <1>1, <2>1, SafeStays, PTL
  <1> QED BY <1>1

\* Unless other software changes slots, entries or BootNext: the answers of `status` that
\* lead to an irreversible decision are true of the medium and of what firmware has run.
THEOREM StatusTellsTruth == Drifts \subseteq Elsewhere /\ Spec => []StatusTruthful
  <1>1. ASSUME Drifts \subseteq Elsewhere PROVE Spec => []StatusTruthful
    <2>1. SafeInv => StatusTruthful
      BY RestTruthful DEF SafeInv, RestInv
    <2> QED BY <1>1, <2>1, SafeStays, PTL
  <1> QED BY <1>1

\* On a machine that starts with no BootNext, and whose slots and variables no other
\* software changes, no crash or failure leaves a recorded transaction whose status is an
\* error.
THEOREM StatusAlwaysAnswers ==
    Drifts \subseteq {"tree"} /\ InitialNext = {NoNum} /\ Spec => []StatusAnswers
  <1>1. ASSUME Drifts \subseteq {"tree"}, InitialNext = {NoNum}
        PROVE  Spec => []StatusAnswers
    <2>1. Drifts \subseteq Elsewhere
      BY <1>1 DEF Elsewhere
    <2>2. SafeInv => StatusAnswers
      BY <1>1, RestAnswers DEF SafeInv, RestInv
    <2> QED BY <2>1, <2>2, SafeStays, PTL
  <1> QED BY <1>1

\* On a machine that starts with no BootNext, and that no other software changes, the
\* checks of rollback pass whenever a transaction has its entry recorded and firmware
\* has consumed BootNext.
THEOREM RollbackStaysAvailable ==
    Drifts = {} /\ InitialNext = {NoNum} /\ Spec => []RollbackAvailable
  <1>1. ASSUME Drifts = {}, InitialNext = {NoNum} PROVE Spec => []RollbackAvailable
    <2>1. Drifts \subseteq Elsewhere
      BY <1>1
    <2>2. SafeInv => RollbackAvailable
      BY <1>1, RestAvailable DEF SafeInv, RestInv
    <2> QED BY <2>1, <2>2, SafeStays, PTL
  <1> QED BY <1>1

-----------------------------------------------------------------------------
(* The transaction implements LoaderUpgrade.                               *)

UpgradeStep == Upgrade!Next \/ UNCHANGED Upgrade!upgrade

LEMMA InitUpgrade == Init => Upgrade!Init
  <1> SUFFICES ASSUME Init PROVE Upgrade!Init
    OBVIOUS
  <1>1. disk.active = "old" /\ disk.cand = "absent" /\ manifest.num = NoNum /\ ~booted
    BY DEF Init
  <1> QED BY <1>1, BootAssumption DEF Upgrade!Init, Recorded

\* The steps the abstract machine does not see.
LEMMA UnseenUpgrade ==
    ASSUME disk'.active = disk.active, disk'.cand = disk.cand, Offered' <=> Offered,
           booted' = booted
    PROVE  UpgradeStep
  BY DEF UpgradeStep, Upgrade!upgrade, Offered

\* What the medium and the kernel's view of it may differ in.
SlotPairs ==
    \/ Slots(esp) = Slots(disk)
    \/ Slots(disk) = OldOnly /\ Slots(esp) = OldNew /\ ~Offered
    \/ Slots(disk) \in {OldNew, NewOld} /\ Slots(esp) \in {OldNew, NewOld}
    \/ Slots(disk) \in {OldNew, NewOld} /\ Slots(esp) = OldOnly /\ ~Offered

LEMMA PairsOfFiles ==
    ASSUME TypeOK, OwnInv, IntentInv, StateInv, EntryInv, FilesInv
    PROVE  SlotPairs
  <1> USE DEF SlotPairs, Only, Both, Quarantined, Slots, OldOnly, OldNew, NewOld
  <1>1. CASE intent.op = "publish_candidate"
    <2>1. ~Recorded
      BY <1>1, BootAssumption DEF IntentInv, Recorded
    <2> QED BY <1>1, <2>1 DEF FilesInv, Offered
  <1>2. CASE intent.op \in {"promote", "promote_revert"}
    BY <1>2 DEF FilesInv
  <1>3. CASE intent.op = "rollback"
    BY <1>3 DEF FilesInv, Offered
  <1>4. CASE intent.op \in {"none", "create_entry", "set_boot_next"}
    <2>1. manifest.state \in {"none", "backup_ready"} => intent.op = "none"
      BY <1>4 DEF IntentInv, StateInv
    <2>2. manifest.state = "promoted" => intent.op = "none"
      BY <1>4 DEF IntentInv, StateInv
    <2> QED BY <1>4, <2>1, <2>2 DEF FilesInv, StateInv, TypeOK, Manifest, States
  <1> QED BY <1>1, <1>2, <1>3, <1>4 DEF TypeOK, Intent, Operations

\* A sync writes what the abstract machine does in one step.
LEMMA SyncUpgrade ==
    ASSUME TypeOK, OwnInv, IntentInv, BootInv, StateInv, EntryInv, FilesInv,
           disk' = esp, Offered' <=> Offered, booted' = booted
    PROVE  UpgradeStep
  <1>1. /\ Slots(esp) = NewOld => booted
        /\ disk'.active = esp.active /\ disk'.cand = esp.cand
    BY DEF BootInv, BootKnown, Slots, NewOld
  <1>2. SlotPairs
    BY PairsOfFiles
  <1> USE DEF Slots, OldOnly, OldNew, NewOld
  <1>3. CASE Slots(esp) = Slots(disk)
    BY <1>1, <1>3, UnseenUpgrade
  <1>4. CASE Slots(disk) = OldOnly /\ Slots(esp) = OldNew /\ ~Offered
    BY <1>1, <1>4 DEF UpgradeStep, Upgrade!Next, Upgrade!Publish, Offered
  <1>5. CASE Slots(disk) = OldNew /\ Slots(esp) = NewOld
    BY <1>1, <1>5 DEF UpgradeStep, Upgrade!Next, Upgrade!Activate, Offered
  <1>6. CASE Slots(disk) = NewOld /\ Slots(esp) = OldNew
    BY <1>1, <1>6 DEF UpgradeStep, Upgrade!Next, Upgrade!Restore, Offered
  <1>7. CASE Slots(disk) \in {OldNew, NewOld} /\ Slots(esp) = OldOnly /\ ~Offered
    BY <1>1, <1>7 DEF UpgradeStep, Upgrade!Next, Upgrade!Remove, Offered
  <1> QED BY <1>2, <1>3, <1>4, <1>5, <1>6, <1>7 DEF SlotPairs

LEMMA AdoptUpgrade ==
    ASSUME TypeOK, IntentInv, EntryInv, FilesInv, NEW p \in Procs, StageAdopt(p)
    PROVE  UpgradeStep
  <1>1. PICK n \in Free :
        /\ manifest' = [manifest EXCEPT !.state = "staged", !.num = n]
        /\ nvram.entries[n] = "cand"
    BY AdoptedIsFree
  <1>2. /\ manifest'.num = n /\ n \in Nums
        /\ UNCHANGED <<disk, nvram, booted>>
    BY <1>1 DEF StageAdopt, TypeOK, Manifest, Nums
  <1>3. manifest.state = "candidate_published"
    BY DEF StageAdopt, IntentInv
  <1>4. Only(disk, OldNew)
    BY <1>3 DEF FilesInv
  <1> QED
    BY <1>1, <1>2, <1>4
       DEF UpgradeStep, Upgrade!Next, Upgrade!Offer, Recorded, Only, Slots, OldNew

LEMMA DeleteUpgrade ==
    ASSUME TypeOK, IntentInv, NEW p \in Procs, RollbackDeleteEntry(p)
    PROVE  UpgradeStep
  <1>1. Recorded /\ nvram.entries[manifest.num] = "cand"
    BY DEF RollbackDeleteEntry, IntentInv, RollbackPcs, Recorded
  <1>2. UNCHANGED <<disk, manifest, booted>> /\ nvram'.entries[manifest.num] = "none"
    BY <1>1 DEF RollbackDeleteEntry, TypeOK, Snapshot, Recorded
  <1> QED
    BY <1>1, <1>2 DEF UpgradeStep, Upgrade!Next, Upgrade!Withdraw, Recorded

\* Moving a candidate back publishes it once more.
LEMMA UnlinkFailsUpgrade ==
    ASSUME TypeOK, IntentInv, BootInv, EntryInv, FilesInv, NEW p \in Procs,
           RollbackUnlinkFails(p)
    PROVE  UpgradeStep
  <1>1. /\ UNCHANGED <<manifest, nvram, booted>> /\ intent.op = "rollback"
        /\ nvram.entries[manifest.num] = "none" /\ Quarantined(esp)
    BY DEF RollbackUnlinkFails, IntentInv, EntryInv, FilesInv, RollbackPcs
  <1>2. CASE UNCHANGED disk
    BY <1>1, <1>2, UnseenUpgrade DEF Offered, Recorded
  <1>3. CASE loc[p].made
    <2>1. disk' = [esp EXCEPT !.cand = esp.quar, !.quar = "absent"]
      BY <1>3 DEF RollbackUnlinkFails
    <2>2. disk'.active = "old" /\ disk'.cand = "new"
      BY <1>1, <2>1 DEF Quarantined, Slots, OldOnly, TypeOK, Esp
    <2>3. Slots(disk) \in {OldNew, NewOld, OldOnly}
      BY <1>1 DEF FilesInv, Both, Only, Quarantined
    <2> QED
      BY <1>1, <2>2, <2>3
         DEF UpgradeStep, Upgrade!Next, Upgrade!Publish, Upgrade!Restore,
             Upgrade!upgrade, Recorded, Slots, OldOnly, OldNew, NewOld
  <1> QED BY <1>2, <1>3 DEF RollbackUnlinkFails

LEMMA StageUpgrade ==
    ASSUME TypeOK, OwnInv, IntentInv, BootInv, StateInv, EntryInv, FilesInv,
           NEW p \in Procs, StageStep(p)
    PROVE  UpgradeStep
  <1>1. CASE StageResume(p) \/ StageRefused(p) \/ StageIntent(p) \/ StageKeepSlot(p)
             \/ StageWriteTemp(p) \/ StageTempForeign(p) \/ StageTempFails(p)
             \/ StageRename(p)
    <2>1. UNCHANGED <<disk, booted>> /\ manifest'.num = manifest.num
          /\ nvram'.entries = nvram.entries
      BY <1>1 DEF StageResume, StageRefused, StageIntent, StageKeepSlot,
        StageWriteTemp, StageTempForeign, StageTempFails, StageRename, Raise
    <2> QED BY <2>1, UnseenUpgrade DEF Offered, Recorded
  <1>2. CASE StageRenameFails(p) \/ StageClear(p) \/ StageDeclareEntry(p)
             \/ StageRetryCreate(p) \/ StageCreateFull(p) \/ StageInspectRefused(p)
             \/ StageObserve(p) \/ StageDone(p)
    <2>1. UNCHANGED <<disk, booted>> /\ manifest'.num = manifest.num
          /\ nvram'.entries = nvram.entries
      BY <1>2 DEF StageRenameFails, StageClear, StageDeclareEntry, StageRetryCreate,
        StageCreateFull, StageInspectRefused, StageObserve,
        StageDone, Raise
    <2> QED BY <2>1, UnseenUpgrade DEF Offered, Recorded
  <1>3. CASE StagePublished(p) \/ StageConfirm(p)
    <2>1. UNCHANGED <<disk, booted>> /\ manifest'.num = manifest.num
          /\ nvram'.entries = nvram.entries
      BY <1>3 DEF StagePublished, StageConfirm, TypeOK, Manifest, Snapshot
    <2> QED BY <2>1, UnseenUpgrade DEF Offered, Recorded
  <1>4. CASE StageSync(p)
    BY <1>4, SyncUpgrade DEF StageSync, Offered, Recorded
  <1>5. CASE StageBegin(p)
    <2>1. manifest.num = NoNum /\ manifest'.num = NoNum
      BY <1>5 DEF StageBegin, MayBegin, OwnInv
    <2> QED
      BY <1>5, <2>1, UnseenUpgrade, BootAssumption DEF StageBegin, Offered, Recorded
  <1>6. CASE StageCreate(p)
    <2>1. manifest.num = NoNum /\ manifest'.num = NoNum
      BY <1>6 DEF StageCreate, IntentInv
    <2> QED
      BY <1>6, <2>1, UnseenUpgrade, BootAssumption DEF StageCreate, Offered, Recorded
  <1>7. CASE StageAdopt(p)
    BY <1>7, AdoptUpgrade
  <1> QED BY <1>1, <1>2, <1>3, <1>4, <1>5, <1>6, <1>7 DEF StageStep

LEMMA BootNextUpgrade ==
    ASSUME TypeOK, OwnInv, IntentInv, BootInv, StateInv, EntryInv, FilesInv,
           NEW p \in Procs, NextStep(p)
    PROVE  UpgradeStep
  <1>1. CASE NextConflict(p) \/ NextConflictClear(p) \/ NextSetFails(p)
             \/ NextReadBackRefused(p) \/ NextClear(p)
    <2>1. UNCHANGED <<disk, booted>> /\ manifest'.num = manifest.num
          /\ nvram'.entries = nvram.entries
      BY <1>1 DEF NextConflict, NextConflictClear, NextSetFails, NextReadBackRefused,
        NextClear, Raise
    <2> QED BY <2>1, UnseenUpgrade DEF Offered, Recorded
  <1>2. CASE NextSet(p) \/ NextReadBack(p)
    <2>1. UNCHANGED <<disk, booted>> /\ manifest'.num = manifest.num
          /\ nvram'.entries = nvram.entries
      BY <1>2 DEF NextSet, NextReadBack, Armed, TypeOK, Manifest, Snapshot
    <2> QED BY <2>1, UnseenUpgrade DEF Offered, Recorded
  <1> QED BY <1>1, <1>2 DEF NextStep

LEMMA PromoteUpgrade ==
    ASSUME TypeOK, OwnInv, IntentInv, BootInv, StateInv, EntryInv, FilesInv,
           NEW p \in Procs, PromoteStep(p)
    PROVE  UpgradeStep
  <1>1. CASE PromoteExchange(p) \/ FinishRefused(p) \/ FinishClear(p)
             \/ FinishFails(p) \/ FinishClearFails(p) \/ RevertIntent(p)
             \/ RevertExchange(p) \/ RevertClear(p)
    <2>1. UNCHANGED <<disk, booted>> /\ manifest'.num = manifest.num
          /\ nvram'.entries = nvram.entries
      BY <1>1 DEF PromoteExchange, FinishRefused, FinishClear, FinishFails,
        FinishClearFails, RevertIntent, RevertExchange, RevertClear
    <2> QED BY <2>1, UnseenUpgrade DEF Offered, Recorded
  <1>2. CASE FinishManifest(p) \/ RevertManifest(p)
    <2>1. UNCHANGED <<disk, booted>> /\ manifest'.num = manifest.num
          /\ nvram'.entries = nvram.entries
      BY <1>2 DEF FinishManifest, RevertManifest, Settled, TypeOK, Manifest, Snapshot
    <2> QED BY <2>1, UnseenUpgrade DEF Offered, Recorded
  <1>3. CASE FinishSync(p)
    BY <1>3, SyncUpgrade DEF FinishSync, Offered, Recorded
  <1>4. CASE RevertSync(p)
    BY <1>4, SyncUpgrade DEF RevertSync, Offered, Recorded
  <1> QED BY <1>1, <1>2, <1>3, <1>4 DEF PromoteStep

LEMMA RollbackUpgrade ==
    ASSUME TypeOK, OwnInv, IntentInv, BootInv, StateInv, EntryInv, FilesInv,
           NEW p \in Procs, RollbackStep(p)
    PROVE  UpgradeStep
  <1>1. CASE RollbackExchange(p) \/ RollbackSlots(p) \/ RollbackRestore(p)
             \/ RollbackRestoreFails(p) \/ RollbackReplace(p)
             \/ RollbackReplaceFails(p) \/ RollbackKeepNext(p) \/ RollbackCleared(p)
    <2>1. UNCHANGED <<disk, booted>> /\ manifest'.num = manifest.num
          /\ nvram'.entries = nvram.entries
      BY <1>1 DEF RollbackExchange, RollbackSlots, RollbackRestore,
        RollbackRestoreFails, RollbackReplace, RollbackReplaceFails, RollbackKeepNext,
        RollbackCleared
    <2> QED BY <2>1, UnseenUpgrade DEF Offered, Recorded
  <1>2. CASE RollbackKeepEntry(p) \/ RollbackQuarantine(p) \/ RollbackQuarantined(p)
             \/ RollbackNoCandidate(p) \/ RollbackUnlink(p) \/ RollbackClear(p)
    <2>1. UNCHANGED <<disk, booted>> /\ manifest'.num = manifest.num
          /\ nvram'.entries = nvram.entries
      BY <1>2 DEF RollbackKeepEntry, RollbackQuarantine, RollbackQuarantined,
        RollbackNoCandidate, RollbackUnlink, RollbackClear
    <2> QED BY <2>1, UnseenUpgrade DEF Offered, Recorded
  <1>3. CASE RollbackClearNext(p) \/ RollbackManifest(p) \/ RollbackPartial(p)
    <2>1. UNCHANGED <<disk, booted>> /\ manifest'.num = manifest.num
          /\ nvram'.entries = nvram.entries
      BY <1>3 DEF RollbackClearNext, RollbackManifest, RollbackPartial, TypeOK,
        Manifest, Snapshot
    <2> QED BY <2>1, UnseenUpgrade DEF Offered, Recorded
  <1>4. CASE RollbackSync(p)
    BY <1>4, SyncUpgrade DEF RollbackSync, Offered, Recorded
  <1>5. CASE RollbackFlush(p)
    BY <1>5, SyncUpgrade DEF RollbackFlush, Offered, Recorded
  <1>6. CASE RollbackDeleteEntry(p)
    BY <1>6, DeleteUpgrade
  <1>7. CASE RollbackUnlinkFails(p)
    BY <1>7, UnlinkFailsUpgrade
  <1> QED BY <1>1, <1>2, <1>3, <1>4, <1>5, <1>6, <1>7 DEF RollbackStep

LEMMA StartUpgrade ==
    ASSUME TypeOK, OwnInv, IntentInv, BootInv, StateInv, EntryInv, FilesInv,
           NEW p \in Procs, Start(p)
    PROVE  UpgradeStep
  <1>1. CASE StageEnter(p) \/ NextStart(p) \/ PromoteStart(p) \/ PromoteResume(p)
             \/ PromoteRevert(p) \/ RollbackStart(p)
    <2>1. UNCHANGED <<disk, booted>> /\ manifest'.num = manifest.num
          /\ nvram'.entries = nvram.entries
      BY <1>1 DEF StageEnter, NextStart, PromoteStart, PromoteResume, PromoteRevert,
        RollbackStart
    <2> QED BY <2>1, UnseenUpgrade DEF Offered, Recorded
  <1>2. CASE NextAdopt(p)
    <2>1. UNCHANGED <<disk, booted>> /\ manifest'.num = manifest.num
          /\ nvram'.entries = nvram.entries
      BY <1>2 DEF NextAdopt, Armed, TypeOK, Manifest, Snapshot
    <2> QED BY <2>1, UnseenUpgrade DEF Offered, Recorded
  <1> QED BY <1>1, <1>2 DEF Start

\* Firmware proves the candidate only by running it from the slot its entry offers.
LEMMA FirmwareUpgrade ==
    ASSUME TypeOK, OwnInv, IntentInv, BootInv, StateInv, EntryInv, ArmInv, FilesInv,
           NEW e \in {esp, disk}, Firmware(e), booted' # booted
    PROVE  booted' /\ e.cand = "new" /\ Slots(esp) = Slots(disk)
  <1>1. PICK n \in Nums :
        /\ \/ n \in Normal
           \/ n = nvram.next.num
        /\ booted' = (booted \/ (nvram.entries[n] = "cand" /\ e.cand = "new"))
    BY DEF Firmware
  <1>2. ~booted /\ booted' /\ nvram.entries[n] = "cand" /\ e.cand = "new"
    BY <1>1 DEF TypeOK
  <1>3. n = manifest.num
    BY <1>1, <1>2, BootAssumption DEF BootInv, ArmInv, Nums
  <1>4. Both(esp) /\ Both(disk)
    BY <1>2, <1>3, OfferedSlots DEF Offered, Recorded
  <1>5. esp.active # "new" /\ disk.active # "new"
    BY <1>2 DEF BootInv, BootKnown
  <1> QED BY <1>2, <1>4, <1>5 DEF Both, Only, Slots, OldNew, NewOld

LEMMA MachineUpgrade ==
    ASSUME Drifts \subseteq Elsewhere, TypeOK, OwnInv, IntentInv, BootInv, StateInv,
           EntryInv, ArmInv, FilesInv, Environment
    PROVE  UpgradeStep
  <1>1. (Offered' <=> Offered) /\ UNCHANGED manifest
    <2>1. UNCHANGED manifest /\ nvram'.entries = nvram.entries
      BY OnlyMachine, FirmwareSelects, DriftElsewhere DEF Reboot, PowerLoss, WriteBack
    <2> QED BY <2>1 DEF Offered, Recorded
  <1>2. CASE Reboot /\ booted' # booted
    <2>1. booted' /\ esp.cand = "new" /\ Slots(esp) = Slots(disk)
      BY <1>2, FirmwareUpgrade DEF Reboot
    <2>2. disk' = esp
      BY <1>2 DEF Reboot
    <2> QED
      BY <1>1, <2>1, <2>2
         DEF UpgradeStep, Upgrade!Next, Upgrade!Prove, Offered, Slots
  <1>3. CASE PowerLoss /\ booted' # booted
    <2>1. booted' /\ disk.cand = "new"
      BY <1>3, FirmwareUpgrade DEF PowerLoss
    <2>2. disk' = disk
      BY <1>3 DEF PowerLoss
    <2> QED
      BY <1>1, <2>1, <2>2
         DEF UpgradeStep, Upgrade!Next, Upgrade!Prove, Offered
  <1>4. CASE (Reboot \/ WriteBack) /\ booted' = booted
    BY <1>1, <1>4, SyncUpgrade DEF Reboot, WriteBack
  <1>5. CASE PowerLoss /\ booted' = booted
    BY <1>1, <1>5, UnseenUpgrade DEF PowerLoss
  <1>6. CASE DriftOrder \/ DriftTree
    BY <1>1, <1>6, DriftElsewhere, UnseenUpgrade
  <1> QED BY <1>2, <1>3, <1>4, <1>5, <1>6, OnlyMachine DEF WriteBack

LEMMA FailureUpgrade ==
    ASSUME NEW p \in Procs, Fails(p) \/ Killed(p)
    PROVE  UpgradeStep
  BY UnseenUpgrade DEF Fails, Killed, Offered, Recorded

LEMMA NextUpgrade ==
    ASSUME Drifts \subseteq Elsewhere, SafeInv, [Next]_vars
    PROVE  UpgradeStep
  <1> USE DEF SafeInv, RestInv
  <1>1. CASE UNCHANGED vars
    BY <1>1, UnseenUpgrade DEF vars, Offered, Recorded
  <1>2. ASSUME NEW p \in Procs, Start(p) \/ Continue(p) PROVE UpgradeStep
    BY <1>2, StartUpgrade, StageUpgrade, BootNextUpgrade, PromoteUpgrade,
       RollbackUpgrade DEF Continue
  <1> QED BY <1>1, <1>2, MachineUpgrade, FailureUpgrade DEF Next

\* Unless other software changes slots, entries or BootNext: every run of the
\* transaction, crashes, failures, reboots and changes elsewhere included, is a run of
\* the abstract upgrade, in which the candidate is durable before an entry offers it,
\* becomes the normal loader only after firmware has booted it, and is removed only when
\* no entry offers it.
THEOREM TransactionIsUpgrade == Drifts \subseteq Elsewhere /\ Spec => ImplementsUpgrade
  <1>1. ASSUME Drifts \subseteq Elsewhere PROVE Spec => ImplementsUpgrade
    <2>1. Init => Upgrade!Init
      BY InitUpgrade
    <2>2. SafeInv /\ [Next]_vars => [Upgrade!Next]_(Upgrade!upgrade)
      BY <1>1, NextUpgrade DEF UpgradeStep
    <2> QED
      BY <1>1, <2>1, <2>2, SafeStays, PTL DEF Spec, ImplementsUpgrade, Upgrade!Spec
  <1> QED BY <1>1
=============================================================================
