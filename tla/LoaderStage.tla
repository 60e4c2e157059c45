---------------------------- MODULE LoaderStage -----------------------------
(***************************************************************************)
(* stage_loader and _resume_stage: back up the active loader, publish the  *)
(* candidate in its alternate slot, create a Boot#### entry for it that    *)
(* BootOrder does not name, and record all of it, each step under an       *)
(* intent that a later call resumes from.                                  *)
(*                                                                         *)
(* The first call to stage fixes which bytes are "new"; a later call with  *)
(* another candidate is refused before it changes anything and has no      *)
(* action here.                                                            *)
(***************************************************************************)
EXTENDS LoaderBase

HasTransaction == manifest.state # "none"

\* Before the lock: read the active loader; without a transaction it must be a known
\* loader and the candidate slot must be free.
StageEnter(p) ==
    /\ pc[p] = "idle"
    /\ esp.active # "absent"
    /\ ~HasTransaction => esp.active = "old" /\ esp.cand = "absent"
    /\ Goto(p, "stage_wait")
    /\ loc' = [loc EXCEPT ![p] = [NoLocal EXCEPT !.saw = esp.active]]
    /\ UNCHANGED <<esp, disk, tree, nvram, manifest, intent, lock, booted, left>>

\* Mutant: the search for a transaction is not repeated under the lock.
MayBegin_NotRechecked(p) ==
    esp.active = loc[p].saw /\ ValidBootReferences(nvram)

MayBegin(p) ==
    /\ ~HasTransaction
    /\ esp.active = loc[p].saw
    /\ ValidBootReferences(nvram)

\* The lock is held and there is no transaction: the backup and the first manifest.
\* Without the manifest, the directory and the backup in it are not a transaction.
StageBegin(p) ==
    /\ pc[p] = "stage_wait" /\ Acquire(p, "stage_intent")
    /\ MayBegin(p)
    /\ manifest' = [state |-> "backup_ready", initial |-> nvram,
                    tree |-> TreeHash(esp), num |-> NoNum, owned |-> FALSE,
                    raw |-> NoNext]
    /\ UNCHANGED <<esp, disk, tree, nvram, intent, loc, booted, left>>

PublishPending ==
    intent.op = "publish_candidate" \/ manifest.state = "backup_ready"

MayResume ==
    /\ HasTransaction
    /\ esp.active = "old"
    /\ intent.op \in {"none", "publish_candidate", "create_entry"}
    /\ ~PublishPending => esp.cand = "new"

\* The lock is held and there is a transaction: where _resume_stage takes it up.
StageResume(p) ==
    /\ pc[p] = "stage_wait"
    /\ MayResume
    /\ \/ ~PublishPending /\ Acquire(p, "stage_inspect")
       \/ PublishPending /\ intent.op = "none" /\ Acquire(p, "stage_intent")
       \/ PublishPending /\ intent.op # "none" /\ Acquire(p, "stage_temp")
    /\ loc' = [loc EXCEPT ![p].resume = TRUE]
    /\ UNCHANGED <<esp, disk, tree, nvram, manifest, intent, booted, left>>

\* Under the lock, what was read before it no longer holds: the call raises.
StageRefused(p) ==
    /\ pc[p] = "stage_wait" /\ lock = NoProc
    /\ ~MayBegin(p) /\ ~MayResume
    /\ Goto(p, "idle")
    /\ UNCHANGED <<esp, disk, tree, nvram, manifest, intent, lock, loc, booted, left>>

StageIntent(p) ==
    /\ pc[p] = "stage_intent" /\ Goto(p, "stage_temp")
    /\ Record("publish_candidate", NoSnapshot, NoNum)
    /\ UNCHANGED <<esp, disk, tree, nvram, manifest, lock, loc, booted, left>>

-----------------------------------------------------------------------------
(* _publish_candidate, and what _resume_stage does in its place when the   *)
(* slot is already taken.                                                  *)

\* Mutant: a resumed call publishes again whatever the slot holds.
SlotTaken_Ignored(p) == FALSE

SlotTaken(p) == loc[p].resume /\ esp.cand # "absent"

StageKeepSlot(p) ==
    /\ pc[p] = "stage_temp" /\ SlotTaken(p)
    /\ esp.temp \in {"absent", "new"}
    /\ esp' = [esp EXCEPT !.temp = "absent"]
    /\ \/ esp.cand = "new" /\ Goto(p, "stage_sync") /\ UNCHANGED lock
       \/ esp.cand # "new" /\ Release(p)
    /\ UNCHANGED <<disk, tree, nvram, manifest, intent, loc, booted, left>>

StageWriteTemp(p) ==
    /\ pc[p] = "stage_temp" /\ ~SlotTaken(p)
    /\ esp.temp \in {"absent", "new"}
    /\ Goto(p, "stage_rename")
    /\ esp' = [esp EXCEPT !.temp = "new"]
    /\ loc' = [loc EXCEPT ![p].made = (esp.temp = "absent")]
    /\ UNCHANGED <<disk, tree, nvram, manifest, intent, lock, booted, left>>

\* "foreign candidate temporary file preserved"
StageTempForeign(p) ==
    /\ pc[p] = "stage_temp" /\ esp.temp \notin {"absent", "new"}
    /\ Raise(p)

\* open, write or fsync of the temporary fails: the file that was created stays,
\* because the caller learns that it created one only when all three succeed.
StageTempFails(p) ==
    /\ pc[p] = "stage_temp" /\ ~SlotTaken(p) /\ esp.temp = "absent"
    /\ left.fail > 0 /\ left' = [left EXCEPT !.fail = @ - 1]
    /\ \E c \in {"absent", "partial", "new"} : esp' = [esp EXCEPT !.temp = c]
    /\ Release(p)
    /\ UNCHANGED <<disk, tree, nvram, manifest, intent, loc, booted>>

StageRename(p) ==
    /\ pc[p] = "stage_rename" /\ Goto(p, "stage_sync")
    /\ esp' = [esp EXCEPT !.cand = "new", !.temp = "absent"]
    /\ UNCHANGED <<disk, tree, nvram, manifest, intent, lock, loc, booted, left>>

\* The verifier or the rename fails; a temporary file this call made is removed.
StageRenameFails(p) ==
    /\ pc[p] = "stage_rename"
    /\ left.fail > 0 /\ left' = [left EXCEPT !.fail = @ - 1]
    /\ esp' = IF loc[p].made THEN [esp EXCEPT !.temp = "absent"] ELSE esp
    /\ Release(p)
    /\ UNCHANGED <<disk, tree, nvram, manifest, intent, loc, booted>>

\* Mutant: the candidate is published without a sync.
StageSync_Skipped(p) ==
    /\ pc[p] = "stage_sync" /\ Goto(p, "stage_published")
    /\ UNCHANGED <<esp, disk, tree, nvram, manifest, intent, lock, loc, booted, left>>

\* fsync of the directory, then syncfs of the ESP.
StageSync(p) ==
    /\ pc[p] = "stage_sync" /\ Goto(p, "stage_published")
    /\ disk' = esp
    /\ UNCHANGED <<esp, tree, nvram, manifest, intent, lock, loc, booted, left>>

StagePublished(p) ==
    /\ pc[p] = "stage_published" /\ Goto(p, "stage_clear")
    /\ manifest' = [manifest EXCEPT !.state = "candidate_published"]
    /\ UNCHANGED <<esp, disk, tree, nvram, intent, lock, loc, booted, left>>

StageClear(p) ==
    /\ pc[p] = "stage_clear" /\ Goto(p, "stage_inspect")
    /\ intent' = NoIntent
    /\ UNCHANGED <<esp, disk, tree, nvram, manifest, lock, loc, booted, left>>

-----------------------------------------------------------------------------
(* The alternate Boot#### entry.                                           *)

\* NVRAM is as it was when the transaction began; a resumed call does not look at
\* BootOrder but validates what the variables refer to.
UnchangedSinceBegin(p) ==
    /\ nvram.entries = manifest.initial.entries
    /\ nvram.next = manifest.initial.next
    /\ IF loc[p].resume THEN ValidBootReferences(nvram)
                        ELSE nvram.order = manifest.initial.order

MayDeclareEntry(p) ==
    /\ manifest.num = NoNum /\ intent.op # "create_entry"
    /\ UnchangedSinceBegin(p)

StageDeclareEntry(p) ==
    /\ pc[p] = "stage_inspect" /\ MayDeclareEntry(p)
    /\ Goto(p, "stage_create")
    /\ Record("create_entry", nvram, NoNum)
    /\ loc' = [loc EXCEPT ![p].declared = TRUE]
    /\ UNCHANGED <<esp, disk, tree, nvram, manifest, lock, booted, left>>

\* A resumed call finds a declared entry that was never created.
MayRetryCreate ==
    /\ manifest.num = NoNum /\ intent.op = "create_entry"
    /\ EntriesKept(intent.before, nvram)
    /\ CreatedSince(intent.before, nvram) = {}
    /\ ValidBootReferences(nvram)

StageRetryCreate(p) ==
    /\ pc[p] = "stage_inspect" /\ MayRetryCreate
    /\ Goto(p, "stage_create")
    /\ UNCHANGED <<esp, disk, tree, nvram, manifest, intent, lock, loc, booted, left>>

\* efibootmgr --create-only takes a number that is free.
StageCreate(p) ==
    /\ pc[p] = "stage_create" /\ Goto(p, "stage_staged")
    /\ \E n \in Nums :
         /\ nvram.entries[n] = "none"
         /\ nvram' = [nvram EXCEPT !.entries[n] = "cand"]
    /\ UNCHANGED <<esp, disk, tree, manifest, intent, lock, loc, booted, left>>

StageCreateFull(p) ==
    /\ pc[p] = "stage_create" /\ \A n \in Nums : nvram.entries[n] # "none"
    /\ Raise(p)

\* What NVRAM is compared with: a call that declared the creation keeps to the record of
\* the beginning, one that found it declared takes over the intent's snapshot.
Baseline(p) == IF loc[p].declared THEN manifest.initial ELSE intent.before

Observed(p, n) ==
    /\ manifest.num = NoNum /\ intent.op = "create_entry"
    /\ CreatedExactly(Baseline(p), nvram, n)

\* The created entry is found, after the command or in a resumed call before it would
\* run again.  The intent is written once more, with the baseline; then the call raises
\* when BootOrder or BootNext are not the baseline's.  (After the command there is exactly
\* one such entry: entries do not change beside a running operation.)
StageObserve(p) ==
    /\ pc[p] \in {"stage_staged", "stage_inspect"}
    /\ \E n \in Nums :
         /\ Observed(p, n)
         /\ \/ /\ CreatedAlone(Baseline(p), nvram, n)
               /\ Goto(p, "stage_record") /\ UNCHANGED lock
            \/ ~CreatedAlone(Baseline(p), nvram, n) /\ Release(p)
    /\ Record("create_entry", Baseline(p), NoNum)
    /\ UNCHANGED <<esp, disk, tree, nvram, manifest, loc, booted, left>>

\* The entry becomes the transaction's.
StageAdopt(p) ==
    /\ pc[p] = "stage_record" /\ Goto(p, "stage_done")
    /\ \E n \in CreatedSince(intent.before, nvram) :
         manifest' = [manifest EXCEPT !.state = "staged", !.num = n]
    /\ UNCHANGED <<esp, disk, tree, nvram, intent, lock, loc, booted, left>>

Incomplete ==
    intent.op # "none" \/ manifest.state \in {"backup_ready", "candidate_published"}

\* A resumed call finds the entry recorded; it completes the record or has nothing to do.
StageConfirm(p) ==
    /\ pc[p] = "stage_inspect" /\ OwnsNvram(manifest, nvram)
    /\ \/ Incomplete /\ Goto(p, "stage_done") /\ UNCHANGED lock
          /\ manifest' = [manifest EXCEPT !.state = "staged"]
       \/ ~Incomplete /\ Release(p) /\ UNCHANGED manifest
    /\ UNCHANGED <<esp, disk, tree, nvram, intent, loc, booted, left>>

StageInspectRefused(p) ==
    /\ pc[p] = "stage_inspect"
    /\ ~MayDeclareEntry(p) /\ ~MayRetryCreate /\ ~(\E n \in Nums : Observed(p, n))
    /\ ~OwnsNvram(manifest, nvram)
    /\ Raise(p)

StageDone(p) ==
    /\ pc[p] = "stage_done" /\ Release(p)
    /\ intent' = NoIntent
    /\ UNCHANGED <<esp, disk, tree, nvram, manifest, loc, booted, left>>

StageStep(p) ==
    \/ StageBegin(p) \/ StageResume(p) \/ StageRefused(p) \/ StageIntent(p)
    \/ StageKeepSlot(p) \/ StageWriteTemp(p) \/ StageTempForeign(p)
    \/ StageTempFails(p) \/ StageRename(p) \/ StageRenameFails(p) \/ StageSync(p)
    \/ StagePublished(p) \/ StageClear(p) \/ StageDeclareEntry(p)
    \/ StageRetryCreate(p) \/ StageCreate(p) \/ StageCreateFull(p)
    \/ StageObserve(p) \/ StageAdopt(p) \/ StageConfirm(p)
    \/ StageInspectRefused(p) \/ StageDone(p)
=============================================================================
