--------------------------- MODULE LoaderRollback ---------------------------
(***************************************************************************)
(* rollback_loader and the helpers it calls: put the recorded active       *)
(* loader back, remove the transaction's BootNext, Boot#### entry and      *)
(* candidate, and nothing else.  Every check precedes the first change; a  *)
(* retry starts again from the checks and converges.                       *)
(***************************************************************************)
EXTENDS LoaderBase

\* BootNext selects the candidate, and did not before the transaction.
SelectsCandidate ==
    nvram.next.num = manifest.num /\ manifest.initial.next = NoNext

\* The live BootNext is, byte for byte, the one boot-next recorded.
OwnsLiveNext ==
    /\ manifest.owned /\ manifest.state = "armed"
    /\ nvram.current # manifest.num
    /\ nvram.next = manifest.raw

\* Mutant: the entry must still be there.
EntryRemovable_Present ==
    manifest.num \in Nums /\ nvram.entries[manifest.num] = "cand"

\* A rollback that was interrupted may have deleted the entry already.
EntryRemovable ==
    manifest.num \in Nums /\ nvram.entries[manifest.num] \in {"none", "cand"}

\* _preflight_rollback_ownership
RemovableNvram ==
    /\ nvram.order = manifest.initial.order
    /\ EntriesKept(manifest.initial, nvram)
    /\ EntryRemovable
    /\ IF SelectsCandidate
       THEN OwnsLiveNext /\ intent.op \notin {"promote", "promote_revert"}
       ELSE nvram.next = manifest.initial.next

\* Mutant: an artifact is never recognised, not even under the rollback intent.
ArtifactsRecognised_Never == esp.quar = "absent" /\ esp.rtemp = "absent"

\* What an earlier rollback left behind is recognised only under its intent.
ArtifactsRecognised ==
    /\ esp.quar # "absent" \/ esp.rtemp # "absent" => intent.op = "rollback"
    /\ esp.quar # "absent" => esp.cand = "absent" /\ esp.quar \in {"old", "new"}
    /\ esp.rtemp \in {"absent", "old"}

MayRollback ==
    /\ manifest.state # "none"
    /\ esp.active \in {"absent", "old", "new"}
    /\ ArtifactsRecognised
    /\ RemovableNvram
    /\ esp.cand \in {"absent", "old", "new"}
    /\ ProjectedTreeHash(esp) = manifest.tree

\* Every check, then the rollback intent, whichever intent it replaces.
RollbackStart(p) ==
    /\ pc[p] = "idle" /\ Acquire(p, "rollback_slots")
    /\ MayRollback
    /\ loc' = [loc EXCEPT ![p] = [NoLocal EXCEPT !.flush = (intent.op = "rollback")]]
    /\ IF intent.op = "rollback" THEN UNCHANGED intent
                                 ELSE Record("rollback", NoSnapshot, NoNum)
    /\ UNCHANGED <<esp, disk, tree, nvram, manifest, booted, left>>

-----------------------------------------------------------------------------
(* The active slot.                                                        *)

RollbackExchange(p) ==
    /\ pc[p] = "rollback_slots" /\ Slots(esp) = NewOld
    /\ Goto(p, "rollback_sync")
    /\ esp' = Exchanged(esp)
    /\ UNCHANGED <<disk, tree, nvram, manifest, intent, lock, loc, booted, left>>

\* Mutant: a rollback that need not change the slots goes nowhere.
RollbackSlots_ChangedOnly(p) ==
    /\ pc[p] = "rollback_slots" /\ Slots(esp) # NewOld
    /\ \/ esp.active \in {"absent", "new"} /\ Goto(p, "rollback_restore")
       \/ esp.active = "old" /\ loc[p].flush /\ Goto(p, "rollback_sync")
    /\ UNCHANGED <<esp, disk, tree, nvram, manifest, intent, lock, loc, booted, left>>

\* Mutant: a missing active loader is not restored from the backup.
RollbackSlots_NoRestore(p) ==
    /\ pc[p] = "rollback_slots" /\ Slots(esp) # NewOld
    /\ \/ esp.active = "new" /\ Goto(p, "rollback_restore")
       \/ esp.active = "old" /\ loc[p].flush /\ Goto(p, "rollback_sync")
       \/ esp.active = "old" /\ ~loc[p].flush /\ Goto(p, "rollback_next")
    /\ UNCHANGED <<esp, disk, tree, nvram, manifest, intent, lock, loc, booted, left>>

\* The old loader is not in the candidate slot, or is where it belongs.
RollbackSlots(p) ==
    /\ pc[p] = "rollback_slots" /\ Slots(esp) # NewOld
    /\ \/ esp.active \in {"absent", "new"} /\ Goto(p, "rollback_restore")
       \/ esp.active = "old" /\ loc[p].flush /\ Goto(p, "rollback_sync")
       \/ esp.active = "old" /\ ~loc[p].flush /\ Goto(p, "rollback_next")
    /\ UNCHANGED <<esp, disk, tree, nvram, manifest, intent, lock, loc, booted, left>>

\* _restore_active_from_backup: a temporary file, then a rename over the slot.
RollbackRestore(p) ==
    /\ pc[p] = "rollback_restore" /\ Goto(p, "rollback_replace")
    /\ esp' = [esp EXCEPT !.rtemp = "old"]
    /\ loc' = [loc EXCEPT ![p].made = (esp.rtemp = "absent")]
    /\ UNCHANGED <<disk, tree, nvram, manifest, intent, lock, booted, left>>

\* As in StageTempFails: a file whose write failed stays.
RollbackRestoreFails(p) ==
    /\ pc[p] = "rollback_restore" /\ esp.rtemp = "absent"
    /\ left.fail > 0 /\ left' = [left EXCEPT !.fail = @ - 1]
    /\ \E c \in {"partial", "old"} : esp' = [esp EXCEPT !.rtemp = c]
    /\ Release(p)
    /\ UNCHANGED <<disk, tree, nvram, manifest, intent, loc, booted>>

RollbackReplace(p) ==
    /\ pc[p] = "rollback_replace" /\ Goto(p, "rollback_sync")
    /\ esp' = [esp EXCEPT !.active = "old", !.rtemp = "absent"]
    /\ UNCHANGED <<disk, tree, nvram, manifest, intent, lock, loc, booted, left>>

RollbackReplaceFails(p) ==
    /\ pc[p] = "rollback_replace"
    /\ left.fail > 0 /\ left' = [left EXCEPT !.fail = @ - 1]
    /\ esp' = IF loc[p].made THEN [esp EXCEPT !.rtemp = "absent"] ELSE esp
    /\ Release(p)
    /\ UNCHANGED <<disk, tree, nvram, manifest, intent, loc, booted>>

RollbackSync(p) ==
    /\ pc[p] = "rollback_sync" /\ Goto(p, "rollback_next")
    /\ disk' = esp
    /\ UNCHANGED <<esp, tree, nvram, manifest, intent, lock, loc, booted, left>>

-----------------------------------------------------------------------------
(* _cleanup_owned_nvram.                                                   *)

RollbackClearNext(p) ==
    /\ pc[p] = "rollback_next" /\ SelectsCandidate /\ OwnsLiveNext
    /\ Goto(p, "rollback_cleared")
    /\ nvram' = [nvram EXCEPT !.next = NoNext]
    /\ UNCHANGED <<esp, disk, tree, manifest, intent, lock, loc, booted, left>>

\* Mutant: the candidate is removed and its entry forgotten.
RollbackKeepNext_ForgetsEntry(p) ==
    /\ pc[p] = "rollback_next" /\ ~(SelectsCandidate /\ OwnsLiveNext)
    /\ Goto(p, "rollback_candidate")
    /\ loc' = [loc EXCEPT ![p].clash = (nvram.next # manifest.initial.next)]
    /\ UNCHANGED <<esp, disk, tree, nvram, manifest, intent, lock, booted, left>>

\* Not the transaction's BootNext: left alone, and a conflict unless it was there before.
RollbackKeepNext(p) ==
    /\ pc[p] = "rollback_next" /\ ~(SelectsCandidate /\ OwnsLiveNext)
    /\ Goto(p, "rollback_entry")
    /\ loc' = [loc EXCEPT ![p].clash = (nvram.next # manifest.initial.next)]
    /\ UNCHANGED <<esp, disk, tree, nvram, manifest, intent, lock, booted, left>>

\* BootNext must be gone; it may have been set again since.
RollbackCleared(p) ==
    /\ pc[p] = "rollback_cleared"
    /\ \/ nvram.next = NoNext /\ Goto(p, "rollback_entry") /\ UNCHANGED lock
       \/ nvram.next # NoNext /\ Release(p)
    /\ UNCHANGED <<esp, disk, tree, nvram, manifest, intent, loc, booted, left>>

RollbackDeleteEntry(p) ==
    /\ pc[p] = "rollback_entry" /\ nvram.entries[manifest.num] = "cand"
    /\ Goto(p, "rollback_candidate")
    /\ nvram' = [nvram EXCEPT !.entries[manifest.num] = "none"]
    /\ UNCHANGED <<esp, disk, tree, manifest, intent, lock, loc, booted, left>>

RollbackKeepEntry(p) ==
    /\ pc[p] = "rollback_entry" /\ nvram.entries[manifest.num] # "cand"
    /\ Goto(p, "rollback_candidate")
    /\ loc' = [loc EXCEPT ![p].clash =
                   @ \/ nvram.entries[manifest.num] # "none"]
    /\ UNCHANGED <<esp, disk, tree, nvram, manifest, intent, lock, booted, left>>

-----------------------------------------------------------------------------
(* _remove_owned_candidate: quarantine by rename, then unlink.             *)

RollbackQuarantine(p) ==
    /\ pc[p] = "rollback_candidate" /\ esp.quar = "absent"
    /\ esp.cand \in {"old", "new"}
    /\ Goto(p, "rollback_unlink")
    /\ esp' = [esp EXCEPT !.quar = esp.cand, !.cand = "absent"]
    /\ loc' = [loc EXCEPT ![p].made = TRUE]
    /\ UNCHANGED <<disk, tree, nvram, manifest, intent, lock, booted, left>>

RollbackQuarantined(p) ==
    /\ pc[p] = "rollback_candidate" /\ esp.quar # "absent"
    /\ Goto(p, "rollback_unlink")
    /\ loc' = [loc EXCEPT ![p].made = FALSE]
    /\ UNCHANGED <<esp, disk, tree, nvram, manifest, intent, lock, booted, left>>

RollbackNoCandidate(p) ==
    /\ pc[p] = "rollback_candidate" /\ esp.quar = "absent" /\ esp.cand = "absent"
    /\ Goto(p, "rollback_manifest")
    /\ UNCHANGED <<esp, disk, tree, nvram, manifest, intent, lock, loc, booted, left>>

RollbackUnlink(p) ==
    /\ pc[p] = "rollback_unlink" /\ Goto(p, "rollback_flush")
    /\ esp' = [esp EXCEPT !.quar = "absent"]
    /\ UNCHANGED <<disk, tree, nvram, manifest, intent, lock, loc, booted, left>>

\* A candidate this call moved is moved back.
RollbackUnlinkFails(p) ==
    /\ pc[p] = "rollback_unlink"
    /\ left.fail > 0 /\ left' = [left EXCEPT !.fail = @ - 1]
    /\ IF loc[p].made
       THEN /\ esp' = [esp EXCEPT !.cand = esp.quar, !.quar = "absent"]
            /\ disk' = esp'
       ELSE UNCHANGED <<esp, disk>>
    /\ Release(p)
    /\ UNCHANGED <<tree, nvram, manifest, intent, loc, booted>>

\* Mutant: the removal is recorded before it is durable.
RollbackFlush_Skipped(p) ==
    /\ pc[p] = "rollback_flush" /\ Goto(p, "rollback_manifest")
    /\ UNCHANGED <<esp, disk, tree, nvram, manifest, intent, lock, loc, booted, left>>

RollbackFlush(p) ==
    /\ pc[p] = "rollback_flush" /\ Goto(p, "rollback_manifest")
    /\ disk' = esp
    /\ UNCHANGED <<esp, tree, nvram, manifest, intent, lock, loc, booted, left>>

-----------------------------------------------------------------------------
(* The verdict.                                                            *)

\* The code raises when the tree is not the recorded one; RunnerCanStep shows that the
\* checks of RollbackStart leave no way there.
RollbackManifest(p) ==
    /\ pc[p] = "rollback_manifest"
    /\ ~loc[p].clash /\ TreeHash(esp) = manifest.tree
    /\ Goto(p, "rollback_clear")
    /\ manifest' = [manifest EXCEPT !.state = "rolled_back", !.owned = FALSE,
                                    !.raw = NoNext]
    /\ UNCHANGED <<esp, disk, tree, nvram, intent, lock, loc, booted, left>>

\* A foreign variable was preserved: the intent stays for a retry.
RollbackPartial(p) ==
    /\ pc[p] = "rollback_manifest" /\ loc[p].clash
    /\ Release(p)
    /\ manifest' = [manifest EXCEPT !.state = "rollback_partial"]
    /\ UNCHANGED <<esp, disk, tree, nvram, intent, loc, booted, left>>

RollbackClear(p) ==
    /\ pc[p] = "rollback_clear" /\ Release(p)
    /\ intent' = NoIntent
    /\ UNCHANGED <<esp, disk, tree, nvram, manifest, loc, booted, left>>

RollbackStep(p) ==
    \/ RollbackExchange(p) \/ RollbackSlots(p) \/ RollbackRestore(p)
    \/ RollbackRestoreFails(p) \/ RollbackReplace(p) \/ RollbackReplaceFails(p)
    \/ RollbackSync(p) \/ RollbackClearNext(p) \/ RollbackKeepNext(p)
    \/ RollbackCleared(p) \/ RollbackDeleteEntry(p) \/ RollbackKeepEntry(p)
    \/ RollbackQuarantine(p) \/ RollbackQuarantined(p) \/ RollbackNoCandidate(p)
    \/ RollbackUnlink(p) \/ RollbackUnlinkFails(p) \/ RollbackFlush(p)
    \/ RollbackManifest(p) \/ RollbackPartial(p) \/ RollbackClear(p)
=============================================================================
