--------------------------- MODULE LoaderPromote ----------------------------
(***************************************************************************)
(* promote_loader, _finish_promotion and _reverse_failed_promotion:        *)
(* exchange the active and the candidate slot after firmware booted the    *)
(* candidate's entry, verify the result, and exchange back when anything   *)
(* after the exchange fails.                                               *)
(***************************************************************************)
EXTENDS LoaderBase

\* Mutant: BootCurrent is not asked.
Authorized_AnyBoot == intent.op # "none" => intent.auth = manifest.num

\* A fresh call needs the candidate to be running; a retry relies on the
\* authorization its intent recorded.
Authorized ==
    IF intent.op = "none"
    THEN nvram.current = manifest.num /\ nvram.next = manifest.initial.next
    ELSE intent.auth = manifest.num

MayPromote ==
    /\ manifest.state # "none"
    /\ OwnsNvram(manifest, nvram)
    /\ intent.op \in {"none", "promote", "promote_revert"}
    /\ Authorized

\* The slots are as staged: declare the promotion, or take up one that never exchanged.
PromoteStart(p) ==
    /\ pc[p] = "idle" /\ Acquire(p, "promote_exchange")
    /\ MayPromote /\ intent.op # "promote_revert" /\ Slots(esp) = OldNew
    /\ IF intent.op = "none" THEN Record("promote", NoSnapshot, manifest.num)
                             ELSE UNCHANGED intent
    /\ UNCHANGED <<esp, disk, tree, nvram, manifest, loc, booted, left>>

\* The slots are already exchanged: a crashed promotion, or one that is done.
PromoteResume(p) ==
    /\ pc[p] = "idle" /\ Acquire(p, "finish_sync")
    /\ MayPromote /\ intent.op # "promote_revert" /\ Slots(esp) = NewOld
    /\ UNCHANGED <<esp, disk, tree, nvram, manifest, intent, loc, booted, left>>

\* A reversal was interrupted: before the second exchange, or after it.
PromoteRevert(p) ==
    /\ pc[p] = "idle"
    /\ MayPromote /\ intent.op = "promote_revert"
    /\ \/ Slots(esp) = NewOld /\ Acquire(p, "revert_intent")
       \/ Slots(esp) = OldNew /\ Acquire(p, "revert_sync")
    /\ UNCHANGED <<esp, disk, tree, nvram, manifest, intent, loc, booted, left>>

\* Whatever the command reports, the slots decide.
PromoteExchange(p) ==
    /\ pc[p] = "promote_exchange" /\ Goto(p, "finish_sync")
    /\ esp' = Exchanged(esp)
    /\ UNCHANGED <<disk, tree, nvram, manifest, intent, lock, loc, booted, left>>

\* Mutant: the exchange is recorded before it is durable.
FinishSync_Skipped(p) ==
    /\ pc[p] = "finish_sync" /\ Goto(p, "finish_manifest")
    /\ UNCHANGED <<esp, disk, tree, nvram, manifest, intent, lock, loc, booted, left>>

FinishSync(p) ==
    /\ pc[p] = "finish_sync" /\ Goto(p, "finish_manifest")
    /\ disk' = esp
    /\ UNCHANGED <<esp, tree, nvram, manifest, intent, lock, loc, booted, left>>

Finished == Slots(esp) = NewOld /\ OwnsNvram(manifest, nvram)

Settled(m, state) == [m EXCEPT !.state = state, !.owned = FALSE, !.raw = NoNext]

FinishManifest(p) ==
    /\ pc[p] = "finish_manifest" /\ Finished
    /\ Goto(p, "finish_clear")
    /\ manifest' = Settled(manifest, "promoted")
    /\ UNCHANGED <<esp, disk, tree, nvram, intent, lock, loc, booted, left>>

FinishRefused(p) ==
    /\ pc[p] = "finish_manifest" /\ ~Finished
    /\ Goto(p, "revert_intent")
    /\ UNCHANGED <<esp, disk, tree, nvram, manifest, intent, lock, loc, booted, left>>

FinishClear(p) ==
    /\ pc[p] = "finish_clear" /\ Release(p)
    /\ intent' = NoIntent
    /\ UNCHANGED <<esp, disk, tree, nvram, manifest, loc, booted, left>>

\* Any failure after the exchange, the verifier's included, reverses it.
FinishFails(p) ==
    /\ pc[p] \in FinishPcs
    /\ left.fail > 0 /\ left' = [left EXCEPT !.fail = @ - 1]
    /\ Goto(p, "revert_intent")
    /\ UNCHANGED <<esp, disk, tree, nvram, manifest, intent, lock, loc, booted>>

\* The intent is unlinked, and the fsync that follows fails.
FinishClearFails(p) ==
    /\ pc[p] = "finish_clear"
    /\ left.fail > 0 /\ left' = [left EXCEPT !.fail = @ - 1]
    /\ Goto(p, "revert_intent")
    /\ intent' = NoIntent
    /\ UNCHANGED <<esp, disk, tree, nvram, manifest, lock, loc, booted>>

\* The new intent keeps the authorization of the one it replaces, if it has any.
RevertIntent(p) ==
    /\ pc[p] = "revert_intent" /\ Goto(p, "revert_exchange")
    /\ Record("promote_revert", NoSnapshot, intent.auth)
    /\ UNCHANGED <<esp, disk, tree, nvram, manifest, lock, loc, booted, left>>

RevertExchange(p) ==
    /\ pc[p] = "revert_exchange"
    /\ esp' = Exchanged(esp)
    /\ IF Slots(esp') = OldNew
       THEN Goto(p, "revert_sync") /\ UNCHANGED lock
       ELSE Release(p)
    /\ UNCHANGED <<disk, tree, nvram, manifest, intent, loc, booted, left>>

RevertSync(p) ==
    /\ pc[p] = "revert_sync" /\ Goto(p, "revert_manifest")
    /\ disk' = esp
    /\ UNCHANGED <<esp, tree, nvram, manifest, intent, lock, loc, booted, left>>

RevertManifest(p) ==
    /\ pc[p] = "revert_manifest" /\ Goto(p, "revert_clear")
    /\ manifest' = Settled(manifest, "promotion_failed")
    /\ UNCHANGED <<esp, disk, tree, nvram, intent, lock, loc, booted, left>>

\* The reversal is complete; the call still raises the error that caused it.
RevertClear(p) ==
    /\ pc[p] = "revert_clear" /\ Release(p)
    /\ intent' = NoIntent
    /\ UNCHANGED <<esp, disk, tree, nvram, manifest, loc, booted, left>>

PromoteStep(p) ==
    \/ PromoteExchange(p) \/ FinishSync(p) \/ FinishManifest(p) \/ FinishRefused(p)
    \/ FinishClear(p) \/ FinishFails(p) \/ FinishClearFails(p) \/ RevertIntent(p)
    \/ RevertExchange(p) \/ RevertSync(p) \/ RevertManifest(p) \/ RevertClear(p)
=============================================================================
