--------------------------- MODULE LoaderBootNext ---------------------------
(***************************************************************************)
(* set_candidate_boot_next and the backend's set_boot_next: select the     *)
(* candidate's entry for one boot, without overwriting a BootNext that     *)
(* somebody else set.                                                      *)
(***************************************************************************)
EXTENDS LoaderBase

\* Mutant: the Boot number is recorded where the raw variable belongs.
Armed_NumberOnly(m, raw) ==
    [m EXCEPT !.state = "armed", !.owned = TRUE, !.raw = raw.num]

Armed(m, raw) == [m EXCEPT !.state = "armed", !.owned = TRUE, !.raw = raw]

\* Pending and BootNext existence are tested apart: see NextStart and NextAdopt.
MayArm ==
    /\ manifest.state # "none"
    /\ OwnsVariables(manifest, nvram)
    /\ Slots(esp) = OldNew
    /\ intent.op \in {"none", "set_boot_next"}
    /\ intent.op = "set_boot_next" => intent.before.order = nvram.order

NextStart(p) ==
    /\ pc[p] = "idle" /\ Acquire(p, "next_set")
    /\ MayArm /\ nvram.next = NoNext
    /\ IF intent.op = "none" THEN Record("set_boot_next", nvram, NoNum)
                             ELSE UNCHANGED intent
    /\ UNCHANGED <<esp, disk, tree, nvram, manifest, loc, booted, left>>

\* A retry finds the BootNext its predecessor wrote and did not record.
NextAdopt(p) ==
    /\ pc[p] = "idle" /\ Acquire(p, "next_clear")
    /\ MayArm /\ intent.op = "set_boot_next"
    /\ nvram.next = StdNext(manifest.num)
    /\ manifest' = Armed(manifest, nvram.next)
    /\ UNCHANGED <<esp, disk, tree, nvram, intent, loc, booted, left>>

\* Mutant: the variable is written without O_EXCL.
NextSet_Overwrites(p) ==
    /\ pc[p] = "next_set"
    /\ Goto(p, "next_readback")
    /\ nvram' = [nvram EXCEPT !.next = StdNext(manifest.num)]
    /\ UNCHANGED <<esp, disk, tree, manifest, intent, lock, loc, booted, left>>

\* O_EXCL: the variable is created only where there is none.
NextSet(p) ==
    /\ pc[p] = "next_set" /\ nvram.next = NoNext
    /\ Goto(p, "next_readback")
    /\ nvram' = [nvram EXCEPT !.next = StdNext(manifest.num)]
    /\ UNCHANGED <<esp, disk, tree, manifest, intent, lock, loc, booted, left>>

\* FileExistsError: the conflict is definite, so the intent is dropped.
NextConflict(p) ==
    /\ pc[p] = "next_set" /\ nvram.next # NoNext
    /\ Goto(p, "next_conflict")
    /\ UNCHANGED <<esp, disk, tree, nvram, manifest, intent, lock, loc, booted, left>>

NextConflictClear(p) ==
    /\ pc[p] = "next_conflict" /\ Release(p)
    /\ intent' = NoIntent
    /\ UNCHANGED <<esp, disk, tree, nvram, manifest, loc, booted, left>>

\* The write fails and is undone; what happened is decided by reading back.
NextSetFails(p) ==
    /\ pc[p] = "next_set"
    /\ left.fail > 0 /\ left' = [left EXCEPT !.fail = @ - 1]
    /\ Goto(p, "next_readback")
    /\ UNCHANGED <<esp, disk, tree, nvram, manifest, intent, lock, loc, booted>>

ReadBackArmed ==
    /\ nvram.order = intent.before.order
    /\ nvram.next.num = manifest.num
    /\ OwnsNvram(Armed(manifest, nvram.next), nvram)

NextReadBack(p) ==
    /\ pc[p] = "next_readback" /\ ReadBackArmed
    /\ Goto(p, "next_clear")
    /\ manifest' = Armed(manifest, nvram.next)
    /\ UNCHANGED <<esp, disk, tree, nvram, intent, lock, loc, booted, left>>

NextReadBackRefused(p) ==
    /\ pc[p] = "next_readback" /\ ~ReadBackArmed
    /\ Raise(p)

NextClear(p) ==
    /\ pc[p] = "next_clear" /\ Release(p)
    /\ intent' = NoIntent
    /\ UNCHANGED <<esp, disk, tree, nvram, manifest, loc, booted, left>>

NextStep(p) ==
    \/ NextSet(p) \/ NextConflict(p) \/ NextConflictClear(p) \/ NextSetFails(p)
    \/ NextReadBack(p) \/ NextReadBackRefused(p) \/ NextClear(p)
=============================================================================
