---------------------------- MODULE LoaderDeploy ----------------------------
(***************************************************************************)
(* The loader transaction as a whole: cooperating invocations of stage,    *)
(* boot-next, promote and rollback serialized by the ESP lock, the         *)
(* firmware that consumes BootNext at a reboot, system calls that fail,    *)
(* processes that are killed, power that fails, and other privileged       *)
(* software that changes what the transaction relies on.                   *)
(***************************************************************************)
EXTENDS LoaderStage, LoaderBootNext, LoaderPromote, LoaderRollback

Idle(p) == pc[p] = "idle"

-----------------------------------------------------------------------------
(* Firmware and power.                                                     *)

Bootable(slot) == slot \in {"old", "new"}

\* BootNext is consumed.  Its entry runs, or firmware falls back to BootOrder; the
\* candidate's entries run whatever the candidate slot of `e` holds.
Firmware(e) ==
    \E n \in Nums :
        /\ nvram.entries[n] # "none"
        /\ \/ n \in Normal
           \/ n = nvram.next.num /\ (nvram.entries[n] = "cand" => Bootable(e.cand))
        /\ nvram' = [nvram EXCEPT !.next = NoNext, !.current = n]
        /\ booted' = (booted \/ (nvram.entries[n] = "cand" /\ e.cand = "new"))

Reboot ==
    /\ \A p \in Procs : Idle(p)
    /\ left.boot > 0 /\ left' = [left EXCEPT !.boot = @ - 1]
    /\ Firmware(esp)
    /\ disk' = esp
    /\ UNCHANGED <<esp, tree, manifest, intent, lock, pc, loc>>

\* What the kernel has not written back is lost; manifest.json and intent.json are
\* synced by the very calls that write them.
PowerLoss ==
    /\ left.crash > 0 /\ left' = [left EXCEPT !.crash = @ - 1]
    /\ esp' = disk
    /\ Firmware(disk)
    /\ lock' = NoProc
    /\ pc' = [p \in Procs |-> "idle"]
    /\ UNCHANGED <<disk, tree, manifest, intent, loc>>

WriteBack ==
    /\ disk # esp /\ disk' = esp
    /\ UNCHANGED <<esp, tree, nvram, manifest, intent, lock, pc, loc, booted, left>>

-----------------------------------------------------------------------------
(* Failures of an invocation.                                              *)

\* The kernel drops the lock of a killed process; a file it was writing stays partial.
Killed(p) ==
    /\ ~Idle(p)
    /\ left.crash > 0 /\ left' = [left EXCEPT !.crash = @ - 1]
    /\ Goto(p, "idle")
    /\ lock' = IF lock = p THEN NoProc ELSE lock
    /\ \/ UNCHANGED esp
       \/ /\ pc[p] = "stage_temp" /\ ~SlotTaken(p) /\ esp.temp = "absent"
          /\ esp' = [esp EXCEPT !.temp = "partial"]
       \/ /\ pc[p] = "rollback_restore" /\ esp.rtemp = "absent"
          /\ esp' = [esp EXCEPT !.rtemp = "partial"]
    /\ UNCHANGED <<disk, tree, nvram, manifest, intent, loc, booted>>

\* Where a failing call has consequences of its own.
OwnFailure == FinishPcs \cup {"stage_rename", "next_set", "rollback_replace",
                              "rollback_unlink"}

\* A read, a write or a command fails before it takes effect; the exception leaves the
\* operation.  (One that fails after its effect is this, one step later.)
Fails(p) ==
    /\ pc[p] \in Locked \ OwnFailure
    /\ left.fail > 0 /\ left' = [left EXCEPT !.fail = @ - 1]
    /\ Release(p)
    /\ UNCHANGED <<esp, disk, tree, nvram, manifest, intent, loc, booted>>

-----------------------------------------------------------------------------
(* Other privileged software.                                              *)

Drift(kind) ==
    /\ kind \in Drifts
    /\ left.drift > 0 /\ left' = [left EXCEPT !.drift = @ - 1]

Quiet == \A p \in Procs : Idle(p)

\* A BootNext that appears while an operation runs: the one concurrent change the
\* exclusive create of BootNext guards against.
DriftNext ==
    /\ Drift("next") /\ nvram.next = NoNext
    /\ \E n \in Nums, std \in BOOLEAN :
         /\ nvram.entries[n] # "none"
         /\ nvram' = [nvram EXCEPT !.next = [num |-> n, std |-> std]]
    /\ UNCHANGED <<esp, disk, tree, manifest, intent, lock, pc, loc, booted>>

DriftOrder ==
    /\ Drift("order") /\ Quiet
    /\ nvram' = [nvram EXCEPT !.order =
                    IF @ = "initial" THEN "changed" ELSE "initial"]
    /\ UNCHANGED <<esp, disk, tree, manifest, intent, lock, pc, loc, booted>>

\* An entry is added, replaced, or (one that BootOrder does not name) deleted.
DriftEntry ==
    /\ Drift("entry") /\ Quiet
    /\ \E n \in Nums, raw \in {"none", "cand", "other"} :
         /\ raw = "none" => n \notin Normal /\ n # nvram.current
         /\ raw = "cand" => nvram.entries[n] = "none"
         /\ nvram' = [nvram EXCEPT !.entries[n] = raw]
    /\ UNCHANGED <<esp, disk, tree, manifest, intent, lock, pc, loc, booted>>

DriftTree ==
    /\ Drift("tree") /\ Quiet
    /\ tree' = "changed"
    /\ UNCHANGED <<esp, disk, nvram, manifest, intent, lock, pc, loc, booted>>

\* A loader slot is overwritten or deleted.
DriftSlot ==
    /\ Drift("slot") /\ Quiet
    /\ \E c \in {"absent", "other"} :
         \/ esp' = [esp EXCEPT !.active = c]
         \/ esp' = [esp EXCEPT !.cand = c]
    /\ disk' = esp'
    /\ UNCHANGED <<tree, nvram, manifest, intent, lock, pc, loc, booted>>

\* A file appears in the candidate slot while a stage waits for the lock.
DriftRace ==
    /\ Drift("race") /\ lock = NoProc /\ esp.cand = "absent"
    /\ esp' = [esp EXCEPT !.cand = "other"]
    /\ disk' = esp'
    /\ UNCHANGED <<tree, nvram, manifest, intent, lock, pc, loc, booted>>

-----------------------------------------------------------------------------
\* A machine that booted the old loader normally; BootNext may already be set.
Init ==
    /\ esp = [active |-> "old", cand |-> "absent", temp |-> "absent",
              quar |-> "absent", rtemp |-> "absent"]
    /\ disk = esp
    /\ tree = "initial"
    /\ \E next \in InitialNext, current \in Normal :
         nvram = [order |-> "initial",
                  entries |-> [n \in Nums |-> IF n \in Normal THEN "initial" ELSE "none"],
                  next |-> StdNext(next), current |-> current]
    /\ manifest = [state |-> "none", initial |-> NoSnapshot,
                   tree |-> [esp |-> esp, rest |-> tree], num |-> NoNum,
                   owned |-> FALSE, raw |-> NoNext]
    /\ intent = NoIntent
    /\ lock = NoProc
    /\ pc = [p \in Procs |-> "idle"]
    /\ loc = [p \in Procs |-> NoLocal]
    /\ booted = FALSE
    /\ left = [crash |-> MaxCrash, fail |-> MaxFail, drift |-> MaxDrift,
               boot |-> MaxBoot]

Start(p) ==
    \/ StageEnter(p) \/ NextStart(p) \/ NextAdopt(p) \/ PromoteStart(p)
    \/ PromoteResume(p) \/ PromoteRevert(p) \/ RollbackStart(p)

\* A step inside an invocation that has started.
Continue(p) == StageStep(p) \/ NextStep(p) \/ PromoteStep(p) \/ RollbackStep(p)

Environment ==
    \/ Reboot \/ PowerLoss \/ WriteBack
    \/ DriftNext \/ DriftOrder \/ DriftEntry \/ DriftTree \/ DriftSlot \/ DriftRace

Next ==
    \/ \E p \in Procs : Start(p) \/ Continue(p) \/ Fails(p) \/ Killed(p)
    \/ Environment

Spec == Init /\ [][Next]_vars
=============================================================================
