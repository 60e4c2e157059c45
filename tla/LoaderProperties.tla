-------------------------- MODULE LoaderProperties --------------------------
(***************************************************************************)
(* What the loader transaction must guarantee, over LoaderDeploy.          *)
(***************************************************************************)
EXTENDS LoaderDeploy

Recorded == manifest.num \in Nums

\* Nothing is running and nothing is pending.
AtRest == lock = NoProc /\ intent.op = "none"

-----------------------------------------------------------------------------
(* loader_status: what the operator is told.                               *)

RolledBackAsRecorded ==
    /\ nvram.entries[manifest.num] = "none"
    /\ nvram.next = manifest.initial.next
    /\ Slots(esp) = <<"old", "absent">>

StatusChecks ==
    /\ Recorded
    /\ nvram.order = manifest.initial.order
    /\ EntriesKept(manifest.initial, nvram)
    /\ intent.op = "none" =>
         IF manifest.state = "rolled_back"
         THEN RolledBackAsRecorded
         ELSE OwnsNvram(manifest, nvram) /\ Slots(esp) \in {OldNew, NewOld}

\* _observed_state, once the checks passed.
ObservedState ==
    IF Slots(esp) = NewOld THEN "promoted"
    ELSE IF manifest.state = "promotion_failed" THEN "promotion_failed"
    ELSE IF nvram.next.num = manifest.num THEN "armed"
    ELSE IF nvram.current = manifest.num THEN "candidate_booted"
    ELSE IF CandidateBootFellBack(manifest, nvram) THEN "fallback"
    ELSE "staged"

Status ==
    IF ~StatusChecks THEN "refused"
    ELSE IF intent.op # "none" THEN "recovery_required"
    ELSE IF manifest.state = "rolled_back" THEN "rolled_back"
    ELSE ObservedState

-----------------------------------------------------------------------------
(* Safety.                                                                 *)

\* At most one invocation is inside the lock, and it is the one that holds it
\* (_esp_lock): a killed process, a power loss or an exception frees it.
LockHeldByRunner ==
    \A p \in Procs : pc[p] \in Locked <=> lock = p

\* The normal boot entry always starts the old loader, or the new one once firmware has
\* really booted it through its own entry: at every point a power loss may hit, promote
\* never exchanges without that authorization, however often it crashed and was retried.
NormalEntryBoots ==
    \A slot \in {esp.active, disk.active} :
        slot = "old" \/ (slot = "new" /\ booted)

\* While the transaction's Boot#### entry exists, the slot it starts holds a loader, on
\* the medium: the candidate is synced before the entry is created and removed after the
\* entry is deleted.
EntryNeverDangles ==
    Recorded /\ nvram.entries[manifest.num] = "cand" => Bootable(disk.cand)

\* With no operation running and no intent pending, the slots and variables are those
\* the manifest's state stands for, in memory and on the medium: every change is covered
\* by an intent from before it starts until after it is durable.
RestMatchesManifest ==
    AtRest =>
      \A e \in {esp, disk} :
        /\ manifest.state \in {"none", "backup_ready", "rolled_back"} =>
             Slots(e) = <<"old", "absent">>
        /\ manifest.state \in {"candidate_published", "staged", "armed",
                               "promotion_failed"} => Slots(e) = OldNew
        /\ manifest.state = "promoted" => Slots(e) = NewOld
        /\ manifest.state \in {"staged", "armed", "promotion_failed", "promoted"} =>
             Recorded /\ nvram.entries[manifest.num] = "cand"
        /\ manifest.state \in {"none", "rolled_back"} =>
             \A n \in Free : nvram.entries[n] = "none"
        /\ manifest.state # "rollback_partial"

\* A temporary, quarantine or restore file exists, in memory or on the medium, only under
\* the intent that knows its name; otherwise a later rollback would take it for drift.
ArtifactsHaveIntent ==
    \A e \in {esp, disk} :
        /\ e.temp # "absent" => intent.op = "publish_candidate"
        /\ e.quar # "absent" \/ e.rtemp # "absent" => intent.op = "rollback"

\* Once the entry is recorded and firmware has consumed BootNext, rollback is never
\* refused, whatever crashed before: "restore the recorded transaction" (README.md).
RollbackAvailable ==
    lock = NoProc /\ Recorded /\ nvram.next = NoNext => MayRollback

\* The operator can always ask: no crash or failure leaves a recorded transaction whose
\* status is an error.
StatusAnswers ==
    lock = NoProc /\ Recorded => Status # "refused"

\* The answers that lead to an irreversible decision are true: "candidate_booted" (go on
\* to promote) only when firmware ran the candidate, "promoted" and "rolled_back" only
\* when the medium already is.
StatusTruthful ==
    lock = NoProc =>
        /\ Status = "candidate_booted" => booted /\ Slots(disk) = OldNew
        /\ Status = "promoted" => booted /\ Slots(disk) = NewOld
        /\ Status = "rolled_back" =>
             Slots(disk) = <<"old", "absent">> /\ nvram.next # StdNext(manifest.num)

-----------------------------------------------------------------------------
(* Action properties: what a step of the program may never do.             *)

ProgramStep == \E p \in Procs : Start(p) \/ Continue(p)

\* The program changes the EFI variables of nobody else: BootOrder never; an entry only
\* when it did not exist in the recorded snapshot and still holds the candidate's bytes;
\* BootNext only from absent, or back to absent from the value it recorded as its own.
OnlyOwnVariables ==
    /\ nvram'.order = nvram.order /\ nvram'.current = nvram.current
    /\ \A n \in Nums : nvram'.entries[n] # nvram.entries[n] =>
         /\ manifest.initial.entries[n] = "none"
         /\ "cand" \in {nvram.entries[n], nvram'.entries[n]}
         /\ "none" \in {nvram.entries[n], nvram'.entries[n]}
    /\ nvram'.next # nvram.next =>
         \/ nvram.next = NoNext
         \/ nvram'.next = NoNext /\ manifest.owned /\ nvram.next = manifest.raw

OtherVariablesPreserved == [][ProgramStep => OnlyOwnVariables]_vars

\* A rollback reports success only over what stage recorded: BootOrder, every initial
\* entry and every file under EFI/ byte for byte, and no entry for the candidate.
AsFirstRecorded ==
    /\ nvram.order = manifest.initial.order
    /\ \A n \in Nums :
         nvram.entries[n] # manifest.initial.entries[n] =>
             manifest.initial.entries[n] = "none" /\ n # manifest.num
    /\ esp = manifest.tree.esp /\ tree = manifest.tree.rest

RollbackRestoresRecord ==
    [][manifest'.state = "rolled_back" /\ manifest.state # "rolled_back"
           => AsFirstRecorded]_vars

\* Of the invocations that waited for the lock with no transaction in sight, one begins
\* it: the snapshot every later check compares with is written once.
TransactionBegunOnce ==
    [][HasTransaction => /\ manifest'.initial = manifest.initial
                         /\ manifest'.tree = manifest.tree]_vars

\* The program never destroys a file it does not know: a slot that holds other bytes
\* keeps them.
OtherFilesPreserved ==
    [][ProgramStep =>
        /\ esp.active = "other" => esp'.active = "other"
        /\ esp.cand = "other" => esp'.cand = "other"]_vars

\* An invocation inside the lock always has a next step, whatever other software did
\* before it started: every combination of slots, artifacts and variables that its
\* checks let through is one its later steps handle.
RunnerCanStep ==
    \A p \in Procs : pc[p] \in Locked => ENABLED Continue(p)

-----------------------------------------------------------------------------
(* What the repository says of the program, and the program does not do.   *)

\* "stage recovers candidate write failure" (tests/test_loader_deploy.py): no failed or
\* interrupted write of the candidate leaves a file that every retry refuses.
CandidateWriteFailureRecovers ==
    lock = NoProc /\ intent.op = "publish_candidate" => esp.temp \in {"absent", "new"}

\* "promotion recovery is pending" (the error of a reversal that failed): promote can
\* take up every pending reversal.
PendingReversalRecovers ==
    lock = NoProc /\ intent.op = "promote_revert" => Authorized

-----------------------------------------------------------------------------
(* Liveness.                                                               *)

RollbackRetry(p) == intent.op = "rollback" /\ RollbackStart(p)

\* The scheduler runs every invocation that has started; an operator who finds a
\* rollback pending runs it again until it is done.
Fairness ==
    \A p \in Procs : WF_vars(Continue(p)) /\ SF_vars(RollbackRetry(p))

FairSpec == Spec /\ Fairness

\* Every invocation gives the lock back.
EveryCallEnds == \A p \in Procs : pc[p] \in Locked ~> pc[p] = "idle"

\* A rollback that declared itself ends with the old loader alone on the machine,
\* whatever crashes and failures interrupt it.
RollbackConverges ==
    intent.op = "rollback" ~> (manifest.state = "rolled_back" /\ intent.op = "none")

-----------------------------------------------------------------------------
(* The transaction implements the abstract upgrade.                        *)

Upgrade == INSTANCE LoaderUpgrade WITH
    running <- disk.active, alternate <- disk.cand,
    offered <- Recorded /\ nvram.entries[manifest.num] = "cand", proven <- booted

ImplementsUpgrade == Upgrade!Spec
=============================================================================
