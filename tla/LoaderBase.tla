----------------------------- MODULE LoaderBase -----------------------------
(***************************************************************************)
(* The state of a loader transaction (src/refind_forest/loader/deploy.py)  *)
(* and the checks every operation shares.                                  *)
(*                                                                         *)
(* A transaction has one recorded active loader ("old") and one recorded   *)
(* candidate ("new"); any other bytes are "other".  A file on the ESP is   *)
(* one of these, "partial" while it is being written, or "absent".         *)
(***************************************************************************)
EXTENDS Naturals

CONSTANTS
    Procs,      \* cooperating invocations of the loader CLI
    NoProc,     \* the holder of a free lock
    Normal,     \* Boot numbers named by BootOrder, with their initial entries
    Free,       \* Boot numbers no initial entry uses
    NoNum,      \* no Boot number
    InitialNext,\* what BootNext may select when the machine is first seen
    MaxCrash,   \* bound: killed processes and power losses
    MaxFail,    \* bound: failing system calls, verifiers and commands
    MaxDrift,   \* bound: changes made by other privileged software
    MaxBoot,    \* bound: clean reboots
    Drifts      \* the kinds of change other software makes

Nums == Normal \cup Free
DriftKinds == {"next", "order", "entry", "tree", "slot", "race"}

ASSUME BootAssumption ==
    /\ Normal # {} /\ Normal \cap Free = {}
    /\ NoNum \notin Nums
    /\ InitialNext \subseteq Normal \cup {NoNum} /\ InitialNext # {}
ASSUME ProcAssumption == NoProc \notin Procs
ASSUME BoundAssumption ==
    /\ MaxCrash \in Nat /\ MaxFail \in Nat /\ MaxDrift \in Nat /\ MaxBoot \in Nat
    /\ Drifts \subseteq DriftKinds

VARIABLES
    esp,        \* EFI/refind as processes see it
    disk,       \* EFI/refind as a power loss would leave it
    tree,       \* every other file under EFI/
    nvram,      \* EFI variables: BootOrder, Boot####, BootNext, BootCurrent
    manifest,   \* manifest.json of the transaction ("none" before the first stage)
    intent,     \* intent.json of the transaction
    lock,       \* the holder of the flock on the ESP's lock file
    pc,         \* where each invocation is
    loc,        \* each invocation's local variables
    booted,     \* history: firmware ran the candidate image through its entry
    left        \* what is left of each bound

vars == <<esp, disk, tree, nvram, manifest, intent, lock, pc, loc, booted, left>>

-----------------------------------------------------------------------------
(* Types.                                                                  *)

Slot == {"absent", "old", "new", "other"}
Scratch == {"absent", "partial", "old", "new"}
\* A quarantine is made by a rename: it is never partial.
Esp == [active: Slot, cand: Slot, temp: Scratch, quar: Scratch \ {"partial"}, rtemp: Scratch]
Rest == {"initial", "changed"}

\* A raw BootNext: its number, and whether its attributes are the standard ones.
BootNext == [num: Nums \cup {NoNum}, std: BOOLEAN]
NoNext == [num |-> NoNum, std |-> TRUE]
StdNext(n) == [num |-> n, std |-> TRUE]

\* A Boot#### variable: absent, as firmware shipped it, pointing at the candidate
\* loader on this ESP, or anything else.
EntryRaw == {"none", "initial", "cand", "other"}
Snapshot == [order: {"initial", "changed"}, entries: [Nums -> EntryRaw],
             next: BootNext, current: Nums \cup {NoNum}]
NoSnapshot == [order |-> "initial", entries |-> [n \in Nums |-> "none"],
               next |-> NoNext, current |-> NoNum]

States == {"none", "backup_ready", "candidate_published", "staged", "armed",
           "promoted", "promotion_failed", "rollback_partial", "rolled_back"}
Tree == [esp: Esp, rest: Rest]
Manifest == [state: States, initial: Snapshot, tree: Tree, num: Nums \cup {NoNum},
             owned: BOOLEAN, raw: BootNext]

Operations == {"none", "publish_candidate", "create_entry", "set_boot_next",
               "promote", "promote_revert", "rollback"}
Intent == [op: Operations, before: Snapshot, auth: Nums \cup {NoNum}]
NoIntent == [op |-> "none", before |-> NoSnapshot, auth |-> NoNum]

StagePcs == {"stage_intent", "stage_temp", "stage_rename", "stage_sync",
             "stage_published", "stage_clear", "stage_inspect", "stage_create",
             "stage_staged", "stage_record", "stage_done"}
NextPcs == {"next_set", "next_conflict", "next_readback", "next_clear"}
FinishPcs == {"finish_sync", "finish_manifest", "finish_clear"}
RevertPcs == {"revert_intent", "revert_exchange", "revert_sync", "revert_manifest",
              "revert_clear"}
PromotePcs == {"promote_exchange"} \cup FinishPcs \cup RevertPcs
RollbackPcs == {"rollback_slots", "rollback_restore", "rollback_replace",
                "rollback_sync", "rollback_next", "rollback_cleared",
                "rollback_entry", "rollback_candidate",
                "rollback_unlink", "rollback_flush", "rollback_manifest",
                "rollback_clear"}
Locked == StagePcs \cup NextPcs \cup PromotePcs \cup RollbackPcs
Pcs == {"idle", "stage_wait"} \cup Locked

\* saw: the active loader read before the lock; resume: the stage found a
\* transaction; made: this call created the temporary file it renames; declared: it
\* wrote the intent of creating the entry; flush: the rollback must sync the ESP;
\* clash: it found a foreign variable.
Local == [saw: Slot, resume: BOOLEAN, made: BOOLEAN, declared: BOOLEAN,
          flush: BOOLEAN, clash: BOOLEAN]
NoLocal == [saw |-> "absent", resume |-> FALSE, made |-> FALSE, declared |-> FALSE,
            flush |-> FALSE, clash |-> FALSE]
Left == [crash: Nat, fail: Nat, drift: Nat, boot: Nat]

-----------------------------------------------------------------------------
(* The checks the operations share.                                        *)

Slots(e) == <<e.active, e.cand>>
OldNew == <<"old", "new">>
NewOld == <<"new", "old">>
Exchanged(e) == [e EXCEPT !.active = e.cand, !.cand = e.active]

\* _tree_hash of EFI/, and of EFI/ as a finished rollback would leave it.
TreeHash(e) == [esp |-> e, rest |-> tree]
ProjectedTreeHash(e) ==
    TreeHash([e EXCEPT !.active = "old", !.cand = "absent", !.quar = "absent",
                       !.rtemp = "absent"])

\* Mutant: the names are compared, not the bytes.
EntriesKept_NamesOnly(base, snap) ==
    \A n \in Nums : base.entries[n] # "none" => snap.entries[n] # "none"

\* Every entry of `base` is still there, byte for byte.
EntriesKept(base, snap) ==
    \A n \in Nums : base.entries[n] # "none" => snap.entries[n] = base.entries[n]

ValidBootReferences(snap) ==
    /\ \A n \in Normal \cup {snap.current} : n \in Nums /\ snap.entries[n] # "none"
    /\ snap.next.num # NoNum => snap.entries[snap.next.num] # "none"

\* Mutant: a boot that fell back is not recognised.
CandidateBootFellBack_Never(m, snap) == FALSE

\* The entry BootNext selected did not run: firmware consumed BootNext and then
\* booted an entry of BootOrder.
CandidateBootFellBack(m, snap) ==
    /\ m.state = "armed" /\ m.owned
    /\ m.initial.next = NoNext
    /\ snap.next = NoNext
    /\ snap.current # m.num /\ snap.current \in Normal

BootNextAsRecorded(m, snap) ==
    IF m.owned
    THEN \/ snap.next = m.raw
         \/ snap.current = m.num /\ snap.next = NoNext
         \/ CandidateBootFellBack(m, snap)
    ELSE snap.next = m.initial.next

OwnsVariables(m, snap) ==
    /\ snap.order = m.initial.order
    /\ EntriesKept(m.initial, snap)
    /\ m.num \in Nums
    /\ snap.entries[m.num] = "cand"

OwnsNvram(m, snap) == OwnsVariables(m, snap) /\ BootNextAsRecorded(m, snap)

\* What `snap` holds beyond `base`: the numbers efibootmgr may have created.
CreatedSince(base, snap) ==
    {n \in Nums : base.entries[n] = "none" /\ snap.entries[n] # "none"}

\* `n` is the one entry created since `base`, and it starts the candidate.
CreatedExactly(base, snap, n) ==
    /\ EntriesKept(base, snap)
    /\ CreatedSince(base, snap) = {n}
    /\ snap.entries[n] = "cand"

\* Its creation moved nothing else.
CreatedAlone(base, snap, n) ==
    /\ snap.order = base.order
    /\ snap.next = base.next /\ base.next.num # n

-----------------------------------------------------------------------------
(* Steps every operation is made of.                                       *)

Goto(p, label) == pc' = [pc EXCEPT ![p] = label]

\* Mutant: flock is not exclusive.
Acquire_Shared(p, label) == lock' = p /\ Goto(p, label)

Acquire(p, label) == lock = NoProc /\ lock' = p /\ Goto(p, label)

Release(p) == lock' = NoProc /\ Goto(p, "idle")

Record(operation, before, auth) ==
    intent' = [op |-> operation, before |-> before, auth |-> auth]

\* The step raises: the invocation ends and the lock is released.
Raise(p) ==
    /\ Release(p)
    /\ UNCHANGED <<esp, disk, tree, nvram, manifest, intent, loc, booted, left>>

TypeOK ==
    /\ esp \in Esp /\ disk \in Esp /\ tree \in Rest
    /\ nvram \in Snapshot
    /\ manifest \in Manifest /\ intent \in Intent
    /\ lock \in Procs \cup {NoProc}
    /\ pc \in [Procs -> Pcs] /\ loc \in [Procs -> Local]
    /\ booted \in BOOLEAN /\ left \in Left
=============================================================================
