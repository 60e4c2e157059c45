---------------------------- MODULE ThemeInstall ----------------------------
(***************************************************************************)
(* install, switch_theme and rollback, one invocation at a time, with      *)
(* system calls that fail or are interrupted and invocations that are      *)
(* killed.                                                                 *)
(***************************************************************************)
EXTENDS ThemeRestore

Begin(command) ==
    /\ pc = "idle"
    /\ op' = command
    /\ before' = Current

Bounded == left.ops > 0 /\ left' = [left EXCEPT !.ops = @ - 1]

-----------------------------------------------------------------------------
(* install                                                                 *)

\* The order in which _install_files writes: the package's files by name, then the
\* manifest, the active configuration and the include in refind.conf.
WriteOrder == <<"theme-a.conf", "theme-b.conf", "themes/forest-a", "themes/forest-b",
                "forest-manifest.json", "theme-active.conf", Config>>

Written(p) ==
    IF p \in {"theme-a.conf", "theme-active.conf"} THEN "a"
    ELSE IF p = "theme-b.conf" THEN "b"
    ELSE IF p = Config THEN "patched"
    ELSE arg

\* The checks of the ESP pass.
Installable == live[Config] # "absent"

\* The staging directory is read whole, once: any package that was built.
ReadsPackage == arg' \in Packages

\* The backup is complete, and validated, before the first change.  One that fails
\* leaves nothing.
TakesBackup == backups' = backups \cup {Current} /\ rec' = Current

InstallBegin ==
    /\ Begin("install") /\ Bounded
    /\ Installable /\ ReadsPackage /\ TakesBackup
    /\ pc' = "remove" /\ at' = 1
    /\ UNCHANGED <<live, themes, others, journal, strays, moved, existed, result>>

InstallRemove ==
    /\ pc = "remove"
    /\ live' = [live EXCEPT ![Managed[at]] = "absent"]
    /\ IF at < Len(Managed) THEN at' = at + 1 /\ UNCHANGED pc
                            ELSE at' = 1 /\ pc' = "write"
    /\ UNCHANGED <<themes, others, journal, strays, backups, op, arg, rec, moved,
                   existed, before, result, left>>

\* patch_refind_conf refuses a refind.conf with half an include block.
Patchable == WriteOrder[at] = Config => live[Config] # "broken"

WritesPath(value) ==
    /\ live' = [live EXCEPT ![WriteOrder[at]] = value]
    /\ themes' = (themes \/ WriteOrder[at] \in Directories)

InstallWrite ==
    /\ pc = "write" /\ Patchable
    /\ WritesPath(Written(WriteOrder[at]))
    /\ IF at < Len(WriteOrder) THEN at' = at + 1 /\ UNCHANGED pc
                               ELSE UNCHANGED at /\ pc' = "verify"
    /\ UNCHANGED <<others, journal, strays, backups, op, arg, rec, moved, existed,
                   before, result, left>>

\* A directory is removed, and written, file by file.
InstallPartly ==
    \/ UNCHANGED <<live, themes>>
    \/ /\ pc = "remove" /\ Managed[at] \in Directories /\ live[Managed[at]] # "absent"
       /\ live' = [live EXCEPT ![Managed[at]] = "part"]
       /\ UNCHANGED themes
    \/ pc = "write" /\ WriteOrder[at] \in Directories /\ WritesPath("part")

InstallFails ==
    /\ pc \in InstallPcs /\ Fail
    /\ pc' = "stage"
    /\ InstallPartly
    /\ UNCHANGED <<others, journal, strays, backups, op, at, arg, rec, moved, existed,
                   before, result>>

InstallRefused ==
    /\ pc = "write" /\ ~Patchable
    /\ pc' = "stage"
    /\ UNCHANGED <<live, themes, others, journal, strays, backups, op, at, arg, rec,
                   moved, existed, before, result, left>>

\* A verification that finds errors is InstallFails: what was written does verify, or
\* the run would deadlock here.
InstallVerified ==
    /\ pc = "verify" /\ Verified(live) /\ End("installed")
    /\ UNCHANGED <<live, themes, others, journal, strays, backups, op, at, arg, rec,
                   moved, existed, before, left>>

-----------------------------------------------------------------------------
(* rollback                                                                *)

\* Mutant: the ESP is validated as an install validates it.
Restorable_RequiresConfig == live[Config] # "absent"

\* A recovery asks nothing of the files it is about to restore.
Restorable == TRUE

\* The backup validates: it is as it was taken.
ReadsBackup(b) == b \in backups /\ rec' = b

Rollback(b) ==
    /\ Begin("rollback") /\ Restorable /\ ReadsBackup(b)
    /\ pc' = "stage"
    /\ UNCHANGED <<live, themes, others, journal, strays, backups, at, arg, moved,
                   existed, result, left>>

-----------------------------------------------------------------------------
(* switch_theme                                                            *)

Activate(value) == live' = [live EXCEPT !["theme-active.conf"] = value]

SwitchBegin ==
    /\ Begin("switch") /\ Bounded
    /\ Verified(live)
    /\ arg' \in {"a", "b"}
    /\ pc' = "switch_write"
    /\ UNCHANGED <<live, themes, others, journal, strays, backups, at, rec, moved,
                   existed, result>>

SwitchWrite ==
    /\ pc = "switch_write" /\ pc' = "switch_verify"
    /\ Activate(live[IF arg = "a" THEN "theme-a.conf" ELSE "theme-b.conf"])
    /\ UNCHANGED <<themes, others, journal, strays, backups, op, at, arg, rec, moved,
                   existed, before, result, left>>

SwitchVerified ==
    /\ pc = "switch_verify" /\ Verified(live) /\ End("switched")
    /\ UNCHANGED <<live, themes, others, journal, strays, backups, op, at, arg, rec,
                   moved, existed, before, left>>

\* The write, before or after its rename, or the verification raises.
SwitchFails ==
    /\ pc \in {"switch_write", "switch_verify"} /\ Fail
    /\ pc' = "switch_restore"
    /\ UNCHANGED live \/ (pc = "switch_write" /\ Activate(arg))
    /\ UNCHANGED <<themes, others, journal, strays, backups, op, at, arg, rec, moved,
                   existed, before, result>>

Previous == before.tree["theme-active.conf"]

SwitchRestore ==
    /\ pc = "switch_restore" /\ End("switch_undone")
    /\ Activate(Previous)
    /\ UNCHANGED <<themes, others, journal, strays, backups, op, at, arg, rec, moved,
                   existed, before, left>>

SwitchRestoreFails ==
    /\ pc = "switch_restore" /\ Fail /\ End("switch_stuck")
    /\ UNCHANGED live \/ Activate(Previous)
    /\ UNCHANGED <<themes, others, journal, strays, backups, op, at, arg, rec, moved,
                   existed, before>>

-----------------------------------------------------------------------------
\* A killed invocation leaves its journal on the ESP.
Killed ==
    /\ pc # "idle" /\ left.kill > 0 /\ left' = [left EXCEPT !.kill = @ - 1]
    /\ End("killed")
    /\ InstallPartly
    /\ strays' = strays \cup ({journal.old} \ {Nothing})
    /\ journal' = [new |-> Nothing, old |-> Nothing]
    /\ UNCHANGED <<others, backups, op, at, arg, rec, moved, existed, before>>

Step ==
    \/ InstallRemove \/ InstallWrite \/ InstallFails \/ InstallRefused
    \/ InstallVerified \/ RestoreStep \/ SwitchWrite \/ SwitchVerified \/ SwitchFails
    \/ SwitchRestore \/ SwitchRestoreFails

\* A machine with rEFInd: its own refind.conf, other themes or none, and perhaps files of
\* the user's under the managed names.
Init ==
    /\ \E own \in SUBSET Own, conf \in Confs :
         live = [p \in Paths |-> IF p = Config THEN conf
                                 ELSE IF p \in own THEN "own" ELSE "absent"]
    /\ others \in BOOLEAN
    /\ themes = (others \/ ~Empty(live))
    /\ journal = [new |-> Nothing, old |-> Nothing] /\ strays = {} /\ backups = {}
    /\ pc = "idle" /\ op = "none" /\ at = 1 /\ arg = "none" /\ rec = NoBackup
    /\ moved = NoMoves /\ existed = FALSE
    /\ before = NoBackup /\ result = "none"
    /\ left = [ops |-> MaxOps, kill |-> MaxKill, fail |-> MaxFail]

Next ==
    \/ InstallBegin \/ SwitchBegin \/ (\E b \in backups : Rollback(b))
    \/ Step \/ Killed

Spec == Init /\ [][Next]_vars
=============================================================================
