------------------------------ MODULE ThemeBase ------------------------------
(***************************************************************************)
(* The files of the Forest theme on the ESP (src/refind_forest/install.py) *)
(* and the state of one invocation that changes them.                      *)
(*                                                                         *)
(* A file or a directory is one value: absent, partly written or deleted   *)
(* ("part"), the user's own, or what a package puts there.                 *)
(***************************************************************************)
EXTENDS Naturals, Sequences

CONSTANTS
    Packages,   \* built theme packages
    Own,        \* bound: managed paths the user may have before the first install
    Confs,      \* bound: what the user's refind.conf may be
    MaxOps,     \* bound: invocations of install, switch and rollback
    MaxKill,    \* bound: killed invocations
    MaxFail     \* bound: failing or interrupted system calls

\* _MANAGED_PATHS, in the code's order; refind.conf is edited, not managed.
Managed == <<"forest-manifest.json", "theme-a.conf", "theme-active.conf",
             "theme-b.conf", "themes/forest-a", "themes/forest-b">>
Config == "refind.conf"
Directories == {"themes/forest-a", "themes/forest-b"}
Paths == {Managed[i] : i \in DOMAIN Managed} \cup {Config}

Values == {"absent", "part", "own", "a", "b", "user", "broken", "patched"} \cup Packages

ASSUME PackageAssumption ==
    Packages \cap {"absent", "part", "own", "a", "b", "user", "broken", "patched"} = {}
ASSUME UserAssumption ==
    Own \subseteq Paths \ {Config} /\ Confs \subseteq {"user", "broken"} /\ Confs # {}
ASSUME ThemeBoundAssumption == MaxOps \in Nat /\ MaxKill \in Nat /\ MaxFail \in Nat

VARIABLES
    live,       \* EFI/refind: refind.conf and the managed paths
    themes,     \* EFI/refind/themes exists
    others,     \* EFI/refind/themes holds other themes
    journal,    \* the rollback journal of the running invocation: new/ and old/
    strays,     \* old/ of the journals that were left on the ESP
    backups,    \* completed backups, outside the ESP
    pc,         \* where the invocation is
    op,         \* its command
    at,         \* its position in the list of paths it walks
    arg,        \* the package it installs, or the variant it switches to
    rec,        \* the backup it restores
    moved,      \* the swaps it has made: which prior and staged paths moved
    existed,    \* themes existed before the swaps (themes_existed)
    before,     \* history: the tree the command, or its restoration, started from
    result,     \* history: how the last command ended
    left        \* what is left of each bound

vars == <<live, themes, others, journal, strays, backups, pc, op, at, arg, rec, moved,
          existed, before, result, left>>

-----------------------------------------------------------------------------
Tree == [Paths -> Values]
Nothing == [p \in Paths |-> "absent"]
Backup == [tree: Tree, themes: BOOLEAN]
NoBackup == [tree |-> Nothing, themes |-> FALSE]
NoMoves == [prior |-> {}, staged |-> {}]

InstallPcs == {"remove", "write", "verify"}
RestorePcs == {"stage", "prior", "staged", "rmdir", "cleanup", "reverse",
               "reverse_prior", "reverse_end"}
SwitchPcs == {"switch_write", "switch_verify", "switch_restore"}
Pcs == {"idle"} \cup InstallPcs \cup RestorePcs \cup SwitchPcs

Results == {"none", "installed", "install_undone", "install_stuck", "rolled_back",
            "reversed", "broken", "switched", "switch_undone", "switch_stuck", "killed"}

TypeOK ==
    /\ live \in Tree /\ themes \in BOOLEAN /\ others \in BOOLEAN
    /\ journal \in [new: Tree, old: Tree] /\ strays \subseteq Tree
    /\ backups \subseteq Backup
    /\ pc \in Pcs /\ op \in {"none", "install", "rollback", "switch"}
    /\ at \in 1 .. 8
    /\ arg \in Packages \cup {"none", "a", "b"}
    /\ rec \in Backup
    /\ moved \in [prior: SUBSET Paths, staged: SUBSET Paths]
    /\ existed \in BOOLEAN
    /\ before \in Backup
    /\ result \in Results
    /\ left \in [ops: Nat, kill: Nat, fail: Nat]

-----------------------------------------------------------------------------
\* The variants and the include are those a package's installation writes.
ConfigsVerified(t) ==
    /\ t["theme-a.conf"] = "a" /\ t["theme-b.conf"] = "b"
    /\ t["theme-active.conf"] \in {"a", "b"}
    /\ t[Config] = "patched"

\* The installed theme is whole: what verify(esp) accepts.
Verified(t) ==
    /\ ConfigsVerified(t)
    /\ \E v \in Packages :
         t["forest-manifest.json"] = v /\ t["themes/forest-a"] = v /\ t["themes/forest-b"] = v

\* EFI/refind/themes has no entry.
Empty(t) == ~others /\ \A p \in Directories : t[p] = "absent"

Current == [tree |-> live, themes |-> themes]

Fail == left.fail > 0 /\ left' = [left EXCEPT !.fail = @ - 1]
=============================================================================
