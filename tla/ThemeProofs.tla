---------------------------- MODULE ThemeProofs ----------------------------
(***************************************************************************)
(* Theorems of ThemeProperties: for any packages, files of the user's, and *)
(* number of commands, failures and kills, what a command reports is true  *)
(* and a rollback keeps what was there until it is done.                   *)
(***************************************************************************)
EXTENDS ThemeProperties, TLAPS

Fresh == [new |-> Nothing, old |-> Nothing]
Active == "theme-active.conf"

-----------------------------------------------------------------------------
(* Where the prior value and the staged value of a path are in a rollback. *)

Untouched(p) ==
    /\ live[p] = before.tree[p]
    /\ journal.new[p] = rec.tree[p] /\ journal.old[p] = "absent"
    /\ p \notin moved.prior /\ p \notin moved.staged

PriorAway(p) ==
    /\ live[p] = "absent"
    /\ journal.new[p] = rec.tree[p] /\ journal.old[p] = before.tree[p]
    /\ (p \in moved.prior <=> before.tree[p] # "absent") /\ p \notin moved.staged

Swapped(p) ==
    /\ live[p] = rec.tree[p]
    /\ journal.new[p] = "absent" /\ journal.old[p] = before.tree[p]
    /\ (p \in moved.prior <=> before.tree[p] # "absent")
    /\ (p \in moved.staged <=> rec.tree[p] # "absent")

\* The paths before the one the walk is at are swapped, those behind it are not.
Around ==
    \A i \in 1 .. 7 :
        /\ i < at => Swapped(RestoreOrder[i])
        /\ i > at => Untouched(RestoreOrder[i])

SwapInv ==
    /\ pc \in {"prior", "staged", "rmdir", "cleanup", "reverse", "reverse_prior",
               "reverse_end"} =>
         at \in 1 .. 7 /\ existed = before.themes
    /\ pc \in {"prior", "staged", "reverse", "reverse_prior"} => Around
    /\ pc = "prior" => Untouched(Path)
    /\ pc = "staged" => PriorAway(Path)
    /\ pc = "reverse" => Untouched(Path) \/ PriorAway(Path) \/ Swapped(Path)
    /\ pc = "reverse_prior" => Untouched(Path) \/ PriorAway(Path)
    /\ pc \in {"rmdir", "cleanup"} => at = 7 /\ \A p \in Paths : Swapped(p)
    /\ pc = "cleanup" => (~rec.themes => ~(themes /\ Empty(live)))
    /\ pc = "reverse_end" => \A p \in Paths : Untouched(p)

\* What an installation has written, and that it started from the backup it restores.
InstallInv ==
    /\ pc \in InstallPcs => arg \in Packages /\ rec = before
    /\ pc = "remove" => at \in 1 .. 6
    /\ pc = "write" =>
         at \in 1 .. 7 /\ \A i \in 1 .. 7 : i < at => live[WriteOrder[i]] = Written(WriteOrder[i])
    /\ pc = "verify" => \A i \in 1 .. 7 : live[WriteOrder[i]] = Written(WriteOrder[i])

\* A switch changes the active configuration only.
SwitchInv ==
    /\ pc \in SwitchPcs =>
         /\ arg \in {"a", "b"} /\ Verified(before.tree)
         /\ \A p \in Paths \ {Active} : live[p] = before.tree[p]
    /\ pc = "switch_write" => live[Active] = before.tree[Active]
    /\ pc = "switch_verify" => live[Active] = arg

\* Which steps belong to which command.
CommandInv ==
    /\ pc \in InstallPcs => op = "install"
    /\ pc \in SwitchPcs => op = "switch"
    /\ pc \in RestorePcs => op \in {"install", "rollback"}
    /\ pc = "stage" /\ op = "rollback" => before.tree = live
    /\ pc = "idle" \/ pc = "stage" \/ pc \in InstallPcs \/ pc \in SwitchPcs => journal = Fresh

Inv ==
    /\ TypeOK
    /\ CommandInv /\ SwapInv /\ InstallInv /\ SwitchInv
    /\ ReportsTruthful /\ PriorRecoverable

-----------------------------------------------------------------------------
(* The two orders in which paths are walked name each path once.           *)

LEMMA ManagedPaths ==
    /\ Len(Managed) = 6 /\ DOMAIN Managed = 1 .. 6
    /\ \A i \in 1 .. 6 : Managed[i] \in Paths /\ Managed[i] # Config
    /\ Paths = {"forest-manifest.json", "theme-a.conf", "theme-active.conf",
                "theme-b.conf", "themes/forest-a", "themes/forest-b", "refind.conf"}
    /\ Active \in Paths /\ Config \in Paths /\ Directories \subseteq Paths
<1>1. Len(Managed) = 6 /\ DOMAIN Managed = 1 .. 6
  BY DEF Managed
<1>2. \A i \in 1 .. 6 : i = 1 \/ i = 2 \/ i = 3 \/ i = 4 \/ i = 5 \/ i = 6
  OBVIOUS
<1>3. /\ Managed[1] = "forest-manifest.json" /\ Managed[2] = "theme-a.conf"
      /\ Managed[3] = "theme-active.conf" /\ Managed[4] = "theme-b.conf"
      /\ Managed[5] = "themes/forest-a" /\ Managed[6] = "themes/forest-b"
  BY DEF Managed
<1>4. Paths = {"forest-manifest.json", "theme-a.conf", "theme-active.conf",
               "theme-b.conf", "themes/forest-a", "themes/forest-b", "refind.conf"}
  BY <1>1, <1>2, <1>3 DEF Paths, Config
<1>5. QED
  BY <1>1, <1>2, <1>3, <1>4 DEF Config, Active, Directories

LEMMA RestorePaths ==
    /\ Len(RestoreOrder) = 7
    /\ \A i \in 1 .. 7 : RestoreOrder[i] \in Paths
    /\ \A i, j \in 1 .. 7 : RestoreOrder[i] = RestoreOrder[j] => i = j
    /\ \A p \in Paths : \E i \in 1 .. 7 : RestoreOrder[i] = p
<1>1. Managed \in Seq(Paths) /\ Config \in Paths
  BY ManagedPaths DEF Managed
<1>2. /\ Len(RestoreOrder) = 7 /\ RestoreOrder[7] = Config
      /\ \A i \in 1 .. 6 : RestoreOrder[i] = Managed[i]
  <2>1. /\ Len(Append(Managed, Config)) = Len(Managed) + 1
        /\ \A i \in 1 .. Len(Managed) : Append(Managed, Config)[i] = Managed[i]
        /\ Append(Managed, Config)[Len(Managed) + 1] = Config
    BY <1>1
  <2>2. QED
    BY <2>1, ManagedPaths DEF RestoreOrder
<1>3. /\ Managed[1] = "forest-manifest.json" /\ Managed[2] = "theme-a.conf"
      /\ Managed[3] = "theme-active.conf" /\ Managed[4] = "theme-b.conf"
      /\ Managed[5] = "themes/forest-a" /\ Managed[6] = "themes/forest-b"
  BY DEF Managed
<1>4. \A i \in 1 .. 7 : i = 1 \/ i = 2 \/ i = 3 \/ i = 4 \/ i = 5 \/ i = 6 \/ i = 7
  OBVIOUS
<1>5. QED
  BY <1>2, <1>3, <1>4, ManagedPaths DEF Config

LEMMA WritePaths ==
    /\ Len(WriteOrder) = 7
    /\ \A i \in 1 .. 7 : WriteOrder[i] \in Paths
    /\ \A i, j \in 1 .. 7 : WriteOrder[i] = WriteOrder[j] => i = j
    /\ \A p \in Paths : \E i \in 1 .. 7 : WriteOrder[i] = p
<1>1. \A i \in 1 .. 7 : i = 1 \/ i = 2 \/ i = 3 \/ i = 4 \/ i = 5 \/ i = 6 \/ i = 7
  OBVIOUS
<1>2. QED
  BY <1>1, ManagedPaths DEF WriteOrder, Config

-----------------------------------------------------------------------------
(* Types.                                                                  *)

LEMMA Contents ==
    /\ Nothing \in Tree /\ NoBackup \in Backup /\ Fresh \in [new: Tree, old: Tree]
    /\ {"absent", "part", "own", "a", "b", "user", "broken", "patched"} \subseteq Values
    /\ Packages \subseteq Values
  BY DEF Nothing, Tree, NoBackup, Backup, Fresh, Values

LEMMA WrittenType == ASSUME NEW p \in Paths, arg \in Packages PROVE Written(p) \in Values
  BY Contents DEF Written

LEMMA PartlyType ==
    ASSUME TypeOK, InstallPartly
    PROVE  live' \in Tree /\ themes' \in BOOLEAN
<1>0. live \in Tree /\ themes \in BOOLEAN
  BY DEF TypeOK
<1>1. \A p : [live EXCEPT ![p] = "part"] \in Tree
  BY <1>0, Contents DEF Tree
<1>2. CASE live' = [live EXCEPT ![Managed[at]] = "part"] /\ UNCHANGED themes
  BY <1>0, <1>1, <1>2
<1>3. CASE WritesPath("part")
  BY <1>0, <1>1, <1>3 DEF WritesPath
<1>4. QED
  BY <1>0, <1>2, <1>3 DEF InstallPartly

LEMMA InstallType ==
    ASSUME Inv, InstallRemove \/ InstallWrite \/ InstallFails \/ InstallRefused \/ InstallVerified
    PROVE  TypeOK'
<1> USE DEF TypeOK, Pcs, InstallPcs, RestorePcs
<1>0. TypeOK /\ InstallInv
  BY DEF Inv
<1>1. CASE InstallRemove
  <2>1. live' \in Tree
    BY <1>0, <1>1, Contents DEF InstallRemove, Tree
  <2>2. QED
    BY <1>0, <1>1, <2>1, ManagedPaths DEF InstallRemove, InstallInv
<1>2. CASE InstallWrite
  <2>1. live' \in Tree
    BY <1>0, <1>2, WritePaths, WrittenType DEF InstallWrite, WritesPath, Tree, InstallInv
  <2>2. QED
    BY <1>0, <1>2, <2>1, WritePaths DEF InstallWrite, WritesPath, InstallInv
<1>3. CASE InstallFails
  <2>1. live' \in Tree /\ themes' \in BOOLEAN
    BY <1>0, <1>3, PartlyType DEF InstallFails
  <2>2. QED
    BY <1>0, <1>3, <2>1 DEF InstallFails, Fail
<1>4. CASE InstallRefused
  BY <1>0, <1>4 DEF InstallRefused
<1>5. CASE InstallVerified
  BY <1>0, <1>5 DEF InstallVerified, End, Results
<1>6. QED
  BY <1>1, <1>2, <1>3, <1>4, <1>5

LEMMA SwitchType ==
    ASSUME Inv, SwitchWrite \/ SwitchVerified \/ SwitchFails \/ SwitchRestore \/ SwitchRestoreFails
    PROVE  TypeOK'
<1> USE DEF TypeOK, Pcs, SwitchPcs
<1>0. TypeOK /\ SwitchInv
  BY DEF Inv
<1>1. /\ live' \in Tree
      /\ pc' \in Pcs /\ result' \in Results
      /\ left' \in [ops: Nat, kill: Nat, fail: Nat]
  <2>1. before.tree \in Tree /\ live["theme-a.conf"] \in Values /\ live["theme-b.conf"] \in Values
    BY <1>0, ManagedPaths DEF Tree, Backup
  <2>2. \A v \in Values : [live EXCEPT !["theme-active.conf"] = v] \in Tree
    BY <1>0 DEF Tree
  <2>3. pc = "switch_write" \/ pc = "switch_verify" \/ pc = "switch_restore"
    BY DEF SwitchWrite, SwitchVerified, SwitchFails, SwitchRestore, SwitchRestoreFails
  <2>4. arg \in Values /\ Previous \in Values
    BY <1>0, <2>1, <2>3, Contents, ManagedPaths DEF SwitchInv, Previous, Tree, Active
  <2>5. CASE SwitchWrite
    BY <1>0, <2>1, <2>2, <2>5 DEF SwitchWrite, Activate
  <2>6. CASE SwitchVerified
    BY <1>0, <2>6 DEF SwitchVerified, End, Results
  <2>7. CASE SwitchFails
    BY <1>0, <2>2, <2>4, <2>7 DEF SwitchFails, Activate, Fail
  <2>8. CASE SwitchRestore
    BY <1>0, <2>2, <2>4, <2>8 DEF SwitchRestore, Activate, End, Results
  <2>9. CASE SwitchRestoreFails
    BY <1>0, <2>2, <2>4, <2>9 DEF SwitchRestoreFails, Activate, End, Results, Fail
  <2>10. QED
    BY <2>5, <2>6, <2>7, <2>8, <2>9
<1>2. UNCHANGED <<themes, others, journal, strays, backups, op, at, arg, rec, moved,
                  existed, before>>
  BY DEF SwitchWrite, SwitchVerified, SwitchFails, SwitchRestore, SwitchRestoreFails
<1>3. QED
  BY <1>0, <1>1, <1>2

LEMMA BeginType ==
    ASSUME Inv, InstallBegin \/ SwitchBegin \/ \E b \in backups : Rollback(b)
    PROVE  TypeOK'
<1> USE DEF TypeOK, Pcs, Begin, Current, Bounded
<1>0. TypeOK
  BY DEF Inv
<1>1. Current \in Backup
  BY <1>0 DEF Backup
<1>2. CASE InstallBegin
  BY <1>0, <1>1, <1>2 DEF InstallBegin, ReadsPackage, TakesBackup, InstallPcs
<1>3. CASE SwitchBegin
  BY <1>0, <1>1, <1>3 DEF SwitchBegin, SwitchPcs
<1>4. CASE \E b \in backups : Rollback(b)
  BY <1>0, <1>1, <1>4 DEF Rollback, ReadsBackup, RestorePcs
<1>5. QED
  BY <1>2, <1>3, <1>4

LEMMA KilledType == ASSUME Inv, Killed PROVE TypeOK'
<1> USE DEF TypeOK
<1>0. TypeOK
  BY DEF Inv
<1>1. live' \in Tree /\ themes' \in BOOLEAN
  BY <1>0, PartlyType DEF Killed
<1>2. journal' \in [new: Tree, old: Tree] /\ strays' \subseteq Tree
  BY <1>0, Contents DEF Killed, Fresh
<1>3. QED
  BY <1>0, <1>1, <1>2 DEF Killed, End, Results, Pcs

-----------------------------------------------------------------------------
(* What the four renames of a restoration do to each path.                 *)

SameElsewhere ==
    \A p \in Paths \ {Path} :
        /\ live'[p] = live[p]
        /\ journal'.new[p] = journal.new[p] /\ journal'.old[p] = journal.old[p]
        /\ p \in moved'.prior <=> p \in moved.prior
        /\ p \in moved'.staged <=> p \in moved.staged

MovedTypes ==
    /\ live' \in Tree /\ themes' \in BOOLEAN
    /\ journal' \in [new: Tree, old: Tree]
    /\ moved' \in [prior: SUBSET Paths, staged: SUBSET Paths]

LEMMA NotMovedEffect ==
    ASSUME TypeOK, NotMoved
    PROVE  MovedTypes /\ SameElsewhere
  BY DEF TypeOK, NotMoved, MovedTypes, SameElsewhere

LEMMA PriorMovedEffect ==
    ASSUME TypeOK, at \in 1 .. 7, PriorMoved
    PROVE  /\ MovedTypes /\ SameElsewhere
           /\ live'[Path] = "absent" /\ journal'.old[Path] = live[Path]
           /\ journal'.new[Path] = journal.new[Path]
           /\ Path \in moved'.prior
           /\ Path \in moved'.staged <=> Path \in moved.staged
<1>1. Path \in Paths
  BY RestorePaths DEF Path
<1>2. /\ live' = [live EXCEPT ![Path] = "absent"]
      /\ journal' = [journal EXCEPT !.old = [@ EXCEPT ![Path] = live[Path]]]
      /\ moved' = [moved EXCEPT !.prior = @ \cup {Path}]
      /\ themes' = themes
  BY DEF PriorMoved
<1>3. QED
  BY <1>1, <1>2, Contents DEF TypeOK, MovedTypes, SameElsewhere, Tree

LEMMA StagedMovedEffect ==
    ASSUME TypeOK, at \in 1 .. 7, StagedMoved
    PROVE  /\ MovedTypes /\ SameElsewhere
           /\ live'[Path] = journal.new[Path] /\ journal'.new[Path] = "absent"
           /\ journal'.old[Path] = journal.old[Path]
           /\ Path \in moved'.prior <=> Path \in moved.prior
           /\ Path \in moved'.staged
<1>1. Path \in Paths
  BY RestorePaths DEF Path
<1>2. /\ live' = [live EXCEPT ![Path] = journal.new[Path]]
      /\ journal' = [journal EXCEPT !.new = [@ EXCEPT ![Path] = "absent"]]
      /\ moved' = [moved EXCEPT !.staged = @ \cup {Path}]
      /\ themes' \in BOOLEAN
  BY DEF StagedMoved, TypeOK
<1>3. QED
  BY <1>1, <1>2, Contents DEF TypeOK, MovedTypes, SameElsewhere, Tree

LEMMA StagedBackEffect ==
    ASSUME TypeOK, at \in 1 .. 7, StagedBack, UNCHANGED themes
    PROVE  /\ MovedTypes /\ SameElsewhere
           /\ live'[Path] = "absent" /\ journal'.new[Path] = live[Path]
           /\ journal'.old[Path] = journal.old[Path]
           /\ Path \in moved'.prior <=> Path \in moved.prior
           /\ Path \notin moved'.staged
<1>1. Path \in Paths
  BY RestorePaths DEF Path
<1>2. /\ live' = [live EXCEPT ![Path] = "absent"]
      /\ journal' = [journal EXCEPT !.new = [@ EXCEPT ![Path] = live[Path]]]
      /\ moved' = [moved EXCEPT !.staged = @ \ {Path}]
  BY DEF StagedBack
<1>3. QED
  BY <1>1, <1>2, Contents DEF TypeOK, MovedTypes, SameElsewhere, Tree

LEMMA PriorBackEffect ==
    ASSUME TypeOK, at \in 1 .. 7, PriorBack
    PROVE  /\ MovedTypes /\ SameElsewhere
           /\ live'[Path] = journal.old[Path] /\ journal'.old[Path] = "absent"
           /\ journal'.new[Path] = journal.new[Path]
           /\ Path \notin moved'.prior
           /\ Path \in moved'.staged <=> Path \in moved.staged
<1>1. Path \in Paths
  BY RestorePaths DEF Path
<1>2. /\ live' = [live EXCEPT ![Path] = journal.old[Path]]
      /\ journal' = [journal EXCEPT !.old = [@ EXCEPT ![Path] = "absent"]]
      /\ moved' = [moved EXCEPT !.prior = @ \ {Path}]
      /\ themes' \in BOOLEAN
  BY DEF PriorBack, TypeOK
<1>3. QED
  BY <1>1, <1>2, Contents DEF TypeOK, MovedTypes, SameElsewhere, Tree

-----------------------------------------------------------------------------
(* The swaps, and their reversal.                                          *)

\* What a step at one path leaves of the others.
LEMMA AroundKept ==
    ASSUME at \in 1 .. 7, Around, SameElsewhere, UNCHANGED <<before, rec>>
    PROVE  \A i \in 1 .. 7 :
             /\ i < at => Swapped(RestoreOrder[i])'
             /\ i > at => Untouched(RestoreOrder[i])'
<1> SUFFICES ASSUME NEW i \in 1 .. 7, i # at
             PROVE  /\ i < at => Swapped(RestoreOrder[i])'
                    /\ i > at => Untouched(RestoreOrder[i])'
  OBVIOUS
<1> DEFINE p == RestoreOrder[i]
<1>1. p \in Paths \ {Path}
  BY RestorePaths DEF Path
<1>2. Swapped(p) => Swapped(p)'
  BY <1>1 DEF SameElsewhere, Swapped
<1>3. Untouched(p) => Untouched(p)'
  BY <1>1 DEF SameElsewhere, Untouched
<1>4. QED
  BY <1>2, <1>3 DEF Around

LEMMA SwapPriorInv == ASSUME Inv, SwapPrior PROVE TypeOK' /\ SwapInv'
<1>0. TypeOK /\ SwapInv /\ pc = "prior" /\ at \in 1 .. 7 /\ at' = at /\ pc' = "staged"
  BY DEF Inv, SwapPrior, SwapInv
<1>1. Around /\ Untouched(Path) /\ Path' = Path /\ Path \in Paths
  BY <1>0, RestorePaths DEF SwapInv, Path
<1>2. MovedTypes /\ SameElsewhere /\ PriorAway(Path)'
  <2>1. CASE live[Path] # "absent"
    BY <1>0, <1>1, <2>1, PriorMovedEffect DEF SwapPrior, Untouched, PriorAway
  <2>2. CASE live[Path] = "absent"
    BY <1>0, <1>1, <2>2, NotMovedEffect DEF SwapPrior, Untouched, PriorAway, NotMoved
  <2>3. QED
    BY <2>1, <2>2
<1>3. TypeOK'
  BY <1>0, <1>2 DEF SwapPrior, TypeOK, MovedTypes, Pcs, RestorePcs
<1>4. Around'
  BY <1>0, <1>1, <1>2, AroundKept DEF SwapPrior, Around
<1>5. QED
  BY <1>0, <1>1, <1>2, <1>3, <1>4 DEF SwapPrior, SwapInv

LEMMA SwapStagedInv == ASSUME Inv, SwapStaged PROVE TypeOK' /\ SwapInv'
<1>0. TypeOK /\ SwapInv /\ pc = "staged" /\ at \in 1 .. 7
  BY DEF Inv, SwapStaged, SwapInv
<1> PICK q \in Paths : q = RestoreOrder[at]
  BY <1>0, RestorePaths
<1>1. Around /\ PriorAway(q) /\ q = Path
  BY <1>0, RestorePaths DEF SwapInv, Path
<1>2. MovedTypes /\ SameElsewhere /\ Swapped(q)'
  <2>1. CASE journal.new[Path] # "absent"
    BY <1>0, <1>1, <2>1, StagedMovedEffect DEF SwapStaged, PriorAway, Swapped
  <2>2. CASE journal.new[Path] = "absent"
    BY <1>0, <1>1, <2>2, NotMovedEffect DEF SwapStaged, PriorAway, Swapped, NotMoved
  <2>3. QED
    BY <2>1, <2>2
<1>3. \A i \in 1 .. 7 :
        /\ i <= at => Swapped(RestoreOrder[i])'
        /\ i > at => Untouched(RestoreOrder[i])'
  <2>1. \A i \in 1 .. 7 :
          /\ i < at => Swapped(RestoreOrder[i])'
          /\ i > at => Untouched(RestoreOrder[i])'
    BY <1>0, <1>1, <1>2, AroundKept DEF SwapStaged
  <2>2. \A i \in 1 .. 7 : i = at => Swapped(RestoreOrder[i])'
    BY <1>2
  <2>3. QED
    BY <1>0, <2>1, <2>2
<1>4. CASE at < 7
  <2>1. at' = at + 1 /\ pc' = "prior"
    BY <1>4, RestorePaths DEF SwapStaged
  <2>2. TypeOK'
    BY <1>0, <1>2, <1>4, <2>1 DEF SwapStaged, TypeOK, MovedTypes, Pcs, RestorePcs
  <2>3. Around' /\ Untouched(Path)'
    BY <1>0, <1>3, <1>4, <2>1 DEF Around, Path
  <2>4. QED
    BY <1>0, <1>4, <2>1, <2>2, <2>3 DEF SwapInv, SwapStaged
<1>5. CASE at = 7
  <2>1. at' = at /\ pc' = "rmdir"
    BY <1>5, RestorePaths DEF SwapStaged
  <2>2. TypeOK'
    BY <1>0, <1>2, <2>1 DEF SwapStaged, TypeOK, MovedTypes, Pcs, RestorePcs
  <2>3. \A p \in Paths : Swapped(p)'
    BY <1>3, <1>5, RestorePaths
  <2>4. QED
    BY <1>0, <1>5, <2>1, <2>2, <2>3 DEF SwapInv, SwapStaged
<1>6. QED
  BY <1>0, <1>4, <1>5

LEMMA SwapFailsInv == ASSUME Inv, SwapFails PROVE TypeOK' /\ SwapInv'
<1>0. /\ TypeOK /\ SwapInv /\ pc \in {"prior", "staged"} /\ at \in 1 .. 7 /\ at' = at
      /\ pc' = "reverse"
  BY DEF Inv, SwapFails, SwapInv
<1>1. /\ Around /\ Path' = Path /\ Path \in Paths
      /\ pc = "prior" => Untouched(Path)
      /\ pc = "staged" => PriorAway(Path)
  BY <1>0, RestorePaths DEF SwapInv, Path
<1>2. MovedTypes /\ SameElsewhere /\ (Untouched(Path) \/ PriorAway(Path) \/ Swapped(Path))'
  <2>1. CASE NotMoved
    BY <1>0, <1>1, <2>1, NotMovedEffect DEF SwapFails, Untouched, PriorAway, NotMoved
  <2>2. CASE pc = "prior" /\ live[Path] # "absent" /\ InterruptedPrior
    BY <1>0, <1>1, <2>2, PriorMovedEffect DEF SwapFails, InterruptedPrior, Untouched, PriorAway
  <2>3. CASE pc = "staged" /\ journal.new[Path] # "absent" /\ StagedMoved
    BY <1>0, <1>1, <2>3, StagedMovedEffect DEF SwapFails, PriorAway, Swapped
  <2>4. QED
    BY <2>1, <2>2, <2>3 DEF SwapFails
<1>3. TypeOK'
  BY <1>0, <1>2 DEF SwapFails, TypeOK, MovedTypes, Pcs, RestorePcs, Fail
<1>4. Around'
  BY <1>0, <1>1, <1>2, AroundKept DEF SwapFails, Around
<1>5. QED
  BY <1>0, <1>1, <1>2, <1>3, <1>4 DEF SwapFails, SwapInv

LEMMA ReverseStagedInv == ASSUME Inv, ReverseStaged PROVE TypeOK' /\ SwapInv'
<1>0. /\ TypeOK /\ SwapInv /\ pc = "reverse" /\ at \in 1 .. 7 /\ at' = at
      /\ pc' = "reverse_prior"
  BY DEF Inv, ReverseStaged, SwapInv
<1>1. /\ Around /\ Path' = Path /\ Path \in Paths
      /\ Untouched(Path) \/ PriorAway(Path) \/ Swapped(Path)
  BY <1>0, RestorePaths DEF SwapInv, Path
<1>2. MovedTypes /\ SameElsewhere /\ (Untouched(Path) \/ PriorAway(Path))'
  <2>1. CASE Path \in moved.staged
    <3>1. Swapped(Path)
      BY <1>1, <2>1 DEF Untouched, PriorAway
    <3>2. QED
      BY <1>0, <1>1, <2>1, <3>1, StagedBackEffect DEF ReverseStaged, PriorAway, Swapped
  <2>2. CASE Path \notin moved.staged
    <3>1. NotMoved
      BY <2>2 DEF ReverseStaged, NotMoved
    <3>2. Untouched(Path) \/ PriorAway(Path)
      BY <1>1, <2>2 DEF PriorAway, Swapped
    <3>3. QED
      BY <1>0, <1>1, <3>1, <3>2, NotMovedEffect
         DEF ReverseStaged, PriorAway, Untouched, NotMoved
  <2>3. QED
    BY <2>1, <2>2
<1>3. TypeOK'
  BY <1>0, <1>2 DEF ReverseStaged, TypeOK, MovedTypes, Pcs, RestorePcs
<1>4. Around'
  BY <1>0, <1>1, <1>2, AroundKept DEF ReverseStaged, Around
<1>5. QED
  BY <1>0, <1>1, <1>2, <1>3, <1>4 DEF ReverseStaged, SwapInv

LEMMA ReversePriorInv == ASSUME Inv, ReversePrior PROVE TypeOK' /\ SwapInv'
<1>0. TypeOK /\ SwapInv /\ pc = "reverse_prior" /\ at \in 1 .. 7
  BY DEF Inv, ReversePrior, SwapInv
<1> PICK q \in Paths : q = RestoreOrder[at]
  BY <1>0, RestorePaths
<1>1. Around /\ (Untouched(q) \/ PriorAway(q)) /\ q = Path
  BY <1>0, RestorePaths DEF SwapInv, Path
<1>2. MovedTypes /\ SameElsewhere /\ Untouched(q)'
  <2>1. CASE Path \in moved.prior
    <3>1. PriorAway(q)
      BY <1>1, <2>1 DEF Untouched
    <3>2. QED
      BY <1>0, <1>1, <2>1, <3>1, PriorBackEffect DEF ReversePrior, PriorAway, Untouched
  <2>2. CASE Path \notin moved.prior
    <3>1. NotMoved /\ Untouched(q)
      BY <1>1, <2>2 DEF ReversePrior, PriorAway, Untouched
    <3>2. QED
      BY <1>0, <1>1, <3>1, NotMovedEffect DEF ReversePrior, Untouched, NotMoved
  <2>3. QED
    BY <2>1, <2>2
<1>3. \A i \in 1 .. 7 :
        /\ i < at => Swapped(RestoreOrder[i])'
        /\ i >= at => Untouched(RestoreOrder[i])'
  <2>1. \A i \in 1 .. 7 :
          /\ i < at => Swapped(RestoreOrder[i])'
          /\ i > at => Untouched(RestoreOrder[i])'
    BY <1>0, <1>1, <1>2, AroundKept DEF ReversePrior
  <2>2. \A i \in 1 .. 7 : i = at => Untouched(RestoreOrder[i])'
    BY <1>2
  <2>3. QED
    BY <1>0, <2>1, <2>2
<1>4. CASE at > 1
  <2>1. at' = at - 1 /\ pc' = "reverse"
    BY <1>4 DEF ReversePrior, StepBack
  <2>2. TypeOK'
    BY <1>0, <1>2, <1>4, <2>1 DEF ReversePrior, TypeOK, MovedTypes, Pcs, RestorePcs
  <2>3. Around' /\ Swapped(Path)'
    BY <1>0, <1>3, <1>4, <2>1 DEF Around, Path
  <2>4. QED
    BY <1>0, <1>4, <2>1, <2>2, <2>3 DEF SwapInv, ReversePrior
<1>5. CASE at = 1
  <2>1. at' = at /\ pc' = "reverse_end"
    BY <1>5 DEF ReversePrior, StepBack
  <2>2. TypeOK'
    BY <1>0, <1>2, <2>1 DEF ReversePrior, TypeOK, MovedTypes, Pcs, RestorePcs
  <2>3. \A p \in Paths : Untouched(p)'
    BY <1>3, <1>5, RestorePaths
  <2>4. QED
    BY <1>0, <1>5, <2>1, <2>2, <2>3 DEF SwapInv, ReversePrior
<1>6. QED
  BY <1>0, <1>4, <1>5

LEMMA StageInv == ASSUME Inv, Stage PROVE TypeOK' /\ SwapInv'
<1>0. TypeOK /\ at' = 1 /\ pc' = "prior"
  BY DEF Inv, Stage
<1>1. \A p \in Paths : Untouched(p)'
  BY <1>0 DEF Stage, Untouched, Current, Nothing, NoMoves
<1>2. Around' /\ Untouched(Path)'
  BY <1>0, <1>1, RestorePaths DEF Around, Path
<1>3. TypeOK'
  BY <1>0, Contents DEF Stage, TypeOK, Current, Backup, NoMoves, Pcs, RestorePcs
<1>4. QED
  BY <1>0, <1>2, <1>3 DEF Stage, SwapInv, Current

LEMMA RemoveThemesInv == ASSUME Inv, RemoveThemes PROVE TypeOK' /\ SwapInv'
<1>0. TypeOK /\ at = 7 /\ pc' = "cleanup" /\ \A p \in Paths : Swapped(p)
  BY DEF Inv, SwapInv, RemoveThemes
<1>1. \A p \in Paths : Swapped(p)'
  BY <1>0 DEF RemoveThemes, Swapped
<1>2. (~rec.themes => ~(themes /\ Empty(live)))'
  BY <1>0 DEF RemoveThemes, RemovableThemes, Empty
<1>3. TypeOK'
  BY <1>0 DEF RemoveThemes, TypeOK, Pcs, RestorePcs
<1>4. QED
  BY <1>0, <1>1, <1>2, <1>3 DEF RemoveThemes, SwapInv, Inv

LEMMA RemoveThemesFailsInv == ASSUME Inv, RemoveThemesFails PROVE TypeOK' /\ SwapInv'
<1>0. TypeOK /\ at = 7 /\ at' = 7 /\ pc' = "reverse" /\ \A p \in Paths : Swapped(p)
  BY DEF Inv, SwapInv, RemoveThemesFails
<1>1. \A p \in Paths : Swapped(p)'
  BY <1>0 DEF RemoveThemesFails, Swapped
<1>2. Around' /\ Swapped(Path)'
  BY <1>0, <1>1, RestorePaths DEF Around, Path
<1>3. TypeOK'
  BY <1>0 DEF RemoveThemesFails, Fail, TypeOK, Pcs, RestorePcs
<1>4. QED
  BY <1>0, <1>2, <1>3 DEF RemoveThemesFails, SwapInv, Inv

\* The steps that end a restoration.
LEMMA RestorationEnds ==
    ASSUME Inv, StageFails \/ Cleanup \/ CleanupFails \/ ReverseFails \/ ReverseEnd
    PROVE  TypeOK' /\ SwapInv' /\ pc' = "idle"
<1> USE DEF TypeOK, Pcs, Results, End, Fail
<1>0. TypeOK
  BY DEF Inv
<1>1. CASE StageFails
  BY <1>0, <1>1 DEF StageFails, NotRestored, Current, Backup, SwapInv
<1>2. CASE Cleanup
  BY <1>0, <1>2, Contents DEF Cleanup, Restored, Fresh, SwapInv
<1>3. CASE CleanupFails
  BY <1>0, <1>3, Contents DEF CleanupFails, Fresh, SwapInv
<1>4. CASE ReverseFails
  BY <1>0, <1>4, Contents DEF ReverseFails, Fresh, SwapInv
<1>5. CASE ReverseEnd
  BY <1>0, <1>5, Contents DEF ReverseEnd, NotRestored, Fresh, SwapInv
<1>6. QED
  BY <1>1, <1>2, <1>3, <1>4, <1>5

-----------------------------------------------------------------------------
(* Commands, one group of steps at a time.                                 *)

LEMMA InstallStepInv ==
    ASSUME Inv, InstallRemove \/ InstallWrite \/ InstallFails \/ InstallRefused \/ InstallVerified
    PROVE  Inv'
<1> USE DEF InstallPcs, SwitchPcs, RestorePcs
<1>0. /\ TypeOK /\ TypeOK' /\ InstallInv /\ pc \in InstallPcs /\ op = "install" /\ op' = op
      /\ journal = Fresh /\ journal' = Fresh /\ arg \in Packages
      /\ UNCHANGED <<arg, rec, before>>
  BY InstallType DEF Inv, CommandInv, InstallInv, InstallRemove, InstallWrite, InstallFails,
                     InstallRefused, InstallVerified
<1>1. pc' \in {"idle", "stage"} \cup InstallPcs
  BY <1>0 DEF InstallRemove, InstallWrite, InstallFails, InstallRefused, InstallVerified, End
<1>2. CommandInv' /\ SwapInv' /\ SwitchInv' /\ PriorRecoverable'
  BY <1>0, <1>1 DEF CommandInv, SwapInv, SwitchInv, PriorRecoverable
<1>3. InstallInv'
  <2>1. CASE InstallRemove
    BY <1>0, <2>1, ManagedPaths DEF InstallRemove, InstallInv
  <2>2. CASE InstallWrite
    <3>1. at \in 1 .. 7
      BY <1>0, <2>2 DEF InstallInv, InstallWrite
    <3>2. \A i \in 1 .. 7 : i <= at => live'[WriteOrder[i]] = Written(WriteOrder[i])
      BY <1>0, <2>2, <3>1, WritePaths DEF InstallInv, InstallWrite, WritesPath, TypeOK, Tree
    <3>3. \A i \in 1 .. 7 : Written(WriteOrder[i])' = Written(WriteOrder[i])
      BY <1>0 DEF Written
    <3>4. CASE at < 7
      BY <1>0, <2>2, <3>1, <3>2, <3>3, <3>4, WritePaths DEF InstallWrite, InstallInv
    <3>5. CASE at = 7
      BY <1>0, <2>2, <3>1, <3>2, <3>3, <3>5, WritePaths DEF InstallWrite, InstallInv
    <3>6. QED
      BY <3>1, <3>4, <3>5
  <2>3. CASE InstallFails \/ InstallRefused \/ InstallVerified
    BY <1>0, <2>3 DEF InstallInv, InstallFails, InstallRefused, InstallVerified, End
  <2>4. QED
    BY <2>1, <2>2, <2>3
<1>4. ReportsTruthful'
  <2>1. CASE InstallVerified
    <3>1. WriteOrder[6] = "theme-active.conf"
      BY DEF WriteOrder
    <3>2. live["theme-active.conf"] = "a"
      BY <1>0, <2>1, <3>1 DEF InstallInv, InstallVerified, Written
    <3>3. QED
      BY <1>0, <2>1, <3>2 DEF ReportsTruthful, InstallVerified, End, Verified, ConfigsVerified
  <2>2. CASE ~InstallVerified
    BY <2>2 DEF ReportsTruthful, InstallRemove, InstallWrite, InstallFails, InstallRefused
  <2>3. QED
    BY <2>1, <2>2
<1>5. QED
  BY <1>0, <1>2, <1>3, <1>4 DEF Inv

LEMMA SwitchStepInv ==
    ASSUME Inv, SwitchWrite \/ SwitchVerified \/ SwitchFails \/ SwitchRestore \/ SwitchRestoreFails
    PROVE  Inv'
<1> USE DEF InstallPcs, SwitchPcs, RestorePcs
<1>0. /\ TypeOK /\ TypeOK' /\ SwitchInv /\ pc \in SwitchPcs /\ op = "switch" /\ op' = op
      /\ journal = Fresh /\ journal' = Fresh
      /\ arg \in {"a", "b"} /\ UNCHANGED <<arg, rec, before>>
      /\ Active \in Paths
  BY SwitchType, ManagedPaths
     DEF Inv, CommandInv, SwitchInv, SwitchWrite, SwitchVerified, SwitchFails, SwitchRestore,
         SwitchRestoreFails
<1>1. pc' \in {"idle"} \cup SwitchPcs
  BY DEF SwitchWrite, SwitchVerified, SwitchFails, SwitchRestore, SwitchRestoreFails, End
<1>2. CommandInv' /\ SwapInv' /\ InstallInv' /\ PriorRecoverable'
  BY <1>0, <1>1 DEF CommandInv, SwapInv, InstallInv, PriorRecoverable
<1>3. \A p \in Paths \ {Active} : live'[p] = before.tree[p]
  BY <1>0 DEF SwitchInv, SwitchWrite, SwitchVerified, SwitchFails, SwitchRestore,
              SwitchRestoreFails, Activate, Active, TypeOK, Tree
<1>4. SwitchWrite => live'[Active] = arg
  BY <1>0, ManagedPaths
     DEF SwitchInv, SwitchWrite, Activate, Active, TypeOK, Tree, Verified, ConfigsVerified
<1>5. SwitchInv'
  <2>1. Verified(before.tree)'
    BY <1>0 DEF SwitchInv
  <2>2. QED
    BY <1>0, <1>1, <1>3, <1>4, <2>1
       DEF SwitchInv, SwitchWrite, SwitchVerified, SwitchFails, SwitchRestore,
           SwitchRestoreFails, End
<1>6. ReportsTruthful'
  <2>1. CASE SwitchVerified
    BY <1>0, <2>1
       DEF ReportsTruthful, SwitchVerified, End, SwitchInv, Active, Verified, ConfigsVerified
  <2>2. CASE SwitchRestore
    <3>1. live'[Active] = before.tree[Active]
      BY <1>0, <2>2 DEF SwitchRestore, Activate, Previous, Active, TypeOK, Tree
    <3>2. live' = before.tree
      BY <1>0, <1>3, <3>1 DEF TypeOK, Tree, Backup
    <3>3. QED
      BY <1>0, <2>2, <3>2 DEF ReportsTruthful, SwitchRestore, End
  <2>3. CASE SwitchWrite \/ SwitchFails \/ SwitchRestoreFails
    BY <2>3 DEF ReportsTruthful, SwitchWrite, SwitchFails, SwitchRestoreFails, End
  <2>4. QED
    BY <2>1, <2>2, <2>3
<1>7. QED
  BY <1>0, <1>2, <1>5, <1>6 DEF Inv

LEMMA BeginInv ==
    ASSUME Inv, InstallBegin \/ SwitchBegin \/ \E b \in backups : Rollback(b)
    PROVE  Inv'
<1> USE DEF InstallPcs, SwitchPcs, RestorePcs, Begin
<1>0. /\ TypeOK /\ TypeOK' /\ pc = "idle" /\ UNCHANGED <<live, journal>>
      /\ journal = Fresh /\ before' = Current
  BY BeginType DEF Inv, CommandInv, InstallBegin, SwitchBegin, Rollback
<1>1. CASE InstallBegin
  BY <1>0, <1>1 DEF Inv, InstallBegin, ReadsPackage, TakesBackup, CommandInv, SwapInv, InstallInv,
                    SwitchInv, ReportsTruthful, PriorRecoverable
<1>2. CASE SwitchBegin
  <2>1. Verified(before.tree)'
    BY <1>0, <1>2 DEF SwitchBegin, Current
  <2>2. SwitchInv'
    BY <1>0, <1>2, <2>1 DEF SwitchBegin, SwitchInv, Current
  <2>3. QED
    BY <1>0, <1>2, <2>2 DEF Inv, SwitchBegin, CommandInv, SwapInv, InstallInv, ReportsTruthful,
                            PriorRecoverable
<1>3. CASE \E b \in backups : Rollback(b)
  BY <1>0, <1>3 DEF Inv, Rollback, CommandInv, SwapInv, InstallInv, SwitchInv, ReportsTruthful,
                    PriorRecoverable, Current
<1>4. QED
  BY <1>1, <1>2, <1>3

\* During the swaps, what was live is live or in the journal.
Recoverable(p) == before.tree[p] \in {"absent", live[p], journal.old[p]}
KeepsPrior == \A p \in Paths : Recoverable(p)

LEMMA SwapsRecoverable == SwapInv /\ pc \in RestorePcs \ {"stage"} => KeepsPrior
<1> SUFFICES ASSUME SwapInv,
                    pc \in {"prior", "staged", "rmdir", "cleanup", "reverse", "reverse_prior",
                            "reverse_end"},
                    NEW p \in Paths
             PROVE  Recoverable(p)
  BY DEF KeepsPrior, RestorePcs
<1>1. at \in 1 .. 7
  BY DEF SwapInv
<1>2. CASE pc \in {"rmdir", "cleanup", "reverse_end"}
  BY <1>2 DEF SwapInv, Swapped, Untouched, Recoverable
<1>3. CASE pc \in {"prior", "staged", "reverse", "reverse_prior"}
  <2>1. PICK i \in 1 .. 7 : RestoreOrder[i] = p
    BY RestorePaths
  <2>2. i < at \/ i > at \/ i = at
    BY <1>1
  <2>3. Untouched(p) \/ PriorAway(p) \/ Swapped(p)
    BY <1>3, <2>1, <2>2 DEF SwapInv, Around, Path
  <2>4. QED
    BY <2>3 DEF Swapped, Untouched, PriorAway, Recoverable
<1>4. QED
  BY <1>2, <1>3

LEMMA SwapsRecoverableNext == (SwapInv /\ pc \in RestorePcs \ {"stage"} => KeepsPrior)'
  BY SwapsRecoverable, PTL

LEMMA RestoreTypeSwap == ASSUME Inv, RestoreStep PROVE TypeOK' /\ SwapInv'
  BY StageInv, SwapPriorInv, SwapStagedInv, SwapFailsInv, RemoveThemesInv, RemoveThemesFailsInv,
     ReverseStagedInv, ReversePriorInv, RestorationEnds DEF RestoreStep

LEMMA RestoreFrame ==
    ASSUME RestoreStep
    PROVE  /\ pc \in RestorePcs /\ pc' \in {"idle"} \cup (RestorePcs \ {"stage"})
           /\ UNCHANGED <<others, backups, op, arg, rec>>
           /\ Stage \/ StageFails \/ UNCHANGED before
           /\ pc' = "idle" /\ ~StageFails => journal' = Fresh
           /\ pc' # "idle" => UNCHANGED strays
  BY DEF RestoreStep, RestorePcs, Stage, StageFails, SwapPrior, SwapStaged, SwapFails,
         RemoveThemes, RemoveThemesFails, Cleanup, CleanupFails, ReverseStaged, ReversePrior,
         StepBack, ReverseFails, ReverseEnd, End, Fresh

\* A restoration that ends leaves what was live where PriorRecoverable says.
LEMMA RestoreRecoverable ==
    ASSUME Inv, RestoreStep, SwapInv'
    PROVE  PriorRecoverable'
<1>1. CASE pc' # "idle"
  <2>1. KeepsPrior'
    BY <1>1, RestoreFrame, SwapsRecoverableNext DEF RestorePcs
  <2>2. QED
    BY <2>1 DEF PriorRecoverable, Recoverable, KeepsPrior
<1>2. CASE pc' = "idle"
  <2>1. CASE StageFails
    BY <2>1 DEF StageFails, PriorRecoverable, Current
  <2>2. CASE Cleanup \/ CleanupFails
    <3>1. \A p \in Paths : Swapped(p)
      BY <2>2 DEF Inv, SwapInv, Cleanup, CleanupFails
    <3>2. live' = rec'.tree
      BY <2>2, <3>1 DEF Cleanup, CleanupFails, Swapped, Inv, TypeOK, Tree, Backup
    <3>3. QED
      BY <3>2 DEF PriorRecoverable
  <2>3. CASE ReverseEnd
    <3>1. \A p \in Paths : live'[p] = before'.tree[p]
      BY <2>3 DEF Inv, SwapInv, ReverseEnd, Untouched
    <3>2. QED
      BY <3>1 DEF PriorRecoverable
  <2>4. CASE ReverseFails
    <3>1. KeepsPrior
      BY <2>4, SwapsRecoverable DEF Inv, ReverseFails, RestorePcs
    <3>2. journal.old \in strays' /\ UNCHANGED <<live, before>>
      BY <2>4 DEF ReverseFails
    <3>3. QED
      BY <3>1, <3>2 DEF PriorRecoverable, Recoverable, KeepsPrior
  <2>5. QED
    BY <1>2, <2>1, <2>2, <2>3, <2>4
       DEF RestoreStep, Stage, SwapPrior, SwapStaged, SwapFails, RemoveThemes, RemoveThemesFails,
           ReverseStaged, ReversePrior, StepBack
<1>3. QED
  BY <1>1, <1>2

LEMMA RestoreTruthful ==
    ASSUME Inv, RestoreStep
    PROVE  ReportsTruthful'
<1> SUFFICES ASSUME pc' = "idle" PROVE ReportsTruthful'
  BY DEF ReportsTruthful
<1> USE DEF End
<1>1. CASE StageFails
  BY <1>1 DEF StageFails, NotRestored, ReportsTruthful, Current
<1>2. CASE Cleanup \/ CleanupFails
  <2>1. \A p \in Paths : Swapped(p)
    BY <1>2 DEF Inv, SwapInv, Cleanup, CleanupFails
  <2>2. live' = rec'.tree
    BY <1>2, <2>1 DEF Cleanup, CleanupFails, Swapped, Inv, TypeOK, Tree, Backup
  <2>3. (~rec.themes => ~(themes /\ Empty(live)))'
    BY <1>2 DEF Inv, SwapInv, Cleanup, CleanupFails, Empty
  <2>4. result' \in {"install_undone", "rolled_back", "install_stuck"}
    BY <1>2 DEF Cleanup, CleanupFails, Restored
  <2>5. QED
    BY <2>2, <2>3, <2>4 DEF ReportsTruthful
<1>3. CASE ReverseEnd
  <2>1. \A p \in Paths : live'[p] = before'.tree[p]
    BY <1>3 DEF Inv, SwapInv, ReverseEnd, Untouched
  <2>2. live' = before'.tree
    BY <1>3, <2>1 DEF ReverseEnd, Inv, TypeOK, Tree, Backup
  <2>3. (~before.themes => ~(themes /\ Empty(live)))'
    BY <1>3 DEF Inv, SwapInv, ReverseEnd, Empty
  <2>4. result' \in {"reversed", "install_stuck"}
    BY <1>3 DEF ReverseEnd, NotRestored
  <2>5. QED
    BY <2>2, <2>3, <2>4 DEF ReportsTruthful
<1>4. CASE ReverseFails
  BY <1>4 DEF ReverseFails, ReportsTruthful
<1>5. QED
  BY <1>1, <1>2, <1>3, <1>4
     DEF RestoreStep, Stage, SwapPrior, SwapStaged, SwapFails, RemoveThemes, RemoveThemesFails,
         ReverseStaged, ReversePrior, StepBack

LEMMA RestoreStepInv == ASSUME Inv, RestoreStep PROVE Inv'
<1>1. TypeOK' /\ SwapInv' /\ ReportsTruthful'
  BY RestoreTypeSwap, RestoreTruthful
<1>2. PriorRecoverable'
  BY <1>1, RestoreRecoverable
<1>3. InstallInv' /\ SwitchInv'
  BY RestoreFrame DEF InstallInv, SwitchInv, InstallPcs, SwitchPcs, RestorePcs
<1>4. CommandInv'
  <2>1. op' \in {"install", "rollback"}
    BY RestoreFrame DEF Inv, CommandInv
  <2>2. StageFails => journal' = Fresh
    BY DEF StageFails, Inv, CommandInv
  <2>3. QED
    BY <2>1, <2>2, RestoreFrame DEF CommandInv, InstallPcs, SwitchPcs, RestorePcs
<1>5. QED
  BY <1>1, <1>2, <1>3, <1>4 DEF Inv

LEMMA KilledInv == ASSUME Inv, Killed PROVE Inv'
<1>1. /\ TypeOK' /\ pc # "idle" /\ pc' = "idle" /\ result' = "killed" /\ journal' = Fresh
      /\ UNCHANGED <<op, before, rec>>
  BY KilledType DEF Killed, End, Fresh
<1>2. CommandInv' /\ SwapInv' /\ InstallInv' /\ SwitchInv' /\ ReportsTruthful'
  BY <1>1 DEF CommandInv, SwapInv, InstallInv, SwitchInv, ReportsTruthful, InstallPcs, SwitchPcs,
              RestorePcs
<1>3. PriorRecoverable'
  <2> SUFFICES ASSUME op = "rollback" PROVE PriorRecoverable'
    BY <1>1 DEF PriorRecoverable
  <2>1. pc \in RestorePcs
    BY <1>1 DEF Inv, TypeOK, Pcs, CommandInv, InstallPcs, SwitchPcs
  <2>2. live' = live
    BY <2>1 DEF Killed, InstallPartly, RestorePcs
  <2>3. CASE pc = "stage"
    BY <1>1, <2>2, <2>3 DEF Inv, CommandInv, PriorRecoverable
  <2>4. CASE pc # "stage"
    <3>1. KeepsPrior
      BY <2>1, <2>4, SwapsRecoverable DEF Inv, RestorePcs
    <3>2. strays' = strays \cup ({journal.old} \ {Nothing})
      BY DEF Killed
    <3>3. \A p \in Paths : journal.old[p] = "absent" \/ journal.old \in strays'
      BY <3>2 DEF Nothing
    <3>4. QED
      BY <1>1, <2>2, <3>1, <3>3 DEF PriorRecoverable, Recoverable, KeepsPrior
  <2>5. QED
    BY <2>3, <2>4
<1>4. QED
  BY <1>1, <1>2, <1>3 DEF Inv

LEMMA InitInv == Init => Inv
<1> SUFFICES ASSUME Init PROVE Inv
  OBVIOUS
<1>1. live \in Tree
  <2> PICK own \in SUBSET Own, conf \in Confs :
        live = [p \in Paths |-> IF p = Config THEN conf
                                ELSE IF p \in own THEN "own" ELSE "absent"]
    BY DEF Init
  <2>1. conf \in Values
    BY UserAssumption, Contents
  <2>2. QED
    BY <2>1, Contents DEF Tree
<1>2. TypeOK
  <2>1. themes \in BOOLEAN /\ others \in BOOLEAN
    BY DEF Init
  <2>2. /\ journal = Fresh /\ before = NoBackup /\ rec = NoBackup /\ moved = NoMoves
        /\ left = [ops |-> MaxOps, kill |-> MaxKill, fail |-> MaxFail]
    BY DEF Init, Fresh
  <2>3. left \in [ops: Nat, kill: Nat, fail: Nat]
    BY <2>2, ThemeBoundAssumption
  <2>4. moved \in [prior: SUBSET Paths, staged: SUBSET Paths]
    BY <2>2 DEF NoMoves
  <2>5. /\ strays = {} /\ backups = {} /\ pc = "idle" /\ op = "none" /\ at = 1
        /\ arg = "none" /\ existed = FALSE /\ result = "none"
    BY DEF Init
  <2>6. /\ strays \subseteq Tree /\ backups \subseteq Backup
        /\ pc \in Pcs /\ result \in Results /\ at \in 1 .. 8
    BY <2>5 DEF Pcs, Results
  <2>7. journal \in [new: Tree, old: Tree] /\ rec \in Backup /\ before \in Backup
    BY <2>2, Contents
  <2>8. QED
    BY <1>1, <2>1, <2>3, <2>4, <2>5, <2>6, <2>7 DEF TypeOK
<1>3. QED
  BY <1>2 DEF Init, Inv, CommandInv, SwapInv, InstallInv, SwitchInv, ReportsTruthful,
              PriorRecoverable, InstallPcs, SwitchPcs, RestorePcs, Fresh

LEMMA NextInv == Inv /\ [Next]_vars => Inv'
<1> SUFFICES ASSUME Inv, [Next]_vars PROVE Inv'
  OBVIOUS
<1>1. CASE UNCHANGED vars
  BY <1>1 DEF vars, Inv, TypeOK, CommandInv, SwapInv, Around, Untouched, PriorAway, Swapped,
              Path, InstallInv, Written, SwitchInv, Verified, ConfigsVerified, ReportsTruthful,
              PriorRecoverable, Empty
<1>2. CASE Next
  BY <1>2, InstallStepInv, SwitchStepInv, BeginInv, RestoreStepInv, KilledInv DEF Next, Step
<1>3. QED
  BY <1>1, <1>2

LEMMA InvHolds == Spec => []Inv
  BY InitInv, NextInv, PTL DEF Spec

-----------------------------------------------------------------------------
\* Every variable keeps its type: in particular the walk over the paths stays inside them
\* and each path holds one of its values.
THEOREM TypeCorrect == Spec => []TypeOK
<1>1. Inv => TypeOK
  BY DEF Inv
<1>2. QED
  BY <1>1, InvHolds, PTL

\* What install, switch and rollback report is what they left on the ESP.
THEOREM ReportsAreTrue == Spec => []ReportsTruthful
<1>1. Inv => ReportsTruthful
  BY DEF Inv
<1>2. QED
  BY <1>1, InvHolds, PTL

\* A rollback that has not put the backup in place keeps all that was live when it began
\* on the ESP, through any failure, reversal, interruption or kill.
THEOREM RollbackKeepsPrior == Spec => []PriorRecoverable
<1>1. Inv => PriorRecoverable
  BY DEF Inv
<1>2. QED
  BY <1>1, InvHolds, PTL

\* What an installation or a switch has written is what verify accepts, so that only a
\* failing system call can keep a verification from passing.
THEOREM WrittenVerifies == Spec => [](pc \in {"verify", "switch_verify"} => Verified(live))
<1>1. ASSUME Inv, pc = "verify" PROVE Verified(live)
  <2>1. \A i \in 1 .. 7 : live[WriteOrder[i]] = Written(WriteOrder[i])
    BY <1>1 DEF Inv, InstallInv
  <2>2. \A p \in Paths : live[p] = Written(p)
    BY <2>1, WritePaths
  <2>3. arg \in Packages
    BY <1>1 DEF Inv, InstallInv, InstallPcs
  <2>4. QED
    BY <2>2, <2>3, ManagedPaths DEF Written, Config, Verified, ConfigsVerified
<1>2. ASSUME Inv, pc = "switch_verify" PROVE Verified(live)
  <2>1. /\ \A p \in Paths \ {Active} : live[p] = before.tree[p]
        /\ live[Active] \in {"a", "b"} /\ Verified(before.tree)
    BY <1>2 DEF Inv, SwitchInv, SwitchPcs
  <2>2. QED
    BY <2>1, ManagedPaths DEF Verified, ConfigsVerified, Active, Config
<1>3. Inv => (pc \in {"verify", "switch_verify"} => Verified(live))
  BY <1>1, <1>2
<1>4. QED
  BY <1>3, InvHolds, PTL
=============================================================================
