--------------------------- MODULE PackageProofs ---------------------------
(***************************************************************************)
(* Theorems of PackageProperties: for any packages, and any number of      *)
(* builds, failures, kills and directories of somebody else's, the         *)
(* previous package is never lost, the output never partial, and what a    *)
(* build reports is true.                                                  *)
(***************************************************************************)
EXTENDS PackageProperties, TLAPS

\* What the paths hold where a build that replaces a package is.
Withdrawn ==
    at["previous"] = before /\ at["output"] \in {"absent", "empty", "foreign"}

ReplacingHolds ==
    /\ pc \in {"populate", "withdraw"} =>
         at["output"] = before /\ \A p \in BackupPlaces : at[p] = "absent"
    /\ pc = "promote" => Withdrawn /\ at["aside"] = "absent" /\ at["obsolete"] = "absent"
    /\ pc \in {"retire", "aside"} =>
         /\ at["output"] = new /\ at["previous"] = before
         /\ at["aside"] = "absent" /\ at["obsolete"] = "absent"
    /\ pc = "purge" => at["output"] = new
    /\ pc = "restore" => Withdrawn
    /\ pc = "trash" => at["output"] = before
    /\ pc = "discard" =>
         \/ at["output"] = before
         \/ at["previous"] = before /\ at["output"] # "part"

\* ... and where a first build is.
FirstHolds ==
    /\ pc \in {"populate", "publish"} =>
         at["output"] \in {"absent", "empty", "foreign"} /\ at["previous"] = "absent"
    /\ pc = "undo" => at["output"] \in {new, "part"}

\* A first build and one that replaces a package go through different steps.
Inv ==
    /\ TypeOK
    /\ pc # "idle" => new \in Packages
    /\ pc \in {"withdraw", "promote", "publish"} => at["staging"] = new
    /\ IF Replacing THEN pc \notin {"publish", "undo"} /\ ReplacingHolds
       ELSE pc \in {"idle", "populate", "publish", "undo", "discard"} /\ FirstHolds
    /\ pc \notin {"idle", "discard"} => result = "failed"
    /\ pc = "discard" => Told /\ result \in {"failed", "preserved", "unremoved"}
    /\ PreviousNeverLost /\ ReportsTruthful /\ OutputNeverPartial

-----------------------------------------------------------------------------
(* What the system calls do to the paths.                                  *)

\* A rename that raised had no effect, or its whole effect.
LEMMA RaisedRename ==
    ASSUME NEW source \in Places, NEW target \in Places, source # target,
           NEW kind \in Kinds, TypeOK, RenameRaises(source, target, kind)
    PROVE  /\ \/ at' = at
              \/ at[source] # "absent" /\ Vacant(target) /\ at' = Moved(source, target)
           /\ left' \in [build: Nat, fail: Nat, kill: Nat, drift: Nat]
  BY DEF RenameRaises, Blocked, Fail, TypeOK

\* _complete_rename goes on as done only when the rename took place, and otherwise leaves
\* the paths as they were.
LEMMA CompletedRename ==
    ASSUME NEW source \in Places, NEW target \in Places, source # target,
           NEW done \in Pcs, NEW failed \in Pcs, done # pc, done # failed,
           TypeOK, CompleteRename(source, target, done, failed)
    PROVE  /\ pc' \in {pc, done, failed}
           /\ at[source] # "absent" =>
                IF pc' = done THEN Vacant(target) /\ at' = Moved(source, target)
                ELSE at' = at
           /\ first' \in {"none"} \cup Kinds /\ errors' \subseteq Kinds
           /\ left' \in [build: Nat, fail: Nat, kill: Nat, drift: Nat]
<1>1. CASE Renames(source, target) /\ errors' = errors \cup ({first} \ {"none"})
            /\ first' = "none" /\ pc' = done
  BY <1>1 DEF Renames, Blocked, TypeOK
<1>2. CASE \E kind \in Kinds : RenameRaises(source, target, kind) /\
            \/ /\ Committed(source, target)'
               /\ errors' = errors \cup {kind}
               /\ first' = "none" /\ pc' = done
            \/ /\ ~Committed(source, target)' /\ first = "none"
               /\ first' = kind /\ UNCHANGED <<errors, pc>>
            \/ /\ ~Committed(source, target)' /\ first # "none"
               /\ errors' = errors \cup {kind, first}
               /\ first' = "none" /\ pc' = failed
  <2> PICK kind \in Kinds : RenameRaises(source, target, kind) /\
            \/ /\ Committed(source, target)'
               /\ errors' = errors \cup {kind}
               /\ first' = "none" /\ pc' = done
            \/ /\ ~Committed(source, target)' /\ first = "none"
               /\ first' = kind /\ UNCHANGED <<errors, pc>>
            \/ /\ ~Committed(source, target)' /\ first # "none"
               /\ errors' = errors \cup {kind, first}
               /\ first' = "none" /\ pc' = failed
    BY <1>2
  <2>1. /\ \/ at' = at
           \/ at[source] # "absent" /\ Vacant(target) /\ at' = Moved(source, target)
        /\ left' \in [build: Nat, fail: Nat, kill: Nat, drift: Nat]
    BY RaisedRename
  <2>2. first' \in {"none"} \cup Kinds /\ errors' \subseteq Kinds /\ pc' \in {pc, done, failed}
    BY DEF TypeOK
  <2>3. at' = Moved(source, target) /\ at[source] # "absent" => Committed(source, target)'
    BY DEF Moved, Committed, TypeOK
  <2>4. at' = at /\ at[source] # "absent" => ~Committed(source, target)'
    BY DEF Committed
  <2> QED BY <2>1, <2>2, <2>3, <2>4
<1> QED BY <1>1, <1>2 DEF CompleteRename

\* A removal changes one path, and goes on only when it is done or gives up.
LEMMA RemovedTree ==
    ASSUME NEW place \in Places, NEW next \in Pcs, next # pc, TypeOK, RemoveTree(place, next)
    PROVE  /\ \E rest \in {at[place], "part", "absent"} :
                /\ at' = [at EXCEPT ![place] = rest]
                /\ pc' = pc => rest # "absent"
           /\ pc' \in {pc, next}
           /\ first' \in {"none"} \cup Kinds /\ errors' \subseteq Kinds
           /\ left' \in [build: Nat, fail: Nat, kill: Nat, drift: Nat]
<1>1. CASE /\ at' = [at EXCEPT ![place] = "absent"]
           /\ first' = "none" /\ pc' = next
           /\ UNCHANGED <<errors, left>>
  BY <1>1 DEF TypeOK
<1>2. ASSUME NEW kind \in Kinds, NEW rest \in {at[place], "part", "absent"},
             Fail, at' = [at EXCEPT ![place] = rest], errors' = errors \cup {kind},
             IF rest = "absent" \/ first # "none"
             THEN first' = "none" /\ pc' = next ELSE first' = kind /\ UNCHANGED pc
      PROVE  /\ pc' = pc => rest # "absent"
             /\ pc' \in {pc, next}
             /\ first' \in {"none"} \cup Kinds /\ errors' \subseteq Kinds
             /\ left' \in [build: Nat, fail: Nat, kill: Nat, drift: Nat]
  BY <1>2 DEF Fail, TypeOK
<1> QED BY <1>1, <1>2 DEF RemoveTree

-----------------------------------------------------------------------------
(* Every step preserves Inv, and leaves a foreign output where it is.      *)

ForeignStays ==
    /\ at["output"] = "foreign" => at'["output"] = "foreign"
    /\ at["output"] = "empty" =>
         at'["output"] \in {"empty", "foreign"} \cup Packages

LEMMA InitHolds == Init => Inv
  BY PackageNames, PackageBounds
  DEF Init, Inv, TypeOK, Places, BackupPlaces, Values, Pcs, Kinds, Results, Replacing,
      FirstHolds, ReplacingHolds, PreviousNeverLost, ReportsTruthful, OutputNeverPartial, Told

LEMMA BuildBeginPreserves == ASSUME Inv, BuildBegin PROVE Inv' /\ ForeignStays
  BY PackageNames
  DEF BuildBegin, Owned, Inv, TypeOK, Places, BackupPlaces, Values, Pcs, Kinds, Results, Replacing,
      FirstHolds, ReplacingHolds, Withdrawn, PreviousNeverLost, ReportsTruthful, OutputNeverPartial, Told,
      Vacant, ForeignStays

LEMMA PopulatePreserves == ASSUME Inv, Populate PROVE Inv' /\ ForeignStays
  BY PackageNames
  DEF Populate, Inv, TypeOK, Places, BackupPlaces, Values, Pcs, Kinds, Results, Replacing,
      FirstHolds, ReplacingHolds, Withdrawn, PreviousNeverLost, ReportsTruthful, OutputNeverPartial, Told,
      Vacant, ForeignStays

LEMMA PopulateFailsPreserves == ASSUME Inv, PopulateFails PROVE Inv' /\ ForeignStays
  BY PackageNames
  DEF PopulateFails, Fail, Inv, TypeOK, Places, BackupPlaces, Values, Pcs, Kinds, Results, Replacing,
      FirstHolds, ReplacingHolds, Withdrawn, PreviousNeverLost, ReportsTruthful, OutputNeverPartial, Told,
      Vacant, ForeignStays

LEMMA PublishPreserves == ASSUME Inv, Publish PROVE Inv' /\ ForeignStays
  BY PackageNames
  DEF Publish, Renames, Blocked, Moved, Inv, TypeOK, Places, BackupPlaces, Values, Pcs, Kinds, Results, Replacing,
      FirstHolds, ReplacingHolds, Withdrawn, PreviousNeverLost, ReportsTruthful, OutputNeverPartial, Told,
      Vacant, ForeignStays

LEMMA PublishRaisesPreserves == ASSUME Inv, PublishRaises PROVE Inv' /\ ForeignStays
<1>1. PICK kind \in Kinds : RenameRaises("staging", "output", kind)
  BY DEF PublishRaises
<1>2. /\ \/ at' = at
         \/ at["staging"] # "absent" /\ Vacant("output") /\ at' = Moved("staging", "output")
      /\ left' \in [build: Nat, fail: Nat, kill: Nat, drift: Nat]
  BY <1>1, RaisedRename DEF Inv, Places, BackupPlaces
<1> QED
  BY <1>2, PackageNames
  DEF PublishRaises, Committed, Moved, Inv, TypeOK, Places, BackupPlaces, Values, Pcs, Kinds, Results, Replacing,
      FirstHolds, ReplacingHolds, Withdrawn, PreviousNeverLost, ReportsTruthful, OutputNeverPartial, Told,
      Vacant, ForeignStays

LEMMA UndoPublishPreserves == ASSUME Inv, UndoPublish PROVE Inv' /\ ForeignStays
<1>1. RemoveTree("output", "discard") /\ pc # "discard"
  BY DEF UndoPublish
<1>2. /\ pc' \in {pc, "discard"}
      /\ first' \in {"none"} \cup Kinds /\ errors' \subseteq Kinds
      /\ left' \in [build: Nat, fail: Nat, kill: Nat, drift: Nat]
  BY <1>1, RemovedTree DEF Inv, Places, BackupPlaces, Pcs
<1>3. PICK rest \in {at["output"], "part", "absent"} :
        at' = [at EXCEPT !["output"] = rest] /\ (pc' = pc => rest # "absent")
  BY <1>1, RemovedTree DEF Inv, Places, BackupPlaces, Pcs
<1> QED
  BY <1>2, <1>3, PackageNames
  DEF UndoPublish, Inv, TypeOK, Places, BackupPlaces, Values, Pcs, Kinds, Results, Replacing,
      FirstHolds, ReplacingHolds, Withdrawn, PreviousNeverLost, ReportsTruthful, OutputNeverPartial, Told,
      Vacant, ForeignStays

LEMMA WithdrawPreserves == ASSUME Inv, Withdraw PROVE Inv' /\ ForeignStays
  BY PackageNames
  DEF Withdraw, Renames, Blocked, Moved, Inv, TypeOK, Places, BackupPlaces, Values, Pcs, Kinds, Results, Replacing,
      FirstHolds, ReplacingHolds, Withdrawn, PreviousNeverLost, ReportsTruthful, OutputNeverPartial, Told,
      Vacant, ForeignStays

LEMMA WithdrawRaisesPreserves == ASSUME Inv, WithdrawRaises PROVE Inv' /\ ForeignStays
<1>1. PICK kind \in Kinds : RenameRaises("output", "previous", kind)
  BY DEF WithdrawRaises
<1>2. /\ \/ at' = at
         \/ at["output"] # "absent" /\ Vacant("previous") /\ at' = Moved("output", "previous")
      /\ left' \in [build: Nat, fail: Nat, kill: Nat, drift: Nat]
  BY <1>1, RaisedRename DEF Inv, Places, BackupPlaces
<1> QED
  BY <1>2, PackageNames
  DEF WithdrawRaises, Committed, Moved, Inv, TypeOK, Places, BackupPlaces, Values, Pcs, Kinds, Results, Replacing,
      FirstHolds, ReplacingHolds, Withdrawn, PreviousNeverLost, ReportsTruthful, OutputNeverPartial, Told,
      Vacant, ForeignStays

LEMMA PromotePreserves == ASSUME Inv, Promote PROVE Inv' /\ ForeignStays
  BY PackageNames
  DEF Promote, Renames, Blocked, Moved, Inv, TypeOK, Places, BackupPlaces, Values, Pcs, Kinds, Results, Replacing,
      FirstHolds, ReplacingHolds, Withdrawn, PreviousNeverLost, ReportsTruthful, OutputNeverPartial, Told,
      Vacant, ForeignStays

LEMMA PromoteRaisesPreserves == ASSUME Inv, PromoteRaises PROVE Inv' /\ ForeignStays
<1>1. PICK kind \in Kinds : RenameRaises("staging", "output", kind)
  BY DEF PromoteRaises
<1>2. /\ \/ at' = at
         \/ at["staging"] # "absent" /\ Vacant("output") /\ at' = Moved("staging", "output")
      /\ left' \in [build: Nat, fail: Nat, kill: Nat, drift: Nat]
  BY <1>1, RaisedRename DEF Inv, Places, BackupPlaces
<1> QED
  BY <1>2, PackageNames
  DEF PromoteRaises, Committed, Moved, Inv, TypeOK, Places, BackupPlaces, Values, Pcs, Kinds, Results, Replacing,
      FirstHolds, ReplacingHolds, Withdrawn, PreviousNeverLost, ReportsTruthful, OutputNeverPartial, Told,
      Vacant, ForeignStays

LEMMA RetirePreserves == ASSUME Inv, Retire PROVE Inv' /\ ForeignStays
<1>1. CompleteRename("previous", "obsolete", "purge", "aside") /\ pc # "purge" /\ pc # "aside"
  BY DEF Retire
<1>2. /\ pc' \in {pc, "purge", "aside"}
      /\ at["previous"] # "absent" =>
           IF pc' = "purge" THEN Vacant("obsolete") /\ at' = Moved("previous", "obsolete")
           ELSE at' = at
      /\ first' \in {"none"} \cup Kinds /\ errors' \subseteq Kinds
      /\ left' \in [build: Nat, fail: Nat, kill: Nat, drift: Nat]
  BY <1>1, CompletedRename DEF Inv, Places, BackupPlaces, Pcs
<1> QED
  BY <1>2, PackageNames
  DEF Retire, EndsPreserved, Moved, Inv, TypeOK, Places, BackupPlaces, Values, Pcs, Kinds, Results, Replacing,
      FirstHolds, ReplacingHolds, Withdrawn, PreviousNeverLost, ReportsTruthful, OutputNeverPartial, Told,
      Vacant, ForeignStays

LEMMA PurgePreserves == ASSUME Inv, Purge PROVE Inv' /\ ForeignStays
<1>1. RemoveTree("obsolete", "idle") /\ pc # "idle"
  BY DEF Purge
<1>2. /\ pc' \in {pc, "idle"}
      /\ first' \in {"none"} \cup Kinds /\ errors' \subseteq Kinds
      /\ left' \in [build: Nat, fail: Nat, kill: Nat, drift: Nat]
  BY <1>1, RemovedTree DEF Inv, Places, BackupPlaces, Pcs
<1>3. PICK rest \in {at["obsolete"], "part", "absent"} :
        at' = [at EXCEPT !["obsolete"] = rest] /\ (pc' = pc => rest # "absent")
  BY <1>1, RemovedTree DEF Inv, Places, BackupPlaces, Pcs
<1> QED
  BY <1>2, <1>3, PackageNames
  DEF Purge, Inv, TypeOK, Places, BackupPlaces, Values, Pcs, Kinds, Results, Replacing,
      FirstHolds, ReplacingHolds, Withdrawn, PreviousNeverLost, ReportsTruthful, OutputNeverPartial, Told,
      Vacant, ForeignStays

LEMMA AsidePreserves == ASSUME Inv, Aside PROVE Inv' /\ ForeignStays
<1>1. CompleteRename("output", "aside", "restore", "discard") /\ pc # "restore" /\ pc # "discard"
  BY DEF Aside
<1>2. /\ pc' \in {pc, "restore", "discard"}
      /\ at["output"] # "absent" =>
           IF pc' = "restore" THEN Vacant("aside") /\ at' = Moved("output", "aside")
           ELSE at' = at
      /\ first' \in {"none"} \cup Kinds /\ errors' \subseteq Kinds
      /\ left' \in [build: Nat, fail: Nat, kill: Nat, drift: Nat]
  BY <1>1, CompletedRename DEF Inv, Places, BackupPlaces, Pcs
<1> QED
  BY <1>2, PackageNames
  DEF Aside, EndsPreserved, Moved, Inv, TypeOK, Places, BackupPlaces, Values, Pcs, Kinds, Results, Replacing,
      FirstHolds, ReplacingHolds, Withdrawn, PreviousNeverLost, ReportsTruthful, OutputNeverPartial, Told,
      Vacant, ForeignStays

LEMMA RestorePreserves == ASSUME Inv, Restore PROVE Inv' /\ ForeignStays
<1>1. CompleteRename("previous", "output", "trash", "discard") /\ pc # "trash" /\ pc # "discard"
  BY DEF Restore
<1>2. /\ pc' \in {pc, "trash", "discard"}
      /\ at["previous"] # "absent" =>
           IF pc' = "trash" THEN Vacant("output") /\ at' = Moved("previous", "output")
           ELSE at' = at
      /\ first' \in {"none"} \cup Kinds /\ errors' \subseteq Kinds
      /\ left' \in [build: Nat, fail: Nat, kill: Nat, drift: Nat]
  BY <1>1, CompletedRename DEF Inv, Places, BackupPlaces, Pcs
<1> QED
  BY <1>2, PackageNames
  DEF Restore, EndsPreserved, Moved, Inv, TypeOK, Places, BackupPlaces, Values, Pcs, Kinds, Results, Replacing,
      FirstHolds, ReplacingHolds, Withdrawn, PreviousNeverLost, ReportsTruthful, OutputNeverPartial, Told,
      Vacant, ForeignStays

LEMMA TrashPreserves == ASSUME Inv, Trash PROVE Inv' /\ ForeignStays
<1>1. RemoveTree("aside", "discard") /\ pc # "discard"
  BY DEF Trash
<1>2. /\ pc' \in {pc, "discard"}
      /\ first' \in {"none"} \cup Kinds /\ errors' \subseteq Kinds
      /\ left' \in [build: Nat, fail: Nat, kill: Nat, drift: Nat]
  BY <1>1, RemovedTree DEF Inv, Places, BackupPlaces, Pcs
<1>3. PICK rest \in {at["aside"], "part", "absent"} :
        at' = [at EXCEPT !["aside"] = rest] /\ (pc' = pc => rest # "absent")
  BY <1>1, RemovedTree DEF Inv, Places, BackupPlaces, Pcs
<1> QED
  BY <1>2, <1>3, PackageNames
  DEF Trash, Inv, TypeOK, Places, BackupPlaces, Values, Pcs, Kinds, Results, Replacing,
      FirstHolds, ReplacingHolds, Withdrawn, PreviousNeverLost, ReportsTruthful, OutputNeverPartial, Told,
      Vacant, ForeignStays

LEMMA DiscardPreserves == ASSUME Inv, Discard PROVE Inv' /\ ForeignStays
<1>1. RemoveTree("staging", "idle") /\ pc # "idle"
  BY DEF Discard
<1>2. /\ pc' \in {pc, "idle"}
      /\ first' \in {"none"} \cup Kinds /\ errors' \subseteq Kinds
      /\ left' \in [build: Nat, fail: Nat, kill: Nat, drift: Nat]
  BY <1>1, RemovedTree DEF Inv, Places, BackupPlaces, Pcs
<1>3. PICK rest \in {at["staging"], "part", "absent"} :
        at' = [at EXCEPT !["staging"] = rest] /\ (pc' = pc => rest # "absent")
  BY <1>1, RemovedTree DEF Inv, Places, BackupPlaces, Pcs
<1> QED
  BY <1>2, <1>3, PackageNames
  DEF Discard, Inv, TypeOK, Places, BackupPlaces, Values, Pcs, Kinds, Results, Replacing,
      FirstHolds, ReplacingHolds, Withdrawn, PreviousNeverLost, ReportsTruthful, OutputNeverPartial, Told,
      Vacant, ForeignStays

LEMMA KilledPreserves == ASSUME Inv, Killed PROVE Inv' /\ ForeignStays
  BY PackageNames
  DEF Killed, Inv, TypeOK, Places, BackupPlaces, Values, Pcs, Kinds, Results, Replacing,
      FirstHolds, ReplacingHolds, Withdrawn, PreviousNeverLost, ReportsTruthful, OutputNeverPartial, Told,
      Vacant, ForeignStays

LEMMA DriftPreserves == ASSUME Inv, Drift PROVE Inv' /\ ForeignStays
  BY PackageNames
  DEF Drift, Inv, TypeOK, Places, BackupPlaces, Values, Pcs, Kinds, Results, Replacing,
      FirstHolds, ReplacingHolds, Withdrawn, PreviousNeverLost, ReportsTruthful, OutputNeverPartial, Told,
      Vacant, ForeignStays

LEMMA NextPreserves == ASSUME Inv, Next PROVE Inv' /\ ForeignStays
<1>1. CASE BuildBegin
  BY <1>1, BuildBeginPreserves
<1>2. CASE Step
  BY <1>2, PopulatePreserves, PopulateFailsPreserves, PublishPreserves, PublishRaisesPreserves, UndoPublishPreserves,
     WithdrawPreserves, WithdrawRaisesPreserves, PromotePreserves, PromoteRaisesPreserves, RetirePreserves,
     PurgePreserves, AsidePreserves, RestorePreserves, TrashPreserves, DiscardPreserves
  DEF Step
<1>3. CASE Killed
  BY <1>3, KilledPreserves
<1>4. CASE Drift
  BY <1>4, DriftPreserves
<1> QED BY <1>1, <1>2, <1>3, <1>4 DEF Next

LEMMA StepPreserves == ASSUME Inv, [Next]_vars PROVE Inv'
<1>1. CASE UNCHANGED vars
  BY <1>1 DEF vars, Inv, TypeOK, Places, BackupPlaces, Values, Replacing, FirstHolds,
              ReplacingHolds, Withdrawn, PreviousNeverLost, ReportsTruthful,
              OutputNeverPartial, Told
<1> QED BY <1>1, NextPreserves

\* The inductive invariant: where each package is at each step of the promotion.
THEOREM Invariance == Spec => []Inv
<1>1. Init => Inv
  BY InitHolds
<1>2. Inv /\ [Next]_vars => Inv'
  BY StepPreserves
<1> QED BY <1>1, <1>2, PTL DEF Spec

\* Every variable keeps its type, for any packages and bounds.
THEOREM TypeCorrect == Spec => []TypeOK
<1>1. Inv => TypeOK
  BY DEF Inv
<1> QED BY <1>1, Invariance, PTL

\* However many builds fail, are interrupted or are killed, the previous package is whole
\* at the output or in a backup root until the new one is at the output.
THEOREM PreviousSafe == Spec => []PreviousNeverLost
<1>1. Inv => PreviousNeverLost
  BY DEF Inv
<1> QED BY <1>1, Invariance, PTL

\* What a build's return or exception says of the output and the backup is true.
THEOREM ReportsTrue == Spec => []ReportsTruthful
<1>1. Inv => ReportsTruthful
  BY DEF Inv
<1> QED BY <1>1, Invariance, PTL

\* A package that replaces another, or is replaced, is never partial at the output.
THEOREM OutputWholeOrAbsent == Spec => []OutputNeverPartial
<1>1. Inv => OutputNeverPartial
  BY DEF Inv
<1> QED BY <1>1, Invariance, PTL

\* No step of a build moves or removes a directory of somebody else's at the output that
\* holds something, and only a whole package takes the place of an empty one.
THEOREM ForeignSafe == Spec => ForeignOutputKept
<1>1. Inv /\ [Next]_vars => [ForeignStays]_vars
  BY NextPreserves
<1>2. [ForeignStays]_vars =>
        [/\ at["output"] = "foreign" => at'["output"] = "foreign"
         /\ at["output"] = "empty" =>
              at'["output"] \in {"empty", "foreign"} \cup Packages]_vars
  BY DEF ForeignStays
<1> QED BY <1>1, <1>2, Invariance, PTL DEF Spec, ForeignOutputKept

-----------------------------------------------------------------------------
(* Every step is one of PackageReplacement, or changes nothing it shows.   *)

ReplacementStep == Replacement!Next \/ UNCHANGED Replacement!replacement

LEMMA InitReplaces == Init => Replacement!Init
  BY DEF Init, Replacement!Init, Places, BackupPlaces

LEMMA UnseenReplaces ==
    ASSUME UNCHANGED <<at["output"], at["previous"], before, new, pc # "idle">>
    PROVE  ReplacementStep
  BY DEF ReplacementStep, Replacement!replacement

LEMMA ClosingReplaces ==
    ASSUME pc # "idle", UNCHANGED <<at["output"], at["previous"], before, new>>
    PROVE  ReplacementStep
<1>1. CASE pc' = "idle"
  BY <1>1 DEF ReplacementStep, Replacement!Next, Replacement!Close
<1>2. CASE pc' # "idle"
  BY <1>2, UnseenReplaces
<1> QED BY <1>1, <1>2

\* The new package goes to the output.
LEMMA ShowingReplaces ==
    ASSUME Inv, pc \in {"publish", "promote"}, UNCHANGED <<before, new>>,
           pc' # "idle" \/ pc = "publish",
           Vacant("output"), at' = Moved("staging", "output")
    PROVE  ReplacementStep
<1>1. at["staging"] = new /\ at["previous"] = before
  BY DEF Inv, FirstHolds, ReplacingHolds, Withdrawn, Replacing
<1>2. at'["output"] = new /\ at'["previous"] = before
  BY <1>1 DEF Moved, Inv, TypeOK, Places, BackupPlaces
<1>3. pc = "publish" => before = "absent"
  BY DEF Inv, Replacing
<1> QED
  BY <1>1, <1>2, <1>3
     DEF ReplacementStep, Replacement!Next, Replacement!Show, Replacement!Vacant, Vacant

\* The previous package goes aside.
LEMMA SettingAsideReplaces ==
    ASSUME Inv, pc = "withdraw", pc' # "idle", UNCHANGED <<before, new>>,
           at' = Moved("output", "previous")
    PROVE  ReplacementStep
<1>1. before \in Packages /\ at["output"] = before /\ at["previous"] = "absent"
  BY DEF Inv, TypeOK, BackupPlaces, Replacing, ReplacingHolds
<1>2. at'["output"] = "absent" /\ at'["previous"] = before
  BY <1>1 DEF Moved, Inv, TypeOK, Places, BackupPlaces
<1> QED
  BY <1>1, <1>2 DEF ReplacementStep, Replacement!Next, Replacement!SetAside

LEMMA BuildBeginReplaces == ASSUME Inv, BuildBegin PROVE ReplacementStep
<1>1. at'["output"] = at["output"] /\ at'["previous"] = "absent"
  BY DEF BuildBegin, Places, BackupPlaces
<1> QED
  BY <1>1 DEF BuildBegin, Owned, ReplacementStep, Replacement!Next, Replacement!Begin

LEMMA PopulateReplaces == ASSUME Inv, Populate \/ PopulateFails PROVE ReplacementStep
<1>1. at'["output"] = at["output"] /\ at'["previous"] = at["previous"]
  BY DEF Populate, PopulateFails, Inv, TypeOK, Places, BackupPlaces
<1> QED
  BY <1>1, UnseenReplaces DEF Populate, PopulateFails

LEMMA PublishReplaces == ASSUME Inv, Publish \/ Promote PROVE ReplacementStep
  BY ShowingReplaces DEF Publish, Promote, Renames, Blocked

LEMMA PublishRaisesReplaces ==
    ASSUME Inv, PublishRaises \/ PromoteRaises
    PROVE  ReplacementStep
<1>1. PICK kind \in Kinds : RenameRaises("staging", "output", kind)
  BY DEF PublishRaises, PromoteRaises
<1>2. \/ at' = at
      \/ Vacant("output") /\ at' = Moved("staging", "output")
  BY <1>1, RaisedRename DEF Inv, Places, BackupPlaces
<1>3. pc \in {"publish", "promote"} /\ pc' # "idle" /\ UNCHANGED <<before, new>>
  BY DEF PublishRaises, PromoteRaises
<1>4. CASE at' = at
  BY <1>3, <1>4, UnseenReplaces
<1> QED BY <1>2, <1>3, <1>4, ShowingReplaces

\* Removing the output of a first build leaves a part of it, or nothing.
LEMMA UndoPublishReplaces == ASSUME Inv, UndoPublish PROVE ReplacementStep
<1>1. RemoveTree("output", "discard") /\ pc = "undo" /\ UNCHANGED <<before, new>>
  BY DEF UndoPublish
<1>2. PICK rest \in {at["output"], "part", "absent"} : at' = [at EXCEPT !["output"] = rest]
  BY <1>1, RemovedTree DEF Inv, Places, BackupPlaces, Pcs
<1>3. pc' \in {"undo", "discard"}
  BY <1>1, RemovedTree DEF Inv, Places, BackupPlaces, Pcs
<1>4. before = "absent" /\ at["output"] \in {new, "part"}
  BY <1>1 DEF Inv, FirstHolds, Replacing
<1>5. at'["output"] = rest /\ at'["previous"] = at["previous"]
  BY <1>2 DEF Inv, TypeOK, Places, BackupPlaces
<1>6. CASE rest = at["output"]
  BY <1>1, <1>3, <1>5, <1>6, UnseenReplaces
<1>7. CASE rest \in {"part", "absent"}
  BY <1>1, <1>3, <1>4, <1>5, <1>7 DEF ReplacementStep, Replacement!Next, Replacement!Undo
<1> QED BY <1>6, <1>7

LEMMA WithdrawReplaces == ASSUME Inv, Withdraw \/ WithdrawRaises PROVE ReplacementStep
<1>1. CASE Withdraw
  BY <1>1, SettingAsideReplaces DEF Withdraw, Renames
<1>2. CASE WithdrawRaises
  <2>1. PICK kind \in Kinds : RenameRaises("output", "previous", kind)
    BY <1>2 DEF WithdrawRaises
  <2>2. at' = at \/ at' = Moved("output", "previous")
    BY <2>1, RaisedRename DEF Inv, Places, BackupPlaces
  <2>3. pc = "withdraw" /\ pc' # "idle" /\ UNCHANGED <<before, new>>
    BY <1>2 DEF WithdrawRaises
  <2> QED BY <2>2, <2>3, UnseenReplaces, SettingAsideReplaces
<1> QED BY <1>1, <1>2

\* The previous package can no longer be put back: the new one is final.
LEMMA RetireReplaces == ASSUME Inv, Retire PROVE ReplacementStep
<1>1. CompleteRename("previous", "obsolete", "purge", "aside") /\ pc = "retire"
      /\ UNCHANGED <<before, new>>
  BY DEF Retire
<1>2. at["output"] = new /\ at["previous"] = before /\ before \in Packages
  BY <1>1 DEF Inv, TypeOK, Replacing, ReplacingHolds
<1>3. at["previous"] # "absent"
  BY <1>2, PackageNames
<1>4. pc' \in {"retire", "purge", "aside"} /\ (at' = Moved("previous", "obsolete") \/ at' = at)
  BY <1>1, <1>3, CompletedRename DEF Inv, Places, BackupPlaces, Pcs
<1>5. CASE at' = at
  BY <1>1, <1>4, <1>5, UnseenReplaces
<1>6. CASE at' = Moved("previous", "obsolete")
  <2>1. at'["output"] = new /\ at'["previous"] = "absent"
    BY <1>2, <1>6 DEF Moved, Inv, TypeOK, Places, BackupPlaces
  <2> QED
    BY <1>1, <1>2, <1>4, <2>1 DEF ReplacementStep, Replacement!Next, Replacement!Settle
<1> QED BY <1>4, <1>5, <1>6

LEMMA AsideReplaces == ASSUME Inv, Aside PROVE ReplacementStep
<1>1. CompleteRename("output", "aside", "restore", "discard") /\ pc = "aside"
      /\ UNCHANGED <<before, new>>
  BY DEF Aside
<1>2. /\ at["output"] = new /\ at["previous"] = before
      /\ before \in Packages /\ new \in Packages
  BY <1>1 DEF Inv, TypeOK, Replacing, ReplacingHolds
<1>3. at["output"] # "absent"
  BY <1>2, PackageNames
<1>4. pc' \in {"aside", "restore", "discard"} /\ (at' = Moved("output", "aside") \/ at' = at)
  BY <1>1, <1>3, CompletedRename DEF Inv, Places, BackupPlaces, Pcs
<1>5. CASE at' = at
  BY <1>1, <1>4, <1>5, UnseenReplaces
<1>6. CASE at' = Moved("output", "aside")
  <2>1. at'["output"] = "absent" /\ at'["previous"] = before
    BY <1>2, <1>6 DEF Moved, Inv, TypeOK, Places, BackupPlaces
  <2> QED
    BY <1>1, <1>2, <1>4, <2>1 DEF ReplacementStep, Replacement!Next, Replacement!Hide
<1> QED BY <1>4, <1>5, <1>6

LEMMA RestoreReplaces == ASSUME Inv, Restore PROVE ReplacementStep
<1>1. CompleteRename("previous", "output", "trash", "discard") /\ pc = "restore"
      /\ UNCHANGED <<before, new>>
  BY DEF Restore
<1>2. at["previous"] = before /\ before \in Packages
  BY <1>1 DEF Inv, TypeOK, Replacing, ReplacingHolds, Withdrawn
<1>3. at["previous"] # "absent"
  BY <1>2, PackageNames
<1>4. /\ pc' \in {"restore", "trash", "discard"}
      /\ \/ Vacant("output") /\ at' = Moved("previous", "output")
         \/ at' = at
  BY <1>1, <1>3, CompletedRename DEF Inv, Places, BackupPlaces, Pcs
<1>5. CASE at' = at
  BY <1>1, <1>4, <1>5, UnseenReplaces
<1>6. CASE Vacant("output") /\ at' = Moved("previous", "output")
  <2>1. at'["output"] = before /\ at'["previous"] = "absent"
    BY <1>2, <1>6 DEF Moved, Inv, TypeOK, Places, BackupPlaces
  <2> QED
    BY <1>1, <1>2, <1>4, <1>6, <2>1
       DEF ReplacementStep, Replacement!Next, Replacement!PutBack, Replacement!Vacant, Vacant
<1> QED BY <1>4, <1>5, <1>6

\* Removals beside the output show nothing.
LEMMA RemovalReplaces ==
    ASSUME Inv, Purge \/ Trash \/ Discard
    PROVE  ReplacementStep
<1>1. PICK place \in {"obsolete", "aside", "staging"}, next \in {"idle", "discard"} :
        RemoveTree(place, next) /\ next # pc
  BY DEF Purge, Trash, Discard
<1>2. \E rest \in {at[place], "part", "absent"} : at' = [at EXCEPT ![place] = rest]
  BY <1>1, RemovedTree DEF Inv, Places, BackupPlaces, Pcs
<1>3. at'["output"] = at["output"] /\ at'["previous"] = at["previous"]
  BY <1>2 DEF Inv, TypeOK, Places, BackupPlaces
<1> QED
  BY <1>3, ClosingReplaces DEF Purge, Trash, Discard

LEMMA DriftReplaces == ASSUME Inv, Drift PROVE ReplacementStep
<1>1. /\ at'["output"] \in {"empty", "foreign"} \ {at["output"]}
      /\ at'["previous"] = at["previous"]
  BY DEF Drift, Inv, TypeOK, Places, BackupPlaces
<1> QED
  BY <1>1 DEF Drift, ReplacementStep, Replacement!Next, Replacement!Intrude,
     Replacement!Vacant, Vacant

LEMMA StepReplaces == ASSUME Inv, [Next]_vars PROVE ReplacementStep
<1>1. CASE UNCHANGED vars
  BY <1>1, UnseenReplaces DEF vars
<1>2. CASE Step
  BY <1>2, PopulateReplaces, PublishReplaces, PublishRaisesReplaces, UndoPublishReplaces,
     WithdrawReplaces, RetireReplaces, AsideReplaces, RestoreReplaces, RemovalReplaces
  DEF Step
<1>3. CASE Killed
  BY <1>3, ClosingReplaces DEF Killed
<1> QED BY <1>1, <1>2, <1>3, BuildBeginReplaces, DriftReplaces DEF Next

\* Every run of the builds, with its failures, interruptions, kills and foreign
\* directories, is a run of the abstract replacement: the output goes from the previous
\* package to the new one and back only while a whole previous one can be put back.
THEOREM BuildReplaces == Spec => ImplementsReplacement
<1>1. Init => Replacement!Init
  BY InitReplaces
<1>2. Inv /\ [Next]_vars => [Replacement!Next]_(Replacement!replacement)
  BY StepReplaces DEF ReplacementStep
<1> QED
  BY <1>1, <1>2, Invariance, PTL DEF Spec, ImplementsReplacement, Replacement!Spec
=============================================================================
