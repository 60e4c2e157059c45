--------------------------- MODULE PackagePromote ---------------------------
(***************************************************************************)
(* build_package and _promote_package: a package is generated beside the   *)
(* output and moved in; a previous one is moved aside first, and moved     *)
(* back when anything fails before the new one is final.                   *)
(*                                                                         *)
(* The removal of an empty backup root is left out: it changes no package, *)
(* and its errors only add notes.                                          *)
(***************************************************************************)
EXTENDS PackageBase

\* Mutant: any directory is taken for an earlier build.
Owned_Any(value) == value # "absent"

\* _is_owned_build: the directory has exactly a package's files, with their hashes.
Owned(value) == value \in Packages

Replacing == before # "absent"

\* The checks of output, then the staging directory beside it.  Backup roots that earlier
\* invocations left stay where they are; this one will have its own.
BuildBegin ==
    /\ pc = "idle" /\ left.build > 0 /\ left' = [left EXCEPT !.build = @ - 1]
    /\ at["output"] = "absent" \/ Owned(at["output"])
    /\ new' \in Packages \ {at["output"]}
    /\ before' = at["output"]
    /\ at' = [p \in Places |-> CASE p = "output" -> at[p] [] p = "staging" -> "part"
                                 [] OTHER -> "absent"]
    /\ strays' = strays \cup ({at[p] : p \in BackupPlaces} \cap Packages)
    /\ pc' = "populate" /\ first' = "none" /\ errors' = {} /\ result' = "failed"

\* _populate_package.
Populate ==
    /\ pc = "populate"
    /\ at' = [at EXCEPT !["staging"] = new]
    /\ pc' = IF Replacing THEN "withdraw" ELSE "publish"
    /\ UNCHANGED <<strays, first, errors, new, before, result, left>>

PopulateFails ==
    /\ pc = "populate" /\ Fail /\ pc' = "discard"
    /\ UNCHANGED <<at, strays, first, errors, new, before, result>>

-----------------------------------------------------------------------------
(* There was no output.                                                    *)

Publish ==
    /\ pc = "publish" /\ Renames("staging", "output")
    /\ pc' = "idle" /\ result' = "built"
    /\ UNCHANGED <<strays, first, errors, new, before>>

\* Mutant: whatever is at the output after an exception is removed.
PublishRaises_AlwaysUndone ==
    /\ pc = "publish"
    /\ \E kind \in Kinds : RenameRaises("staging", "output", kind)
    /\ pc' = "undo"
    /\ UNCHANGED <<strays, first, errors, new, before, result>>

\* Mutant: a rename that raised is taken for one that did nothing.
PublishRaises_NeverUndone ==
    /\ pc = "publish"
    /\ \E kind \in Kinds : RenameRaises("staging", "output", kind)
    /\ pc' = "discard"
    /\ UNCHANGED <<strays, first, errors, new, before, result>>

\* An interruption after the rename: the output goes again.
PublishRaises ==
    /\ pc = "publish"
    /\ \E kind \in Kinds : RenameRaises("staging", "output", kind)
    /\ pc' = IF Committed("staging", "output")' THEN "undo" ELSE "discard"
    /\ UNCHANGED <<strays, first, errors, new, before, result>>

UndoPublish ==
    /\ pc = "undo" /\ RemoveTree("output", "discard")
    /\ result' = IF pc' = "discard" /\ at'["output"] # "absent" THEN "unremoved" ELSE result
    /\ UNCHANGED <<strays, new, before>>

-----------------------------------------------------------------------------
(* There was one: move it aside, move the new one in.                      *)

\* Mutant: the previous package is removed where it is.
Withdraw_Removes ==
    /\ pc = "withdraw" /\ RemoveTree("output", "promote")
    /\ UNCHANGED <<strays, new, before, result>>

Withdraw ==
    /\ pc = "withdraw" /\ Renames("output", "previous")
    /\ pc' = "promote"
    /\ UNCHANGED <<strays, first, errors, new, before, result>>

WithdrawRaises ==
    /\ pc = "withdraw"
    /\ \E kind \in Kinds : RenameRaises("output", "previous", kind)
    /\ pc' = IF Committed("output", "previous")' THEN "restore" ELSE "discard"
    /\ UNCHANGED <<strays, first, errors, new, before, result>>

Promote ==
    /\ pc = "promote" /\ Renames("staging", "output")
    /\ pc' = "retire"
    /\ UNCHANGED <<strays, first, errors, new, before, result>>

\* Mutant: an interrupted new package is removed at the output, not aside.
PromoteRaises_RemovesInPlace ==
    /\ pc = "promote"
    /\ \E kind \in Kinds : RenameRaises("staging", "output", kind)
    /\ pc' = IF Committed("staging", "output")' THEN "undo" ELSE "restore"
    /\ UNCHANGED <<strays, first, errors, new, before, result>>

PromoteRaises ==
    /\ pc = "promote"
    /\ \E kind \in Kinds : RenameRaises("staging", "output", kind)
    /\ pc' = IF Committed("staging", "output")' THEN "aside" ELSE "restore"
    /\ UNCHANGED <<strays, first, errors, new, before, result>>

\* The previous package stops being restorable before it is removed; if it cannot, the
\* new one is moved aside again (_restore_after_backup_cleanup_failure).
Retire ==
    /\ pc = "retire" /\ CompleteRename("previous", "obsolete", "purge", "aside")
    /\ UNCHANGED <<strays, new, before, result>>

\* Mutant: an interrupted removal of the obsolete package undoes the build.
Purge_Undone ==
    /\ pc = "purge"
    /\ \E next \in {"idle", "aside"} :
         /\ RemoveTree("obsolete", next)
         /\ next = "aside" <=> "interrupt" \in errors'
    /\ result' = IF pc' = "idle" THEN "built" ELSE result
    /\ UNCHANGED <<strays, new, before>>

\* _cleanup_obsolete_build: what is left of the previous package does not undo the build.
Purge ==
    /\ pc = "purge" /\ RemoveTree("obsolete", "idle")
    /\ result' = IF pc' # "idle" THEN result
                 ELSE IF "interrupt" \in errors' THEN "committed" ELSE "built"
    /\ UNCHANGED <<strays, new, before>>

-----------------------------------------------------------------------------
(* The way back.                                                           *)

\* _raise_restore_failure.
EndsPreserved == result' = IF pc' = "discard" THEN "preserved" ELSE result

Aside ==
    /\ pc = "aside" /\ CompleteRename("output", "aside", "restore", "discard")
    /\ EndsPreserved
    /\ UNCHANGED <<strays, new, before>>

Restore ==
    /\ pc = "restore" /\ CompleteRename("previous", "output", "trash", "discard")
    /\ EndsPreserved
    /\ UNCHANGED <<strays, new, before>>

Trash ==
    /\ pc = "trash" /\ RemoveTree("aside", "discard")
    /\ UNCHANGED <<strays, new, before, result>>

\* The finally clause of build_package.
Discard ==
    /\ pc = "discard" /\ RemoveTree("staging", "idle")
    /\ UNCHANGED <<strays, new, before, result>>

-----------------------------------------------------------------------------
Killed ==
    /\ pc # "idle" /\ left.kill > 0 /\ left' = [left EXCEPT !.kill = @ - 1]
    /\ pc' = "idle" /\ result' = "killed"
    /\ UNCHANGED <<at, strays, first, errors, new, before>>

\* Somebody else makes a directory where the output is to be, empty or not, or puts
\* something into an empty one.
Drift ==
    /\ pc # "idle" /\ left.drift > 0 /\ left' = [left EXCEPT !.drift = @ - 1]
    /\ Vacant("output")
    /\ \E value \in {"empty", "foreign"} \ {at["output"]} :
         at' = [at EXCEPT !["output"] = value]
    /\ UNCHANGED <<strays, pc, first, errors, new, before, result>>

Init ==
    /\ \E value \in {"absent"} \cup Packages :
         at = [p \in Places |-> IF p = "output" THEN value ELSE "absent"]
    /\ strays = {} /\ pc = "idle" /\ first = "none" /\ errors = {}
    /\ new = "none" /\ before = "absent" /\ result = "none"
    /\ left = [build |-> MaxBuild, fail |-> MaxFail, kill |-> MaxKill, drift |-> MaxDrift]

Step ==
    \/ Populate \/ PopulateFails \/ Publish \/ PublishRaises \/ UndoPublish
    \/ Withdraw \/ WithdrawRaises \/ Promote \/ PromoteRaises \/ Retire \/ Purge
    \/ Aside \/ Restore \/ Trash \/ Discard

Next == BuildBegin \/ Step \/ Killed \/ Drift

Spec == Init /\ [][Next]_vars
=============================================================================
