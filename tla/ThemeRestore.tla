---------------------------- MODULE ThemeRestore ----------------------------
(***************************************************************************)
(* _restore_backup: stage the backup in a journal on the ESP, swap it in   *)
(* path by path, and swap everything back when any step of that fails.     *)
(* Used by rollback, and by install when it fails.                         *)
(***************************************************************************)
EXTENDS ThemeBase

RestoreOrder == Append(Managed, Config)
Path == RestoreOrder[at]

\* How the command ends when its restoration succeeded, or could not take place.
Restored == IF op = "install" THEN "install_undone" ELSE "rolled_back"
NotRestored == IF op = "install" THEN "install_stuck" ELSE "reversed"

End(outcome) == pc' = "idle" /\ result' = outcome

\* _stage_backup_restoration, up to the first swap: nothing that is live changes
\* but EFI/refind/themes, which is made when a directory will need it.
Stage ==
    /\ pc = "stage" /\ pc' = "prior" /\ at' = 1
    /\ journal' = [new |-> rec.tree, old |-> Nothing]
    /\ moved' = NoMoves
    /\ before' = Current /\ existed' = themes
    /\ themes' = (themes \/ \E p \in Directories : rec.tree[p] # "absent")
    /\ UNCHANGED <<live, others, strays, backups, op, arg, rec, result, left>>

StageFails ==
    /\ pc = "stage" /\ Fail /\ End(NotRestored)
    /\ before' = Current
    /\ UNCHANGED <<live, themes, others, journal, strays, backups, op, at, arg, rec,
                   moved, existed>>

-----------------------------------------------------------------------------
(* _apply_staged_restoration: target to old/, then new/ to target.         *)

\* os.replace(target, prior), recorded.
PriorMoved ==
    /\ journal' = [journal EXCEPT !.old[Path] = live[Path]]
    /\ live' = [live EXCEPT ![Path] = "absent"]
    /\ moved' = [moved EXCEPT !.prior = @ \cup {Path}]
    /\ UNCHANGED themes

StagedMoved ==
    /\ live' = [live EXCEPT ![Path] = journal.new[Path]]
    /\ journal' = [journal EXCEPT !.new[Path] = "absent"]
    /\ moved' = [moved EXCEPT !.staged = @ \cup {Path}]
    /\ themes' = (themes \/ Path \in Directories)

NotMoved == UNCHANGED <<live, themes, journal, moved>>

SwapPrior ==
    /\ pc = "prior" /\ pc' = "staged"
    /\ IF live[Path] # "absent" THEN PriorMoved ELSE NotMoved
    /\ UNCHANGED <<others, strays, backups, op, at, arg, rec, existed, before, result,
                   left>>

SwapStaged ==
    /\ pc = "staged"
    /\ IF journal.new[Path] # "absent" THEN StagedMoved ELSE NotMoved
    /\ IF at < Len(RestoreOrder) THEN at' = at + 1 /\ pc' = "prior"
                                 ELSE UNCHANGED at /\ pc' = "rmdir"
    /\ UNCHANGED <<others, strays, backups, op, arg, rec, existed, before, result, left>>

\* Mutant: an interrupted replace that took effect is not recorded.
InterruptedPrior_NotRecorded ==
    /\ journal' = [journal EXCEPT !.old[Path] = live[Path]]
    /\ live' = [live EXCEPT ![Path] = "absent"]
    /\ UNCHANGED <<themes, moved>>

\* The replace took effect and an exception followed: the paths tell.
InterruptedPrior == PriorMoved

\* A step of the swaps raises, before or after it took effect.
SwapFails ==
    /\ pc \in {"prior", "staged"} /\ Fail
    /\ pc' = "reverse"
    /\ \/ NotMoved
       \/ pc = "prior" /\ live[Path] # "absent" /\ InterruptedPrior
       \/ pc = "staged" /\ journal.new[Path] # "absent" /\ StagedMoved
    /\ UNCHANGED <<others, strays, backups, op, at, arg, rec, existed, before, result>>

\* The last swap is made: an empty themes directory the backup did not have goes.
RemovableThemes == ~rec.themes /\ themes /\ Empty(live)

RemoveThemes ==
    /\ pc = "rmdir" /\ pc' = "cleanup"
    /\ themes' = (themes /\ ~RemovableThemes)
    /\ UNCHANGED <<live, others, journal, strays, backups, op, at, arg, rec, moved,
                   existed, before, result, left>>

RemoveThemesFails ==
    /\ pc = "rmdir" /\ RemovableThemes /\ Fail
    /\ pc' = "reverse"
    /\ themes' \in BOOLEAN
    /\ UNCHANGED <<live, others, journal, strays, backups, op, at, arg, rec, moved,
                   existed, before, result>>

\* _remove_journal, which tries twice; a journal it cannot remove holds nothing that
\* is still needed.
Cleanup ==
    /\ pc = "cleanup" /\ End(Restored)
    /\ journal' = [new |-> Nothing, old |-> Nothing]
    /\ UNCHANGED <<live, themes, others, strays, backups, op, at, arg, rec, moved,
                   existed, before, left>>

CleanupFails ==
    /\ pc = "cleanup" /\ Fail
    /\ End(IF op = "install" THEN "install_stuck" ELSE "rolled_back")
    /\ journal' = [new |-> Nothing, old |-> Nothing]
    /\ UNCHANGED <<live, themes, others, strays, backups, op, at, arg, rec, moved,
                   existed, before>>

-----------------------------------------------------------------------------
(* _reverse_rollback_swaps, from the swap that failed back to the first.   *)

StagedBack ==
    /\ live' = [live EXCEPT ![Path] = "absent"]
    /\ journal' = [journal EXCEPT !.new[Path] = live[Path]]
    /\ moved' = [moved EXCEPT !.staged = @ \ {Path}]

PriorBack ==
    /\ live' = [live EXCEPT ![Path] = journal.old[Path]]
    /\ journal' = [journal EXCEPT !.old[Path] = "absent"]
    /\ moved' = [moved EXCEPT !.prior = @ \ {Path}]
    /\ themes' = (themes \/ Path \in Directories)

\* Mutant: one step too many.
StepBack_PastFirst ==
    IF at > 0 THEN at' = at - 1 /\ pc' = "reverse"
              ELSE UNCHANGED at /\ pc' = "reverse_end"

StepBack ==
    IF at > 1 THEN at' = at - 1 /\ pc' = "reverse"
              ELSE UNCHANGED at /\ pc' = "reverse_end"

\* Mutant: a swap that moved no staged path is passed over.
ReversePrior_SkipsUnstaged ==
    /\ pc = "reverse_prior"
    /\ IF Path \in moved.prior /\ journal.new[Path] # "absent" THEN PriorBack
                                                               ELSE NotMoved
    /\ StepBack
    /\ UNCHANGED <<others, strays, backups, op, arg, rec, existed, before, result, left>>

ReverseStaged ==
    /\ pc = "reverse" /\ pc' = "reverse_prior"
    /\ IF Path \in moved.staged THEN StagedBack ELSE UNCHANGED <<live, journal, moved>>
    /\ UNCHANGED <<themes, others, strays, backups, op, at, arg, rec, existed, before,
                   result, left>>

ReversePrior ==
    /\ pc = "reverse_prior"
    /\ IF Path \in moved.prior THEN PriorBack ELSE NotMoved
    /\ StepBack
    /\ UNCHANGED <<others, strays, backups, op, arg, rec, existed, before, result, left>>

\* The reversal fails, or is interrupted: the journal is preserved and named in the error.
ReverseFails ==
    /\ pc \in {"reverse", "reverse_prior", "reverse_end"} /\ Fail
    /\ End(IF op = "install" THEN "install_stuck" ELSE "broken")
    /\ strays' = strays \cup {journal.old}
    /\ journal' = [new |-> Nothing, old |-> Nothing]
    /\ UNCHANGED <<live, themes, others, backups, op, at, arg, rec, moved, existed,
                   before>>

\* A themes directory that was made for the swaps goes; so does the journal.
ReverseEnd ==
    /\ pc = "reverse_end" /\ End(NotRestored)
    /\ themes' = (themes /\ ~(~existed /\ Empty(live)))
    /\ journal' = [new |-> Nothing, old |-> Nothing]
    /\ UNCHANGED <<live, others, strays, backups, op, at, arg, rec, moved, existed,
                   before, left>>

RestoreStep ==
    \/ Stage \/ StageFails \/ SwapPrior \/ SwapStaged \/ SwapFails
    \/ RemoveThemes \/ RemoveThemesFails \/ Cleanup \/ CleanupFails
    \/ ReverseStaged \/ ReversePrior \/ ReverseFails \/ ReverseEnd
=============================================================================
