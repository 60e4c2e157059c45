-------------------------- MODULE ThemeProperties --------------------------
(***************************************************************************)
(* What installing, switching and rolling back the theme must guarantee,   *)
(* over ThemeInstall.                                                      *)
(***************************************************************************)
EXTENDS ThemeInstall

\* What each command reports is what it left on the ESP: an install that succeeded is
\* whole and one that failed left every path as it found it; a rollback that succeeded
\* left exactly the backup and one that failed exactly what was there before it; a failed
\* switch left the previous variant.  Unless the undoing itself was reported as failed.
ReportsTruthful ==
    pc = "idle" =>
        /\ result = "installed" => Verified(live) /\ live["theme-active.conf"] = "a"
        /\ result \in {"install_undone", "rolled_back"} =>
             live = rec.tree /\ (~rec.themes => ~(themes /\ Empty(live)))
        /\ result = "reversed" =>
             live = before.tree /\ (~before.themes => ~(themes /\ Empty(live)))
        /\ result = "switched" => Verified(live) /\ live["theme-active.conf"] = arg
        /\ result = "switch_undone" => live = before.tree

\* A rollback never holds the only copy of a file in memory: until it is done, whatever
\* was live when it began is live, or in the old/ of a journal on the ESP, however often
\* it fails, is interrupted while it reverses, or is killed.
PriorRecoverable ==
    op = "rollback" /\ pc # "stage" /\ live # rec.tree =>
        \A p \in Paths :
            \/ before.tree[p] \in {"absent", live[p], journal.old[p]}
            \/ \E s \in strays : s[p] = before.tree[p]

-----------------------------------------------------------------------------
RollbackRetry ==
    op = "rollback" /\ result \in {"reversed", "broken", "killed"} /\ Rollback(rec)

\* An invocation that started runs on; an operator whose rollback failed runs it again.
Fairness == WF_vars(Step) /\ SF_vars(RollbackRetry)

FairSpec == Spec /\ Fairness

\* From whatever an interrupted install, switch or rollback left, a rollback that is
\* retried restores its backup, unless the operator turns to another command.
RollbackRestores ==
    op = "rollback" /\ pc # "idle"
        ~> op # "rollback" \/ (result = "rolled_back" /\ live = rec.tree)
=============================================================================
