------------------------- MODULE PackageProperties --------------------------
(***************************************************************************)
(* What building a package must guarantee, over PackagePromote.            *)
(***************************************************************************)
EXTENDS PackagePromote

\* The previous package is never lost before the new one is in place: at every point a
\* kill may hit, and through every failure of a rename, of its retry and of the recovery
\* from it (_promote_package), a whole copy is the output or in a backup root, or the new
\* package is whole at the output.
PreviousNeverLost ==
    before \in Packages =>
        \/ before \in strays
        \/ \E p \in Places : at[p] = before
        \/ at["output"] = new

\* What the end of a build says of the output and of the backup.
Told ==
    /\ result \in {"built", "committed"} => at["output"] = new
    /\ result = "failed" =>
         \/ at["output"] = before
         \/ ~Replacing /\ at["output"] \in {"empty", "foreign"}
    /\ result = "preserved" => Replacing /\ at["previous"] = before
    /\ result = "unremoved" => ~Replacing

\* build_package and its exceptions say what is true: a build that returned, or whose
\* interruption is said to be committed, left the new package; one that failed left the
\* output as it found it, or as somebody else took it; one that says where the previous package is preserved left a
\* whole one there; only a first build can leave a rest, and it says so.
ReportsTruthful ==
    pc = "idle" => Told

\* The output is never a half of a package that replaced or is being replaced, not even
\* after a kill: trees are written and removed only beside it, except to undo a first
\* build.
OutputNeverPartial ==
    at["output"] = "part" => ~Replacing

\* A directory of somebody else's that appears at the output while a build runs, after it
\* found nothing there or moved its own package aside, is neither moved nor removed when
\* it holds something: publishing and restoring fail, and no recovery takes it for the new
\* package (_rename_committed).  An empty one the rename replaces without a word, so all
\* that can be promised of it is that nothing but a whole package takes its place: no
\* recovery removes it, and no part of a package is left in it.
ForeignOutputKept ==
    [][/\ at["output"] = "foreign" => at'["output"] = "foreign"
       /\ at["output"] = "empty" =>
            at'["output"] \in {"empty", "foreign"} \cup Packages]_vars

\* A build replaces a package the way PackageReplacement says: what is at the output goes
\* from the previous package to nothing, to the new one and back only while a whole
\* previous one can be put back; once it cannot, the new one stays, whatever fails in the
\* removal of the old one (_cleanup_obsolete_build); and where no build runs nothing moves.
Replacement == INSTANCE PackageReplacement WITH
    shown <- at["output"], prior <- before, fresh <- new, spare <- at["previous"],
    open <- pc # "idle"

ImplementsReplacement == Replacement!Spec
=============================================================================
