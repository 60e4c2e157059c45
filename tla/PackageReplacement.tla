------------------------- MODULE PackageReplacement -------------------------
(***************************************************************************)
(* What building a package promises to those who use the output: what is   *)
(* there (shown), what was there when the build began (prior), the package *)
(* it makes (fresh), the package that can still be put back (spare), and   *)
(* whether a build is running (open).  Nothing but an empty directory of   *)
(* somebody else's may have to make room for a package.                    *)
(***************************************************************************)
CONSTANT Packages

VARIABLES shown, prior, fresh, spare, open

replacement == <<shown, prior, fresh, spare, open>>

Vacant == shown \in {"absent", "empty"}

Init ==
    /\ shown \in {"absent"} \cup Packages
    /\ prior = "absent" /\ fresh = "none" /\ spare = "absent"
    /\ open = FALSE

Begin ==
    /\ ~open /\ open' = TRUE
    /\ shown \in {"absent"} \cup Packages
    /\ prior' = shown /\ fresh' \in Packages \ {shown} /\ spare' = "absent"
    /\ UNCHANGED shown

SetAside ==
    /\ open /\ shown = prior /\ prior \in Packages /\ spare = "absent"
    /\ shown' = "absent" /\ spare' = prior
    /\ UNCHANGED <<prior, fresh, open>>

\* Whole, and while what was there before can be put back; that ends a first build.
Show ==
    /\ open /\ Vacant /\ spare = prior
    /\ shown' = fresh
    /\ open' \in (IF prior = "absent" THEN BOOLEAN ELSE {TRUE})
    /\ UNCHANGED <<prior, fresh, spare>>

Hide ==
    /\ open /\ shown = fresh /\ spare = prior /\ prior \in Packages
    /\ shown' = "absent"
    /\ UNCHANGED <<prior, fresh, spare, open>>

\* A first build has nothing to put back, and may leave a part.
Undo ==
    /\ open /\ prior = "absent" /\ shown \in {fresh, "part"}
    /\ shown' \in {"part", "absent"}
    /\ UNCHANGED <<prior, fresh, spare, open>>

PutBack ==
    /\ open /\ Vacant /\ spare = prior /\ prior \in Packages
    /\ shown' = prior /\ spare' = "absent"
    /\ UNCHANGED <<prior, fresh, open>>

\* The new package is final: from here on the build only ends.
Settle ==
    /\ open /\ shown = fresh /\ spare = prior /\ prior \in Packages
    /\ spare' = "absent"
    /\ UNCHANGED <<shown, prior, fresh, open>>

\* Somebody else takes the place; who puts something there keeps it.
Intrude ==
    /\ open /\ Vacant /\ shown' \in {"empty", "foreign"} \ {shown}
    /\ UNCHANGED <<prior, fresh, spare, open>>

\* The build ends or is killed.
Close ==
    /\ open /\ open' = FALSE
    /\ UNCHANGED <<shown, prior, fresh, spare>>

Next ==
    \/ Begin \/ SetAside \/ Show \/ Hide \/ Undo \/ PutBack \/ Settle \/ Intrude
    \/ Close

Spec == Init /\ [][Next]_replacement
=============================================================================
