---------------------------- MODULE LoaderUpgrade ---------------------------
(***************************************************************************)
(* What a loader transaction promises about the machine: the loader the    *)
(* normal boot entry starts after a power loss (running), the one in the   *)
(* alternate slot (alternate), whether the transaction's boot entry offers *)
(* the alternate slot to firmware (offered), and whether firmware has      *)
(* booted the candidate (proven).                                          *)
(***************************************************************************)
VARIABLES running, alternate, offered, proven

upgrade == <<running, alternate, offered, proven>>

Init ==
    /\ running = "old" /\ alternate = "absent"
    /\ offered = FALSE /\ proven = FALSE

\* The candidate is durable before an entry offers it.
Publish ==
    /\ ~offered /\ alternate = "absent" /\ running = "old"
    /\ alternate' = "new"
    /\ UNCHANGED <<running, offered, proven>>

Offer ==
    /\ alternate = "new" /\ running = "old"
    /\ offered' = TRUE
    /\ UNCHANGED <<running, alternate, proven>>

Prove ==
    /\ alternate = "new"
    /\ proven' = TRUE
    /\ UNCHANGED <<running, alternate, offered>>

\* Both slots change at once, and only for a candidate that has booted.
Activate ==
    /\ proven /\ running = "old" /\ alternate = "new"
    /\ running' = "new" /\ alternate' = "old"
    /\ UNCHANGED <<offered, proven>>

Restore ==
    /\ running = "new" /\ alternate = "old"
    /\ running' = "old" /\ alternate' = "new"
    /\ UNCHANGED <<offered, proven>>

Withdraw ==
    /\ offered /\ offered' = FALSE
    /\ UNCHANGED <<running, alternate, proven>>

\* The alternate slot is emptied only when no entry offers it, and leaves the old loader.
Remove ==
    /\ ~offered
    /\ running' = "old" /\ alternate' = "absent"
    /\ UNCHANGED <<offered, proven>>

Next == Publish \/ Offer \/ Prove \/ Activate \/ Restore \/ Withdraw \/ Remove

Spec == Init /\ [][Next]_upgrade
=============================================================================
