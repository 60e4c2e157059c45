---------------------------- MODULE PackageBase -----------------------------
(***************************************************************************)
(* The package directory that build_package publishes                      *)
(* (src/refind_forest/build.py), what lies beside it while one invocation  *)
(* runs, and the system calls of that invocation.                          *)
(*                                                                         *)
(* A path holds nothing, a whole package, a tree that is half written or   *)
(* half removed ("part"), or a directory of somebody else's: an empty one, *)
(* or one that holds something ("foreign").                                *)
(***************************************************************************)
EXTENDS Naturals

CONSTANTS
    Packages,   \* what builds produce; each one is whole and has its manifest
    MaxBuild,   \* bound: invocations
    MaxFail,    \* bound: failing or interrupted system calls
    MaxKill,    \* bound: killed invocations
    MaxDrift    \* bound: changes by somebody else

\* staging is the temporary directory beside output; the other three are in the backup
\* root: previous, interrupted or failed-new ("aside"), obsolete.
BackupPlaces == {"previous", "aside", "obsolete"}
Places == {"output", "staging"} \cup BackupPlaces
Values == {"absent", "part", "empty", "foreign"} \cup Packages

\* An exception of a system call: an Exception, or an interruption (KeyboardInterrupt).
Kinds == {"error", "interrupt"}

ASSUME PackageNames == Packages \cap {"absent", "part", "empty", "foreign"} = {}
ASSUME PackageBounds ==
    MaxBuild \in Nat /\ MaxFail \in Nat /\ MaxKill \in Nat /\ MaxDrift \in Nat

VARIABLES
    at,         \* what each place holds
    strays,     \* whole packages in backup roots that earlier invocations left
    pc,         \* where the invocation is
    first,      \* the error of the first attempt of the call it is making
    errors,     \* the errors it has collected
    new,        \* the package it builds
    before,     \* history: what output held when it began
    result,     \* how it will end, or the last one ended
    left        \* what is left of each bound

vars == <<at, strays, pc, first, errors, new, before, result, left>>

Pcs == {"idle", "populate", "publish", "undo", "withdraw", "promote", "aside", "restore",
        "trash", "retire", "purge", "discard"}

\* failed: output is as it was; preserved: the error names the backup; committed: the
\* error says that the new package is in place; unremoved: the error names the output.
Results == {"none", "built", "failed", "preserved", "committed", "unremoved", "killed"}

TypeOK ==
    /\ at \in [Places -> Values]
    /\ strays \subseteq Packages
    /\ pc \in Pcs
    /\ first \in {"none"} \cup Kinds
    /\ errors \subseteq Kinds
    /\ new \in Packages \cup {"none"}
    /\ before \in {"absent"} \cup Packages
    /\ result \in Results
    /\ left \in [build: Nat, fail: Nat, kill: Nat, drift: Nat]

-----------------------------------------------------------------------------
Fail == left.fail > 0 /\ left' = [left EXCEPT !.fail = @ - 1]

\* rename(2) puts a directory where there is nothing, and in the place of an empty one.
Vacant(place) == at[place] \in {"absent", "empty"}

\* Path.rename onto anything else, or from a path that does not exist.
Blocked(source, target) == at[source] = "absent" \/ ~Vacant(target)

Moved(source, target) == [at EXCEPT ![target] = at[source], ![source] = "absent"]

Renames(source, target) ==
    ~Blocked(source, target) /\ at' = Moved(source, target) /\ UNCHANGED left

\* It raises: because it is blocked, or else before or after it took effect.
RenameRaises(source, target, kind) ==
    \/ Blocked(source, target) /\ kind = "error" /\ UNCHANGED <<at, left>>
    \/ Fail /\ UNCHANGED at
    \/ Fail /\ ~Blocked(source, target) /\ at' = Moved(source, target)

\* _rename_committed: what the code can tell after an exception.
Committed(source, target) == at[source] = "absent" /\ at[target] # "absent"

\* _complete_rename: a rename that raised without effect is made once more; it goes on
\* at "done" with the error it survived, at "failed" when both attempts had no effect.
CompleteRename(source, target, done, failed) ==
    \/ /\ Renames(source, target)
       /\ errors' = errors \cup ({first} \ {"none"})
       /\ first' = "none" /\ pc' = done
    \/ \E kind \in Kinds :
         /\ RenameRaises(source, target, kind)
         /\ \/ /\ Committed(source, target)'
               /\ errors' = errors \cup {kind}
               /\ first' = "none" /\ pc' = done
            \/ /\ ~Committed(source, target)' /\ first = "none"
               /\ first' = kind /\ UNCHANGED <<errors, pc>>
            \/ /\ ~Committed(source, target)' /\ first # "none"
               /\ errors' = errors \cup {kind, first}
               /\ first' = "none" /\ pc' = failed

\* _rmtree_with_retry: two attempts; each may remove a part, or raise when all is gone.
RemoveTree(place, next) ==
    \/ /\ at' = [at EXCEPT ![place] = "absent"]
       /\ first' = "none" /\ pc' = next
       /\ UNCHANGED <<errors, left>>
    \/ \E kind \in Kinds, rest \in {at[place], "part", "absent"} :
         /\ at[place] # "absent" /\ Fail
         /\ at' = [at EXCEPT ![place] = rest]
         /\ errors' = errors \cup {kind}
         /\ IF rest = "absent" \/ first # "none"
            THEN first' = "none" /\ pc' = next
            ELSE first' = kind /\ UNCHANGED pc
=============================================================================
