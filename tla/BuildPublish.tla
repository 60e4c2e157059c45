---------------------------- MODULE BuildPublish ----------------------------
(***************************************************************************)
(* The publication of build_loader, and the removal of a publication that  *)
(* did not come about (_recover_build_publication, _remove_build_directory).*)
(* Acquiring, unpacking and compiling happen in a private workspace and    *)
(* yield any of Images; auditing it and staging it are the same step.      *)
(***************************************************************************)
EXTENDS PublishBase

At(b, pc) == bpc[b] = pc
Goto(b, pc) == bpc' = [bpc EXCEPT ![b] = pc]
Keep == UNCHANGED <<sound, fileVars, signVars>>

\* _existing_real_directory_identity, _directory_identity_at.
IsOwn(b, slot) == dir[slot] = b

\* The directory holds nothing: rmdir removes it, and rename replaces it.
IsEmpty(d) ==
    \/ d \in Empties
    \/ /\ d \in Builders /\ content[d] = "empty" /\ d \notin added
       /\ \A n \in Names : file[d][n] = NoFile

Vacant(slot) == dir[slot] = "none" \/ IsEmpty(dir[slot])

\* os.rename of whatever has the name now.
Rename(from, to) ==
    /\ dir[from] # "none" /\ Vacant(to)
    /\ dir' = [dir EXCEPT ![to] = dir[from], ![from] = "none"]

-----------------------------------------------------------------------------
\* The output must not exist.
BuildBegin(b) ==
    /\ At(b, "idle") /\ dir[Output] = "none"
    /\ Goto(b, "stage")
    /\ UNCHANGED <<dirVars, path, left>> /\ Keep

\* What the audit may say of an image, and whether firmware can load it.
Audits == {<<Verified(image), Loadable(image)>> : image \in Images}

\* The directory is built and staged in the workspace; its image must pass the audit, and
\* nothing may have its next name.
Stage(b) ==
    /\ At(b, "stage")
    /\ \E audit \in Audits :
         IF audit[1]
         THEN /\ Goto(b, IF dir[Pending(b)] = "none" THEN "pend" ELSE "failed")
              /\ sound' = IF audit[2] THEN sound \cup {b} ELSE sound
         ELSE Goto(b, "failed") /\ UNCHANGED sound
    /\ UNCHANGED <<dirVars, path, left, fileVars, signVars>>

StageFails(b) ==
    /\ At(b, "stage") /\ Fail /\ Goto(b, "failed")
    /\ UNCHANGED <<dirVars, path>> /\ Keep

\* staging.rename(pending).
PlacesPending(b) ==
    /\ Vacant(Pending(b)) /\ dir' = [dir EXCEPT ![Pending(b)] = b]

Pend(b) ==
    /\ At(b, "pend") /\ PlacesPending(b) /\ Goto(b, "pend_check")
    /\ UNCHANGED <<away, content, added, path, left>> /\ Keep

PendRaises(b) ==
    /\ At(b, "pend") /\ Goto(b, "pend_recover")
    /\ \/ ~Vacant(Pending(b)) /\ UNCHANGED <<dir, left>>
       \/ Fail /\ (UNCHANGED dir \/ PlacesPending(b))
    /\ UNCHANGED <<away, content, added, path>> /\ Keep

\* A staging directory that is there all the same is removed.
PendRecover(b) ==
    /\ At(b, "pend_recover")
    /\ Goto(b, IF IsOwn(b, Pending(b)) THEN "remove" ELSE "failed")
    /\ path' = [path EXCEPT ![b] = Pending(b)]
    /\ UNCHANGED <<dirVars, left>> /\ Keep

PendCheck(b) ==
    /\ At(b, "pend_check") /\ Goto(b, IF IsOwn(b, Pending(b)) THEN "clean" ELSE "failed")
    /\ UNCHANGED <<dirVars, path, left>> /\ Keep

\* The workspace is removed before anything is published; then the directory is compared.
Clean(b) ==
    /\ At(b, "clean")
    /\ Goto(b, IF IsOwn(b, Pending(b)) THEN "check_output" ELSE "failed")
    /\ UNCHANGED <<dirVars, path, left>> /\ Keep

CleanFails(b) ==
    /\ At(b, "clean") /\ Fail
    /\ Goto(b, "remove") /\ path' = [path EXCEPT ![b] = Pending(b)]
    /\ UNCHANGED dirVars /\ Keep

CheckOutput(b) ==
    /\ At(b, "check_output")
    /\ Goto(b, IF dir[Output] = "none" THEN "move" ELSE "remove")
    /\ path' = [path EXCEPT ![b] = Pending(b)]
    /\ UNCHANGED <<dirVars, left>> /\ Keep

\* Mutant: whatever is at the output is replaced.
Move_Replaces(b) ==
    /\ At(b, "move") /\ dir[Pending(b)] # "none"
    /\ dir' = [dir EXCEPT ![Output] = dir[Pending(b)], ![Pending(b)] = "none"]
    /\ Goto(b, "confirm")
    /\ UNCHANGED <<away, content, added, path, left>> /\ Keep

\* pending.rename(output).
Move(b) ==
    /\ At(b, "move") /\ Rename(Pending(b), Output) /\ Goto(b, "confirm")
    /\ UNCHANGED <<away, content, added, path, left>> /\ Keep

MoveRaises(b) ==
    /\ At(b, "move") /\ Goto(b, "recover")
    /\ \/ (dir[Pending(b)] = "none" \/ ~Vacant(Output)) /\ UNCHANGED <<dir, left>>
       \/ Fail /\ (UNCHANGED dir \/ Rename(Pending(b), Output))
    /\ UNCHANGED <<away, content, added, path>> /\ Keep

ConfirmOutput(b) ==
    /\ At(b, "confirm")
    /\ Goto(b, IF IsOwn(b, Output) THEN "published" ELSE "failed")
    /\ UNCHANGED <<dirVars, path, left>> /\ Keep

\* Mutant: a rename that raised is taken for one that did nothing.
RecoveredPaths_PendingOnly(b) == {Pending(b)}

\* The paths under which a failed publication may be.
RecoveredPaths(b) == {Pending(b), Output}

\* _recover_build_publication: remove what is its own, leave and report the rest.
Recover(b) ==
    /\ At(b, "recover")
    /\ \/ /\ \A slot \in RecoveredPaths(b) : ~IsOwn(b, slot)
          /\ Goto(b, "failed") /\ UNCHANGED path
       \/ \E slot \in RecoveredPaths(b) :
            /\ IsOwn(b, slot) /\ Goto(b, "remove") /\ path' = [path EXCEPT ![b] = slot]
    /\ UNCHANGED <<dirVars, left>> /\ Keep

\* The lstat that is to tell whose directory has a name raises, and nothing is cleaned up:
\* the directory stays where it is, at the output when it was moved there.
ReadFails(b) ==
    /\ bpc[b] \in ReadPcs /\ Fail /\ Goto(b, "unread")
    /\ UNCHANGED <<dirVars, path>> /\ Keep

-----------------------------------------------------------------------------
(* _remove_build_directory: isolate by name, compare, empty, remove.       *)

\* Mutant: the directory is emptied where it is.
Remove_InPlace(b) ==
    /\ At(b, "remove") /\ Goto(b, IF IsOwn(b, path[b]) THEN "unlink" ELSE "failed")
    /\ UNCHANGED <<dirVars, path, left>> /\ Keep

\* Its own directory has the name: a quarantine is made for it.
Remove(b) ==
    /\ At(b, "remove") /\ Goto(b, IF IsOwn(b, path[b]) THEN "isolate" ELSE "failed")
    /\ UNCHANGED <<dirVars, path, left>> /\ Keep

\* os.rename: whatever has the name by now is moved into the quarantine.
Isolate(b) ==
    /\ At(b, "isolate") /\ Rename(path[b], Quarantine(b)) /\ Goto(b, "identify")
    /\ UNCHANGED <<away, content, added, path, left>> /\ Keep

IsolateFails(b) ==
    /\ At(b, "isolate")
    /\ dir[path[b]] = "none" \/ ~Vacant(Quarantine(b))
    /\ Goto(b, IF IsOwn(b, path[b]) THEN "stuck" ELSE "failed")
    /\ UNCHANGED <<dirVars, path, left>> /\ Keep

\* The name cannot be read, the quarantine cannot be made, or nothing can be moved into it.
RemoveFails(b) ==
    /\ bpc[b] \in {"remove", "isolate"} /\ Fail
    /\ Goto(b, IF IsOwn(b, path[b]) THEN "stuck" ELSE "failed")
    /\ UNCHANGED <<dirVars, path>> /\ Keep

Identify(b) ==
    /\ At(b, "identify")
    /\ Goto(b, IF IsOwn(b, Quarantine(b)) THEN "inspect"
               ELSE IF dir[path[b]] = "none" THEN "put_back" ELSE "failed")
    /\ UNCHANGED <<dirVars, path, left>> /\ Keep

\* _restore_quarantined_directory; a rename that is refused leaves it in the quarantine.
PutBack(b) ==
    /\ At(b, "put_back") /\ Goto(b, "failed")
    /\ \/ Rename(Quarantine(b), path[b])
       \/ (dir[Quarantine(b)] = "none" \/ ~Vacant(path[b])) /\ UNCHANGED dir
    /\ UNCHANGED <<away, content, added, path, left>> /\ Keep

\* The open directory is the expected one, and holds exactly _PUBLICATION_FILES.
Inspect(b) ==
    /\ At(b, "inspect")
    /\ Goto(b, IF /\ IsOwn(b, Quarantine(b))
                  /\ content[b] = "whole" /\ b \notin added
                  /\ \A n \in Names : file[b][n] = NoFile
               THEN "unlink" ELSE "failed")
    /\ UNCHANGED <<dirVars, path, left>> /\ Keep

\* The two files, one after the other, in the directory that was opened.
Unlink(b) ==
    /\ At(b, "unlink")
    /\ content' = [content EXCEPT ![b] = IF @ = "whole" THEN "half" ELSE "empty"]
    /\ Goto(b, IF content[b] = "whole" THEN "unlink" ELSE "reidentify")
    /\ UNCHANGED <<dir, away, added, path, left>> /\ Keep

Reidentify(b) ==
    /\ At(b, "reidentify")
    /\ Goto(b, IF IsOwn(b, Quarantine(b)) THEN "rmdir" ELSE "failed")
    /\ UNCHANGED <<dirVars, path, left>> /\ Keep

\* Mutant: the tree is removed, not an empty directory.
Rmdir_Tree(b) ==
    /\ At(b, "rmdir") /\ Goto(b, "failed")
    /\ dir' = [dir EXCEPT ![Quarantine(b)] = "none"]
    /\ UNCHANGED <<away, content, added, path, left>> /\ Keep

\* os.rmdir: removes what is empty, and refuses what is not.
Rmdir(b) ==
    /\ At(b, "rmdir") /\ Goto(b, "failed")
    /\ IF IsEmpty(dir[Quarantine(b)])
       THEN dir' = [dir EXCEPT ![Quarantine(b)] = "none"]
       ELSE UNCHANGED dir
    /\ UNCHANGED <<away, content, added, path, left>> /\ Keep

\* A system call on the quarantine raises: what is in it stays there.
CleanupFails(b) ==
    /\ bpc[b] \in {"identify", "put_back", "inspect", "unlink", "reidentify", "rmdir"}
    /\ Fail /\ Goto(b, "failed")
    /\ UNCHANGED <<dirVars, path>> /\ Keep

BuildStep(b) ==
    \/ Stage(b) \/ StageFails(b) \/ Pend(b) \/ PendRaises(b) \/ PendRecover(b)
    \/ PendCheck(b) \/ Clean(b) \/ CleanFails(b) \/ CheckOutput(b) \/ Move(b)
    \/ MoveRaises(b) \/ ConfirmOutput(b) \/ Recover(b) \/ ReadFails(b)
    \/ Remove(b) \/ Isolate(b) \/ IsolateFails(b) \/ RemoveFails(b) \/ Identify(b)
    \/ PutBack(b) \/ Inspect(b) \/ Unlink(b) \/ Reidentify(b) \/ Rmdir(b)
    \/ CleanupFails(b)
=============================================================================
