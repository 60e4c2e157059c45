---------------------------- MODULE SignPublish -----------------------------
(***************************************************************************)
(* The publication of _sign_loader: a certificate and then an image, in    *)
(* the open output directory, and their retraction into retention          *)
(* directories when anything fails (_publish_signed_files_in_process).     *)
(* Verifying and signing happen in a private workspace and are one step.   *)
(***************************************************************************)
EXTENDS PublishBase

SignAt(s, pc) == spc[s] = pc
SignGoto(s, pc) == spc' = [spc EXCEPT ![s] = pc]
Entry(s, n) == file[opened[s]][n]

\* _require_publication_directory_identity.
DirectoryHolds(s) == dir[Output] = opened[s]

\* A loader image can be read at the output: it is the last file a removal unlinks.
ImageThere == dir[Output] \in Builders /\ content[dir[Output]] # "empty"

\* Mutant: whatever has the output's name is opened.
SignBegin_Unchecked(s) ==
    /\ SignAt(s, "idle")
    /\ opened' = [opened EXCEPT ![s] = dir[Output]]
    /\ SignGoto(s, "sign")
    /\ UNCHANGED <<dirVars, buildVars, fileVars, name, todo, unable, left>>

\* _open_publication_directory, and both names absent in it.
SignBegin(s) ==
    /\ SignAt(s, "idle") /\ ImageThere
    /\ \A n \in Names : file[dir[Output]][n] = NoFile
    /\ opened' = [opened EXCEPT ![s] = dir[Output]]
    /\ SignGoto(s, "sign")
    /\ UNCHANGED <<dirVars, buildVars, fileVars, name, todo, unable, left>>

\* An exception: what was made is retracted.
Raise(s) == SignGoto(s, IF todo[s] = {} THEN "failed" ELSE "retract")

\* It is done with; the error says of those in "beyond" that they could not be retracted.
Leave(s, n, beyond) ==
    /\ todo' = [todo EXCEPT ![s] = @ \ {n}]
    /\ unable' = [unable EXCEPT ![s] = @ \cup beyond]
    /\ SignGoto(s, IF todo[s] = {n} THEN "failed" ELSE "retract")

\* The image is read, signed and verified; the directory still has its name.
Sign(s) ==
    /\ SignAt(s, "sign")
    /\ SignGoto(s, IF ImageThere /\ DirectoryHolds(s) THEN "create" ELSE "failed")
    /\ UNCHANGED <<dirVars, buildVars, fileVars, opened, name, todo, unable, left>>

SignFails(s) ==
    /\ SignAt(s, "sign") /\ Fail /\ SignGoto(s, "failed")
    /\ UNCHANGED <<dirVars, buildVars, fileVars, opened, name, todo, unable>>

-----------------------------------------------------------------------------
(* _write_public_entry, the certificate first, then the image.             *)

\* Mutant: an existing entry is replaced.
Create_Replaces(s) ==
    /\ SignAt(s, "create") /\ opened[s] \in Present
    /\ file' = [file EXCEPT ![opened[s]][name[s]] = Own(s, name[s])]
    /\ data' = [data EXCEPT ![s][name[s]] = "part"]
    /\ todo' = [todo EXCEPT ![s] = @ \cup {name[s]}]
    /\ SignGoto(s, "write")
    /\ UNCHANGED <<dirVars, buildVars, kept, faway, opened, name, unable, left>>

\* O_CREAT | O_EXCL in the open directory; from here on the entry is known by identity.
Create(s) ==
    /\ SignAt(s, "create") /\ opened[s] \in Present /\ Entry(s, name[s]) = NoFile
    /\ file' = [file EXCEPT ![opened[s]][name[s]] = Own(s, name[s])]
    /\ data' = [data EXCEPT ![s][name[s]] = "part"]
    /\ todo' = [todo EXCEPT ![s] = @ \cup {name[s]}]
    /\ SignGoto(s, "write")
    /\ UNCHANGED <<dirVars, buildVars, kept, faway, opened, name, unable, left>>

\* The name is taken, or the directory is gone.
CreateFails(s) ==
    /\ SignAt(s, "create")
    /\ \/ (opened[s] \notin Present \/ Entry(s, name[s]) # NoFile) /\ UNCHANGED left
       \/ Fail
    /\ Raise(s)
    /\ UNCHANGED <<dirVars, buildVars, fileVars, opened, name, todo, unable>>

\* Written, synchronised and read back through the descriptor; then the name must still
\* lead to the file.
Write(s) ==
    /\ SignAt(s, "write")
    /\ data' = [data EXCEPT ![s][name[s]] = "whole"]
    /\ IF Entry(s, name[s]) # Own(s, name[s])
       THEN Raise(s) /\ UNCHANGED name
       ELSE /\ SignGoto(s, IF name[s] = "certificate" THEN "check" ELSE "confirm")
            /\ name' = [name EXCEPT ![s] = IF @ = "certificate" THEN "image" ELSE "certificate"]
    /\ UNCHANGED <<dirVars, buildVars, file, kept, faway, opened, todo, unable, left>>

\* Mutant: an entry counts as made only once it is written.
WriteFails_Forgets(s) ==
    /\ SignAt(s, "write") /\ Fail
    /\ Leave(s, name[s], {})
    /\ UNCHANGED <<dirVars, buildVars, fileVars, opened, name>>

WriteFails(s) ==
    /\ SignAt(s, "write") /\ Fail /\ Raise(s)
    /\ \/ UNCHANGED data
       \/ data' = [data EXCEPT ![s][name[s]] = "whole"]
    /\ UNCHANGED <<dirVars, buildVars, file, kept, faway, opened, name, todo, unable>>

-----------------------------------------------------------------------------
\* The directory, between the two entries and after them.
Check(s) ==
    /\ SignAt(s, "check")
    /\ IF DirectoryHolds(s) THEN SignGoto(s, "create") ELSE Raise(s)
    /\ UNCHANGED <<dirVars, buildVars, fileVars, opened, name, todo, unable, left>>

Confirm(s) ==
    /\ SignAt(s, "confirm")
    /\ IF DirectoryHolds(s) THEN SignGoto(s, "confirm_entry") ELSE Raise(s)
    /\ UNCHANGED <<dirVars, buildVars, fileVars, opened, name, todo, unable, left>>

ConfirmEntry(s) ==
    /\ SignAt(s, "confirm_entry")
    /\ IF Entry(s, name[s]) # Own(s, name[s])
       THEN Raise(s) /\ UNCHANGED name
       ELSE /\ SignGoto(s, IF name[s] = "certificate" THEN "confirm_entry" ELSE "signed")
            /\ name' = [name EXCEPT ![s] = "image"]
    /\ UNCHANGED <<dirVars, buildVars, fileVars, opened, todo, unable, left>>

\* An identity cannot be read, or the directory cannot be synchronised.
ConfirmFails(s) ==
    /\ spc[s] \in {"check", "confirm", "confirm_entry"} /\ Fail /\ Raise(s)
    /\ UNCHANGED <<dirVars, buildVars, fileVars, opened, name, todo, unable>>

-----------------------------------------------------------------------------
(* _quarantine_owned_entry, for each entry made, the last one first.       *)

\* Mutant: in the order they were made.
Turn_FirstMade(s) == IF "certificate" \in todo[s] THEN "certificate" ELSE "image"

\* The entry whose turn it is to be retracted.
Turn(s) == IF "image" \in todo[s] THEN "image" ELSE "certificate"

\* The name leads to something else: it is left alone.
SkipEntry(s) ==
    /\ SignAt(s, "retract") /\ Entry(s, Turn(s)) # Own(s, Turn(s))
    /\ Leave(s, Turn(s), {})
    /\ UNCHANGED <<dirVars, buildVars, fileVars, opened, name, left>>

\* A new retention directory beside the entry.
RetractEntry(s) ==
    /\ SignAt(s, "retract") /\ Entry(s, Turn(s)) = Own(s, Turn(s))
    /\ name' = [name EXCEPT ![s] = Turn(s)]
    /\ added' = added \cup {opened[s]}
    /\ SignGoto(s, "retain")
    /\ UNCHANGED <<dir, away, content, buildVars, fileVars, opened, todo, unable, left>>

RetractEntryFails(s) ==
    /\ SignAt(s, "retract") /\ Fail /\ Leave(s, Turn(s), {Turn(s)})
    /\ UNCHANGED <<dirVars, buildVars, fileVars, opened, name>>

\* renameat2(RENAME_NOREPLACE) of whatever has the name now.
MovesToRetention(s) ==
    /\ Entry(s, name[s]) # NoFile /\ kept[s][name[s]] = NoFile
    /\ kept' = [kept EXCEPT ![s][name[s]] = Entry(s, name[s])]
    /\ file' = [file EXCEPT ![opened[s]][name[s]] = NoFile]

\* Its own file is reported as retained; another one is reported as preserved.
Retain(s) ==
    /\ SignAt(s, "retain") /\ MovesToRetention(s)
    /\ Leave(s, name[s], IF Entry(s, name[s]) = Own(s, name[s]) THEN {} ELSE {name[s]})
    /\ UNCHANGED <<dirVars, buildVars, faway, data, opened, name, left>>

\* Nothing to move, a collision, or a failure before or after the move.
RetainFails(s) ==
    /\ SignAt(s, "retain") /\ Leave(s, name[s], {name[s]})
    /\ \/ /\ Entry(s, name[s]) = NoFile \/ kept[s][name[s]] # NoFile
          /\ UNCHANGED <<file, kept, left>>
       \/ Fail /\ (UNCHANGED <<file, kept>> \/ MovesToRetention(s))
    /\ UNCHANGED <<dirVars, buildVars, faway, data, opened, name>>

SignStep(s) ==
    \/ Sign(s) \/ SignFails(s) \/ Create(s) \/ CreateFails(s)
    \/ Write(s) \/ WriteFails(s)
    \/ Check(s) \/ Confirm(s) \/ ConfirmEntry(s) \/ ConfirmFails(s)
    \/ SkipEntry(s) \/ RetractEntry(s) \/ RetractEntryFails(s)
    \/ Retain(s) \/ RetainFails(s)
=============================================================================
