# refind-forest-theme: specifications and proofs

refind-forest-theme installs a theme for the rEFInd boot manager on a machine's EFI system
partition (ESP), and builds, signs and deploys a replacement for the rEFInd loader itself. Both
halves change what a machine boots from, on a FAT filesystem without a journal, next to firmware
variables nobody can lock. These modules describe, check and prove what that code does.

All paths below are relative to the repository; `deploy.py`, `install.py`, ... are under
`src/refind_forest/`.

## 1. The system

| Component | State it keeps | Operations | Interacts with |
|---|---|---|---|
| Loader transaction, `loader/deploy.py` | the two loader slots on the ESP and their temporary files; `manifest.json` and `intent.json` in a backup directory off the ESP; BootNext, BootOrder, `Boot####`; a lock file | `stage_loader`, `set_candidate_boot_next`, `promote_loader`, `rollback_loader`, `loader_status` | firmware at each reboot; `efibootmgr`; other invocations, through the lock; other privileged software, unsynchronised |
| Theme installation, `install.py` | `refind.conf`, four files and two directories under `EFI/refind`; backups off the ESP; a rollback journal on the ESP | `install`, `switch_theme`, `rollback`, `verify` | the package that `build.py` made; `config.py` for `refind.conf` |
| `refind.conf` include, `config.py` | none | `patch_refind_conf`, `render_theme_config` | `install.py`, `build.py` |
| Theme package, `build.py` | the output directory, its staging and backup siblings | `build_package`, `_promote_package` and its recovery | `assets.py`, `config.py` |
| Loader build, `loader/build.py` | a download cache, the published build directory, quarantine directories | `build_loader` | compilers and tools; `loader/verify.py` |
| Loader CLI and signing, `loader/cli.py` | the published image and certificate, retained artefacts | `_sign_loader`, publication by a forked, unprivileged child | `sbsign`; `deploy.py` |
| PE verification, `loader/verify.py` | none | `verify_pe`, `verify_signed` | `sbverify` |
| Theme CLI, `cli.py`; assets, `assets.py` | a temporary staging directory; none | argument parsing; drawing | `build.py`, `install.py` |
| `Makefile`, `tools/`, `patches/` | none | command wrappers | the CLIs |

What is hard here: an operation is many system calls, and it can be killed, or the power can fail,
after any of them; what a power loss leaves on the medium is not what processes saw; recovery
is run by the same code that was interrupted, and can be interrupted too; firmware changes
the variables between two invocations (it consumes BootNext, and may not run what BootNext
selected); other software changes variables and files between invocations; two invocations can
wait for the same lock. The hazards are listed line by line in `PROJECT.json`.

What makes each part correct:

- *Loader transaction.* The normal boot entry always starts a loader that is known to boot. No
  boot entry points at a slot that holds no loader. Records and reality agree whenever nothing is
  pending. Whatever is pending can be taken up or rolled back. Nothing that belongs to somebody
  else is changed. The status an operator decides by is true.
- *Theme installation.* A command that fails leaves the ESP as it was, unless it says otherwise.
  No rollback destroys the only copy of what was there. A backup can be restored from any state an
  interrupted command leaves.
- *Publication* (`build.py`, `loader/build.py`, `loader/cli.py`). The output is the old one or the
  whole new one; a directory or file that was replaced under its name is never removed.
- *PE verification* (`loader/verify.py`). Firmware can load every image that passes.

## 2. The modules

### Loader transaction

| Module | Code |
|---|---|
| `LoaderBase` | the state, the checks the operations share, the lock, the write of an intent |
| `LoaderStage` | `stage_loader`, `_resume_stage`, `_publish_candidate`, `_observe_created_entry`, `create_only_entry` |
| `LoaderBootNext` | `set_candidate_boot_next` and the backend's exclusive creation of BootNext |
| `LoaderPromote` | `promote_loader`, `_finish_promotion`, `_reverse_failed_promotion` |
| `LoaderRollback` | `rollback_loader`, its preflight, and the restore and cleanup steps |
| `LoaderDeploy` | the composition: invocations, firmware, kills, power loss, failures, other software |
| `LoaderProperties` | the properties, `loader_status`, fairness, and the refinement mapping |
| `LoaderUpgrade` | the abstract specification: what a transaction promises about the machine |
| `MCLoaderDeploy` | the instances TLC checks |
| `LoaderDeployProofs` | theorems: types, the lock, the permanent record, the normal boot |
| `LoaderOwnProofs` | theorems: whose variables, files and records are changed |
| `LoaderRestProofs` | theorems: the machine at rest, status, availability, the refinement |

*State.* A file is one value: `"old"` (the recorded active loader), `"new"` (the recorded
candidate), `"other"`, `"partial"` or `"absent"`; the code only compares hashes. `esp` is what
processes see, `disk` what a power loss would leave; `syncfs`, and write-back at any moment,
make them equal. `nvram` holds BootOrder, the entries, BootNext and BootCurrent; an entry is
`"none"`, `"initial"`, `"cand"` (the candidate loader on this ESP) or `"other"`. `manifest` and
`intent` are the two JSON records; they are written with `fsync` by the calls that change them, so
a power loss keeps them. `pc` and `loc` are where each invocation is and what it remembers.

*Actions.* Starting an operation takes the lock, makes the checks the code makes in that
critical section before its first change and, when they pass, makes the first change (`NextStart`,
`PromoteStart`, `RollbackStart`, `StageBegin`); when they fail the call raises and changes nothing,
which is a stutter. Every later change of shared state is an action of its own, with the reads and
checks that precede it in the code; a raise releases the lock. `Killed` stops an invocation
between any two steps (or inside a file write, which leaves a partial file), `Fails` makes the next
call raise before it takes effect (an effect followed by a raise is the same one step later);
where the code catches a failure the consequence is an action of its own (`StageRenameFails`,
`NextConflict`, `FinishFails`, `RollbackReplaceFails`, ...). `Firmware` consumes BootNext and
boots either its entry or any entry of BootOrder.

A created boot entry is recorded in two steps, because the code writes twice. `StageObserve` is
`_observe_created_entry`: it compares NVRAM with `Baseline` (the first snapshot of the transaction
when this call declared the creation, the snapshot in the intent when it found it declared), writes
the intent once more with that baseline, and only then refuses a changed BootOrder or BootNext.
`StageAdopt` puts the number into the manifest.

### Theme installation

| Module | Code |
|---|---|
| `ThemeBase` | the managed paths, their values, what `verify` accepts |
| `ThemeRestore` | `_restore_backup`: staging, the swaps, their reversal, the journal |
| `ThemeInstall` | `install`, `switch_theme`, `rollback`, failures and kills |
| `ThemeProperties` | the properties and the fairness |
| `MCTheme` | the instances TLC checks |
| `ThemeProofs` | the theorems |

A path holds `"absent"`, `"part"` (a directory half written or half removed), the user's own
content, or what a package puts there; `refind.conf` is the user's, patched, or `"broken"` (half an
include block, which `patch_refind_conf` refuses). The journal of a rollback is its two
directories, `new` and `old`; `strays` are the `old` directories that interrupted rollbacks left
on the ESP. A rollback walks the paths in the code's order and makes the two renames of each path
in two steps; a failing rename fails before or after it took effect, and the reversal undoes
exactly the recorded moves from the last to the first.

### Theme package

| Module | Code |
|---|---|
| `PackageBase` | the output and what lies beside it; a rename that may raise after its effect, `_complete_rename`, `_rmtree_with_retry` |
| `PackagePromote` | `build_package`, `_promote_package`, `_restore_after_backup_cleanup_failure`, `_cleanup_obsolete_build`; kills and a directory put in the way |
| `PackageReplacement` | the abstract specification: what a build promises those who use the output |
| `PackageProperties` | the properties |
| `MCPackage` | the instance TLC checks |
| `PackageProofs` | the theorems |

A place (the output, the staging directory, and the three names in the backup root) holds nothing,
a whole package, a part of a tree, or a directory of somebody else's, which is `"empty"` or holds
something (`"foreign"`): rename(2) puts a directory in the place of an empty one and refuses the
others (`Vacant`, `Blocked`). Every rename and every removal
is a step, with `pc` naming the call that is made next; a call that raises does so before or after
its effect, as an error or as an interruption, and the retries keep the first error as the code
does. `Drift` is somebody else who makes a directory where the output is to be, or puts something
into an empty one. `strays` are the whole packages that earlier invocations left in their backup roots.

### Publication of the loader

| Module | Code |
|---|---|
| `PeImage` | the fields of a PE file that `parse_pe` and `verify_pe` read, what they accept, and what a loadable image is |
| `PublishBase` | directories and files by inode, the names that lead to them, the state of both programs |
| `BuildPublish` | the audit and the end of `build_loader`, `_recover_build_publication`, `_remove_build_directory` |
| `SignPublish` | `_sign_loader`, `_publish_signed_files_in_process`, `_write_public_entry`, `_quarantine_owned_entry` |
| `LoaderPublish` | the composition: several builds and signers on one output path, kills, other processes |
| `PublishProperties` | the properties |
| `MCPublish` | the instance TLC checks |
| `PublishProofs`, `PublishFileProofs` | the theorems, about directories and images, and about files |

The two programs meet in the published directory: `sign` opens it, and keeps it open, while a
build that failed to publish may be moving and emptying it. A name (`dir`, `file`) leads to an
inode; every `rename`, `rmdir` and exclusive create acts on what the name leads to at that step,
every comparison on what it leads to at its own, and anything may happen in between. Other
processes (`Drifts`) replace what has one of the directory names, add an entry to a built
directory, replace a published file, or take the name in a retention directory. The names of
quarantines and retention directories are random in the code and are each invocation's own here.

Where the build only reads whose directory has a name (`ReadPcs`), an `lstat` that raises ends it
with `"unread"` (`ReadFails`): outside the try statements of `build_loader`, or before a pending
directory is known there, nothing is cleaned up. In a removal the failing reads are `RemoveFails`
and `CleanupFails`.

A build may make any of the `Images`. What it audits and what it stages are the same bytes, so
auditing and staging are one step (`Stage`), which lets through what `Verified` accepts. `sound`
remembers whose image is `Loadable`, a definition that owes nothing to `verify_pe`: every pair of
sections is compared, for whatever part of a section firmware may copy.

### refind.conf

`RefindConf` (with `MCRefindConf`) is `patch_refind_conf`, `_patch_refind_conf_once` and
`_verify_refind_config` as operators on texts, and a state machine in which the user inserts and
deletes lines anywhere and an installation patches the text or refuses it. A text is a sequence
of kinds of lines, which is all the code tells apart; `Kept` is the filter on lines that removes
the naked includes. `ThemeInstall` keeps of this only whether the text can be patched. The
theorems are in `RefindConfProofs`.

## 3. What the runs check

| Run | Bounds | Shows |
|---|---|---|
| `LoaderCrash` | 1 invocation at a time, 3 kills or power losses, 2 failures, 2 reboots | the transaction alone on its machine: its safety, the refinement of `LoaderUpgrade`, calls end, a pending rollback that is retried completes |
| `LoaderDrift` | 2 free Boot numbers, 1 crash, 1 failure, 2 changes by other software, 1 reboot | nothing foreign is changed, rollback reports success only over the recorded machine, no invocation is stuck |
| `LoaderConcurrent` | 2 invocations, 2 free Boot numbers, 1 crash, 1 failure, 1 change of any kind, 1 reboot | the lock excludes; the transaction is begun once |
| `ThemeFailure` | 2 packages, user files or none, 2 installs or switches, any number of rollbacks, 2 failures, 1 kill | reports are truthful; nothing is lost in a rollback |
| `ThemeLive` | 1 install or switch, 2 failures, 2 kills | a retried rollback restores its backup |
| `PackageFailure` | 3 packages, 3 builds, 4 failures or interruptions, 2 kills, 2 changes by others (a directory at the output, empty or not, or something put into it) | no package is lost before the next one is in place; the output is never a part of one; reports are true; the refinement of `PackageReplacement` |
| `PublishRace` | 2 builds, 2 signers, 1 failure, 1 kill, 1 change of any kind by others, 3500 images | what is published can be loaded; nothing published or foreign is destroyed; failures retract what they made or say so |
| `RefindConfEdits` | texts of up to 2 lines at first, 3 edits, 2 installations | the user's lines survive; what is patched verifies and can be patched again |

The four remaining runs each show a disagreement (section 6).

*Why these bounds.* Three crashes are one in an operation, one in its recovery and one in the
recovery of that; two failures are a failure and the failure of the code that handles it, which
is as deep as the code's own handlers nest. Two reboots are the candidate's boot and a
return (or two boots that fall back). A second free Boot number is what makes created entries
ambiguous. With two invocations one holds the lock and one waits; `_esp_lock` treats all waiters
alike. The theme's paths are few and all of them are there; the user's own files are bounded to
one directory, since files and directories take the same branches of the swaps. Two packages are
what a reinstall needs.

Three builds of a package are one that leaves a backup behind, one that starts without an output
because of it, and one over the result; four failures exhaust a rename, its retry, and both
attempts of the recovery; two changes by others are an empty directory and what is then put into
it, or into the next one. Of two builds one publishes while the other fails; of two signers one
takes the other's entry for its own; the builds and the signers are symmetric, since no action
and no property names one of them. The one failure is the one that starts a retraction, whose own
failures the kill and the other processes stand for as well (an unread directory at the output needs
no more: the `lstat` at line 1209 is the one failure). With two failures the state space is
beyond a run of minutes, and the theorems of section 4 cover it. The images vary one accepted
image of three sections in four directions: where sections lie in memory and how far they reach
there and in the file, where they and the certificates lie in the file, in any order, what the
sections may be used for, and what the headers say. Each comparison that guards `Loadable` tells
two of them apart, and two sections and the certificates are all that an overlap involves; the
theorem `VerifiedLoads` is for images of every size. Three edits are enough to
break a block, to put a line before, into and after it, and to mend it again.

*Deadlock* is checked in `LoaderCrash`, `ThemeFailure` and `ThemeLive`. The runs of the package,
of the publications and of `refind.conf` bound the number of invocations, and really end. Where other
software may take over the slots or variables (`LoaderDrift`, `LoaderConcurrent`, `LoaderSlotRace`)
it is not: such a machine really stops, because every operation refuses. `RunnerCanStep` takes its
place there: an invocation inside the lock always has a next step.

*Fairness.* `WF(Continue(p))`: the scheduler runs a process that has started; every loop of the
code is finite. `SF(RollbackRetry(p))`, `SF(RollbackRetry)`: an operator whose rollback failed
runs it again when it can be run; the program has no retry of its own, so without this nothing
would follow a kill. It is strong because a reboot or another call may disable the retry for a
while. Nothing is assumed about crashes except that their number is bounded.

*Abstract specifications.* `LoaderUpgrade` has four variables (which loader a power loss would
leave running, what the alternate slot holds, whether firmware is offered it, whether it has
booted) and says that the candidate is published before it is offered, that both slots change at
once and only for a proven candidate, and that the slot is emptied only after the offer is
withdrawn. `ImplementsUpgrade` maps it to `disk`, not `esp`: it is a promise about the medium.
`PackageReplacement` has five (what the output shows, what it showed when the build began, the
new package, the package that can still be put back, whether a build runs) and says that the
output changes only while a build runs, that it goes from the previous package to nothing and to
the new one, that it goes back only while a whole previous one can be put back, and that after
that it changes no more. `ImplementsReplacement` maps `previous` in the backup root to the package
that can be put back: `_promote_package` gives that up with one rename, before it deletes
anything.

## 4. What is proved

Every theorem is for all sets of invocations, Boot numbers, packages and bounds, and for every
kind of interference that it does not exclude itself. Liveness apart, every property of a passing
run is a theorem, except `RunnerCanStep`.

### The loader transaction

`LoaderDeployProofs`:

- `TypeCorrect`: `Spec => []TypeOK`.
- `LockExcludes`: `Spec => []LockHeldByRunner`. `TypeOK /\ LockHeldByRunner` is inductive: an
  invocation moves only while it holds the lock, and every way out of an operation releases it.
- `RecordPermanent`: `Spec => TransactionBegunOnce`. From `TypeOK` alone: no step of an existing
  transaction writes the recorded snapshot or hashes.
- `NormalBootSafe`: `"slot" \notin Drifts /\ Spec => []NormalEntryBoots`. The assumption is
  needed: other software that overwrites the active loader decides what boots. `NormalEntryBoots`
  is not inductive; `BootInv` adds that every way the new loader can come to the active slot lies
  behind a boot of the candidate: an invocation inside a promotion, an authorization recorded in
  an intent, a BootCurrent that could authorize one, an old loader in the alternate slot or in the
  quarantine. It also fixes the slots between a promotion's checks and its second exchange, which
  holds because of `LockHeldByRunner`. It speaks of `esp` and `disk` alike, so that a power loss at
  any point preserves it.

`LoaderOwnProofs`, about what other software may have changed at any time:

- `OnlyOwnVariablesChange`: `Spec => OtherVariablesPreserved`, with every kind of drift. `OwnInv`
  adds that the recorded Boot number was free in the initial snapshot, that the snapshot in a
  pending `create_entry` intent has the initial entries, and that the entries are still the initial
  ones when `efibootmgr` is called.
- `ArtifactsStayKnown`: `Spec => []ArtifactsHaveIntent`, with every kind of drift. `IntentInv` says
  which intent covers each step and which manifest states each intent goes with; `ScratchInv` adds
  where the scratch files are between the removal of a file and the removal of its intent, on the
  medium too: that the sync comes between the two is what makes the property hold there.
- `ForeignFilesStay`: `"race" \notin Drifts /\ Spec => OtherFilesPreserved`. `SlotInv` says that
  what the checks of an invocation found in the slots is there at each step that writes them. The
  run `LoaderSlotRace` is the counterexample when `"race"` is allowed, so the assumption cannot go.
- `RolledBackAsFirstRecorded`: `Spec => RollbackRestoresRecord`, with every kind of drift.
  `RecordInv` carries what a rollback found out about BootOrder and the entries from its preflight
  to its verdict, through the steps where a BootNext conflict makes it keep the entry.

`LoaderRestProofs`, about the transaction on a machine where other software may change BootOrder
and files outside the slots (`Elsewhere == {"order", "tree"}`), and keeps off the slots, the boot
entries and BootNext:

- `EntryLeadsToLoader`: `Drifts \subseteq Elsewhere /\ Spec => []EntryNeverDangles`
- `RestIsAsRecorded`: `Drifts \subseteq Elsewhere /\ Spec => []RestMatchesManifest`
- `StatusTellsTruth`: `Drifts \subseteq Elsewhere /\ Spec => []StatusTruthful`
- `StatusAlwaysAnswers`: `Drifts \subseteq {"tree"} /\ InitialNext = {NoNum} /\ Spec => []StatusAnswers`
- `RollbackStaysAvailable`: `Drifts = {} /\ InitialNext = {NoNum} /\ Spec => []RollbackAvailable`
- `TransactionIsUpgrade`: `Drifts \subseteq Elsewhere /\ Spec => ImplementsUpgrade`

None of these is inductive, and none can be proved without the others' subject: whether the slots
match the record depends on which intent is pending, that on what the variables let an operation
start, and that on the record. `RestInv` has five parts, inductive only together (and with
`TypeOK`, `LockHeldByRunner`, `OwnInv`, `IntentInv`, `SlotInv` and `BootInv`):

- `EntryInv`: nothing but the candidate's entry is ever added, it exists from the step that stages
  the transaction to the step of the rollback that deletes it, and the record names exactly what
  was there before;
- `StateInv`: the manifest states that go with each intent and each step; a rollback meets no
  conflict;
- `ArmInv`: BootNext is firmware's own, absent, or the candidate's, and in that case recorded as
  owned or under a `set_boot_next` intent, so that no promotion starts while it waits;
- `CheckInv`: what a rollback's checks found out about BootNext holds until it is cleared;
- `FilesInv`: what each state and intent leaves in the slots and scratch files, in memory and on
  the medium, and how the two may differ between a step and its `syncfs`.

A power loss makes `esp` equal to `disk` and stops every invocation. `FilesInv` says of both alike
what an intent allows when nobody runs, so a power loss preserves it at any point; only what a
running invocation knows more is said of `esp`, under its `pc`.

`TransactionIsUpgrade` shows that every step is a step of `LoaderUpgrade` or a stutter. By
`SlotPairs` the slots in memory and on the medium always are a pair that one abstract action
relates, so that each change of the medium is one (`SyncUpgrade`): `Publish` under a
`publish_candidate` intent, `Activate` or `Restore` where the slots were exchanged, `Remove` once
the entry is gone. Recording the created entry is `Offer`, deleting it `Withdraw`, and a boot of
the candidate `Prove`. A rollback that moves the candidate back after a failed unlink is `Publish`
again, or `Restore` when the medium still has the exchanged slots.

The run `LoaderCrash` has `Drifts = {}`; these theorems go further. A changed BootOrder makes
`status` and `rollback` refuse and a changed tree makes `rollback` refuse, so the two theorems on
availability exclude them. Software that edits the slots or entries of a transaction makes the
record wrong by its own decision; what the program still guarantees then is in `LoaderOwnProofs`.
A foreign BootNext can leave a rollback partial, which `StateInv` excludes: `"next"` is outside
`Elsewhere` because the proof needs it, not because a counterexample is known. `InitialNext =
{NoNum}` is needed for availability: `LoaderPendingBootNext` is the counterexample (section 6).

### The theme installation

`ThemeProofs`: `TypeCorrect`, `ReportsAreTrue`, `RollbackKeepsPrior`, every safety property of the
run `ThemeFailure`, and `WrittenVerifies`: what an installation or a switch wrote is what `verify`
accepts, so that only a failing call undoes a command. The inductive invariant `Inv` adds

- `SwapInv`: around the position of the walk in the code's order every path before it is `Swapped`
  (the staged value live, the prior one in `old/`) and every path behind it `Untouched`; the path
  itself is one of the two, or `PriorAway` between its two renames. A reversal walks back over the
  same statement, and a rename that raised before or after its effect is covered by the
  disjunction at its path. `PriorRecoverable` alone does not say which of `live`, `new/` and `old/`
  holds the value that the next rename moves;
- `InstallInv`, `SwitchInv`: what is written so far, that an installation started from the backup
  it restores, and that a switch changes the active configuration only;
- `CommandInv`: which steps belong to which command.

### The package and the publications

- `PackageProofs`: `TypeCorrect`, `PreviousSafe`, `ReportsTrue`, `OutputWholeOrAbsent`,
  `ForeignSafe` and `BuildReplaces` (`Spec => ImplementsReplacement`), every property of the run
  `PackageFailure`, for any packages and any number of builds, failures, kills and foreign
  directories. The inductive invariant `Inv` says for each point of a build what every place
  holds: with a previous package (`ReplacingHolds`) where it is, and that nothing is at the output or
  somebody else's directory, empty or not, while it is moved aside (`Withdrawn`); without one
  (`FirstHolds`) what may be at
  the output; and that the result already decided is true (`Told`). None of the six follows
  without it: that a recovery finds the previous package at the place it restores from depends on
  every rename before it. For the refinement it also says that a first build has nothing to put
  back and undoes only its own package; each call is then one step of `PackageReplacement` (a
  rename that takes effect) or none (one that fails, and every removal beside the output);

- `PublishProofs`: `TypeCorrect`, `OutputIsWhole`, `PublishedSafe`, `ForeignSafe` and
  `FailureLeavesNothing`. The invariant `Inv` says that a directory is in one place, which of its
  names a build's directory can have at each point of the build (`WhereInv`), and that it lacks a
  file only when it can have no name but the quarantine's (`WholeInv`). What makes this hold next
  to other builds is `MovesOwn`: a build moves directories among the output and its own two names,
  so what it does to another build's directory, by mistake, is to move it between the output and
  a name of its own (`OthersWhere`).
- `PublishFileProofs`: `FilesSafe`, `CertificateFirst` and `ReportsHold`. `FileInv` adds for each
  signer what is written at each point (`Order`), that a retention directory is in use only in a
  directory that is known to hold something, and the certificate's last (`Retention`), and that
  every file it made is under its name, where it still has to be retracted or is named in the
  error, or retained, or in somebody else's hands (`Known`). A file that another signer moves is
  `Traced`: it appears in that signer's retention directory.

- `PublishProofs`, at its end: `VerifiedLoads`, that what `verify_pe` accepts is `Loadable`, for
  any image, and `PublishedLoadable`. The lemma behind the first is `NeighboursSuffice`: in a sorted
  list it is enough to compare each range with the next one, since the start of every later range is behind
  the start of the next. `SoundInv` adds to `Inv` that a build whose image does not load has no
  name outside its workspace.

  Together these are every property of `PublishRace`, so its bound of one failure is one of TLC's
  only. With two failures a removal can take another directory for its own, lose it, and end while
  its own is at the output again: that is the exception in `FailureRetracts` (`TookAnother`), which
  one failure cannot reach. The other half of `FailureRetracts` is `Unread`: a build whose directory
  nobody could identify leaves it at the output only from the steps that follow the move.

### refind.conf

`RefindConfProofs`, for texts of any length, whatever the user does to them and how often:

- `TypeCorrect`, `UsersLinesStay`, `PatchedIsAccepted` and `PatchingSettles`: the four properties of
  `RefindConfEdits`.
- `RefusedForMarkersOnly`: an installation patches exactly the texts with one whole block or none.
  An include of the theme that the user has put somewhere, in the block or out of it, decides
  nothing.

The inductive invariant is `ConfInv`. None of the last three properties is inductive, since none says
what a patched text looks like. `LaidWhenPatched` does: it is a *rest* (no marker, no include, no
blank line last), one or two blank lines and the block. `PatchOnceLaid` shows that a patch makes
this form of every text that it accepts, with the user's lines of the text in the rest;
`LaidSettles`, `LaidAccepted` and `UsersPartLaid` show what follows from the form alone. `ConfInv`
also says what `mine` is after an edit, so that the history is about the text that is there.

`PatchableShape` replaces the four conditions of `patch_refind_conf` by two shapes: no marker at all,
or three parts without markers around the two markers. `PatchableWithout` shows that the filter
keeps the shape both ways; its hard half, that lines around a kept line come from lines around that
line, is `KeptSplit`.

What `Kept` returns is shown by induction over the text. The library's induction theorems take
the induction hypothesis as an operator, which the provers cannot instantiate; `AllNumbers` and
`AllTexts` state it of a *set* instead, and follow from `WFMin` (a set of numbers that is not empty
has a smallest one). `Kept` is a recursive function for this: what the filter of the standard modules
returns is not known to the provers. `KeptByRecursion` says that the function that
`Kept` chooses is the one its recursion describes.

### Assumptions, and what is only model-checked

The assumptions are the named ASSUMEs of `LoaderBase` (Boot numbers are distinct; no invocation is
the free lock; bounds are naturals), of `ThemeBase` and `PackageBase` (packages are not the words
for what is none; the user's files are managed paths other than `refind.conf`) and of `PublishBase`
(builds, signers and the directories and files of others are distinct; images have the fields of
`PeImage`) and of `RefindConf` (before the first installation `refind.conf` is the user's lines;
bounds are naturals), which TLC evaluates in every run of their component.

Only model-checked:

- `EveryCallEnds`, `RollbackConverges`, `RollbackRestores`: liveness under fairness, which the
  proof system does not do;
- `RunnerCanStep`: it is stated with `ENABLED`, which it does not do either.

## 5. What is not modelled

In the loader component: paths, symbolic links, ownership and permissions, GPT and partition
identity (they refuse before anything changes); a candidate that differs from the staged one
(refused likewise); tampering with the backup directory; BootOrder and entries changing inside a
critical section (the repository's README, lines 164-168, excludes it; only BootNext changes there,
because the code defends against that; so the refusals of `_observe_created_entry` after
`efibootmgr` ran are left out, but for a changed BootOrder or BootNext, and a command that creates
nothing is `Fails`). The repeated BootOrder checks inside a rollback are left out for the same
reason. The second write of the `create_entry` intent (lines 930-937) is modelled for its `before`,
which a retry reads; the `candidate_bootnum` and `candidate_entry_raw` that it adds nothing reads. A
BootNext that somebody else deletes and creates again with the same bytes is the same value here, as
it is for the code.

Behaviours of the code that the model shows and that its documentation does not promise otherwise:
a pending `set_boot_next` intent makes rollback wait for a repeated `boot-next` or a reboot;
BootNext armed again while the candidate is running makes promote wait for a reboot; a transaction
that is promoted or rolled back blocks a new stage on the same backup root; `loader_status` raises
while no Boot number is recorded. When BootOrder is changed after the transaction began and before a
resumed stage creates the entry, that call does create it, raises "BootOrder changed" (938-939), and
every retry refuses until BootOrder is what it was, because the rewritten intent holds the first
snapshot; no number is recorded, so that rollback is no way out either. A test accepts the rejection
with the intent kept (`tests/test_loader_deploy.py:668`), and no document promises more.

In the theme component: power loss (nothing syncs the renames of a rollback), concurrent commands
(there is no lock), free space, tampered backups and packages. The
backup is one step, because a failing backup removes itself before anything changed. A journal
whose removal fails after a complete rollback is dropped from the model: nothing in it is needed.

In the package component: what is generated (one step), the checks of arguments and paths, the
removal of empty backup directories, and which of several exceptions is the one that is raised;
`errors` keeps only their kinds, which decide whether the end is an interruption. The ownership
of the output is checked before a package is generated and not again, so that files somebody edits
in the output meanwhile are deleted with it; the code has no way to prevent it and no document
promises it. The model shows one behaviour more: an empty directory that somebody puts at the output
during a build is replaced without a word, by the new package or by the previous one on its way
back, although one that is there before is refused. `ForeignOutputKept` says what holds of it.

In the PE verification: where in the file the headers are and how they are decoded (an image is
its decoded fields, `sections` in the order of the table; Python's integers do not overflow), the
disassembly checks of the audit, `loaded_section_hashes` and `verify_signed`, which are tools' answers.

In the publications: the work in private workspaces (downloading, compiling, signing, verifying
what was signed) is one step. An interruption between two statements, and a failing `fstat` of an
entry just created, leave what a kill leaves. Who raises which exception is left out, but what an
error names is not (`stuck`, `unread`, `unable`). A signer's child that is killed leaves retained
files nobody reports; the parent's death alone changes nothing, since the child goes on. An `lstat` that fails while the
build compares directories (`loader/build.py:1159`, 1172, 1194 and 1209, and 979 in the recovery)
stops all cleaning up: the directory stays at its `.publish` name or, after the move, at the output
of a build that failed. `FailureRetracts` says so, and that it is at the output only then. Two
behaviours no property speaks about: a directory that another process swaps in between the comparison at
`loader/build.py:1194` and the rename at 1199 ends at the output, and is reported as not the
build's own; what a removal isolates by mistake stays in the quarantine when its name has been
taken again.

In `refind.conf`: line ends and the wording of `render_theme_config`. Lines that the user puts
between the two markers go with the block, by design.

The components marked `not_modelled` in `PROJECT.json` are pure functions of bytes or images,
or command wrappers.

## 6. Where the code and what the repository says disagree

- `LoaderPendingBootNext`: `stage` accepts a machine whose BootNext already selects another entry.
  Once firmware has consumed it, rollback, promote and status compare with the recorded value and
  refuse for good (`deploy.py:1897`).
- `LoaderPartialWrite`: a candidate write that fails after its file exists leaves a partial file
  that no retry accepts (`deploy.py:553`), and with no Boot number recorded there is no rollback.
- `LoaderSlotRace`: the candidate slot is checked before the wait for the lock only; a file that
  appears there meanwhile is overwritten (`deploy.py:1148`). The proofs and `LoaderDrift` are about
  what the program does otherwise: `LoaderDrift` checks the same property with `"race"` left out.
- `LoaderReversal`: a reversal started from a settled promotion records no authorization, and
  promote refuses to resume it (`deploy.py:1556`). Rollback recovers.

## 7. Plan

Done: the loader transaction and its composition, the theme installation, the theme package, the
publications of build and sign with the audit of images and their composition, `refind.conf`;
the proofs of every safety property that a run checks, but for `RunnerCanStep`.

1. Theme: a durable copy of the tree and power loss; two concurrent commands; the abstract
   specification (the ESP is the old tree, the new one, or reported as broken) and the refinement,
   with `Inv` of `ThemeProofs` extended to it.
2. Loader proofs: `StatusTruthful` and the refinement with `"next"` in `Drifts`, which needs the
   partial rollback in `RestInv`.
3. An abstract specification of publication (absent, whole, withdrawn) that `BuildPublish` and
   `SignPublish` implement, as `PackagePromote` does `PackageReplacement`.
