--------------------------- MODULE PublishProofs ----------------------------
(***************************************************************************)
(* Theorems about the directories of LoaderPublish, for any numbers of     *)
(* builds, signers, failures, kills and changes by others, and about the   *)
(* images that builds publish.                                             *)
(***************************************************************************)
EXTENDS PublishProperties, TLAPS, FiniteSetTheorems

LEMMA SlotFacts ==
    /\ Output \in Slots
    /\ \A b \in Builders : /\ Pending(b) \in Slots /\ Quarantine(b) \in Slots
                           /\ Pending(b) # Output /\ Quarantine(b) # Output
    /\ \A b, c \in Builders : Pending(b) # Quarantine(c)
    /\ \A b, c \in Builders : b # c => Pending(b) # Pending(c) /\ Quarantine(b) # Quarantine(c)
  BY DEF Slots, Output, Pending, Quarantine

LEMMA FileFacts ==
    /\ NoFile \notin Files
    /\ \A s \in Signers, n \in Names : Own(s, n) \in Files /\ Own(s, n) \notin OtherFiles
    /\ \A s, t \in Signers, n, m \in Names : Own(s, n) = Own(t, m) => s = t /\ n = m
  BY PublishNames DEF Files, NoFile, Own, OtherFiles, Names
-----------------------------------------------------------------------------
(* The inductive invariant.                                                *)

\* No directory has two names, or one here and one elsewhere.
OnePlace ==
    \A slot \in Slots : dir[slot] # "none" =>
        dir[slot] \notin away /\ \A other \in Slots : dir[other] = dir[slot] => other = slot

\* Build b's directory has no name but this one.
Confined(b, slot) == \A other \in Slots : dir[other] = b => other = slot

\* Where the directory of a build can be, by what the build does next, and what it holds.
WhereInv(b) ==
    /\ bpc[b] \in {"idle", "stage", "pend"} =>
         b \notin away /\ \A slot \in Slots : dir[slot] # b
    /\ bpc[b] \in {"pend_recover", "pend_check", "clean", "check_output", "move"} =>
         Confined(b, Pending(b))
    /\ bpc[b] \in {"remove", "isolate"} =>
         IF path[b] = Pending(b) THEN Confined(b, Pending(b)) ELSE dir[Pending(b)] # b
    /\ bpc[b] = "confirm" => dir[Pending(b)] # b
    /\ bpc[b] \in {"identify", "put_back"} =>
         IF path[b] = Pending(b) THEN Confined(b, Quarantine(b)) ELSE dir[Pending(b)] # b
    /\ bpc[b] = "put_back" => dir[Quarantine(b)] # b
    /\ bpc[b] \in {"inspect", "unlink", "reidentify", "rmdir"} => Confined(b, Quarantine(b))

\* A directory that was emptied is in its quarantine, or nowhere.
WholeInv(b) ==
    content[b] # "whole" =>
        /\ bpc[b] \in {"unlink", "reidentify", "rmdir", "failed", "killed"}
        /\ Confined(b, Quarantine(b))

Inv ==
    /\ TypeOK
    /\ \A s \in Signers : IF spc[s] = "idle" THEN opened[s] = "none" ELSE opened[s] \in Builders
    /\ \A b \in Builders : path[b] \in {Pending(b), Output}
    /\ OnePlace
    /\ \A b \in Builders : WhereInv(b) /\ WholeInv(b) /\ (bpc[b] = "published" => b \in Present)
-----------------------------------------------------------------------------
(* What a step of build b does, all that matters to the others.            *)

OwnSlots(b) == {Output, Pending(b), Quarantine(b)}

\* It moves directories among the output and its own two names.
MovesOwn(b) ==
    /\ away' = away
    /\ \A slot \in Slots \ OwnSlots(b) : dir'[slot] = dir[slot]
    /\ \A slot \in OwnSlots(b) :
         dir'[slot] \in {"none", b} \cup {dir[other] : other \in OwnSlots(b)}

\* Only empty directories cease to exist.
KeepsDirectories == \A d \in Present : d # "none" /\ ~IsEmpty(d) => d \in Present'

\* The builds other than b do nothing.
OthersRest(b) ==
    \A c \in Builders \ {b} :
        bpc'[c] = bpc[c] /\ path'[c] = path[c] /\ content'[c] = content[c]

OwnInv(b) ==
    /\ path[b] \in {Pending(b), Output}
    /\ WhereInv(b) /\ WholeInv(b) /\ (bpc[b] = "published" => b \in Present)

LEMMA OthersWhere ==
    ASSUME Inv, NEW b \in Builders, NEW c \in Builders \ {b}, MovesOwn(b), OthersRest(b)
    PROVE  WhereInv(c)' /\ WholeInv(c)'
<1>1. /\ bpc'[c] = bpc[c] /\ path'[c] = path[c] /\ content'[c] = content[c] /\ away' = away
      /\ WhereInv(c) /\ WholeInv(c)
  BY DEF OthersRest, MovesOwn, Inv
<1>2. dir'[Pending(c)] = dir[Pending(c)] /\ dir'[Quarantine(c)] = dir[Quarantine(c)]
  BY SlotFacts DEF MovesOwn, OwnSlots
<1>3. \A slot \in Slots : dir'[slot] = c =>
         \/ dir[slot] = c
         \/ \E other \in OwnSlots(b) : dir[other] = c
  BY PublishNames DEF MovesOwn, Dirs
<1>4. OwnSlots(b) \subseteq Slots /\ Pending(c) \notin OwnSlots(b) /\ Quarantine(c) \notin OwnSlots(b)
  BY SlotFacts DEF OwnSlots
<1>5. \A slot \in {Pending(c), Quarantine(c)} : Confined(c, slot) => Confined(c, slot)'
  <2>1. SUFFICES ASSUME NEW slot \in {Pending(c), Quarantine(c)}, Confined(c, slot),
                        NEW other \in Slots, dir'[other] = c
                 PROVE  other = slot
    BY DEF Confined, Pending, Quarantine
  <2>. QED  BY <1>3, <1>4, <2>1 DEF Confined
<1>6. (\A slot \in Slots : dir[slot] # c) => \A slot \in Slots : dir'[slot] # c
  BY <1>3, <1>4
<1>7. WholeInv(c)'
  BY <1>1, <1>5 DEF WholeInv
<1>. QED  BY <1>1, <1>2, <1>5, <1>6, <1>7 DEF WhereInv

\* All that the invariant needs to know of a step of build b.
BuildEffect(b) ==
    /\ TypeOK' /\ spc' = spc /\ opened' = opened
    /\ MovesOwn(b) /\ OthersRest(b) /\ KeepsDirectories
    /\ OnePlace' /\ OwnInv(b)'

\* What a build published is not empty.
LEMMA PublishedFull ==
    ASSUME Inv, NEW b \in Builders, bpc[b] = "published"
    PROVE  b \in Present /\ content[b] = "whole" /\ ~IsEmpty(b) /\ b # "none"
  BY PublishNames DEF Inv, WholeInv, IsEmpty, Strangers, Dirs

LEMMA EffectPreserves ==
    ASSUME Inv, NEW b \in Builders, BuildEffect(b)
    PROVE  Inv'
<1>1. ASSUME NEW c \in Builders \ {b}
      PROVE  OwnInv(c)'
  <2>1. WhereInv(c)' /\ WholeInv(c)'
    BY <1>1, OthersWhere DEF BuildEffect
  <2>2. bpc[c] = "published" => c \in Present'
    BY <1>1, PublishedFull DEF BuildEffect, KeepsDirectories
  <2>3. bpc'[c] = bpc[c] /\ path'[c] = path[c] /\ path[c] \in {Pending(c), Output}
    BY <1>1 DEF BuildEffect, OthersRest, Inv
  <2>. QED  BY <2>1, <2>2, <2>3 DEF OwnInv, Pending, Output
<1>2. \A c \in Builders : OwnInv(c)'
  BY <1>1 DEF BuildEffect
<1>. QED  BY <1>2 DEF BuildEffect, OwnInv, Inv, Pending, Output

-----------------------------------------------------------------------------
(* The steps that move nothing.                                            *)

\* What such a step of build b leaves alone.
Still(b) ==
    /\ UNCHANGED <<dirVars, fileVars, signVars>> /\ sound' \subseteq Builders
    /\ bpc' \in [Builders -> BuildPcs] /\ path' \in [Builders -> Slots]
    /\ \A c \in Builders \ {b} : bpc'[c] = bpc[c] /\ path'[c] = path[c]
    /\ left' \in [fail: Nat, kill: Nat, drift: Nat]

LEMMA StillEffect ==
    ASSUME Inv, NEW b \in Builders, Still(b), OwnInv(b)'
    PROVE  BuildEffect(b)
<1>. USE DEF Still, dirVars, fileVars, signVars
<1>1. TypeOK'
  BY DEF Inv, TypeOK
<1>2. OnePlace'
  BY DEF Inv, OnePlace
<1>3. MovesOwn(b)
  BY DEF MovesOwn
<1>4. KeepsDirectories
  BY DEF KeepsDirectories, Present
<1>. QED  BY <1>1, <1>2, <1>3, <1>4 DEF BuildEffect, OthersRest

\* The bounds stay what they are.
LEMMA FailCounts ==
    ASSUME TypeOK, Fail
    PROVE  left' \in [fail: Nat, kill: Nat, drift: Nat]
<1>1. left.fail \in Nat /\ left.fail > 0 /\ left.fail - 1 \in Nat
  BY DEF TypeOK, Fail
<1>. QED  BY <1>1 DEF TypeOK, Fail
LEMMA KillCounts ==
    ASSUME TypeOK, left.kill > 0, left' = [left EXCEPT !.kill = @ - 1]
    PROVE  left' \in [fail: Nat, kill: Nat, drift: Nat]
<1>1. left.kill \in Nat /\ left.kill - 1 \in Nat
  BY DEF TypeOK
<1>. QED  BY <1>1 DEF TypeOK

\* Each of them leaves the step's own build where the invariant says.
LEMMA StillSteps ==
    ASSUME Inv, NEW b \in Builders,
           \/ BuildBegin(b) \/ Stage(b) \/ StageFails(b) \/ PendRecover(b) \/ PendCheck(b)
           \/ Clean(b) \/ CleanFails(b) \/ CheckOutput(b) \/ ConfirmOutput(b) \/ Recover(b)
           \/ ReadFails(b) \/ Remove(b) \/ IsolateFails(b) \/ RemoveFails(b) \/ Identify(b)
           \/ Inspect(b) \/ Reidentify(b) \/ CleanupFails(b) \/ BuildKilled(b)
    PROVE  BuildEffect(b)
<1>1. /\ TypeOK /\ OnePlace /\ OwnInv(b) /\ b # "none"
      /\ Pending(b) # Output /\ Quarantine(b) # Output /\ Pending(b) # Quarantine(b)
      /\ Pending(b) \in Slots /\ Quarantine(b) \in Slots /\ Output \in Slots
  BY SlotFacts, PublishNames DEF Inv, OwnInv, Dirs
<1>2. CASE BuildBegin(b)
  <2>1. Still(b)
    BY <1>1, <1>2 DEF BuildBegin, At, Goto, Keep, Still, TypeOK, BuildPcs, ReadPcs, RemovePcs, BuildEnds, dirVars, fileVars, signVars
  <2>2. OwnInv(b)'
    BY <1>1, <1>2 DEF BuildBegin, At, Goto, Keep, OwnInv, WhereInv, WholeInv, Confined, OnePlace, Present, TypeOK, Dirs, dirVars
  <2>. QED  BY <2>1, <2>2, StillEffect
<1>3. CASE Stage(b)
  <2>1. Still(b)
    <3>1. /\ UNCHANGED <<dirVars, path, left, fileVars, signVars>>
          /\ \E pc \in {"pend", "failed"} : Goto(b, pc)
          /\ sound' = sound \cup {b} \/ sound' = sound
      BY <1>3 DEF Stage
    <3>. QED  BY <1>1, <3>1 DEF Still, Goto, TypeOK, BuildPcs, BuildEnds
  <2>2. OwnInv(b)'
    BY <1>1, <1>3 DEF Stage, At, Goto, OwnInv, WhereInv, WholeInv, Confined, OnePlace, Present, TypeOK, Dirs, dirVars
  <2>. QED  BY <2>1, <2>2, StillEffect
<1>4. CASE StageFails(b)
  <2>1. Still(b)
    BY <1>1, <1>4, FailCounts DEF StageFails, At, Goto, Keep, Still, TypeOK, BuildPcs, ReadPcs, RemovePcs, BuildEnds, dirVars, fileVars, signVars
  <2>2. OwnInv(b)'
    BY <1>1, <1>4 DEF StageFails, At, Goto, Keep, OwnInv, WhereInv, WholeInv, Confined, OnePlace, Present, TypeOK, Dirs, dirVars
  <2>. QED  BY <2>1, <2>2, StillEffect
<1>5. CASE PendCheck(b)
  <2>1. Still(b)
    BY <1>1, <1>5 DEF PendCheck, IsOwn, At, Goto, Keep, Still, TypeOK, BuildPcs, ReadPcs, RemovePcs, BuildEnds, dirVars, fileVars, signVars
  <2>2. OwnInv(b)'
    BY <1>1, <1>5 DEF PendCheck, IsOwn, At, Goto, Keep, OwnInv, WhereInv, WholeInv, Confined, OnePlace, Present, TypeOK, Dirs, dirVars
  <2>. QED  BY <2>1, <2>2, StillEffect
<1>6. CASE Clean(b)
  <2>1. Still(b)
    BY <1>1, <1>6 DEF Clean, IsOwn, At, Goto, Keep, Still, TypeOK, BuildPcs, ReadPcs, RemovePcs, BuildEnds, dirVars, fileVars, signVars
  <2>2. OwnInv(b)'
    BY <1>1, <1>6 DEF Clean, IsOwn, At, Goto, Keep, OwnInv, WhereInv, WholeInv, Confined, OnePlace, Present, TypeOK, Dirs, dirVars
  <2>. QED  BY <2>1, <2>2, StillEffect
<1>7. CASE CleanFails(b)
  <2>1. Still(b)
    BY <1>1, <1>7, FailCounts DEF CleanFails, At, Goto, Keep, Still, TypeOK, BuildPcs, ReadPcs, RemovePcs, BuildEnds, dirVars, fileVars, signVars
  <2>2. OwnInv(b)'
    BY <1>1, <1>7 DEF CleanFails, At, Goto, Keep, OwnInv, WhereInv, WholeInv, Confined, OnePlace, Present, TypeOK, Dirs, dirVars
  <2>. QED  BY <2>1, <2>2, StillEffect
<1>8. CASE CheckOutput(b)
  <2>1. Still(b)
    BY <1>1, <1>8 DEF CheckOutput, At, Goto, Keep, Still, TypeOK, BuildPcs, ReadPcs, RemovePcs, BuildEnds, dirVars, fileVars, signVars
  <2>2. OwnInv(b)'
    BY <1>1, <1>8 DEF CheckOutput, At, Goto, Keep, OwnInv, WhereInv, WholeInv, Confined, OnePlace, Present, TypeOK, Dirs, dirVars
  <2>. QED  BY <2>1, <2>2, StillEffect
<1>9. CASE ConfirmOutput(b)
  <2>1. Still(b)
    BY <1>1, <1>9 DEF ConfirmOutput, IsOwn, At, Goto, Keep, Still, TypeOK, BuildPcs, ReadPcs, RemovePcs, BuildEnds, dirVars, fileVars, signVars
  <2>2. OwnInv(b)'
    BY <1>1, <1>9 DEF ConfirmOutput, IsOwn, At, Goto, Keep, OwnInv, WhereInv, WholeInv, Confined, OnePlace, Present, TypeOK, Dirs, dirVars
  <2>. QED  BY <2>1, <2>2, StillEffect
<1>10. CASE Recover(b)
  <2>0. bpc' \in [Builders -> BuildPcs] /\ path' \in [Builders -> Slots]
    <3>1. CASE path' = path /\ Goto(b, "failed")
      BY <1>1, <3>1 DEF Goto, TypeOK, BuildPcs, BuildEnds
    <3>2. CASE \E slot \in Slots : Goto(b, "remove") /\ path' = [path EXCEPT ![b] = slot]
      BY <1>1, <3>2 DEF Goto, TypeOK, BuildPcs, ReadPcs, RemovePcs
    <3>. QED  BY <1>1, <1>10, <3>1, <3>2 DEF Recover, RecoveredPaths
  <2>1. Still(b)
    BY <2>0, <1>1, <1>10 DEF Recover, RecoveredPaths, IsOwn, At, Goto, Keep, Still, TypeOK, BuildPcs, ReadPcs, RemovePcs, BuildEnds, dirVars, fileVars, signVars
  <2>2. OwnInv(b)'
    BY <1>1, <1>10 DEF Recover, RecoveredPaths, IsOwn, At, Goto, Keep, OwnInv, WhereInv, WholeInv, Confined, OnePlace, Present, TypeOK, Dirs, dirVars
  <2>. QED  BY <2>1, <2>2, StillEffect
<1>11. CASE Remove(b)
  <2>1. Still(b)
    BY <1>1, <1>11 DEF Remove, IsOwn, At, Goto, Keep, Still, TypeOK, BuildPcs, ReadPcs, RemovePcs, BuildEnds, dirVars, fileVars, signVars
  <2>2. OwnInv(b)'
    BY <1>1, <1>11 DEF Remove, IsOwn, At, Goto, Keep, OwnInv, WhereInv, WholeInv, Confined, OnePlace, Present, TypeOK, Dirs, dirVars
  <2>. QED  BY <2>1, <2>2, StillEffect
<1>12. CASE IsolateFails(b)
  <2>1. Still(b)
    BY <1>1, <1>12 DEF IsolateFails, IsOwn, Vacant, At, Goto, Keep, Still, TypeOK, BuildPcs, ReadPcs, RemovePcs, BuildEnds, dirVars, fileVars, signVars
  <2>2. OwnInv(b)'
    BY <1>1, <1>12 DEF IsolateFails, IsOwn, Vacant, At, Goto, Keep, OwnInv, WhereInv, WholeInv, Confined, OnePlace, Present, TypeOK, Dirs, dirVars
  <2>. QED  BY <2>1, <2>2, StillEffect
<1>13. CASE RemoveFails(b)
  <2>1. Still(b)
    BY <1>1, <1>13, FailCounts DEF RemoveFails, IsOwn, At, Goto, Keep, Still, TypeOK, BuildPcs, ReadPcs, RemovePcs, BuildEnds, dirVars, fileVars, signVars
  <2>2. OwnInv(b)'
    BY <1>1, <1>13 DEF RemoveFails, IsOwn, At, Goto, Keep, OwnInv, WhereInv, WholeInv, Confined, OnePlace, Present, TypeOK, Dirs, dirVars
  <2>. QED  BY <2>1, <2>2, StillEffect
<1>14. CASE Identify(b)
  <2>1. Still(b)
    BY <1>1, <1>14 DEF Identify, IsOwn, At, Goto, Keep, Still, TypeOK, BuildPcs, ReadPcs, RemovePcs, BuildEnds, dirVars, fileVars, signVars
  <2>2. OwnInv(b)'
    BY <1>1, <1>14 DEF Identify, IsOwn, At, Goto, Keep, OwnInv, WhereInv, WholeInv, Confined, OnePlace, Present, TypeOK, Dirs, dirVars
  <2>. QED  BY <2>1, <2>2, StillEffect
<1>15. CASE Inspect(b)
  <2>1. Still(b)
    BY <1>1, <1>15 DEF Inspect, IsOwn, At, Goto, Keep, Still, TypeOK, BuildPcs, ReadPcs, RemovePcs, BuildEnds, dirVars, fileVars, signVars
  <2>2. OwnInv(b)'
    BY <1>1, <1>15 DEF Inspect, IsOwn, At, Goto, Keep, OwnInv, WhereInv, WholeInv, Confined, OnePlace, Present, TypeOK, Dirs, dirVars
  <2>. QED  BY <2>1, <2>2, StillEffect
<1>16. CASE Reidentify(b)
  <2>1. Still(b)
    BY <1>1, <1>16 DEF Reidentify, IsOwn, At, Goto, Keep, Still, TypeOK, BuildPcs, ReadPcs, RemovePcs, BuildEnds, dirVars, fileVars, signVars
  <2>2. OwnInv(b)'
    BY <1>1, <1>16 DEF Reidentify, IsOwn, At, Goto, Keep, OwnInv, WhereInv, WholeInv, Confined, OnePlace, Present, TypeOK, Dirs, dirVars
  <2>. QED  BY <2>1, <2>2, StillEffect
<1>17. CASE CleanupFails(b)
  <2>1. Still(b)
    BY <1>1, <1>17, FailCounts DEF CleanupFails, At, Goto, Keep, Still, TypeOK, BuildPcs, ReadPcs, RemovePcs, BuildEnds, dirVars, fileVars, signVars
  <2>2. OwnInv(b)'
    BY <1>1, <1>17 DEF CleanupFails, At, Goto, Keep, OwnInv, WhereInv, WholeInv, Confined, OnePlace, Present, TypeOK, Dirs, dirVars
  <2>. QED  BY <2>1, <2>2, StillEffect
<1>18. CASE BuildKilled(b)
  <2>0. left' \in [fail: Nat, kill: Nat, drift: Nat]
    BY <1>1, <1>18, KillCounts DEF BuildKilled
  <2>1. Still(b)
    BY <2>0, <1>1, <1>18 DEF BuildKilled, At, Goto, Keep, Still, TypeOK, BuildPcs, ReadPcs, RemovePcs, BuildEnds, dirVars, fileVars, signVars
  <2>2. OwnInv(b)'
    BY <1>1, <1>18 DEF BuildKilled, BuildEnds, At, Goto, Keep, OwnInv, WhereInv, WholeInv, Confined, OnePlace, Present, TypeOK, Dirs, dirVars
  <2>. QED  BY <2>1, <2>2, StillEffect
<1>19. CASE PendRecover(b)
  <2>1. Still(b)
    BY <1>1, <1>19 DEF PendRecover, IsOwn, At, Goto, Keep, Still, TypeOK, BuildPcs, ReadPcs,
       RemovePcs, BuildEnds, dirVars, fileVars, signVars
  <2>2. OwnInv(b)'
    BY <1>1, <1>19 DEF PendRecover, IsOwn, At, Goto, Keep, OwnInv, WhereInv, WholeInv,
       Confined, OnePlace, Present, TypeOK, Dirs, dirVars
  <2>. QED  BY <2>1, <2>2, StillEffect
<1>20. CASE ReadFails(b)
  <2>1. Still(b)
    BY <1>1, <1>20, FailCounts DEF ReadFails, Goto, Keep, Still, TypeOK, BuildPcs, BuildEnds,
       dirVars, fileVars, signVars
  <2>2. OwnInv(b)'
    BY <1>1, <1>20 DEF ReadFails, ReadPcs, Goto, Keep, OwnInv, WhereInv, WholeInv, Confined,
       OnePlace, Present, TypeOK, Dirs, dirVars
  <2>. QED  BY <2>1, <2>2, StillEffect
<1>. QED  BY <1>2, <1>3, <1>4, <1>5, <1>6, <1>7, <1>8, <1>9, <1>10, <1>11, <1>12, <1>13,
             <1>14, <1>15, <1>16, <1>17, <1>18, <1>19, <1>20

-----------------------------------------------------------------------------
(* The steps that move directories.                                        *)

\* A rename among a build's own slots.
LEMMA RenameEffect ==
    ASSUME Inv, NEW b \in Builders, NEW from \in OwnSlots(b), NEW to \in OwnSlots(b), from # to,
           Rename(from, to), away' = away
    PROVE  /\ dir' \in [Slots -> Dirs \cup {"none"}]
           /\ dir[from] # "none" /\ dir'[to] = dir[from] /\ dir'[from] = "none"
           /\ \A slot \in Slots \ {from, to} : dir'[slot] = dir[slot]
           /\ MovesOwn(b) /\ OnePlace' /\ KeepsDirectories
<1>1. OwnSlots(b) \subseteq Slots
  BY SlotFacts DEF OwnSlots
<1>2. /\ dir \in [Slots -> Dirs \cup {"none"}] /\ OnePlace
      /\ dir[from] # "none" /\ Vacant(to)
      /\ dir' = [dir EXCEPT ![to] = dir[from], ![from] = "none"]
  BY DEF Inv, TypeOK, Rename
<1>3. /\ dir' \in [Slots -> Dirs \cup {"none"}]
      /\ dir'[to] = dir[from] /\ dir'[from] = "none"
      /\ \A slot \in Slots \ {from, to} : dir'[slot] = dir[slot]
  BY <1>1, <1>2
<1>4. MovesOwn(b)
  BY <1>1, <1>3 DEF MovesOwn
<1>5. OnePlace'
  BY <1>1, <1>2, <1>3 DEF OnePlace
<1>6. KeepsDirectories
  <2>1. SUFFICES ASSUME NEW slot \in Slots, dir[slot] # "none", ~IsEmpty(dir[slot])
                 PROVE  \E other \in Slots : dir'[other] = dir[slot]
    BY DEF KeepsDirectories, Present
  <2>2. slot # to
    BY <1>2, <2>1 DEF Vacant
  <2>. QED  BY <1>1, <1>3, <2>2
<1>. QED  BY <1>2, <1>3, <1>4, <1>5, <1>6

\* A staged directory gets its name beside the output.
LEMMA PlaceEffect ==
    ASSUME Inv, NEW b \in Builders, bpc[b] = "pend", PlacesPending(b), away' = away
    PROVE  /\ dir' \in [Slots -> Dirs \cup {"none"}]
           /\ dir'[Pending(b)] = b /\ \A slot \in Slots \ {Pending(b)} : dir'[slot] = dir[slot]
           /\ MovesOwn(b) /\ OnePlace' /\ KeepsDirectories /\ Confined(b, Pending(b))'
<1>1. /\ Pending(b) \in Slots /\ Pending(b) \in OwnSlots(b) /\ OwnSlots(b) \subseteq Slots
      /\ b \in Dirs /\ b # "none"
  BY SlotFacts, PublishNames DEF OwnSlots, Dirs
<1>2. /\ dir \in [Slots -> Dirs \cup {"none"}] /\ OnePlace
      /\ b \notin away /\ \A slot \in Slots : dir[slot] # b
      /\ Vacant(Pending(b)) /\ dir' = [dir EXCEPT ![Pending(b)] = b]
  BY DEF Inv, TypeOK, PlacesPending, WhereInv
<1>3. /\ dir' \in [Slots -> Dirs \cup {"none"}]
      /\ dir'[Pending(b)] = b /\ \A slot \in Slots \ {Pending(b)} : dir'[slot] = dir[slot]
  BY <1>1, <1>2
<1>4. MovesOwn(b)
  BY <1>1, <1>3 DEF MovesOwn
<1>5. OnePlace'
  BY <1>1, <1>2, <1>3 DEF OnePlace
<1>6. KeepsDirectories
  <2>1. SUFFICES ASSUME NEW slot \in Slots, dir[slot] # "none", ~IsEmpty(dir[slot])
                 PROVE  \E other \in Slots : dir'[other] = dir[slot]
    BY DEF KeepsDirectories, Present
  <2>2. slot # Pending(b)
    BY <1>2, <2>1 DEF Vacant
  <2>. QED  BY <1>3, <2>2
<1>7. Confined(b, Pending(b))'
  BY <1>2, <1>3 DEF Confined, Pending
<1>. QED  BY <1>3, <1>4, <1>5, <1>6, <1>7

\* What is left to show of a step that moves: where its own directory has got to.
LEMMA MoveEffect ==
    ASSUME Inv, NEW b \in Builders, NEW pc \in BuildPcs, Goto(b, pc),
           dir' \in [Slots -> Dirs \cup {"none"}],
           path' \in [Builders -> Slots], \A c \in Builders \ {b} : path'[c] = path[c],
           left' \in [fail: Nat, kill: Nat, drift: Nat],
           MovesOwn(b), OnePlace', KeepsDirectories, OwnInv(b)',
           UNCHANGED <<away, content, added, sound, fileVars, signVars>>
    PROVE  BuildEffect(b)
<1>1. bpc' \in [Builders -> BuildPcs] /\ \A c \in Builders \ {b} : bpc'[c] = bpc[c]
  BY DEF Inv, TypeOK, Goto
<1>2. TypeOK'
  BY <1>1 DEF Inv, TypeOK, fileVars, signVars
<1>. QED  BY <1>1, <1>2 DEF BuildEffect, OthersRest, signVars

LEMMA OwnFacts ==
    ASSUME Inv, NEW b \in Builders
    PROVE  /\ TypeOK /\ OnePlace /\ OwnInv(b) /\ b # "none"
           /\ Pending(b) # Output /\ Quarantine(b) # Output /\ Pending(b) # Quarantine(b)
           /\ Pending(b) \in Slots /\ Quarantine(b) \in Slots /\ Output \in Slots
           /\ OwnSlots(b) = {Output, Pending(b), Quarantine(b)}
           /\ bpc[b] \in BuildPcs /\ bpc \in [Builders -> BuildPcs] /\ path \in [Builders -> Slots]
           /\ left \in [fail: Nat, kill: Nat, drift: Nat]
  BY SlotFacts, PublishNames DEF Inv, OwnInv, Dirs, TypeOK, OwnSlots

LEMMA PendEffect == ASSUME Inv, NEW b \in Builders, Pend(b) PROVE BuildEffect(b)
<1>. USE OwnFacts
<1>1. /\ bpc[b] = "pend" /\ PlacesPending(b) /\ Goto(b, "pend_check")
      /\ UNCHANGED <<away, content, added, path, left, sound, fileVars, signVars>>
  BY DEF Pend, At, Keep
<1>2. /\ dir' \in [Slots -> Dirs \cup {"none"}] /\ MovesOwn(b) /\ OnePlace' /\ KeepsDirectories
      /\ Confined(b, Pending(b))'
  BY <1>1, PlaceEffect
<1>3. bpc'[b] = "pend_check" /\ "pend_check" \in BuildPcs
  BY <1>1 DEF Goto, BuildPcs, ReadPcs
<1>4. OwnInv(b)'
  BY <1>1, <1>2, <1>3 DEF OwnInv, WhereInv, WholeInv, Pending, Output
<1>. QED  BY <1>1, <1>2, <1>3, <1>4, MoveEffect

LEMMA PendRaisesEffect == ASSUME Inv, NEW b \in Builders, PendRaises(b) PROVE BuildEffect(b)
<1>. USE OwnFacts
<1>1. /\ bpc[b] = "pend" /\ Goto(b, "pend_recover")
      /\ UNCHANGED <<away, content, added, path, sound, fileVars, signVars>>
      /\ dir' = dir \/ PlacesPending(b)
  BY DEF PendRaises, At, Keep
<1>2. /\ bpc'[b] = "pend_recover" /\ "pend_recover" \in BuildPcs
      /\ \A slot \in Slots : dir[slot] # b
  BY <1>1 DEF Goto, BuildPcs, ReadPcs, OwnInv, WhereInv
<1>3. left' \in [fail: Nat, kill: Nat, drift: Nat]
  BY FailCounts DEF PendRaises
<1>4. CASE PlacesPending(b)
  <2>1. /\ dir' \in [Slots -> Dirs \cup {"none"}] /\ MovesOwn(b) /\ OnePlace' /\ KeepsDirectories
        /\ Confined(b, Pending(b))'
    BY <1>1, <1>4, PlaceEffect
  <2>2. OwnInv(b)'
    BY <1>1, <1>2, <2>1 DEF OwnInv, WhereInv, WholeInv, Pending, Output
  <2>. QED  BY <1>1, <1>2, <1>3, <2>1, <2>2, MoveEffect
<1>5. CASE dir' = dir
  <2>1. OwnInv(b)'
    BY <1>1, <1>2, <1>5 DEF OwnInv, WhereInv, WholeInv, Confined, Pending, Output
  <2>2. Still(b)
    BY <1>1, <1>2, <1>3, <1>5 DEF Still, Goto, TypeOK, dirVars
  <2>. QED  BY <2>1, <2>2, StillEffect
<1>. QED  BY <1>1, <1>4, <1>5

LEMMA MoveStepEffect == ASSUME Inv, NEW b \in Builders, Move(b) PROVE BuildEffect(b)
<1>. USE OwnFacts
<1>1. /\ bpc[b] = "move" /\ Rename(Pending(b), Output) /\ Goto(b, "confirm")
      /\ UNCHANGED <<away, content, added, path, left, sound, fileVars, signVars>>
  BY DEF Move, At, Keep
<1>2. /\ dir' \in [Slots -> Dirs \cup {"none"}] /\ MovesOwn(b) /\ OnePlace' /\ KeepsDirectories
      /\ dir'[Pending(b)] = "none"
  BY <1>1, RenameEffect
<1>3. bpc'[b] = "confirm" /\ "confirm" \in BuildPcs
  BY <1>1 DEF Goto, BuildPcs, ReadPcs
<1>4. OwnInv(b)'
  BY <1>1, <1>2, <1>3 DEF OwnInv, WhereInv, WholeInv, Pending, Output
<1>. QED  BY <1>1, <1>2, <1>3, <1>4, MoveEffect

LEMMA MoveRaisesEffect == ASSUME Inv, NEW b \in Builders, MoveRaises(b) PROVE BuildEffect(b)
<1>. USE OwnFacts
<1>1. /\ bpc[b] = "move" /\ Goto(b, "recover")
      /\ UNCHANGED <<away, content, added, path, sound, fileVars, signVars>>
  BY DEF MoveRaises, At, Keep
<1>2. bpc'[b] = "recover" /\ "recover" \in BuildPcs
  BY <1>1 DEF Goto, BuildPcs, ReadPcs
<1>3. left' \in [fail: Nat, kill: Nat, drift: Nat]
  BY FailCounts DEF MoveRaises
<1>4. OwnInv(b)'
  BY <1>1, <1>2 DEF OwnInv, WhereInv, WholeInv, Pending, Output
<1>5. CASE dir' = dir
  <2>1. Still(b)
    BY <1>1, <1>2, <1>3, <1>5 DEF Still, Goto, TypeOK, dirVars
  <2>. QED  BY <1>4, <2>1, StillEffect
<1>6. CASE Rename(Pending(b), Output)
  <2>1. dir' \in [Slots -> Dirs \cup {"none"}] /\ MovesOwn(b) /\ OnePlace' /\ KeepsDirectories
    BY <1>1, <1>6, RenameEffect
  <2>. QED  BY <1>1, <1>2, <1>3, <1>4, <2>1, MoveEffect
<1>7. dir' = dir \/ Rename(Pending(b), Output)
  BY DEF MoveRaises
<1>. QED  BY <1>5, <1>6, <1>7

LEMMA IsolateEffect == ASSUME Inv, NEW b \in Builders, Isolate(b) PROVE BuildEffect(b)
<1>. USE OwnFacts
<1>1. /\ bpc[b] = "isolate" /\ Rename(path[b], Quarantine(b)) /\ Goto(b, "identify")
      /\ UNCHANGED <<away, content, added, path, left, sound, fileVars, signVars>>
  BY DEF Isolate, At, Keep
<1>2. path[b] \in OwnSlots(b) /\ path[b] # Quarantine(b)
  BY DEF OwnInv
<1>3. /\ dir' \in [Slots -> Dirs \cup {"none"}] /\ MovesOwn(b) /\ OnePlace' /\ KeepsDirectories
      /\ dir'[Quarantine(b)] = dir[path[b]] /\ dir'[path[b]] = "none"
      /\ \A slot \in Slots \ {path[b], Quarantine(b)} : dir'[slot] = dir[slot]
  BY <1>1, <1>2, RenameEffect
<1>4. bpc'[b] = "identify" /\ "identify" \in BuildPcs /\ content'[b] = "whole"
  BY <1>1 DEF Goto, BuildPcs, ReadPcs, RemovePcs, OwnInv, WholeInv
<1>5. IF path[b] = Pending(b) THEN Confined(b, Quarantine(b))' ELSE dir'[Pending(b)] # b
  BY <1>1, <1>3 DEF OwnInv, WhereInv, Confined, Quarantine, Pending
<1>6. OwnInv(b)'
  BY <1>1, <1>4, <1>5 DEF OwnInv, WhereInv, WholeInv, Pending, Output
<1>. QED  BY <1>1, <1>3, <1>4, <1>6, MoveEffect

LEMMA PutBackEffect == ASSUME Inv, NEW b \in Builders, PutBack(b) PROVE BuildEffect(b)
<1>. USE OwnFacts
<1>1. /\ bpc[b] = "put_back" /\ Goto(b, "failed")
      /\ dir' = dir \/ Rename(Quarantine(b), path[b])
      /\ UNCHANGED <<away, content, added, path, left, sound, fileVars, signVars>>
  BY DEF PutBack, At, Keep
<1>2. bpc'[b] = "failed" /\ "failed" \in BuildPcs /\ content'[b] = "whole"
  BY <1>1 DEF Goto, BuildPcs, BuildEnds, OwnInv, WholeInv
<1>3. OwnInv(b)'
  BY <1>1, <1>2 DEF OwnInv, WhereInv, WholeInv, Pending, Output
<1>4. CASE dir' = dir
  <2>1. Still(b)
    BY <1>1, <1>2, <1>4 DEF Still, Goto, TypeOK, dirVars
  <2>. QED  BY <1>3, <2>1, StillEffect
<1>5. CASE Rename(Quarantine(b), path[b])
  <2>1. path[b] \in OwnSlots(b) /\ path[b] # Quarantine(b)
    BY DEF OwnInv
  <2>2. dir' \in [Slots -> Dirs \cup {"none"}] /\ MovesOwn(b) /\ OnePlace' /\ KeepsDirectories
    BY <1>1, <1>5, <2>1, RenameEffect
  <2>. QED  BY <1>1, <1>2, <1>3, <2>2, MoveEffect
<1>. QED  BY <1>1, <1>4, <1>5

LEMMA RmdirEffect == ASSUME Inv, NEW b \in Builders, Rmdir(b) PROVE BuildEffect(b)
<1>. USE OwnFacts
<1>1. /\ bpc[b] = "rmdir" /\ Goto(b, "failed")
      /\ \/ dir' = dir
         \/ IsEmpty(dir[Quarantine(b)]) /\ dir' = [dir EXCEPT ![Quarantine(b)] = "none"]
      /\ UNCHANGED <<away, content, added, path, left, sound, fileVars, signVars>>
  BY DEF Rmdir, At, Keep
<1>2. bpc'[b] = "failed" /\ "failed" \in BuildPcs
  BY <1>1 DEF Goto, BuildPcs, BuildEnds
<1>3. /\ dir \in [Slots -> Dirs \cup {"none"}] /\ dir' \in [Slots -> Dirs \cup {"none"}]
      /\ \A slot \in Slots : dir'[slot] = dir[slot] \/ dir'[slot] = "none"
      /\ \A slot \in Slots \ {Quarantine(b)} : dir'[slot] = dir[slot]
  BY <1>1 DEF TypeOK
<1>4. OwnInv(b)'
  <2>1. Confined(b, Quarantine(b))'
    BY <1>1, <1>3 DEF OwnInv, WhereInv, Confined, Quarantine
  <2>. QED  BY <1>1, <1>2, <2>1 DEF OwnInv, WhereInv, WholeInv, Pending, Output
<1>5. MovesOwn(b)
  BY <1>1, <1>3 DEF MovesOwn
<1>6. OnePlace'
  BY <1>1, <1>3 DEF OnePlace
<1>7. KeepsDirectories
  BY <1>1, <1>3 DEF KeepsDirectories, Present
<1>. QED  BY <1>1, <1>2, <1>3, <1>4, <1>5, <1>6, <1>7, MoveEffect

LEMMA UnlinkEffect == ASSUME Inv, NEW b \in Builders, Unlink(b) PROVE BuildEffect(b)
<1>. USE OwnFacts
<1>1. /\ bpc[b] = "unlink" /\ \E pc \in {"unlink", "reidentify"} : Goto(b, pc)
      /\ \E rest \in {"half", "empty"} : content' = [content EXCEPT ![b] = rest]
      /\ UNCHANGED <<dir, away, added, path, left, sound, fileVars, signVars>>
  BY DEF Unlink, At, Keep
<1>2. /\ bpc' \in [Builders -> BuildPcs] /\ bpc'[b] \in {"unlink", "reidentify"}
      /\ content' \in [Builders -> {"whole", "half", "empty"}]
      /\ \A c \in Builders \ {b} : bpc'[c] = bpc[c] /\ content'[c] = content[c]
  BY <1>1 DEF Goto, BuildPcs, ReadPcs, RemovePcs, TypeOK
<1>3. TypeOK'
  BY <1>1, <1>2 DEF TypeOK, fileVars, signVars
<1>4. OwnInv(b)'
  BY <1>1, <1>2 DEF OwnInv, WhereInv, WholeInv, Confined, Pending, Output, Quarantine
<1>5. MovesOwn(b) /\ OnePlace' /\ KeepsDirectories
  BY <1>1 DEF MovesOwn, OnePlace, KeepsDirectories, Present
<1>. QED  BY <1>1, <1>2, <1>3, <1>4, <1>5 DEF BuildEffect, OthersRest, signVars

\* Every step of a build.
LEMMA BuildSteps ==
    ASSUME Inv, NEW b \in Builders, BuildBegin(b) \/ BuildStep(b) \/ BuildKilled(b)
    PROVE  BuildEffect(b)
  BY StillSteps, PendEffect, PendRaisesEffect, MoveStepEffect, MoveRaisesEffect, IsolateEffect,
     PutBackEffect, RmdirEffect, UnlinkEffect DEF BuildStep

-----------------------------------------------------------------------------
(* The steps of the signers and of others.                                 *)

SignerOpens ==
    \A s \in Signers : IF spc[s] = "idle" THEN opened[s] = "none" ELSE opened[s] \in Builders

\* A signer moves no directory.
LEMMA SignPreserves ==
    ASSUME Inv, UNCHANGED <<dir, away, content, buildVars>>, TypeOK', SignerOpens'
    PROVE  Inv'
<1>. USE DEF buildVars
<1>1. OnePlace' /\ Present' = Present
  BY DEF Inv, OnePlace, Present
<1>2. \A b \in Builders : WhereInv(b)' /\ WholeInv(b)'
  BY DEF Inv, WhereInv, WholeInv, Confined, Pending, Quarantine
<1>3. \A b \in Builders : path'[b] \in {Pending(b), Output} /\ (bpc'[b] = "published" => b \in Present')
  BY <1>1 DEF Inv
<1>. QED  BY <1>1, <1>2, <1>3 DEF Inv, SignerOpens, Pending, Output

LEMMA TurnIsName == ASSUME NEW s \in Signers PROVE Turn(s) \in Names
  BY DEF Turn, Names

LEMMA GotoTypes ==
    ASSUME TypeOK, NEW s \in Signers, NEW pc \in SignPcs, SignGoto(s, pc)
    PROVE  spc' \in [Signers -> SignPcs]
  BY DEF TypeOK, SignGoto

LEMMA RaiseTypes ==
    ASSUME TypeOK, NEW s \in Signers, Raise(s)
    PROVE  spc' \in [Signers -> SignPcs]
<1>1. "failed" \in SignPcs /\ "retract" \in SignPcs
  BY DEF SignPcs, SignEnds
<1>. QED  BY <1>1, GotoTypes DEF Raise

LEMMA LeaveTypes ==
    ASSUME TypeOK, NEW s \in Signers, NEW n \in Names, NEW beyond \in SUBSET Names,
           Leave(s, n, beyond)
    PROVE  /\ spc' \in [Signers -> SignPcs]
           /\ todo' \in [Signers -> SUBSET Names] /\ unable' \in [Signers -> SUBSET Names]
<1>1. "failed" \in SignPcs /\ "retract" \in SignPcs
  BY DEF SignPcs, SignEnds
<1>2. spc' \in [Signers -> SignPcs]
  BY <1>1, GotoTypes DEF Leave
<1>. QED  BY <1>2 DEF Leave, TypeOK

\* A write, and what else may change in the files.
LEMMA FileTypes ==
    ASSUME TypeOK, NEW s \in Signers, NEW n \in Names, NEW f \in Files \cup {NoFile},
           NEW level \in {"none", "part", "whole"}, NEW d
    PROVE  /\ [data EXCEPT ![s][n] = level] \in [Signers -> [Names -> {"none", "part", "whole"}]]
           /\ [file EXCEPT ![d][n] = f] \in [Builders -> [Names -> Files \cup {NoFile}]]
           /\ [kept EXCEPT ![s][n] = f] \in [Signers -> [Names -> Files \cup {NoFile}]]
  BY DEF TypeOK

\* A step of signer s changes its own state, and files by name.
LEMMA SignSteps ==
    ASSUME Inv, NEW s \in Signers, SignBegin(s) \/ SignStep(s) \/ SignKilled(s)
    PROVE  TypeOK' /\ SignerOpens' /\ UNCHANGED <<dir, away, content, buildVars>>
<1>. USE DEF dirVars, fileVars, signVars
<1>1. /\ TypeOK /\ SignerOpens
      /\ spc \in [Signers -> SignPcs] /\ opened \in [Signers -> Builders \cup {"none"}]
      /\ name[s] \in Names
  BY DEF Inv, SignerOpens, TypeOK
<1>2. /\ {"sign", "create", "write", "check", "confirm", "confirm_entry", "retract", "retain",
          "signed", "failed", "killed"} \subseteq SignPcs
      /\ "idle" \notin SignEnds /\ {"certificate", "image"} = Names
  BY DEF SignPcs, SignEnds, Names
<1>3. Turn(s) \in Names
  BY TurnIsName
<1>4. CASE SignBegin(s)
  <2>2. spc' \in [Signers -> SignPcs]
    BY <1>1, <1>2, <1>4, GotoTypes, RaiseTypes DEF SignBegin
  <2>4. TypeOK'
    BY <1>1, <1>2, <1>3, <1>4, <2>2 DEF SignBegin, ImageThere, TypeOK, buildVars
  <2>5. SignerOpens'
    BY <1>1, <1>2, <1>4 DEF SignBegin, ImageThere, SignAt, SignGoto, SignerOpens
  <2>. QED  BY <1>4, <2>4, <2>5 DEF SignBegin
<1>5. CASE Sign(s)
  <2>2. spc' \in [Signers -> SignPcs]
    BY <1>1, <1>2, <1>5, GotoTypes, RaiseTypes DEF Sign
  <2>4. TypeOK'
    BY <1>1, <1>2, <1>3, <1>5, <2>2 DEF Sign, TypeOK, buildVars
  <2>5. SignerOpens'
    BY <1>1, <1>2, <1>5 DEF Sign, SignAt, SignGoto, SignerOpens
  <2>. QED  BY <1>5, <2>4, <2>5 DEF Sign
<1>6. CASE SignFails(s)
  <2>1. left' \in [fail: Nat, kill: Nat, drift: Nat]
    BY <1>1, <1>6, FailCounts DEF SignFails, TypeOK
  <2>2. spc' \in [Signers -> SignPcs]
    BY <1>1, <1>2, <1>6, GotoTypes, RaiseTypes DEF SignFails
  <2>4. TypeOK'
    BY <1>1, <1>2, <1>3, <1>6, <2>1, <2>2 DEF SignFails, TypeOK, buildVars
  <2>5. SignerOpens'
    BY <1>1, <1>2, <1>6 DEF SignFails, SignAt, SignGoto, SignerOpens
  <2>. QED  BY <1>6, <2>4, <2>5 DEF SignFails
<1>7. CASE Create(s)
  <2>2. spc' \in [Signers -> SignPcs]
    BY <1>1, <1>2, <1>7, GotoTypes, RaiseTypes DEF Create
  <2>3. data' \in [Signers -> [Names -> {"none", "part", "whole"}]] /\ file' \in [Builders -> [Names -> Files \cup {NoFile}]]
    BY <1>1, <1>7, FileTypes, FileFacts DEF Create, TypeOK
  <2>4. TypeOK'
    BY <1>1, <1>2, <1>3, <1>7, <2>2, <2>3 DEF Create, TypeOK, buildVars
  <2>5. SignerOpens'
    BY <1>1, <1>2, <1>7 DEF Create, SignAt, SignGoto, SignerOpens
  <2>. QED  BY <1>7, <2>4, <2>5 DEF Create
<1>8. CASE CreateFails(s)
  <2>1. left' \in [fail: Nat, kill: Nat, drift: Nat]
    BY <1>1, <1>8, FailCounts DEF CreateFails, TypeOK
  <2>2. spc' \in [Signers -> SignPcs]
    BY <1>1, <1>2, <1>8, GotoTypes, RaiseTypes DEF CreateFails
  <2>4. TypeOK'
    BY <1>1, <1>2, <1>3, <1>8, <2>1, <2>2 DEF CreateFails, TypeOK, buildVars
  <2>5. SignerOpens'
    BY <1>1, <1>2, <1>8 DEF CreateFails, Raise, SignAt, SignGoto, SignerOpens
  <2>. QED  BY <1>8, <2>4, <2>5 DEF CreateFails
<1>9. CASE Write(s)
  <2>2. spc' \in [Signers -> SignPcs]
    BY <1>1, <1>2, <1>9, GotoTypes, RaiseTypes DEF Write
  <2>3. data' \in [Signers -> [Names -> {"none", "part", "whole"}]]
    BY <1>1, <1>9, FileTypes, FileFacts DEF Write, TypeOK
  <2>4. TypeOK'
    <3>1. name' \in [Signers -> Names] /\ UNCHANGED <<dirVars, buildVars, file, kept, faway, opened, todo, unable, left>>
      BY <1>1, <1>2, <1>9 DEF Write, TypeOK
    <3>. QED  BY <1>1, <2>2, <2>3, <3>1 DEF TypeOK, buildVars
  <2>5. SignerOpens'
    BY <1>1, <1>2, <1>9 DEF Write, Raise, SignAt, SignGoto, SignerOpens
  <2>. QED  BY <1>9, <2>4, <2>5 DEF Write
<1>10. CASE WriteFails(s)
  <2>1. left' \in [fail: Nat, kill: Nat, drift: Nat]
    BY <1>1, <1>10, FailCounts DEF WriteFails, TypeOK
  <2>2. spc' \in [Signers -> SignPcs]
    BY <1>1, <1>2, <1>10, GotoTypes, RaiseTypes DEF WriteFails
  <2>3. data' \in [Signers -> [Names -> {"none", "part", "whole"}]]
    <3>1. CASE data' = data
      BY <1>1, <3>1 DEF TypeOK
    <3>2. CASE data' = [data EXCEPT ![s][name[s]] = "whole"]
      BY <1>1, <3>2, FileTypes
    <3>. QED  BY <1>10, <3>1, <3>2 DEF WriteFails
  <2>4. TypeOK'
    BY <1>1, <1>2, <1>3, <1>10, <2>1, <2>2, <2>3 DEF WriteFails, TypeOK, buildVars
  <2>5. SignerOpens'
    BY <1>1, <1>2, <1>10 DEF WriteFails, Raise, SignAt, SignGoto, SignerOpens
  <2>. QED  BY <1>10, <2>4, <2>5 DEF WriteFails
<1>11. CASE Check(s)
  <2>2. spc' \in [Signers -> SignPcs]
    BY <1>1, <1>2, <1>11, GotoTypes, RaiseTypes DEF Check
  <2>4. TypeOK'
    BY <1>1, <1>2, <1>3, <1>11, <2>2 DEF Check, TypeOK, buildVars
  <2>5. SignerOpens'
    BY <1>1, <1>2, <1>11 DEF Check, Raise, SignAt, SignGoto, SignerOpens
  <2>. QED  BY <1>11, <2>4, <2>5 DEF Check
<1>12. CASE Confirm(s)
  <2>2. spc' \in [Signers -> SignPcs]
    BY <1>1, <1>2, <1>12, GotoTypes, RaiseTypes DEF Confirm
  <2>4. TypeOK'
    BY <1>1, <1>2, <1>3, <1>12, <2>2 DEF Confirm, TypeOK, buildVars
  <2>5. SignerOpens'
    BY <1>1, <1>2, <1>12 DEF Confirm, Raise, SignAt, SignGoto, SignerOpens
  <2>. QED  BY <1>12, <2>4, <2>5 DEF Confirm
<1>13. CASE ConfirmEntry(s)
  <2>2. spc' \in [Signers -> SignPcs]
    BY <1>1, <1>2, <1>13, GotoTypes, RaiseTypes DEF ConfirmEntry
  <2>4. TypeOK'
    BY <1>1, <1>2, <1>3, <1>13, <2>2 DEF ConfirmEntry, TypeOK, buildVars
  <2>5. SignerOpens'
    BY <1>1, <1>2, <1>13 DEF ConfirmEntry, Raise, SignAt, SignGoto, SignerOpens
  <2>. QED  BY <1>13, <2>4, <2>5 DEF ConfirmEntry
<1>14. CASE ConfirmFails(s)
  <2>1. left' \in [fail: Nat, kill: Nat, drift: Nat]
    BY <1>1, <1>14, FailCounts DEF ConfirmFails, TypeOK
  <2>2. spc' \in [Signers -> SignPcs]
    BY <1>1, <1>2, <1>14, GotoTypes, RaiseTypes DEF ConfirmFails
  <2>4. TypeOK'
    BY <1>1, <1>2, <1>3, <1>14, <2>1, <2>2 DEF ConfirmFails, TypeOK, buildVars
  <2>5. SignerOpens'
    BY <1>1, <1>2, <1>14 DEF ConfirmFails, Raise, SignAt, SignGoto, SignerOpens
  <2>. QED  BY <1>14, <2>4, <2>5 DEF ConfirmFails
<1>15. CASE SkipEntry(s)
  <2>2. /\ spc' \in [Signers -> SignPcs]
        /\ todo' \in [Signers -> SUBSET Names] /\ unable' \in [Signers -> SUBSET Names]
    BY <1>1, <1>3, <1>15, LeaveTypes DEF SkipEntry
  <2>4. TypeOK'
    BY <1>1, <1>2, <1>3, <1>15, <2>2 DEF SkipEntry, TypeOK, buildVars
  <2>5. SignerOpens'
    BY <1>1, <1>2, <1>15 DEF SkipEntry, Leave, SignAt, SignGoto, SignerOpens
  <2>. QED  BY <1>15, <2>4, <2>5 DEF SkipEntry
<1>16. CASE RetractEntry(s)
  <2>2. spc' \in [Signers -> SignPcs]
    BY <1>1, <1>2, <1>16, GotoTypes, RaiseTypes DEF RetractEntry
  <2>4. TypeOK'
    BY <1>1, <1>2, <1>3, <1>16, <2>2 DEF RetractEntry, SignAt, SignerOpens, TypeOK, buildVars
  <2>5. SignerOpens'
    BY <1>1, <1>2, <1>16 DEF RetractEntry, SignAt, SignGoto, SignerOpens
  <2>. QED  BY <1>16, <2>4, <2>5 DEF RetractEntry
<1>17. CASE RetractEntryFails(s)
  <2>1. left' \in [fail: Nat, kill: Nat, drift: Nat]
    BY <1>1, <1>17, FailCounts DEF RetractEntryFails, TypeOK
  <2>2. /\ spc' \in [Signers -> SignPcs]
        /\ todo' \in [Signers -> SUBSET Names] /\ unable' \in [Signers -> SUBSET Names]
    BY <1>1, <1>3, <1>17, LeaveTypes DEF RetractEntryFails
  <2>4. TypeOK'
    BY <1>1, <1>2, <1>3, <1>17, <2>1, <2>2 DEF RetractEntryFails, TypeOK, buildVars
  <2>5. SignerOpens'
    BY <1>1, <1>2, <1>17 DEF RetractEntryFails, Leave, SignAt, SignGoto, SignerOpens
  <2>. QED  BY <1>17, <2>4, <2>5 DEF RetractEntryFails
<1>18. CASE Retain(s)
  <2>2. /\ spc' \in [Signers -> SignPcs]
        /\ todo' \in [Signers -> SUBSET Names] /\ unable' \in [Signers -> SUBSET Names]
    BY <1>1, <1>3, <1>18, LeaveTypes DEF Retain
  <2>3. file' \in [Builders -> [Names -> Files \cup {NoFile}]] /\ kept' \in [Signers -> [Names -> Files \cup {NoFile}]]
    <3>1. CASE MovesToRetention(s)
      <4>1. Entry(s, name[s]) \in Files \cup {NoFile}
        BY <1>1, <1>18 DEF Retain, SignAt, SignerOpens, Entry, TypeOK
      <4>. QED  BY <1>1, <3>1, <4>1, FileTypes DEF MovesToRetention
    <3>2. CASE UNCHANGED <<file, kept>>
      BY <1>1, <3>2 DEF TypeOK
    <3>. QED  BY <1>18, <3>1, <3>2 DEF Retain
  <2>4. TypeOK'
    BY <1>1, <1>2, <1>3, <1>18, <2>2, <2>3 DEF Retain, TypeOK, buildVars
  <2>5. SignerOpens'
    BY <1>1, <1>2, <1>18 DEF Retain, Leave, SignAt, SignGoto, SignerOpens
  <2>. QED  BY <1>18, <2>4, <2>5 DEF Retain
<1>19. CASE RetainFails(s)
  <2>1. left' \in [fail: Nat, kill: Nat, drift: Nat]
    BY <1>1, <1>19, FailCounts DEF RetainFails, TypeOK
  <2>2. /\ spc' \in [Signers -> SignPcs]
        /\ todo' \in [Signers -> SUBSET Names] /\ unable' \in [Signers -> SUBSET Names]
    BY <1>1, <1>3, <1>19, LeaveTypes DEF RetainFails
  <2>3. file' \in [Builders -> [Names -> Files \cup {NoFile}]] /\ kept' \in [Signers -> [Names -> Files \cup {NoFile}]]
    <3>1. CASE MovesToRetention(s)
      <4>1. Entry(s, name[s]) \in Files \cup {NoFile}
        BY <1>1, <1>19 DEF RetainFails, SignAt, SignerOpens, Entry, TypeOK
      <4>. QED  BY <1>1, <3>1, <4>1, FileTypes DEF MovesToRetention
    <3>2. CASE UNCHANGED <<file, kept>>
      BY <1>1, <3>2 DEF TypeOK
    <3>. QED  BY <1>19, <3>1, <3>2 DEF RetainFails
  <2>4. TypeOK'
    BY <1>1, <1>2, <1>3, <1>19, <2>1, <2>2, <2>3 DEF RetainFails, TypeOK, buildVars
  <2>5. SignerOpens'
    BY <1>1, <1>2, <1>19 DEF RetainFails, Leave, SignAt, SignGoto, SignerOpens
  <2>. QED  BY <1>19, <2>4, <2>5 DEF RetainFails
<1>20. CASE SignKilled(s)
  <2>1. left' \in [fail: Nat, kill: Nat, drift: Nat]
    BY <1>1, <1>20, KillCounts DEF SignKilled, TypeOK
  <2>2. spc' \in [Signers -> SignPcs]
    BY <1>1, <1>2, <1>20, GotoTypes, RaiseTypes DEF SignKilled
  <2>4. TypeOK'
    BY <1>1, <1>2, <1>3, <1>20, <2>1, <2>2 DEF SignKilled, TypeOK, buildVars
  <2>5. SignerOpens'
    BY <1>1, <1>2, <1>20 DEF SignKilled, SignAt, SignGoto, SignEnds, SignerOpens
  <2>. QED  BY <1>20, <2>4, <2>5 DEF SignKilled
<1>. QED  BY <1>4, <1>5, <1>6, <1>7, <1>8, <1>9, <1>10, <1>11, <1>12, <1>13, <1>14, <1>15, <1>16, <1>17, <1>18, <1>19, <1>20 DEF SignStep

\* Somebody else moves a directory; nothing ceases to exist.
LEMMA ReplaceEffect ==
    ASSUME Inv, Replace, UNCHANGED <<buildVars, spc, opened>>
    PROVE  /\ dir' \in [Slots -> Dirs \cup {"none"}] /\ away' \subseteq Dirs
           /\ OnePlace' /\ \A b \in Builders : OwnInv(b)'
           /\ Present \ {"none"} \subseteq Present'
<1>1. PICK slot \in Slots, d \in {"none"} \cup (Strangers \ Present) :
         /\ dir' = [dir EXCEPT ![slot] = d]
         /\ away' = away \cup ({dir[slot]} \ {"none"})
         /\ UNCHANGED content
  BY DEF Replace
<1>2. /\ dir \in [Slots -> Dirs \cup {"none"}] /\ away \subseteq Dirs /\ OnePlace
      /\ d \in Dirs \cup {"none"} /\ d \notin Builders
  BY PublishNames DEF Inv, TypeOK, Dirs
<1>3. /\ dir' \in [Slots -> Dirs \cup {"none"}] /\ away' \subseteq Dirs
      /\ dir'[slot] = d /\ \A other \in Slots \ {slot} : dir'[other] = dir[other]
  BY <1>1, <1>2
<1>4. d # "none" => d \notin away /\ \A other \in Slots : dir[other] # d
  BY <1>1 DEF Present
<1>5. OnePlace'
  BY <1>1, <1>2, <1>3, <1>4 DEF OnePlace
<1>6. Present \ {"none"} \subseteq Present'
  <2>1. SUFFICES ASSUME NEW other \in Slots, dir[other] # "none"
                 PROVE  dir[other] \in away' \/ \E third \in Slots : dir'[third] = dir[other]
    BY <1>1 DEF Present
  <2>. QED  BY <1>1, <1>3, <2>1
<1>7. ASSUME NEW b \in Builders PROVE OwnInv(b)'
  <2>1. /\ OwnInv(b) /\ bpc'[b] = bpc[b] /\ path'[b] = path[b] /\ content'[b] = content[b]
        /\ b # "none"
    BY <1>1, PublishNames DEF Inv, OwnInv, buildVars, Dirs
  <2>2. \A other \in Slots : dir'[other] = b => dir[other] = b
    BY <1>2, <1>3
  <2>3. b \in away' => b \in away \/ \E other \in Slots : dir[other] = b
    BY <1>1
  <2>4. WhereInv(b)'
    BY <2>1, <2>2, <2>3, SlotFacts DEF OwnInv, WhereInv, Confined, Pending, Quarantine
  <2>5. WholeInv(b)'
    BY <2>1, <2>2 DEF OwnInv, WholeInv, Confined, Quarantine
  <2>6. bpc'[b] = "published" => b \in Present'
    BY <1>6, <2>1 DEF OwnInv
  <2>. QED  BY <2>1, <2>4, <2>5, <2>6 DEF OwnInv, Pending, Output
<1>. QED  BY <1>3, <1>5, <1>6, <1>7

\* A file that somebody else puts under a name.
LEMMA DriftTypes ==
    ASSUME Inv, Drift
    PROVE  /\ added' \subseteq Builders /\ content' = content
           /\ file' \in [Builders -> [Names -> Files \cup {NoFile}]]
           /\ kept' \in [Signers -> [Names -> Files \cup {NoFile}]]
           /\ faway' \subseteq Files /\ data' = data
           /\ left' \in [fail: Nat, kill: Nat, drift: Nat]
<1>. USE DEF dirVars, fileVars
<1>1. /\ TypeOK /\ OtherFiles \subseteq Files
  BY DEF Inv, Files
<1>2. left' \in [fail: Nat, kill: Nat, drift: Nat]
  <2>1. left.drift \in Nat /\ left.drift - 1 \in Nat /\ left' = [left EXCEPT !.drift = @ - 1]
    BY <1>1 DEF TypeOK, Drift
  <2>. QED  BY <1>1, <2>1 DEF TypeOK
<1>3. CASE Replace
  BY <1>1, <1>2, <1>3 DEF Replace, TypeOK
<1>4. CASE Add
  BY <1>1, <1>2, <1>4 DEF Add, TypeOK
<1>5. CASE ReplaceFile
  <2>1. PICK b \in Builders, n \in Names, f \in {NoFile} \cup (OtherFiles \ Placed) :
           /\ file' = [file EXCEPT ![b][n] = f]
           /\ faway' = faway \cup ({file[b][n]} \ {NoFile})
           /\ UNCHANGED <<dirVars, kept, data>>
    BY <1>5 DEF ReplaceFile
  <2>2. f \in Files \cup {NoFile} /\ file[b][n] \in Files \cup {NoFile}
    BY <1>1 DEF TypeOK
  <2>. QED  BY <1>1, <1>2, <2>1, <2>2 DEF TypeOK
<1>6. CASE Collide
  <2>1. PICK s \in Signers, f \in OtherFiles \ Placed :
           /\ kept' = [kept EXCEPT ![s][name[s]] = f]
           /\ UNCHANGED <<dirVars, file, faway, data>>
    BY <1>6 DEF Collide
  <2>2. f \in Files \cup {NoFile} /\ name[s] \in Names
    BY <1>1 DEF TypeOK
  <2>. QED  BY <1>1, <1>2, <2>1, <2>2 DEF TypeOK
<1>. QED  BY <1>3, <1>4, <1>5, <1>6 DEF Drift

LEMMA DriftPreserves == ASSUME Inv, Drift PROVE Inv' /\ Present \ {"none"} \subseteq Present'
<1>1. UNCHANGED <<bpc, path, sound, spc, opened, name, todo, unable>>
  BY DEF Drift, buildVars, signVars
<1>2. /\ dir' \in [Slots -> Dirs \cup {"none"}] /\ away' \subseteq Dirs
      /\ OnePlace' /\ \A b \in Builders : OwnInv(b)'
      /\ Present \ {"none"} \subseteq Present'
  <2>1. CASE Replace
    BY <1>1, <2>1, ReplaceEffect DEF buildVars
  <2>2. CASE dir' = dir /\ away' = away
    <3>1. OnePlace' /\ Present' = Present /\ content' = content
      BY <2>2, DriftTypes DEF Inv, OnePlace, Present
    <3>2. ASSUME NEW b \in Builders PROVE OwnInv(b)'
      <4>1. WhereInv(b)' /\ WholeInv(b)'
        BY <1>1, <2>2, <3>1 DEF Inv, WhereInv, WholeInv, Confined, Pending, Quarantine
      <4>. QED  BY <1>1, <3>1, <4>1 DEF Inv, OwnInv, Pending, Output
    <3>. QED  BY <2>2, <3>1, <3>2 DEF Inv, TypeOK
  <2>3. Replace \/ (dir' = dir /\ away' = away)
    BY DEF Drift, Add, ReplaceFile, Collide, dirVars
  <2>. QED  BY <2>1, <2>2, <2>3
<1>3. TypeOK'
  BY <1>1, <1>2, DriftTypes DEF Inv, TypeOK
<1>. QED  BY <1>1, <1>2, <1>3 DEF Inv, OwnInv, Pending, Output

-----------------------------------------------------------------------------
(* The theorems.                                                           *)

LEMMA InitHolds == Init => Inv
<1>. SUFFICES ASSUME Init PROVE Inv
  OBVIOUS
<1>1. TypeOK
  BY PublishBounds, SlotFacts
  DEF Init, TypeOK, BuildPcs, SignPcs, Names
<1>2. \A slot \in Slots : dir[slot] = "none"
  BY DEF Init
<1>3. \A b \in Builders : b # "none"
  BY PublishNames DEF Dirs
<1>4. OnePlace /\ \A b \in Builders : WhereInv(b) /\ WholeInv(b)
  BY <1>2, <1>3 DEF Init, OnePlace, WhereInv, WholeInv
<1>. QED  BY <1>1, <1>4 DEF Init, Inv

\* What each step does to the directories that exist.
LEMMA StepPreserves ==
    ASSUME Inv, [Next]_vars
    PROVE  Inv' /\ KeepsDirectories
<1>1. CASE \E b \in Builders : BuildBegin(b) \/ BuildStep(b) \/ BuildKilled(b)
  BY <1>1, BuildSteps, EffectPreserves DEF BuildEffect
<1>2. CASE \E s \in Signers : SignBegin(s) \/ SignStep(s) \/ SignKilled(s)
  <2>1. TypeOK' /\ SignerOpens' /\ UNCHANGED <<dir, away, content, buildVars>>
    BY <1>2, SignSteps
  <2>. QED  BY <2>1, SignPreserves DEF KeepsDirectories, Present
<1>3. CASE Drift
  BY <1>3, DriftPreserves DEF KeepsDirectories
<1>4. CASE UNCHANGED vars
  <2>1. UNCHANGED <<dir, away, content, buildVars>> /\ TypeOK' /\ SignerOpens'
    BY <1>4 DEF vars, dirVars, buildVars, fileVars, signVars, Inv, TypeOK, SignerOpens
  <2>. QED  BY <2>1, SignPreserves DEF KeepsDirectories, Present
<1>. QED  BY <1>1, <1>2, <1>3, <1>4 DEF Next

THEOREM Invariance == Spec => []Inv
<1>1. Init => Inv
  BY InitHolds
<1>2. Inv /\ [Next]_vars => Inv'
  BY StepPreserves
<1> QED BY <1>1, <1>2, PTL DEF Spec

\* Every variable keeps its type, for any builds, signers, strangers and bounds.
THEOREM TypeCorrect == Spec => []TypeOK
<1>1. Inv => TypeOK
  BY DEF Inv
<1> QED BY <1>1, Invariance, PTL

\* What has the output's name is never a build that lacks a file.
THEOREM OutputIsWhole == Spec => []OutputWhole
<1>1. Inv => OutputWhole
  BY SlotFacts DEF Inv, WholeInv, Confined, OutputWhole
<1> QED BY <1>1, Invariance, PTL

\* A build that returned loses neither its directory nor a file in it, whatever the other
\* builds recover from and whatever is moved.
THEOREM PublishedSafe == Spec => []PublishedKept
<1>1. Inv => PublishedKept
  BY PublishedFull DEF PublishedKept
<1> QED BY <1>1, Invariance, PTL

\* No step destroys a directory of somebody else's that holds something.
THEOREM ForeignSafe == Spec => ForeignKept
<1>1. Inv /\ [Next]_vars => [Foreigns \cap Present \subseteq Present']_vars
  <2>1. \A d \in Foreigns : d # "none" /\ ~IsEmpty(d)
    BY PublishNames DEF IsEmpty, Dirs, Strangers
  <2>. QED  BY <2>1, StepPreserves DEF KeepsDirectories
<1> QED BY <1>1, Invariance, PTL DEF Spec, ForeignKept

\* Where a build's directory is when it gives up.
Withdrawn(b) == (dir[Output] # b /\ dir[Pending(b)] # b)' \/ TookAnother(b)

LEMMA FailureWithdraws ==
    ASSUME Inv, NEW b \in Builders, BuildBegin(b) \/ BuildStep(b) \/ BuildKilled(b),
           bpc[b] # "failed", bpc'[b] = "failed"
    PROVE  Withdrawn(b)
<1>1. /\ OnePlace /\ OwnInv(b) /\ b # "none" /\ bpc \in [Builders -> BuildPcs]
      /\ Pending(b) # Output /\ Quarantine(b) # Output /\ Pending(b) # Quarantine(b)
      /\ Pending(b) \in Slots /\ Quarantine(b) \in Slots /\ Output \in Slots
  BY OwnFacts
<1>2. dir' = dir /\ dir[Output] # b /\ dir[Pending(b)] # b => Withdrawn(b)
  BY DEF Withdrawn, Output, Pending
<1>3. CASE Stage(b)
  <2>1. dir' = dir
    BY <1>3 DEF Stage, dirVars
  <2>2. dir[Output] # b /\ dir[Pending(b)] # b
    BY <1>1, <1>3 DEF Stage, At, Goto, OwnInv, WhereInv, Confined, OnePlace
  <2>. QED  BY <1>2, <2>1, <2>2
<1>4. CASE StageFails(b)
  <2>1. dir' = dir
    BY <1>4 DEF StageFails, dirVars
  <2>2. dir[Output] # b /\ dir[Pending(b)] # b
    BY <1>1, <1>4 DEF StageFails, At, Goto, OwnInv, WhereInv, Confined, OnePlace
  <2>. QED  BY <1>2, <2>1, <2>2
<1>5. CASE PendCheck(b)
  <2>1. dir' = dir
    BY <1>5 DEF PendCheck, dirVars
  <2>2. dir[Output] # b /\ dir[Pending(b)] # b
    BY <1>1, <1>5 DEF PendCheck, IsOwn, At, Goto, OwnInv, WhereInv, Confined, OnePlace
  <2>. QED  BY <1>2, <2>1, <2>2
<1>6. CASE Clean(b)
  <2>1. dir' = dir
    BY <1>6 DEF Clean, dirVars
  <2>2. dir[Output] # b /\ dir[Pending(b)] # b
    BY <1>1, <1>6 DEF Clean, IsOwn, At, Goto, OwnInv, WhereInv, Confined, OnePlace
  <2>. QED  BY <1>2, <2>1, <2>2
<1>7. CASE ConfirmOutput(b)
  <2>1. dir' = dir
    BY <1>7 DEF ConfirmOutput, dirVars
  <2>2. dir[Output] # b /\ dir[Pending(b)] # b
    BY <1>1, <1>7 DEF ConfirmOutput, IsOwn, At, Goto, OwnInv, WhereInv, Confined, OnePlace
  <2>. QED  BY <1>2, <2>1, <2>2
<1>8. CASE Recover(b)
  <2>1. dir' = dir
    BY <1>8 DEF Recover, dirVars
  <2>2. dir[Output] # b /\ dir[Pending(b)] # b
    BY <1>1, <1>8 DEF Recover, RecoveredPaths, IsOwn, At, Goto, OwnInv, WhereInv, Confined, OnePlace
  <2>. QED  BY <1>2, <2>1, <2>2
<1>9. CASE Remove(b)
  <2>1. dir' = dir
    BY <1>9 DEF Remove, dirVars
  <2>2. dir[Output] # b /\ dir[Pending(b)] # b
    BY <1>1, <1>9 DEF Remove, IsOwn, At, Goto, OwnInv, WhereInv, Confined, OnePlace
  <2>. QED  BY <1>2, <2>1, <2>2
<1>10. CASE IsolateFails(b)
  <2>1. dir' = dir
    BY <1>10 DEF IsolateFails, dirVars
  <2>2. dir[Output] # b /\ dir[Pending(b)] # b
    BY <1>1, <1>10 DEF IsolateFails, IsOwn, At, Goto, OwnInv, WhereInv, Confined, OnePlace
  <2>. QED  BY <1>2, <2>1, <2>2
<1>11. CASE Identify(b)
  <2>1. dir' = dir
    BY <1>11 DEF Identify, dirVars
  <2>2. (dir[Output] # b /\ dir[Pending(b)] # b) \/ TookAnother(b)
    BY <1>1, <1>11 DEF Identify, IsOwn, TookAnother, At, Goto, OwnInv, WhereInv, Confined, OnePlace
  <2>. QED  BY <1>2, <2>1, <2>2 DEF Withdrawn
<1>12. CASE Inspect(b)
  <2>1. dir' = dir
    BY <1>12 DEF Inspect, dirVars
  <2>2. dir[Output] # b /\ dir[Pending(b)] # b
    BY <1>1, <1>12 DEF Inspect, IsOwn, At, Goto, OwnInv, WhereInv, Confined, OnePlace
  <2>. QED  BY <1>2, <2>1, <2>2
<1>13. CASE Reidentify(b)
  <2>1. dir' = dir
    BY <1>13 DEF Reidentify, dirVars
  <2>2. dir[Output] # b /\ dir[Pending(b)] # b
    BY <1>1, <1>13 DEF Reidentify, IsOwn, At, Goto, OwnInv, WhereInv, Confined, OnePlace
  <2>. QED  BY <1>2, <2>1, <2>2
<1>14. CASE CleanupFails(b)
  <2>1. dir' = dir
    BY <1>14 DEF CleanupFails, dirVars
  <2>2. (dir[Output] # b /\ dir[Pending(b)] # b) \/ TookAnother(b)
    BY <1>1, <1>14 DEF CleanupFails, IsOwn, TookAnother, At, Goto, OwnInv, WhereInv, Confined, OnePlace
  <2>. QED  BY <1>2, <2>1, <2>2 DEF Withdrawn
<1>15. CASE PendRecover(b)
  <2>1. dir' = dir
    BY <1>15 DEF PendRecover, dirVars
  <2>2. dir[Output] # b /\ dir[Pending(b)] # b
    BY <1>1, <1>15 DEF PendRecover, IsOwn, At, Goto, OwnInv, WhereInv, Confined
  <2>. QED  BY <1>2, <2>1, <2>2
<1>16. CASE PutBack(b)
  BY <1>1, <1>16 DEF PutBack, At, OwnInv, WhereInv, Withdrawn, TookAnother, IsOwn
<1>17. CASE Rmdir(b)
  <2>1. dir[Output] # b /\ dir[Pending(b)] # b
    BY <1>1, <1>17 DEF Rmdir, At, OwnInv, WhereInv, Confined
  <2>2. dir'[Output] = dir[Output] /\ dir'[Pending(b)] = dir[Pending(b)]
    BY <1>1, <1>17 DEF Rmdir, Inv, TypeOK
  <2>. QED  BY <2>1, <2>2 DEF Withdrawn, Output, Pending
<1>18. CASE BuildBegin(b)
  BY <1>1, <1>18 DEF BuildBegin, Goto
<1>19. CASE Pend(b)
  BY <1>1, <1>19 DEF Pend, Goto
<1>20. CASE CleanFails(b)
  BY <1>1, <1>20 DEF CleanFails, Goto
<1>21. CASE CheckOutput(b)
  BY <1>1, <1>21 DEF CheckOutput, Goto
<1>22. CASE Move(b)
  BY <1>1, <1>22 DEF Move, Goto
<1>23. CASE MoveRaises(b)
  BY <1>1, <1>23 DEF MoveRaises, Goto
<1>24. CASE Isolate(b)
  BY <1>1, <1>24 DEF Isolate, Goto
<1>25. CASE RemoveFails(b)
  <2>1. dir' = dir
    BY <1>25 DEF RemoveFails, dirVars
  <2>2. dir[Output] # b /\ dir[Pending(b)] # b
    BY <1>1, <1>25 DEF RemoveFails, IsOwn, Goto, OwnInv, WhereInv, Confined, OnePlace
  <2>. QED  BY <1>2, <2>1, <2>2
<1>26. CASE Unlink(b)
  BY <1>1, <1>26 DEF Unlink, Goto
<1>27. CASE BuildKilled(b)
  BY <1>1, <1>27 DEF BuildKilled, Goto
<1>28. CASE PendRaises(b) \/ ReadFails(b)
  BY <1>1, <1>28 DEF PendRaises, ReadFails, Goto
<1>. QED  BY <1>3, <1>4, <1>5, <1>6, <1>7, <1>8, <1>9, <1>10, <1>11, <1>12, <1>13, <1>14,
             <1>15, <1>16, <1>17, <1>18, <1>19, <1>20, <1>21, <1>22, <1>23, <1>24, <1>25,
             <1>26, <1>27, <1>28 DEF BuildStep

\* Only a failing read of an identity ends a build this way.
LEMMA OnlyReadFails ==
    ASSUME Inv, NEW b \in Builders, BuildBegin(b) \/ BuildStep(b) \/ BuildKilled(b),
           bpc[b] # "unread", bpc'[b] = "unread"
    PROVE  ReadFails(b)
<1>1. bpc \in [Builders -> BuildPcs]
  BY OwnFacts
<1>2. ~(BuildBegin(b) \/ Stage(b) \/ StageFails(b) \/ Pend(b) \/ PendRaises(b) \/ BuildKilled(b))
  BY <1>1 DEF BuildBegin, Stage, StageFails, Pend, PendRaises, BuildKilled, Goto
<1>3. ~(PendRecover(b) \/ PendCheck(b) \/ Clean(b) \/ CleanFails(b) \/ CheckOutput(b))
  BY <1>1 DEF PendRecover, PendCheck, Clean, CleanFails, CheckOutput, Goto
<1>4. ~(Move(b) \/ MoveRaises(b) \/ ConfirmOutput(b) \/ Recover(b) \/ Remove(b))
  BY <1>1 DEF Move, MoveRaises, ConfirmOutput, Recover, Remove, Goto
<1>5. ~(Isolate(b) \/ IsolateFails(b) \/ RemoveFails(b) \/ Identify(b) \/ PutBack(b))
  BY <1>1 DEF Isolate, IsolateFails, RemoveFails, Identify, PutBack, Goto
<1>6. ~(Inspect(b) \/ Unlink(b) \/ Reidentify(b) \/ Rmdir(b) \/ CleanupFails(b))
  BY <1>1 DEF Inspect, Unlink, Reidentify, Rmdir, CleanupFails, Goto
<1>. QED  BY <1>2, <1>3, <1>4, <1>5, <1>6 DEF BuildStep

\* Where a build's directory is when the build cannot tell.
Unread(b) == dir'[Output] = b => bpc[b] \in {"recover", "confirm"}

LEMMA UnreadLeaves ==
    ASSUME Inv, NEW b \in Builders, ReadFails(b)
    PROVE  Unread(b)
<1>1. Pending(b) # Output /\ Output \in Slots /\ OwnInv(b)
  BY OwnFacts
<1>2. dir' = dir /\ bpc[b] \in ReadPcs
  BY DEF ReadFails, dirVars
<1>3. bpc[b] \in {"pend_recover", "pend_check", "clean"} => dir[Output] # b
  BY <1>1 DEF OwnInv, WhereInv, Confined
<1>4. dir'[Output] = dir[Output]
  BY <1>2 DEF Output
<1>. QED  BY <1>2, <1>3, <1>4 DEF Unread, ReadPcs

\* A build that fails has withdrawn what it published, or says that it could not, or that
\* it found another directory under the name; one whose error is that it could not read
\* what has a name leaves its directory at the output only when it had tried to move it
\* there.
THEOREM FailureLeavesNothing == Spec => FailureRetracts
<1>1. ASSUME Inv, [Next]_vars, NEW b \in Builders
      PROVE  /\ bpc[b] # "failed" /\ bpc'[b] = "failed" => Withdrawn(b)
             /\ bpc[b] # "unread" /\ bpc'[b] = "unread" => Unread(b)
  <2>1. CASE \E c \in Builders : BuildBegin(c) \/ BuildStep(c) \/ BuildKilled(c)
    <3>1. PICK c \in Builders : BuildBegin(c) \/ BuildStep(c) \/ BuildKilled(c)
      BY <2>1
    <3>2. c # b => bpc'[b] = bpc[b]
      BY <1>1, <3>1, BuildSteps DEF BuildEffect, OthersRest
    <3>. QED  BY <1>1, <3>1, <3>2, FailureWithdraws, OnlyReadFails, UnreadLeaves
  <2>2. CASE bpc' = bpc
    BY <2>2
  <2>3. CASE \E s \in Signers : SignBegin(s) \/ SignStep(s) \/ SignKilled(s)
    BY <1>1, <2>2, <2>3, SignSteps DEF buildVars
  <2>4. Drift \/ UNCHANGED vars => bpc' = bpc
    BY DEF Drift, vars, buildVars
  <2>. QED  BY <1>1, <2>1, <2>2, <2>3, <2>4 DEF Next
<1>2. Inv /\ [Next]_vars =>
        [\A b \in Builders :
            /\ bpc[b] # "failed" /\ bpc'[b] = "failed" =>
                 \/ dir'[Output] # b /\ dir'[Pending(b)] # b
                 \/ TookAnother(b)
            /\ bpc[b] # "unread" /\ bpc'[b] = "unread" /\ dir'[Output] = b =>
                 bpc[b] \in {"recover", "confirm"}]_vars
  BY <1>1 DEF Withdrawn, Unread, Output, Pending
<1> QED BY <1>2, Invariance, PTL DEF Spec, FailureRetracts

-----------------------------------------------------------------------------
(* The images that verify_pe accepts, of any size and with any number of   *)
(* sections, and the images that builds publish.                           *)

\* What the sort in _reject_overlaps is for: where every range starts behind its neighbour,
\* no two ranges overlap.
LEMMA NeighboursSuffice ==
    ASSUME NEW indices, IsFiniteSet(indices), NEW spans,
           \A i \in indices : spans[i].start \in Nat /\ spans[i].end \in Nat,
           NeighboursApart(indices, spans), NEW i \in indices, NEW j \in indices \ {i}
    PROVE  Apart(spans[i], spans[j])
<1>. DEFINE n == Cardinality(indices)
<1>1. n \in Nat
  BY FS_CardinalityType
<1>2. PICK order \in [1 .. n -> indices] :
         /\ \A x \in indices : \E k \in 1 .. n : order[k] = x
         /\ \A k, l \in 1 .. n : k < l => NotAfter(spans[order[k]], spans[order[l]])
         /\ \A k \in 1 .. n - 1 : spans[order[k + 1]].start >= spans[order[k]].end
  BY DEF NeighboursApart
<1>. HIDE DEF n
<1>3. ASSUME NEW k \in 1 .. n, NEW l \in 1 .. n, k < l
      PROVE  spans[order[k]].end <= spans[order[l]].start
  <2>1. k \in 1 .. n - 1 /\ k + 1 \in 1 .. n /\ (k + 1 = l \/ k + 1 < l)
    BY <1>1, <1>3
  <2>2. /\ order[k] \in indices /\ order[k + 1] \in indices /\ order[l] \in indices
        /\ spans[order[k + 1]].start >= spans[order[k]].end
    BY <1>2, <2>1
  <2>3. spans[order[k + 1]].start <= spans[order[l]].start
    <3>1. CASE k + 1 = l
      BY <2>2, <3>1
    <3>2. CASE k + 1 < l
      BY <1>2, <2>1, <2>2, <3>2 DEF NotAfter
    <3>. QED  BY <2>1, <3>1, <3>2
  <2>. QED  BY <2>2, <2>3
<1>4. PICK k \in 1 .. n, l \in 1 .. n : order[k] = i /\ order[l] = j
  BY <1>2
<1>5. k # l /\ (k < l \/ l < k)
  BY <1>1, <1>4
<1>. QED  BY <1>3, <1>4, <1>5 DEF Apart
-----------------------------------------------------------------------------
(* One section.                                                            *)

LEMMA SectionFacts ==
    ASSUME NEW image \in Image, NEW i \in Indices(image)
    PROVE  LET section == image.sections[i] IN
           /\ section.virtual_address \in Nat /\ section.virtual_size \in Nat
           /\ section.raw_offset \in Nat /\ section.raw_size \in Nat
           /\ section.characteristics \subseteq Flags
           /\ MemorySize(section) \in Nat
           /\ section.virtual_size <= MemorySize(section) /\ section.raw_size <= MemorySize(section)
           /\ MemorySize(section) \in {section.virtual_size, section.raw_size}
<1>1. image.sections \in Seq(Section) /\ i \in DOMAIN image.sections
  BY DEF Image, Indices
<1>2. image.sections[i] \in Section
  BY <1>1
<1>. QED  BY <1>2 DEF Section, MemorySize

LEMMA IndicesFinite ==
    ASSUME NEW image \in Image
    PROVE  IsFiniteSet(InFile(image)) /\ IsFiniteSet(InMemory(image))
<1>1. Indices(image) = 1 .. Len(image.sections) /\ Len(image.sections) \in Nat
  BY DEF Image, Indices
<1>2. IsFiniteSet(Indices(image))
  BY <1>1, FS_Interval
<1>. QED  BY <1>2, FS_Subset DEF InFile, InMemory

\* What a section takes in memory is within the range that verify_pe gives it.
LEMMA LoadedInSpan ==
    ASSUME NEW image \in Image, NEW i \in Indices(image), NEW x \in Loaded(image.sections[i])
    PROVE  /\ i \in InMemory(image)
           /\ x.start = MemorySpan(image.sections[i]).start
           /\ x.start \in Nat /\ x.end \in Nat
           /\ x.end <= MemorySpan(image.sections[i]).end
<1>. DEFINE section == image.sections[i]
<1>1. /\ section.virtual_address \in Nat /\ section.virtual_size \in Nat /\ section.raw_size \in Nat
      /\ MemorySize(section) \in Nat
      /\ section.virtual_size <= MemorySize(section) /\ section.raw_size <= MemorySize(section)
  BY SectionFacts
<1>2. PICK size \in {section.virtual_size, section.raw_size} \ {0} :
         x = Span(section.virtual_address, size)
  BY DEF Loaded
<1>3. size \in Nat /\ size > 0 /\ size <= MemorySize(section)
  BY <1>1, <1>2
<1>. QED  BY <1>1, <1>2, <1>3 DEF Span, MemorySpan, InMemory

-----------------------------------------------------------------------------
(* What verify_pe accepts.                                                 *)

LEMMA MemoryApart ==
    ASSUME NEW image \in Image, SpansApart(image),
           NEW i \in InMemory(image), NEW j \in InMemory(image) \ {i}
    PROVE  Apart(MemorySpan(image.sections[i]), MemorySpan(image.sections[j]))
<1>. DEFINE spans == [k \in InMemory(image) |-> MemorySpan(image.sections[k])]
<1>1. \A k \in InMemory(image) : spans[k].start \in Nat /\ spans[k].end \in Nat
  BY SectionFacts DEF InMemory, MemorySpan, Span
<1>2. NeighboursApart(InMemory(image), spans)
  BY DEF SpansApart
<1>. HIDE DEF spans
<1>3. Apart(spans[i], spans[j])
  BY <1>1, <1>2, IndicesFinite, NeighboursSuffice
<1>. QED  BY <1>3 DEF spans

LEMMA FileApart ==
    ASSUME NEW image \in Image, SpansApart(image),
           NEW i \in InFile(image), NEW j \in InFile(image) \ {i}
    PROVE  Apart(RawSpan(image.sections[i]), RawSpan(image.sections[j]))
<1>. DEFINE spans == [k \in InFile(image) |-> RawSpan(image.sections[k])]
<1>1. \A k \in InFile(image) : spans[k].start \in Nat /\ spans[k].end \in Nat
  BY SectionFacts DEF InFile, RawSpan, Span
<1>2. NeighboursApart(InFile(image), spans)
  BY DEF SpansApart
<1>. HIDE DEF spans
<1>3. Apart(spans[i], spans[j])
  BY <1>1, <1>2, IndicesFinite, NeighboursSuffice
<1>. QED  BY <1>3 DEF spans

\* No two sections are loaded over each other, whatever firmware takes of each.
LEMMA LoadedApart ==
    ASSUME NEW image \in Image, SpansApart(image),
           NEW i \in Indices(image), NEW j \in Indices(image) \ {i},
           NEW x \in Loaded(image.sections[i]), NEW y \in Loaded(image.sections[j])
    PROVE  Apart(x, y)
<1>. DEFINE this == MemorySpan(image.sections[i])
            that == MemorySpan(image.sections[j])
<1>1. /\ i \in InMemory(image) /\ x.start = this.start /\ x.end <= this.end
      /\ x.start \in Nat /\ x.end \in Nat
  BY LoadedInSpan
<1>2. /\ j \in InMemory(image) /\ y.start = that.start /\ y.end <= that.end
      /\ y.start \in Nat /\ y.end \in Nat
  BY LoadedInSpan
<1>3. this.end \in Nat /\ that.end \in Nat
  BY SectionFacts DEF MemorySpan, Span
<1>4. Apart(this, that)
  BY <1>1, <1>2, MemoryApart
<1>. HIDE DEF this, that
<1>. QED  BY <1>1, <1>2, <1>3, <1>4 DEF Apart

\* The entry point is in one section alone.
LEMMA EntryUnique ==
    ASSUME NEW image \in Image, SpansApart(image), NEW i \in Indices(image),
           MemorySpan(image.sections[i]).start <= image.entry_point,
           image.entry_point < MemorySpan(image.sections[i]).end
    PROVE  Entered(image) = {i}
<1>. DEFINE section == image.sections[i]
<1>1. /\ image.entry_point \in Nat
      /\ section.virtual_address \in Nat /\ section.virtual_size \in Nat /\ section.raw_size \in Nat
      /\ MemorySize(section) \in {section.virtual_size, section.raw_size}
  BY SectionFacts DEF Image
<1>2. MemorySpan(section) \in Loaded(section)
  <2>1. MemorySize(section) # 0
    BY <1>1 DEF MemorySpan, Span
  <2>. QED  BY <1>1, <2>1 DEF Loaded, MemorySpan
<1>3. i \in Entered(image)
  BY <1>2 DEF Entered
<1>4. ASSUME NEW j \in Entered(image), j # i
      PROVE  FALSE
  <2>1. j \in Indices(image) \ {i}
    BY <1>4 DEF Entered
  <2>2. PICK y \in Loaded(image.sections[j]) :
           y.start <= image.entry_point /\ image.entry_point < y.end
    BY DEF Entered
  <2>3. Apart(MemorySpan(section), y)
    BY <1>2, <2>1, LoadedApart
  <2>4. y.start \in Nat /\ y.end \in Nat
    BY <2>1, LoadedInSpan
  <2>5. MemorySpan(section).start \in Nat /\ MemorySpan(section).end \in Nat
    BY <1>1 DEF MemorySpan, Span
  <2>. QED  BY <1>1, <2>2, <2>3, <2>4, <2>5 DEF Apart
<1>. QED  BY <1>3, <1>4

\* Firmware can load every image that verify_pe accepts: it loads nothing over anything
\* else, nor outside the image, and enters code that it cannot write.
THEOREM VerifiedLoads ==
    ASSUME NEW image \in Image, Verified(image)
    PROVE  Loadable(image)
<1>1. /\ Parsed(image) /\ SpansApart(image) /\ SecurityApart(image) /\ SecurityValid(image)
      /\ \A i \in Indices(image) : SectionValid(image, image.sections[i])
      /\ EntersCode(image) /\ \A i \in Indices(image) : image.sections[i].characteristics # Flags
      /\ image.size_of_headers \in Nat /\ image.size_of_image \in Nat /\ image.length \in Nat
      /\ image.security_directory_offset \in Nat /\ image.security_directory_size \in Nat
  BY DEF Verified, Parsed, Image
<1>2. ASSUME NEW i \in Indices(image), NEW x \in Loaded(image.sections[i])
      PROVE  Inside(x, image.size_of_headers, image.size_of_image)
  <2>1. /\ i \in InMemory(image) /\ x.start = MemorySpan(image.sections[i]).start
        /\ x.end <= MemorySpan(image.sections[i]).end /\ x.start \in Nat /\ x.end \in Nat
    BY LoadedInSpan
  <2>2. /\ MemorySize(image.sections[i]) > 0 /\ SectionValid(image, image.sections[i])
    BY <1>1, <2>1 DEF InMemory
  <2>3. /\ image.sections[i].virtual_address >= image.size_of_headers
        /\ MemorySpan(image.sections[i]).end <= image.size_of_image
    BY <2>2 DEF SectionValid
  <2>4. /\ MemorySpan(image.sections[i]).start = image.sections[i].virtual_address
        /\ image.sections[i].virtual_address \in Nat /\ MemorySpan(image.sections[i]).end \in Nat
    BY SectionFacts DEF MemorySpan, Span
  <2>. QED  BY <1>1, <2>1, <2>3, <2>4 DEF Inside
<1>3. \A i \in Indices(image) : \A x \in Loaded(image.sections[i]) :
        \A j \in Indices(image) \ {i} : \A y \in Loaded(image.sections[j]) : Apart(x, y)
  BY <1>1, LoadedApart
<1>4. ASSUME NEW i \in InFile(image)
      PROVE  Inside(RawSpan(image.sections[i]), image.size_of_headers, image.length)
  <2>1. i \in Indices(image) /\ image.sections[i].raw_size > 0 /\ SectionValid(image, image.sections[i])
    BY <1>1, <1>4 DEF InFile
  <2>2. image.sections[i].raw_offset >= image.size_of_headers /\ RawSpan(image.sections[i]).end <= image.length
    BY <2>1 DEF SectionValid
  <2>3. image.sections[i].raw_offset \in Nat /\ RawSpan(image.sections[i]).start = image.sections[i].raw_offset
    BY <2>1, SectionFacts DEF RawSpan, Span
  <2>. QED  BY <1>1, <2>2, <2>3 DEF Inside
<1>5. \A i \in InFile(image) : \A j \in InFile(image) \ {i} :
        Apart(RawSpan(image.sections[i]), RawSpan(image.sections[j]))
  BY <1>1, FileApart
<1>6. ASSUME image.security_directory_size > 0
      PROVE  /\ Inside(SecuritySpan(image), image.size_of_headers, image.length)
             /\ \A i \in InFile(image) : Apart(RawSpan(image.sections[i]), SecuritySpan(image))
  <2>1. Inside(SecuritySpan(image), image.size_of_headers, image.length)
    BY <1>1, <1>6 DEF SecurityApart, SecurityValid, SecuritySpan, Span, Inside
  <2>2. ASSUME NEW i \in InFile(image)
        PROVE  Apart(RawSpan(image.sections[i]), SecuritySpan(image))
    <3>1. \/ SecuritySpan(image).start >= RawSpan(image.sections[i]).end
          \/ SecuritySpan(image).end <= RawSpan(image.sections[i]).start
      BY <1>1, <1>6, <2>2 DEF SecurityApart
    <3>2. i \in Indices(image)
      BY <2>2 DEF InFile
    <3>3. image.sections[i].raw_offset \in Nat /\ image.sections[i].raw_size \in Nat
      BY <3>2, SectionFacts
    <3>. QED  BY <1>1, <3>1, <3>3 DEF Apart, SecuritySpan, RawSpan, Span
  <2>. QED  BY <2>1, <2>2
<1>7. \E i \in Indices(image) :
        /\ Entered(image) = {i} /\ "execute" \in image.sections[i].characteristics
        /\ ~({"read", "write"} \subseteq image.sections[i].characteristics)
  <2>1. PICK i \in Indices(image) :
           /\ "execute" \in image.sections[i].characteristics
           /\ MemorySpan(image.sections[i]).start <= image.entry_point
           /\ image.entry_point < MemorySpan(image.sections[i]).end
    BY <1>1 DEF EntersCode
  <2>2. Entered(image) = {i}
    BY <1>1, <2>1, EntryUnique
  <2>3. image.sections[i].characteristics \subseteq Flags /\ image.sections[i].characteristics # Flags
    BY <1>1, SectionFacts
  <2>. QED  BY <2>1, <2>2, <2>3 DEF Flags
<1>. QED  BY <1>2, <1>3, <1>4, <1>5, <1>6, <1>7 DEF Loadable

-----------------------------------------------------------------------------
(* What builds publish.                                                    *)

\* A build whose image does not load has not passed its audit: its directory never gets
\* out of its workspace.
SoundInv ==
    \A b \in Builders \ sound :
        bpc[b] \in {"idle", "stage", "failed", "killed"} /\ \A slot \in Slots : dir[slot] # b

\* The step of another build does not bring b's directory back.
LEMMA OthersMove ==
    ASSUME Inv, NEW b \in Builders, NEW c \in Builders \ {b}, MovesOwn(c),
           \A slot \in Slots : dir[slot] # b
    PROVE  \A slot \in Slots : dir'[slot] # b
  BY PublishNames, SlotFacts DEF MovesOwn, OwnSlots, Dirs

\* Only an image that loads leaves the stage.
LEMMA StagedLoads ==
    ASSUME NEW b \in Builders, Stage(b)
    PROVE  /\ dir' = dir /\ \E pc \in {"pend", "failed"} : Goto(b, pc)
           /\ b \in sound' \/ Goto(b, "failed")
           /\ sound \subseteq sound'
<1>1. PICK audit \in Audits :
         IF audit[1]
         THEN /\ Goto(b, IF dir[Pending(b)] = "none" THEN "pend" ELSE "failed")
              /\ sound' = IF audit[2] THEN sound \cup {b} ELSE sound
         ELSE Goto(b, "failed") /\ UNCHANGED sound
  BY DEF Stage
<1>2. audit[1] => audit[2]
  BY PublishImages, VerifiedLoads DEF Audits
<1>. QED  BY <1>1, <1>2 DEF Stage, dirVars

LEMMA SoundGrows ==
    ASSUME NEW b \in Builders, BuildBegin(b) \/ BuildStep(b) \/ BuildKilled(b)
    PROVE  sound \subseteq sound'
<1>1. CASE Stage(b)
  BY <1>1, StagedLoads
<1>2. CASE ~Stage(b)
  BY <1>2 DEF BuildBegin, BuildStep, BuildKilled, StageFails, Pend, PendRaises, PendRecover,
     PendCheck, Clean, ReadFails, CleanFails, CheckOutput, Move, MoveRaises, ConfirmOutput, Recover, Remove, Isolate,
     IsolateFails, RemoveFails, Identify, PutBack, Inspect, Unlink, Reidentify, Rmdir,
     CleanupFails, Keep
<1>. QED  BY <1>1, <1>2

\* What a build does before its image has passed, or after it has not.
LEMMA UnsoundSteps ==
    ASSUME Inv, NEW b \in Builders, bpc[b] \in {"idle", "stage", "failed", "killed"},
           BuildBegin(b) \/ BuildStep(b) \/ BuildKilled(b)
    PROVE  BuildBegin(b) \/ Stage(b) \/ StageFails(b) \/ BuildKilled(b)
  BY DEF BuildStep, Pend, PendRaises, PendRecover, PendCheck, Clean, ReadFails, ReadPcs,
     CleanFails, CheckOutput, Move, MoveRaises, ConfirmOutput, Recover, Remove, Isolate, IsolateFails, RemoveFails, Identify,
     PutBack, Inspect, Unlink, Reidentify, Rmdir, CleanupFails, At

LEMMA SoundOwn ==
    ASSUME Inv, SoundInv, NEW b \in Builders \ sound, b \notin sound',
           BuildBegin(b) \/ BuildStep(b) \/ BuildKilled(b)
    PROVE  bpc'[b] \in {"idle", "stage", "failed", "killed"} /\ dir' = dir
<1>1. bpc[b] \in {"idle", "stage", "failed", "killed"} /\ bpc \in [Builders -> BuildPcs]
  BY OwnFacts DEF SoundInv
<1>2. BuildBegin(b) \/ Stage(b) \/ StageFails(b) \/ BuildKilled(b)
  BY <1>1, UnsoundSteps
<1>3. CASE Stage(b)
  <2>1. dir' = dir /\ Goto(b, "failed")
    BY <1>3, StagedLoads
  <2>. QED  BY <1>1, <2>1 DEF Goto
<1>4. CASE BuildBegin(b) \/ StageFails(b) \/ BuildKilled(b)
  BY <1>1, <1>4 DEF BuildBegin, StageFails, BuildKilled, Goto, dirVars
<1>. QED  BY <1>2, <1>3, <1>4

LEMMA SoundStep == Inv /\ SoundInv /\ [Next]_vars => SoundInv'
<1>1. SUFFICES ASSUME Inv, SoundInv, [Next]_vars, NEW b \in Builders, b \notin sound'
               PROVE  /\ bpc'[b] \in {"idle", "stage", "failed", "killed"}
                      /\ \A slot \in Slots : dir'[slot] # b
  BY DEF SoundInv, Slots, Output, Pending, Quarantine
<1>2. CASE \E c \in Builders : BuildBegin(c) \/ BuildStep(c) \/ BuildKilled(c)
  <2>1. PICK c \in Builders : BuildBegin(c) \/ BuildStep(c) \/ BuildKilled(c)
    BY <1>2
  <2>2. b \notin sound
    BY <1>1, <2>1, SoundGrows
  <2>3. CASE c = b
    BY <1>1, <2>1, <2>2, <2>3, SoundOwn DEF SoundInv
  <2>4. CASE c # b
    <3>1. MovesOwn(c) /\ OthersRest(c)
      BY <1>1, <2>1, BuildSteps DEF BuildEffect
    <3>. QED  BY <1>1, <2>2, <2>4, <3>1, OthersMove DEF SoundInv, OthersRest
  <2>. QED  BY <2>3, <2>4
<1>3. CASE \E s \in Signers : SignBegin(s) \/ SignStep(s) \/ SignKilled(s)
  BY <1>1, <1>3, SignSteps DEF SoundInv, buildVars
<1>4. CASE Drift
  <2>1. /\ UNCHANGED buildVars
        /\ dir' = dir \/ \E slot \in Slots, d \in {"none"} \cup Strangers :
                           dir' = [dir EXCEPT ![slot] = d]
    BY <1>4 DEF Drift, Replace, Add, ReplaceFile, Collide, dirVars
  <2>2. b \notin {"none"} \cup Strangers /\ dir \in [Slots -> Dirs \cup {"none"}]
    BY <1>1, PublishNames DEF Dirs, Inv, TypeOK
  <2>. QED  BY <1>1, <2>1, <2>2 DEF SoundInv, buildVars
<1>5. CASE UNCHANGED vars
  BY <1>1, <1>5 DEF SoundInv, vars, dirVars, buildVars
<1>. QED  BY <1>1, <1>2, <1>3, <1>4, <1>5 DEF Next

\* Whatever the builds are, however often they fail and whoever moves their directories,
\* firmware can load the image of the build that has the output's name.
THEOREM PublishedLoadable == Spec => []PublishedLoads
<1>1. Init => SoundInv
  BY PublishNames DEF Init, SoundInv, Dirs
<1>2. Inv /\ SoundInv /\ [Next]_vars => SoundInv'
  BY SoundStep
<1>3. SoundInv => PublishedLoads
  BY SlotFacts DEF SoundInv, PublishedLoads
<1> QED BY <1>1, <1>2, <1>3, Invariance, PTL DEF Spec
=============================================================================
