------------------------- MODULE PublishFileProofs --------------------------
(***************************************************************************)
(* Theorems about the files of LoaderPublish: what signers publish, retract*)
(* and report, next to builds, other signers and others, for any numbers   *)
(* of them.                                                                *)
(***************************************************************************)
EXTENDS PublishProofs

(* The inductive invariant, for each signer, on top of Inv.                *)

\* What signer s has written, by where it is.
Order(s) ==
    /\ spc[s] \in {"idle", "sign"} =>
         name[s] = "certificate" /\ \A n \in Names : data[s][n] = "none"
    /\ spc[s] \in {"create", "write"} =>
         IF name[s] = "image" THEN data[s]["certificate"] = "whole" ELSE data[s]["image"] = "none"
    /\ spc[s] = "write" => data[s][name[s]] # "none"
    /\ spc[s] = "check" => name[s] = "image" /\ data[s]["certificate"] = "whole"
    /\ spc[s] \in {"confirm", "confirm_entry", "signed"} => \A n \in Names : data[s][n] = "whole"
    /\ data[s]["image"] # "none" => data[s]["certificate"] = "whole"

\* What it has to retract.
Turns(s) ==
    /\ spc[s] \in {"idle", "sign", "failed"} => todo[s] = {}
    /\ spc[s] \in {"retract", "retain"} => todo[s] # {}
    /\ spc[s] = "retain" => name[s] = Turn(s) /\ opened[s] \in added

\* Its retention directories: used in a retraction only, and the certificate's last.
Retention(s) ==
    /\ \A n \in Names : kept[s][n] # NoFile =>
         spc[s] \in {"retract", "retain", "failed", "killed"} /\ opened[s] \in added
    /\ kept[s]["certificate"] # NoFile => "image" \notin todo[s]

\* Its files are under their names in the directory it opened, or it knows of them.
Known(s) ==
    /\ \A b \in Builders, n, m \in Names : file[b][n] = Own(s, m) =>
         n = m /\ b = opened[s] /\ data[s][n] # "none" /\ n \in todo[s] \cup unable[s]
    /\ \A n \in Names : data[s][n] # "none" =>
         \/ kept[s][n] = Own(s, n) \/ TakenByOthers(s, n)
         \/ Entry(s, n) = Own(s, n) /\ n \in todo[s] \cup unable[s]

SignerInv(s) == Order(s) /\ Turns(s) /\ Retention(s) /\ Known(s)

FileInv == Inv /\ \A s \in Signers : SignerInv(s)

-----------------------------------------------------------------------------
(* What a step of signer s does, all that matters to the others.           *)

\* The signers other than s do nothing.
OthersWait(s) ==
    \A t \in Signers \ {s} :
        /\ spc'[t] = spc[t] /\ opened'[t] = opened[t] /\ name'[t] = name[t]
        /\ todo'[t] = todo[t] /\ unable'[t] = unable[t] /\ data'[t] = data[t]
        /\ kept'[t] = kept[t]

\* A file appears only as its own, and disappears only into its own retention.
Traced(s) ==
    /\ faway' = faway /\ added \subseteq added'
    /\ \A b \in Builders, n \in Names :
         \/ file'[b][n] = file[b][n]
         \/ file[b][n] = NoFile /\ file'[b][n] = Own(s, n)
         \/ file'[b][n] = NoFile /\ kept'[s][n] = file[b][n] /\ b = opened'[s]
    /\ spc[s] # "idle" => opened'[s] = opened[s]
    /\ \A n \in Names : kept[s][n] # NoFile => kept'[s][n] = kept[s][n]

LEMMA OthersKnow ==
    ASSUME FileInv, NEW s \in Signers, OthersWait(s), Traced(s), NEW t \in Signers \ {s}
    PROVE  SignerInv(t)'
<1>1. /\ spc'[t] = spc[t] /\ opened'[t] = opened[t] /\ name'[t] = name[t]
      /\ todo'[t] = todo[t] /\ unable'[t] = unable[t] /\ data'[t] = data[t] /\ kept'[t] = kept[t]
      /\ SignerInv(t) /\ SignerOpens
  BY DEF OthersWait, FileInv, Inv, SignerOpens
<1>2. Order(t)' /\ Turns(t)' /\ Retention(t)'
  BY <1>1 DEF SignerInv, Order, Turns, Retention, Turn, Traced
<1>3. \A n, m \in Names : Own(t, m) # NoFile /\ Own(t, m) # Own(s, n)
  BY FileFacts
<1>4. \A n \in Names : TakenByOthers(t, n) => TakenByOthers(t, n)'
  <2>1. SUFFICES ASSUME NEW n \in Names, NEW other \in Signers \ {t}, kept[other][n] = Own(t, n)
                 PROVE  kept'[other][n] = Own(t, n)
    BY DEF TakenByOthers, Traced, Own
  <2>. QED  BY <1>3, <2>1 DEF OthersWait, Traced
<1>5. \A b \in Builders, n, m \in Names : file'[b][n] = Own(t, m) => file[b][n] = Own(t, m)
  BY <1>3 DEF Traced
<1>6. \A b \in Builders, n \in Names :
        file[b][n] = Own(t, n) => file'[b][n] = Own(t, n) \/ kept'[s][n] = Own(t, n)
  BY <1>3 DEF Traced
<1>7. Known(t)'
  <2>1. ASSUME NEW b \in Builders, NEW n \in Names, NEW m \in Names, file'[b][n] = Own(t, m)
        PROVE  n = m /\ b = opened'[t] /\ data'[t][n] # "none" /\ n \in todo'[t] \cup unable'[t]
    BY <1>1, <1>5, <2>1 DEF SignerInv, Known
  <2>2. ASSUME NEW n \in Names, data'[t][n] # "none"
        PROVE  \/ kept'[t][n] = Own(t, n) \/ TakenByOthers(t, n)'
               \/ Entry(t, n)' = Own(t, n) /\ n \in todo'[t] \cup unable'[t]
    <3>1. CASE kept[t][n] = Own(t, n)
      BY <1>1, <3>1
    <3>2. CASE TakenByOthers(t, n)
      BY <1>4, <3>2
    <3>3. CASE Entry(t, n) = Own(t, n) /\ n \in todo[t] \cup unable[t]
      <4>1. opened[t] \in Builders
        BY <1>1, <2>2 DEF SignerInv, Order, SignerOpens
      <4>2. kept'[s][n] = Own(t, n) => TakenByOthers(t, n)'
        BY DEF TakenByOthers, Own
      <4>. QED  BY <1>1, <1>6, <3>3, <4>1, <4>2 DEF Entry
    <3>. QED  BY <1>1, <2>2, <3>1, <3>2, <3>3 DEF SignerInv, Known
  <2>. QED  BY <2>1, <2>2 DEF Known, Own
<1>. QED  BY <1>2, <1>7 DEF SignerInv

-----------------------------------------------------------------------------
(* The steps of a signer that touch no file.                               *)

\* Such a step of signer s keeps what it has to keep of its files.
Touchless(s) ==
    /\ UNCHANGED fileVars /\ opened'[s] = opened[s] /\ added \subseteq added'
    /\ \A n \in Names : n \in todo[s] \cup unable[s] =>
         n \in todo'[s] \cup unable'[s] \/ Entry(s, n) # Own(s, n)

LEMMA TouchlessKnows ==
    ASSUME NEW s \in Signers, Known(s), Touchless(s)
    PROVE  Known(s)' /\ Traced(s)
<1>. USE DEF Touchless, fileVars
<1>1. Traced(s)
  BY DEF Traced
<1>2. ASSUME NEW b \in Builders, NEW n \in Names, NEW m \in Names, file'[b][n] = Own(s, m)
      PROVE  n = m /\ b = opened'[s] /\ data'[s][n] # "none" /\ n \in todo'[s] \cup unable'[s]
  BY <1>2 DEF Known, Entry
<1>3. ASSUME NEW n \in Names, data'[s][n] # "none"
      PROVE  \/ kept'[s][n] = Own(s, n) \/ TakenByOthers(s, n)'
             \/ Entry(s, n)' = Own(s, n) /\ n \in todo'[s] \cup unable'[s]
  BY <1>3 DEF Known, Entry, TakenByOthers, Own
<1>. QED  BY <1>1, <1>2, <1>3 DEF Known, Own

\* All that such steps say of themselves, and what the provers know of signer s before them.
LEMMA SignerFacts ==
    ASSUME FileInv, NEW s \in Signers
    PROVE  /\ TypeOK /\ Order(s) /\ Turns(s) /\ Retention(s) /\ Known(s)
           /\ spc \in [Signers -> SignPcs] /\ name \in [Signers -> Names]
           /\ todo \in [Signers -> SUBSET Names] /\ unable \in [Signers -> SUBSET Names]
           /\ opened \in [Signers -> Builders \cup {"none"}]
           /\ data \in [Signers -> [Names -> {"none", "part", "whole"}]]
           /\ kept \in [Signers -> [Names -> Files \cup {NoFile}]]
           /\ file \in [Builders -> [Names -> Files \cup {NoFile}]]
           /\ spc[s] # "idle" => opened[s] \in Builders
  BY DEF FileInv, Inv, SignerInv, SignerOpens, TypeOK

\* A step of signer s keeps the invariant of all signers.
SignEffect(s) == OthersWait(s) /\ Traced(s) /\ SignerInv(s)'

LEMMA BeginEffect ==
    ASSUME FileInv, NEW s \in Signers, SignBegin(s)
    PROVE  SignEffect(s)
<1>. USE SignerFacts DEF SignBegin, SignAt, SignGoto, dirVars, fileVars
<1>1. OthersWait(s) /\ Traced(s)
  BY DEF OthersWait, Traced
<1>2. spc[s] = "idle" /\ spc'[s] = "sign" /\ name' = name /\ todo' = todo /\ data' = data
      /\ kept' = kept /\ todo[s] = {}
  BY DEF Turns
<1>3. Order(s)'
  BY <1>2 DEF Order, Names
<1>4. Turns(s)' /\ Retention(s)'
  BY <1>2 DEF Turns, Retention
<1>5. Known(s)'
  BY DEF Known, Order, Entry, TakenByOthers, Own
<1>. QED  BY <1>1, <1>3, <1>4, <1>5 DEF SignEffect, SignerInv

LEMMA TouchlessSteps ==
    ASSUME FileInv, NEW s \in Signers,
           Sign(s) \/ SignFails(s) \/ CreateFails(s) \/ Check(s) \/ Confirm(s) \/ ConfirmEntry(s)
           \/ ConfirmFails(s) \/ SkipEntry(s) \/ RetractEntry(s) \/ RetractEntryFails(s)
           \/ SignKilled(s)
    PROVE  SignEffect(s)
<1>. USE SignerFacts
<1>1. CASE Sign(s)
  <2>. USE <1>1 DEF Sign, SignAt, SignGoto, dirVars, fileVars
  <2>1. OthersWait(s)
    BY DEF OthersWait
  <2>2. Known(s)' /\ Traced(s)
    <3>1. Touchless(s)
      BY DEF Touchless
    <3>. QED  BY <3>1, TouchlessKnows
  <2>3. Order(s)' /\ Turns(s)' /\ Retention(s)'
    BY DEF Order, Turns, Turn, Retention, Names
  <2>. QED  BY <2>1, <2>2, <2>3 DEF SignEffect, SignerInv
<1>2. CASE SignFails(s)
  <2>. USE <1>2 DEF SignFails, SignAt, SignGoto, dirVars, fileVars
  <2>1. OthersWait(s)
    BY DEF OthersWait
  <2>2. Known(s)' /\ Traced(s)
    <3>1. Touchless(s)
      BY DEF Touchless
    <3>. QED  BY <3>1, TouchlessKnows
  <2>3. Order(s)' /\ Turns(s)' /\ Retention(s)'
    BY DEF Order, Turns, Turn, Retention, Names
  <2>. QED  BY <2>1, <2>2, <2>3 DEF SignEffect, SignerInv
<1>3. CASE CreateFails(s)
  <2>. USE <1>3 DEF CreateFails, Raise, SignAt, SignGoto, dirVars, fileVars
  <2>1. OthersWait(s)
    BY DEF OthersWait
  <2>2. Known(s)' /\ Traced(s)
    <3>1. Touchless(s)
      BY DEF Touchless
    <3>. QED  BY <3>1, TouchlessKnows
  <2>3. Order(s)' /\ Turns(s)' /\ Retention(s)'
    BY DEF Order, Turns, Turn, Retention, Names
  <2>. QED  BY <2>1, <2>2, <2>3 DEF SignEffect, SignerInv
<1>4. CASE Check(s)
  <2>. USE <1>4 DEF Check, Raise, SignAt, SignGoto, dirVars, fileVars
  <2>1. OthersWait(s)
    BY DEF OthersWait
  <2>2. Known(s)' /\ Traced(s)
    <3>1. Touchless(s)
      BY DEF Touchless
    <3>. QED  BY <3>1, TouchlessKnows
  <2>3. Order(s)' /\ Turns(s)' /\ Retention(s)'
    BY DEF Order, Turns, Turn, Retention, Names
  <2>. QED  BY <2>1, <2>2, <2>3 DEF SignEffect, SignerInv
<1>5. CASE Confirm(s)
  <2>. USE <1>5 DEF Confirm, Raise, SignAt, SignGoto, dirVars, fileVars
  <2>1. OthersWait(s)
    BY DEF OthersWait
  <2>2. Known(s)' /\ Traced(s)
    <3>1. Touchless(s)
      BY DEF Touchless
    <3>. QED  BY <3>1, TouchlessKnows
  <2>3. Order(s)' /\ Turns(s)' /\ Retention(s)'
    BY DEF Order, Turns, Turn, Retention, Names
  <2>. QED  BY <2>1, <2>2, <2>3 DEF SignEffect, SignerInv
<1>6. CASE ConfirmEntry(s)
  <2>. USE <1>6 DEF ConfirmEntry, Raise, SignAt, SignGoto, dirVars, fileVars
  <2>1. OthersWait(s)
    BY DEF OthersWait
  <2>2. Known(s)' /\ Traced(s)
    <3>1. Touchless(s)
      BY DEF Touchless
    <3>. QED  BY <3>1, TouchlessKnows
  <2>3. Order(s)' /\ Turns(s)' /\ Retention(s)'
    BY DEF Order, Turns, Turn, Retention, Names
  <2>. QED  BY <2>1, <2>2, <2>3 DEF SignEffect, SignerInv
<1>7. CASE ConfirmFails(s)
  <2>. USE <1>7 DEF ConfirmFails, Raise, SignAt, SignGoto, dirVars, fileVars
  <2>1. OthersWait(s)
    BY DEF OthersWait
  <2>2. Known(s)' /\ Traced(s)
    <3>1. Touchless(s)
      BY DEF Touchless
    <3>. QED  BY <3>1, TouchlessKnows
  <2>3. Order(s)' /\ Turns(s)' /\ Retention(s)'
    BY DEF Order, Turns, Turn, Retention, Names
  <2>. QED  BY <2>1, <2>2, <2>3 DEF SignEffect, SignerInv
<1>8. CASE SkipEntry(s)
  <2>. USE <1>8 DEF SkipEntry, Leave, SignAt, SignGoto, dirVars, fileVars
  <2>1. OthersWait(s)
    BY DEF OthersWait
  <2>2. Known(s)' /\ Traced(s)
    <3>1. Touchless(s)
      BY DEF Touchless
    <3>. QED  BY <3>1, TouchlessKnows
  <2>3. Order(s)' /\ Turns(s)' /\ Retention(s)'
    BY DEF Order, Turns, Turn, Retention, Names
  <2>. QED  BY <2>1, <2>2, <2>3 DEF SignEffect, SignerInv
<1>9. CASE RetractEntry(s)
  <2>. USE <1>9 DEF RetractEntry, SignAt, SignGoto, dirVars, fileVars
  <2>1. OthersWait(s)
    BY DEF OthersWait
  <2>2. Known(s)' /\ Traced(s)
    <3>1. Touchless(s)
      BY DEF Touchless
    <3>. QED  BY <3>1, TouchlessKnows
  <2>3. Order(s)' /\ Turns(s)' /\ Retention(s)'
    BY DEF Order, Turns, Turn, Retention, Names
  <2>. QED  BY <2>1, <2>2, <2>3 DEF SignEffect, SignerInv
<1>10. CASE RetractEntryFails(s)
  <2>. USE <1>10 DEF RetractEntryFails, Leave, SignAt, SignGoto, dirVars, fileVars
  <2>1. OthersWait(s)
    BY DEF OthersWait
  <2>2. Known(s)' /\ Traced(s)
    <3>1. Touchless(s)
      BY DEF Touchless
    <3>. QED  BY <3>1, TouchlessKnows
  <2>3. Order(s)' /\ Turns(s)' /\ Retention(s)'
    BY DEF Order, Turns, Turn, Retention, Names
  <2>. QED  BY <2>1, <2>2, <2>3 DEF SignEffect, SignerInv
<1>11. CASE SignKilled(s)
  <2>. USE <1>11 DEF SignKilled, SignAt, SignGoto, dirVars, fileVars
  <2>1. OthersWait(s)
    BY DEF OthersWait
  <2>2. Known(s)' /\ Traced(s)
    <3>1. Touchless(s)
      BY DEF Touchless
    <3>. QED  BY <3>1, TouchlessKnows
  <2>3. Order(s)' /\ Turns(s)' /\ Retention(s)'
    BY DEF Order, Turns, Turn, Retention, Names
  <2>. QED  BY <2>1, <2>2, <2>3 DEF SignEffect, SignerInv
<1>. QED  BY <1>1, <1>2, <1>3, <1>4, <1>5, <1>6, <1>7, <1>8, <1>9, <1>10, <1>11

-----------------------------------------------------------------------------
(* The steps of a signer that create, write or retract a file.             *)

LEMMA CreateEffect ==
    ASSUME FileInv, NEW s \in Signers, Create(s)
    PROVE  SignEffect(s)
<1>. DEFINE d == opened[s]  n == name[s]
<1>1. /\ spc[s] = "create" /\ d \in Builders /\ n \in Names /\ file[d][n] = NoFile
      /\ file' = [file EXCEPT ![d][n] = Own(s, n)] /\ kept' = kept /\ faway' = faway
      /\ data' = [data EXCEPT ![s][n] = "part"] /\ todo' = [todo EXCEPT ![s] = @ \cup {n}]
      /\ spc' = [spc EXCEPT ![s] = "write"]
      /\ opened' = opened /\ name' = name /\ unable' = unable /\ added' = added
  BY SignerFacts DEF Create, SignAt, SignGoto, Entry, dirVars
<1>2. /\ file'[d][n] = Own(s, n)
      /\ \A b \in Builders, m \in Names : b # d \/ m # n => file'[b][m] = file[b][m]
  BY <1>1, SignerFacts
<1>3. /\ data'[s][n] = "part" /\ \A m \in Names \ {n} : data'[s][m] = data[s][m]
      /\ todo'[s] = todo[s] \cup {n} /\ spc'[s] = "write"
  BY <1>1, SignerFacts
<1>4. OthersWait(s)
  BY <1>1, SignerFacts DEF OthersWait
<1>5. Traced(s)
  BY <1>1, <1>2 DEF Traced
<1>6. Order(s)'
  BY <1>1, <1>3, SignerFacts DEF Order, Names
<1>7. Turns(s)' /\ Retention(s)'
  <2>1. Turns(s)'
    BY <1>3 DEF Turns
  <2>2. \A k \in Names : kept[s][k] = NoFile
    BY <1>1, SignerFacts DEF Retention
  <2>3. \A k \in Names : kept'[s][k] = NoFile
    BY <1>1, <2>2 DEF NoFile
  <2>4. Retention(s)'
    BY <2>3 DEF Retention, NoFile, Names
  <2>. QED  BY <2>1, <2>4
<1>8. Known(s)'
  <2>1. ASSUME NEW b \in Builders, NEW k \in Names, NEW m \in Names, file'[b][k] = Own(s, m)
        PROVE  k = m /\ b = opened'[s] /\ data'[s][k] # "none" /\ k \in todo'[s] \cup unable'[s]
    <3>1. CASE b = d /\ k = n
      BY <1>1, <1>2, <1>3, <2>1, <3>1, FileFacts
    <3>2. CASE b # d \/ k # n
      <4>1. file[b][k] = Own(s, m)
        BY <1>2, <2>1, <3>2
      <4>2. k = m /\ b = d /\ data[s][k] # "none" /\ k \in todo[s] \cup unable[s]
        BY <4>1, SignerFacts DEF Known
      <4>. QED  BY <1>1, <1>3, <4>2
    <3>. QED  BY <3>1, <3>2
  <2>2. ASSUME NEW k \in Names, data'[s][k] # "none"
        PROVE  \/ kept'[s][k] = Own(s, k) \/ TakenByOthers(s, k)'
               \/ Entry(s, k)' = Own(s, k) /\ k \in todo'[s] \cup unable'[s]
    <3>1. CASE k = n
      BY <1>1, <1>2, <1>3, <3>1 DEF Entry
    <3>2. CASE k # n
      <4>1. \/ kept[s][k] = Own(s, k) \/ TakenByOthers(s, k)
            \/ Entry(s, k) = Own(s, k) /\ k \in todo[s] \cup unable[s]
        BY <1>3, <2>2, <3>2, SignerFacts DEF Known
      <4>2. TakenByOthers(s, k) => TakenByOthers(s, k)'
        BY <1>1 DEF TakenByOthers, Own
      <4>. QED  BY <1>1, <1>2, <1>3, <3>2, <4>1, <4>2 DEF Entry
    <3>. QED  BY <3>1, <3>2
  <2>. QED  BY <2>1, <2>2 DEF Known, Own
<1>. QED  BY <1>4, <1>5, <1>6, <1>7, <1>8 DEF SignEffect, SignerInv

\* Writing goes through the descriptor: no name changes.
LEMMA WriteEffect ==
    ASSUME FileInv, NEW s \in Signers, Write(s) \/ WriteFails(s)
    PROVE  SignEffect(s)
<1>. DEFINE n == name[s]
<1>1. /\ spc[s] = "write" /\ n \in Names /\ data[s][n] # "none"
      /\ UNCHANGED <<file, kept, faway, opened, todo, unable, added>>
      /\ data' = data \/ data' = [data EXCEPT ![s][n] = "whole"]
  BY SignerFacts DEF Write, WriteFails, SignAt, Order, dirVars
<1>2. /\ data'[s][n] # "none" /\ \A m \in Names \ {n} : data'[s][m] = data[s][m]
      /\ \A t \in Signers \ {s} : data'[t] = data[t]
      /\ data'[s][n] \in {data[s][n], "whole"}
  BY <1>1, SignerFacts
<1>3. \/ spc' = [spc EXCEPT ![s] = IF todo[s] = {} THEN "failed" ELSE "retract"] /\ name' = name
      \/ /\ spc' = [spc EXCEPT ![s] = IF n = "certificate" THEN "check" ELSE "confirm"]
         /\ name' = [name EXCEPT ![s] = IF @ = "certificate" THEN "image" ELSE "certificate"]
         /\ data'[s][n] = "whole"
  <2>1. CASE Write(s)
    BY <2>1, <1>1, SignerFacts DEF Write, Raise, SignGoto
  <2>2. CASE WriteFails(s)
    BY <2>2 DEF WriteFails, Raise, SignGoto
  <2>. QED  BY <2>1, <2>2
<1>4. OthersWait(s)
  BY <1>1, <1>2, <1>3, SignerFacts DEF OthersWait
<1>5. Traced(s)
  BY <1>1 DEF Traced
<1>6. Order(s)'
  BY <1>1, <1>2, <1>3, SignerFacts DEF Order, Names
<1>7. /\ spc'[s] \in {"failed", "retract", "check", "confirm"}
      /\ spc'[s] = "failed" => todo'[s] = {}
      /\ spc'[s] = "retract" => todo'[s] # {}
  BY <1>1, <1>3, SignerFacts
<1>9. Turns(s)'
  BY <1>7, SignerFacts DEF Turns
<1>10. Retention(s)'
  BY <1>1, SignerFacts DEF Retention
<1>8. Known(s)'
  <2>1. \A m \in Names : data'[s][m] # "none" <=> data[s][m] # "none"
    BY <1>1, <1>2
  <2>2. \A m \in Names : TakenByOthers(s, m) => TakenByOthers(s, m)'
    BY <1>1 DEF TakenByOthers, Own
  <2>3. ASSUME NEW b \in Builders, NEW k \in Names, NEW m \in Names, file'[b][k] = Own(s, m)
        PROVE  k = m /\ b = opened'[s] /\ data'[s][k] # "none" /\ k \in todo'[s] \cup unable'[s]
    BY <1>1, <2>1, <2>3, SignerFacts DEF Known
  <2>4. ASSUME NEW k \in Names, data'[s][k] # "none"
        PROVE  \/ kept'[s][k] = Own(s, k) \/ TakenByOthers(s, k)'
               \/ Entry(s, k)' = Own(s, k) /\ k \in todo'[s] \cup unable'[s]
    BY <1>1, <2>1, <2>2, <2>4, SignerFacts DEF Known, Entry
  <2>. QED  BY <2>3, <2>4 DEF Known, Own
<1>. QED  BY <1>4, <1>5, <1>6, <1>8, <1>9, <1>10 DEF SignEffect, SignerInv

\* Moved or not, an entry that is not its own file is no longer its concern.
LEMMA RetainEffect ==
    ASSUME FileInv, NEW s \in Signers, Retain(s) \/ RetainFails(s)
    PROVE  SignEffect(s)
<1>. DEFINE d == opened[s]  n == name[s]
<1>1. /\ spc[s] = "retain" /\ d \in Builders /\ d \in added /\ n \in Names /\ n = Turn(s)
      /\ n \in todo[s]
      /\ UNCHANGED <<faway, opened, name, added, data>>
      /\ todo' = [todo EXCEPT ![s] = @ \ {n}]
      /\ spc' = [spc EXCEPT ![s] = IF todo[s] = {n} THEN "failed" ELSE "retract"]
  BY SignerFacts DEF Retain, RetainFails, SignAt, SignGoto, Leave, Turns, Turn, Names, dirVars
<1>2. /\ unable'[s] = unable[s] \/ unable'[s] = unable[s] \cup {n}
      /\ \A t \in Signers \ {s} : unable'[t] = unable[t]
      /\ n \in unable'[s] \/ (kept[s][n] = NoFile /\ kept'[s][n] = Own(s, n))
  <2>1. CASE Retain(s)
    <3>1. /\ kept' = [kept EXCEPT ![s][n] = Entry(s, n)] /\ kept[s][n] = NoFile
          /\ unable' = [unable EXCEPT ![s] = @ \cup (IF Entry(s, n) = Own(s, n) THEN {} ELSE {n})]
      BY <2>1 DEF Retain, MovesToRetention, Leave
    <3>2. kept'[s][n] = Entry(s, n)
      BY <1>1, <3>1, SignerFacts
    <3>3. CASE Entry(s, n) = Own(s, n)
      <4>1. unable' = [unable EXCEPT ![s] = @ \cup {}]
        BY <3>1, <3>3
      <4>. QED  BY <1>1, <3>1, <3>2, <3>3, <4>1, SignerFacts
    <3>4. CASE Entry(s, n) # Own(s, n)
      <4>1. unable' = [unable EXCEPT ![s] = @ \cup {n}]
        BY <3>1, <3>4
      <4>2. unable'[s] = unable[s] \cup {n} /\ \A t \in Signers \ {s} : unable'[t] = unable[t]
        BY <4>1, SignerFacts
      <4>. QED  BY <4>2
    <3>. QED  BY <3>3, <3>4
  <2>2. CASE RetainFails(s)
    <3>1. unable' = [unable EXCEPT ![s] = @ \cup {n}]
      BY <2>2 DEF RetainFails, Leave
    <3>2. unable'[s] = unable[s] \cup {n} /\ \A t \in Signers \ {s} : unable'[t] = unable[t]
      BY <3>1, SignerFacts
    <3>. QED  BY <3>2
  <2>. QED  BY <2>1, <2>2
<1>3. \/ file' = file /\ kept' = kept
      \/ /\ kept[s][n] = NoFile /\ file[d][n] # NoFile
         /\ file' = [file EXCEPT ![d][n] = NoFile]
         /\ kept' = [kept EXCEPT ![s][n] = file[d][n]]
  BY DEF Retain, RetainFails, MovesToRetention, Entry
<1>4. /\ todo'[s] = todo[s] \ {n} /\ todo'[s] = {} <=> todo[s] = {n}
      /\ spc'[s] = IF todo[s] = {n} THEN "failed" ELSE "retract"
  BY <1>1, SignerFacts
<1>5. /\ \A b \in Builders, m \in Names : b # d \/ m # n => file'[b][m] = file[b][m]
      /\ \A m \in Names : m # n => kept'[s][m] = kept[s][m]
      /\ \A t \in Signers \ {s} : kept'[t] = kept[t]
      /\ \/ file'[d][n] = file[d][n] /\ kept'[s][n] = kept[s][n]
         \/ file'[d][n] = NoFile /\ kept'[s][n] = file[d][n] /\ kept[s][n] = NoFile
  BY <1>1, <1>3, SignerFacts
<1>6. OthersWait(s)
  BY <1>1, <1>2, <1>5, SignerFacts DEF OthersWait
<1>7. Traced(s)
  BY <1>1, <1>5 DEF Traced
<1>8. Order(s)'
  BY <1>1, <1>4, SignerFacts DEF Order
<1>9. Turns(s)'
  BY <1>1, <1>4, SignerFacts DEF Turns
<1>10. Retention(s)'
  BY <1>1, <1>4, <1>5, SignerFacts DEF Retention, Turn, Names
<1>11. Known(s)'
  <2>1. \A k \in Names : TakenByOthers(s, k) => TakenByOthers(s, k)'
    BY <1>1, <1>5 DEF TakenByOthers, Own
  <2>2. ASSUME NEW b \in Builders, NEW k \in Names, NEW m \in Names, file'[b][k] = Own(s, m)
        PROVE  k = m /\ b = opened'[s] /\ data'[s][k] # "none" /\ k \in todo'[s] \cup unable'[s]
    <3>1. file[b][k] = Own(s, m)
      BY <1>5, <2>2, FileFacts
    <3>2. k = m /\ b = d /\ data[s][k] # "none" /\ k \in todo[s] \cup unable[s]
      BY <3>1, SignerFacts DEF Known
    <3>3. k = n => n \in unable'[s]
      <4>1. SUFFICES ASSUME k = n, kept[s][n] = NoFile, kept'[s][n] = Own(s, n) PROVE FALSE
        BY <1>2
      <4>2. file'[d][n] = NoFile
        BY <1>1, <1>5, <4>1, FileFacts
      <4>. QED  BY <1>2, <2>2, <3>1, <3>2, <4>1, <4>2, FileFacts
    <3>. QED  BY <1>1, <1>2, <1>4, <3>2, <3>3
  <2>3. ASSUME NEW k \in Names, data'[s][k] # "none"
        PROVE  \/ kept'[s][k] = Own(s, k) \/ TakenByOthers(s, k)'
               \/ Entry(s, k)' = Own(s, k) /\ k \in todo'[s] \cup unable'[s]
    <3>1. \/ kept[s][k] = Own(s, k) \/ TakenByOthers(s, k)
          \/ Entry(s, k) = Own(s, k) /\ k \in todo[s] \cup unable[s]
      BY <1>1, <2>3, SignerFacts DEF Known
    <3>. QED  BY <1>1, <1>2, <1>4, <1>5, <2>1, <3>1, FileFacts DEF Entry
  <2>. QED  BY <2>2, <2>3 DEF Known, Own
<1>. QED  BY <1>6, <1>7, <1>8, <1>9, <1>10, <1>11 DEF SignEffect, SignerInv

LEMMA SignKnows ==
    ASSUME FileInv, NEW s \in Signers, SignBegin(s) \/ SignStep(s) \/ SignKilled(s)
    PROVE  Traced(s) /\ OthersWait(s) /\ \A t \in Signers : SignerInv(t)'
<1>1. SignEffect(s)
  BY BeginEffect, TouchlessSteps, CreateEffect, WriteEffect, RetainEffect DEF SignStep
<1>2. ASSUME NEW t \in Signers \ {s} PROVE SignerInv(t)'
  BY <1>1, OthersKnow DEF SignEffect
<1>. QED  BY <1>1, <1>2 DEF SignEffect

-----------------------------------------------------------------------------
(* The steps of builds and of others.                                      *)

LEMMA BuildTouchesNoFile ==
    ASSUME NEW b \in Builders, BuildBegin(b) \/ BuildStep(b) \/ BuildKilled(b)
    PROVE  UNCHANGED <<added, fileVars, signVars>>
<1>. USE DEF Keep, dirVars
<1>1. CASE BuildBegin(b) \/ BuildKilled(b)
  BY <1>1 DEF BuildBegin, BuildKilled
<1>2. CASE Stage(b) \/ StageFails(b) \/ Pend(b) \/ PendRaises(b) \/ PendRecover(b)
             \/ PendCheck(b)
  BY <1>2 DEF Stage, StageFails, Pend, PendRaises, PendRecover, PendCheck
<1>3. CASE Clean(b) \/ CleanFails(b) \/ CheckOutput(b) \/ Move(b) \/ MoveRaises(b)
  BY <1>3 DEF Clean, CleanFails, CheckOutput, Move, MoveRaises
<1>4. CASE ConfirmOutput(b) \/ Recover(b) \/ ReadFails(b) \/ Remove(b) \/ Isolate(b)
             \/ IsolateFails(b)
  BY <1>4 DEF ConfirmOutput, Recover, ReadFails, Remove, Isolate, IsolateFails
<1>5. CASE RemoveFails(b) \/ Identify(b) \/ PutBack(b) \/ Inspect(b) \/ Unlink(b)
  BY <1>5 DEF RemoveFails, Identify, PutBack, Inspect, Unlink
<1>6. CASE Reidentify(b) \/ Rmdir(b) \/ CleanupFails(b)
  BY <1>6 DEF Reidentify, Rmdir, CleanupFails
<1>. QED  BY <1>1, <1>2, <1>3, <1>4, <1>5, <1>6 DEF BuildStep

LEMMA UntouchedKnow ==
    ASSUME NEW s \in Signers, SignerInv(s), UNCHANGED <<added, fileVars, signVars>>
    PROVE  SignerInv(s)'
<1>. USE DEF SignerInv, fileVars, signVars
<1>1. Order(s)' /\ Turns(s)' /\ Retention(s)'
  BY DEF Order, Turns, Turn, Retention, NoFile
<1>2. Known(s)'
  BY DEF Known, Entry, TakenByOthers, Own
<1>. QED  BY <1>1, <1>2

\* What others do to files: they move them elsewhere, and put their own in the way.
DriftTraced ==
    /\ added \subseteq added' /\ faway \subseteq faway' /\ data' = data
    /\ \A b \in Builders, n \in Names : file'[b][n] # file[b][n] =>
         /\ file[b][n] = NoFile \/ file[b][n] \in faway'
         /\ file'[b][n] \in {NoFile} \cup OtherFiles
    /\ \A s \in Signers, n \in Names : kept'[s][n] # kept[s][n] =>
         spc[s] = "retain" /\ n = name[s] /\ kept[s][n] = NoFile /\ kept'[s][n] \in OtherFiles

LEMMA DriftTraces ==
    ASSUME TypeOK, Drift
    PROVE  DriftTraced /\ UNCHANGED signVars
<1>1. UNCHANGED signVars /\ (Replace \/ Add \/ ReplaceFile \/ Collide)
  BY DEF Drift
<1>2. CASE Replace
  <2>1. added' = added /\ file' = file /\ kept' = kept /\ faway' = faway /\ data' = data
    BY <1>2 DEF Replace, fileVars
  <2>. QED  BY <1>1, <2>1 DEF DriftTraced
<1>3. CASE Add
  <2>1. added \subseteq added' /\ file' = file /\ kept' = kept /\ faway' = faway /\ data' = data
    BY <1>3 DEF Add, fileVars
  <2>. QED  BY <1>1, <2>1 DEF DriftTraced
<1>4. CASE ReplaceFile
  <2>1. PICK b \in Builders, n \in Names, f \in {NoFile} \cup (OtherFiles \ Placed) :
          /\ file' = [file EXCEPT ![b][n] = f]
          /\ faway' = faway \cup ({file[b][n]} \ {NoFile})
          /\ UNCHANGED <<dirVars, kept, data>>
    BY <1>4 DEF ReplaceFile
  <2>2. /\ file'[b][n] = f /\ added' = added /\ kept' = kept /\ data' = data
        /\ faway \subseteq faway' /\ (file[b][n] = NoFile \/ file[b][n] \in faway')
        /\ \A c \in Builders, m \in Names : c # b \/ m # n => file'[c][m] = file[c][m]
    BY <2>1 DEF TypeOK, dirVars
  <2>. QED  BY <1>1, <2>1, <2>2 DEF DriftTraced
<1>5. CASE Collide
  <2>1. PICK s \in Signers, f \in OtherFiles \ Placed :
          /\ SignAt(s, "retain") /\ kept[s][name[s]] = NoFile
          /\ kept' = [kept EXCEPT ![s][name[s]] = f]
          /\ UNCHANGED <<dirVars, file, faway, data>>
    BY <1>5 DEF Collide
  <2>2. /\ name[s] \in Names /\ kept'[s][name[s]] = f /\ spc[s] = "retain"
        /\ added' = added /\ file' = file /\ faway' = faway /\ data' = data
        /\ \A c \in Signers, m \in Names : c # s \/ m # name[s] => kept'[c][m] = kept[c][m]
    BY <2>1 DEF TypeOK, dirVars, SignAt
  <2>. QED  BY <1>1, <2>1, <2>2 DEF DriftTraced
<1>. QED  BY <1>1, <1>2, <1>3, <1>4, <1>5

LEMMA DriftKnows ==
    ASSUME FileInv, Drift, NEW s \in Signers
    PROVE  SignerInv(s)'
<1>1. DriftTraced /\ UNCHANGED signVars
  BY DriftTraces DEF FileInv, Inv
<1>2. /\ spc' = spc /\ opened' = opened /\ name' = name /\ todo' = todo /\ unable' = unable
      /\ data' = data /\ added \subseteq added' /\ faway \subseteq faway'
  BY <1>1 DEF DriftTraced, signVars
<1>3. \A n \in Names : kept'[s][n] = kept[s][n] \/ (spc[s] = "retain" /\ n = name[s])
  BY <1>1 DEF DriftTraced
<1>4. \A t \in Signers, n \in Names : kept[t][n] # NoFile => kept'[t][n] = kept[t][n]
  BY <1>1 DEF DriftTraced
<1>5. ASSUME NEW b \in Builders, NEW n \in Names
      PROVE  /\ \A m \in Names : file'[b][n] = Own(s, m) => file[b][n] = Own(s, m)
             /\ file'[b][n] = file[b][n] \/ file[b][n] = NoFile \/ file[b][n] \in faway'
  BY <1>1, FileFacts DEF DriftTraced
<1>. USE <1>2, SignerFacts, FileFacts
<1>6. Order(s)' /\ Turns(s)'
  BY DEF Order, Turns, Turn
<1>7. Retention(s)'
  <2>1. spc[s] = "retain" => opened[s] \in added /\ name[s] = Turn(s)
    BY DEF Turns
  <2>. QED  BY <1>3, <2>1 DEF Retention, Turn, Names, NoFile
<1>8. \A n \in Names : TakenByOthers(s, n) => TakenByOthers(s, n)'
  <2>1. SUFFICES ASSUME NEW n \in Names, NEW t \in Signers \ {s}, kept[t][n] = Own(s, n)
                 PROVE  kept'[t][n] = Own(s, n)
    BY DEF TakenByOthers, Own
  <2>. QED  BY <1>4, <2>1
<1>9. Known(s)'
  <2>1. ASSUME NEW b \in Builders, NEW k \in Names, NEW m \in Names, file'[b][k] = Own(s, m)
        PROVE  k = m /\ b = opened'[s] /\ data'[s][k] # "none" /\ k \in todo'[s] \cup unable'[s]
    BY <1>5, <2>1 DEF Known
  <2>2. ASSUME NEW k \in Names, data'[s][k] # "none"
        PROVE  \/ kept'[s][k] = Own(s, k) \/ TakenByOthers(s, k)'
               \/ Entry(s, k)' = Own(s, k) /\ k \in todo'[s] \cup unable'[s]
    <3>. Own(s, k) # NoFile
      OBVIOUS
    <3>1. CASE kept[s][k] = Own(s, k)
      <4>1. kept'[s][k] = kept[s][k]
        BY <1>4, <3>1
      <4>. QED  BY <3>1, <4>1
    <3>2. CASE TakenByOthers(s, k)
      BY <1>8, <3>2
    <3>3. CASE Entry(s, k) = Own(s, k) /\ k \in todo[s] \cup unable[s]
      <4>1. opened[s] \in Builders
        BY <2>2 DEF Order
      <4>2. Own(s, k) \in faway' => TakenByOthers(s, k)'
        BY DEF TakenByOthers, Own
      <4>3. file'[opened[s]][k] = Own(s, k) \/ Own(s, k) \in faway'
        BY <1>5, <3>3, <4>1 DEF Entry
      <4>. QED  BY <3>3, <4>2, <4>3 DEF Entry
    <3>. QED  BY <2>2, <3>1, <3>2, <3>3 DEF Known
  <2>. QED  BY <2>1, <2>2 DEF Known, Own
<1>. QED  BY <1>6, <1>7, <1>9 DEF SignerInv

-----------------------------------------------------------------------------
LEMMA FileInit == Init => FileInv
<1>1. SUFFICES ASSUME Init, NEW s \in Signers PROVE SignerInv(s)
  BY InitHolds DEF FileInv
<1>2. \A b \in Builders, n, m \in Names : file[b][n] # Own(s, m)
  BY <1>1, FileFacts DEF Init
<1>3. /\ spc[s] = "idle" /\ name[s] = "certificate" /\ todo[s] = {} /\ opened[s] = "none"
      /\ \A n \in Names : data[s][n] = "none" /\ kept[s][n] = NoFile
  BY <1>1 DEF Init
<1>4. Order(s) /\ Turns(s)
  BY <1>3 DEF Order, Turns, Names
<1>5. Retention(s) /\ Known(s)
  BY <1>2, <1>3 DEF Retention, Known, Names
<1>. QED  BY <1>4, <1>5 DEF SignerInv

LEMMA FileStep == FileInv /\ [Next]_vars => FileInv'
<1>1. SUFFICES ASSUME FileInv, [Next]_vars PROVE FileInv'
  OBVIOUS
<1>2. Inv'
  BY <1>1, StepPreserves DEF FileInv
<1>3. ASSUME NEW s \in Signers PROVE SignerInv(s)'
  <2>1. CASE \E b \in Builders : BuildBegin(b) \/ BuildStep(b) \/ BuildKilled(b)
    BY <1>1, <2>1, BuildTouchesNoFile, UntouchedKnow DEF FileInv
  <2>2. CASE \E t \in Signers : SignBegin(t) \/ SignStep(t) \/ SignKilled(t)
    BY <1>1, <2>2, SignKnows
  <2>3. CASE Drift
    BY <1>1, <2>3, DriftKnows
  <2>4. CASE UNCHANGED vars
    BY <1>1, <2>4, UntouchedKnow DEF FileInv, vars, dirVars
  <2>. QED  BY <1>1, <2>1, <2>2, <2>3, <2>4 DEF Next
<1>. QED  BY <1>2, <1>3 DEF FileInv

THEOREM FileInvariance == Spec => []FileInv
<1> QED BY FileInit, FileStep, PTL DEF Spec

-----------------------------------------------------------------------------
(* The theorems.                                                           *)

\* An image has a public name only beside its certificate, unless somebody else took the
\* certificate away, or the error names the image.
THEOREM CertificateFirst == Spec => []NoImageAlone
<1>1. ASSUME FileInv PROVE NoImageAlone
  <2>1. SUFFICES ASSUME NEW s \in Signers, NEW b \in Builders,
                        file[b]["image"] = Own(s, "image"),
                        ~TakenByOthers(s, "certificate"), "image" \notin unable[s]
                 PROVE  /\ file[b]["certificate"] = Own(s, "certificate")
                        /\ data[s]["certificate"] = "whole"
    BY DEF NoImageAlone
  <2>2. /\ "image" \in Names /\ "certificate" \in Names
        /\ Own(s, "certificate") # NoFile /\ Order(s) /\ Retention(s) /\ Known(s)
    BY <1>1, SignerFacts, FileFacts DEF Names
  <2>3. b = opened[s] /\ data[s]["image"] # "none" /\ "image" \in todo[s]
    BY <2>1, <2>2 DEF Known
  <2>4. data[s]["certificate"] = "whole"
    BY <2>2, <2>3 DEF Order
  <2>5. kept[s]["certificate"] # Own(s, "certificate")
    BY <2>2, <2>3 DEF Retention
  <2>6. Entry(s, "certificate") = Own(s, "certificate")
    BY <2>1, <2>2, <2>4, <2>5 DEF Known
  <2>. QED  BY <2>3, <2>4, <2>6 DEF Entry
<1>. QED  BY <1>1, FileInvariance, PTL

\* What a sign returns is true of every file it made.
THEOREM ReportsHold == Spec => []SignReports
<1>1. ASSUME FileInv PROVE SignReports
  <2>1. SUFFICES ASSUME NEW s \in Signers, NEW n \in Names
                 PROVE  /\ spc[s] = "signed" =>
                             /\ data[s][n] = "whole"
                             /\ Entry(s, n) = Own(s, n) \/ TakenByOthers(s, n)
                        /\ spc[s] = "failed" /\ data[s][n] # "none" =>
                             \/ kept[s][n] = Own(s, n) \/ n \in unable[s]
                             \/ TakenByOthers(s, n)
    BY DEF SignReports
  <2>2. /\ Own(s, n) # NoFile
        /\ Order(s) /\ Turns(s) /\ Retention(s) /\ Known(s)
    BY <1>1, SignerFacts, FileFacts
  <2>3. ASSUME spc[s] = "signed"
        PROVE  data[s][n] = "whole" /\ (Entry(s, n) = Own(s, n) \/ TakenByOthers(s, n))
    <3>1. data[s][n] = "whole" /\ kept[s][n] = NoFile
      BY <2>2, <2>3 DEF Order, Retention
    <3>. QED  BY <2>2, <3>1 DEF Known
  <2>4. ASSUME spc[s] = "failed", data[s][n] # "none"
        PROVE  kept[s][n] = Own(s, n) \/ n \in unable[s] \/ TakenByOthers(s, n)
    BY <2>2, <2>4 DEF Turns, Known
  <2>. QED  BY <2>3, <2>4
<1>. QED  BY <1>1, FileInvariance, PTL

\* A directory with a file of somebody's in it, or with a retention directory, is not empty.
LEMMA HoldsSomething ==
    ASSUME FileInv
    PROVE  /\ \A b \in Builders, n \in Names : file[b][n] \in Files => b # "none" /\ ~IsEmpty(b)
           /\ \A s \in Signers, n \in Names : kept[s][n] \in Files =>
                /\ spc[s] # "idle" /\ opened[s] \in Builders /\ opened[s] # "none"
                /\ ~IsEmpty(opened[s])
<1>1. \A b \in Builders : b # "none" /\ b \notin Empties
  BY PublishNames DEF Dirs, Strangers
<1>2. \A b \in Builders, n \in Names : file[b][n] \in Files => ~IsEmpty(b)
  BY <1>1, FileFacts DEF IsEmpty
<1>3. ASSUME NEW s \in Signers, NEW n \in Names, kept[s][n] \in Files
      PROVE  spc[s] # "idle" /\ opened[s] \in Builders /\ ~IsEmpty(opened[s])
  <2>1. spc[s] # "idle" /\ opened[s] \in added
    BY <1>3, FileFacts, SignerFacts DEF Retention
  <2>. QED  BY <1>1, <2>1, SignerFacts DEF IsEmpty
<1>. QED  BY <1>1, <1>2, <1>3

\* Where a file of somebody's is.
LEMMA PlacedWhere ==
    \A f \in Files : f \in Placed <=>
        \/ f \in faway
        \/ \E b \in Builders, n \in Names : b \in Present /\ file[b][n] = f
        \/ \E s \in Signers, n \in Names : opened[s] \in Present /\ kept[s][n] = f
  BY DEF Placed

\* No file of anybody's is ever destroyed.
THEOREM FilesSafe == Spec => FilesKept
<1>1. ASSUME FileInv, [Next]_vars, NEW f \in Files, f \in Placed
      PROVE  f \in Placed'
  <2>. Files' = Files /\ f # NoFile
    BY FileFacts DEF Files, OtherFiles, Names
  <2>1. \/ f \in faway'
        \/ \E b \in Builders, n \in Names : b \in Present' /\ file'[b][n] = f
        \/ \E s \in Signers, n \in Names : opened'[s] \in Present' /\ kept'[s][n] = f
    <3>1. CASE \E b \in Builders : BuildBegin(b) \/ BuildStep(b) \/ BuildKilled(b)
      <4>1. faway' = faway /\ file' = file /\ kept' = kept /\ opened' = opened
        BY <3>1, BuildTouchesNoFile DEF fileVars, signVars
      <4>2. KeepsDirectories
        BY <1>1, StepPreserves DEF FileInv
      <4>. QED  BY <1>1, <4>1, <4>2, PlacedWhere, HoldsSomething DEF KeepsDirectories
    <3>2. CASE \E s \in Signers : SignBegin(s) \/ SignStep(s) \/ SignKilled(s)
      <4>1. PICK s \in Signers : SignBegin(s) \/ SignStep(s) \/ SignKilled(s)
        BY <3>2
      <4>2. Traced(s) /\ OthersWait(s) /\ Present' = Present
        BY <1>1, <4>1, SignKnows, SignSteps DEF FileInv, Present
      <4>3. CASE f \in faway
        BY <4>2, <4>3 DEF Traced
      <4>4. ASSUME NEW b \in Builders, NEW n \in Names, b \in Present, file[b][n] = f
            PROVE  file'[b][n] = f \/ (opened'[s] \in Present' /\ kept'[s][n] = f)
        BY <4>2, <4>4 DEF Traced
      <4>5. ASSUME NEW t \in Signers, NEW n \in Names, opened[t] \in Present, kept[t][n] = f
            PROVE  opened'[t] \in Present' /\ kept'[t][n] = f
        BY <1>1, <4>2, <4>5, HoldsSomething DEF Traced, OthersWait
      <4>. QED  BY <1>1, <4>2, <4>3, <4>4, <4>5, PlacedWhere
    <3>3. CASE Drift
      <4>1. DriftTraced /\ opened' = opened
        BY <1>1, <3>3, DriftTraces DEF FileInv, Inv, signVars
      <4>2. Present \ {"none"} \subseteq Present'
        BY <1>1, <3>3, DriftPreserves DEF FileInv
      <4>3. \A b \in Builders, n \in Names : file[b][n] = f => file'[b][n] = f \/ f \in faway'
        BY <4>1 DEF DriftTraced
      <4>4. \A s \in Signers, n \in Names : kept[s][n] = f => kept'[s][n] = f
        BY <4>1 DEF DriftTraced
      <4>5. faway \subseteq faway'
        BY <4>1 DEF DriftTraced
      <4>. QED  BY <1>1, <4>1, <4>2, <4>3, <4>4, <4>5, PlacedWhere, HoldsSomething
    <3>4. CASE UNCHANGED vars
      <4>1. faway' = faway /\ file' = file /\ kept' = kept /\ opened' = opened /\ Present' = Present
        BY <3>4 DEF vars, dirVars, fileVars, signVars, Present
      <4>. QED  BY <1>1, <4>1, PlacedWhere
    <3>. QED  BY <1>1, <3>1, <3>2, <3>3, <3>4 DEF Next
  <2>. QED  BY <2>1 DEF Placed
<1>2. FileInv /\ [Next]_vars => [Files \cap Placed \subseteq Placed']_vars
  BY <1>1
<1>. QED  BY <1>2, FileInvariance, PTL DEF Spec, FilesKept
=============================================================================
