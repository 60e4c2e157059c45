--------------------------- MODULE LoaderPublish ----------------------------
(***************************************************************************)
(* `refind-loader build` and `refind-loader sign`, several of each, on one *)
(* output path, with somebody else who changes what is under its name.     *)
(***************************************************************************)
EXTENDS BuildPublish, SignPublish

\* Somebody else moves what has a slot's name elsewhere; the slot may get another directory.
Replace ==
    /\ "replace" \in Drifts
    /\ \E slot \in Slots, d \in {"none"} \cup (Strangers \ Present) :
         /\ dir[slot] # d
         /\ dir' = [dir EXCEPT ![slot] = d]
         /\ away' = away \cup ({dir[slot]} \ {"none"})
    /\ UNCHANGED <<content, added, fileVars>>

\* ... adds an entry to a built directory.
Add ==
    /\ "add" \in Drifts
    /\ \E b \in Builders : b \in Present /\ b \notin added /\ added' = added \cup {b}
    /\ UNCHANGED <<dir, away, content, fileVars>>

\* ... moves a public file elsewhere; the name may get another file.
ReplaceFile ==
    /\ "file" \in Drifts
    /\ \E b \in Builders, n \in Names,
          f \in {NoFile} \cup (OtherFiles \ Placed) :
         /\ b \in Present /\ file[b][n] # f
         /\ file' = [file EXCEPT ![b][n] = f]
         /\ faway' = faway \cup ({file[b][n]} \ {NoFile})
    /\ UNCHANGED <<dirVars, kept, data>>

\* ... puts a file into a retention directory that is about to be used.
Collide ==
    /\ "collide" \in Drifts
    /\ \E s \in Signers, f \in OtherFiles \ Placed :
         /\ SignAt(s, "retain") /\ kept[s][name[s]] = NoFile
         /\ kept' = [kept EXCEPT ![s][name[s]] = f]
    /\ UNCHANGED <<dirVars, file, faway, data>>

Drift ==
    /\ left.drift > 0 /\ left' = [left EXCEPT !.drift = @ - 1]
    /\ Replace \/ Add \/ ReplaceFile \/ Collide
    /\ UNCHANGED <<buildVars, signVars>>

BuildKilled(b) ==
    /\ bpc[b] \notin BuildEnds \cup {"idle"}
    /\ left.kill > 0 /\ left' = [left EXCEPT !.kill = @ - 1]
    /\ Goto(b, "killed")
    /\ UNCHANGED <<dirVars, path>> /\ Keep

SignKilled(s) ==
    /\ spc[s] \notin SignEnds \cup {"idle"}
    /\ left.kill > 0 /\ left' = [left EXCEPT !.kill = @ - 1]
    /\ SignGoto(s, "killed")
    /\ UNCHANGED <<dirVars, buildVars, fileVars, opened, name, todo, unable>>

Init ==
    /\ dir = [slot \in Slots |-> "none"] /\ away = {}
    /\ content = [b \in Builders |-> "whole"] /\ added = {}
    /\ bpc = [b \in Builders |-> "idle"]
    /\ path = [b \in Builders |-> Pending(b)] /\ sound = {}
    /\ file = [b \in Builders |-> [n \in Names |-> NoFile]]
    /\ kept = [s \in Signers |-> [n \in Names |-> NoFile]]
    /\ faway = {}
    /\ data = [s \in Signers |-> [n \in Names |-> "none"]]
    /\ spc = [s \in Signers |-> "idle"]
    /\ opened = [s \in Signers |-> "none"]
    /\ name = [s \in Signers |-> "certificate"]
    /\ todo = [s \in Signers |-> {}] /\ unable = [s \in Signers |-> {}]
    /\ left = [fail |-> MaxFail, kill |-> MaxKill, drift |-> MaxDrift]

Next ==
    \/ \E b \in Builders : BuildBegin(b) \/ BuildStep(b) \/ BuildKilled(b)
    \/ \E s \in Signers : SignBegin(s) \/ SignStep(s) \/ SignKilled(s)
    \/ Drift

Spec == Init /\ [][Next]_vars
=============================================================================
