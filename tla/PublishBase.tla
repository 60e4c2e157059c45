---------------------------- MODULE PublishBase -----------------------------
(***************************************************************************)
(* The directory that `refind-loader build` publishes                      *)
(* (src/refind_forest/loader/build.py), the files that `refind-loader      *)
(* sign` publishes in it (src/refind_forest/loader/cli.py), and the        *)
(* entries of somebody else that may take their names.                     *)
(*                                                                         *)
(* A directory or a file is its inode: the code opens, moves and removes   *)
(* by name, and compares inodes to know what it has got.                   *)
(***************************************************************************)
EXTENDS PeImage

CONSTANTS
    Images,     \* what a loader image that a build makes may look like
    Builders,   \* invocations of build; each is also the directory it makes
    Signers,    \* invocations of sign
    Foreigns,   \* directories of somebody else that hold something
    Empties,    \* directories of somebody else that are empty
    Others,     \* files of somebody else
    Drifts,     \* what somebody else may do
    MaxFail,    \* bound: failing or interrupted system calls
    MaxKill,    \* bound: killed invocations
    MaxDrift    \* bound: changes by somebody else

Names == {"certificate", "image"}
Strangers == Foreigns \cup Empties
Dirs == Builders \cup Strangers

\* The output, the <workspace>.publish of each build, and the entry of the quarantine that
\* a build makes to remove what it published.
Output == <<"output", "output">>
Pending(b) == <<"pending", b>>
Quarantine(b) == <<"quarantine", b>>
Slots == {Output} \cup {Pending(b) : b \in Builders} \cup {Quarantine(b) : b \in Builders}

\* A file that signer s publishes under a name.
Own(s, n) == <<s, n>>
OtherFiles == {<<g, "other">> : g \in Others}
Files == (Signers \X Names) \cup OtherFiles
NoFile == <<"no", "file">>

ASSUME PublishImages == Images \subseteq Image
ASSUME PublishDrifts == Drifts \subseteq {"replace", "add", "file", "collide"}
ASSUME PublishBounds == MaxFail \in Nat /\ MaxKill \in Nat /\ MaxDrift \in Nat
ASSUME PublishNames ==
    /\ Builders \cap Strangers = {} /\ Foreigns \cap Empties = {}
    /\ "none" \notin Dirs
    /\ Others \cap Signers = {}

VARIABLES
    dir,        \* which directory each slot holds
    away,       \* directories that somebody else keeps elsewhere
    content,    \* the two files of each built directory
    added,      \* built directories with an entry that no build or sign publishes
    bpc,        \* where each build is
    path,       \* the slot its removal works on
    sound,      \* builds that staged an image which firmware can load
    file,       \* the file under each public name of each directory
    kept,       \* what each signer's retention directories hold, by name
    faway,      \* files that somebody else keeps elsewhere
    data,       \* how far each signer's files are written
    spc,        \* where each signer is
    opened,     \* the directory it has open
    name,       \* the name it works on
    todo,       \* names it still has to retract
    unable,     \* names its error says it could not retract
    left        \* what is left of each bound

dirVars == <<dir, away, content, added>>
buildVars == <<bpc, path, sound>>
fileVars == <<file, kept, faway, data>>
signVars == <<spc, opened, name, todo, unable>>
vars == <<dirVars, buildVars, fileVars, signVars, left>>

\* stuck: its directory could not be removed; unread: what has its name could not be told.
BuildEnds == {"published", "failed", "stuck", "unread", "killed"}
RemovePcs == {"remove", "isolate", "identify", "put_back", "inspect", "unlink",
              "reidentify", "rmdir"}
ReadPcs == {"pend_recover", "pend_check", "clean", "recover", "confirm"}
BuildPcs == {"idle", "stage", "pend", "check_output", "move"} \cup ReadPcs
            \cup RemovePcs \cup BuildEnds

SignEnds == {"signed", "failed", "killed"}
SignPcs == {"idle", "sign", "create", "write", "check", "confirm", "confirm_entry",
            "retract", "retain"} \cup SignEnds

TypeOK ==
    /\ dir \in [Slots -> Dirs \cup {"none"}]
    /\ away \subseteq Dirs
    /\ content \in [Builders -> {"whole", "half", "empty"}]
    /\ added \subseteq Builders
    /\ bpc \in [Builders -> BuildPcs]
    /\ path \in [Builders -> Slots]
    /\ sound \subseteq Builders
    /\ file \in [Builders -> [Names -> Files \cup {NoFile}]]
    /\ kept \in [Signers -> [Names -> Files \cup {NoFile}]]
    /\ faway \subseteq Files
    /\ data \in [Signers -> [Names -> {"none", "part", "whole"}]]
    /\ spc \in [Signers -> SignPcs]
    /\ opened \in [Signers -> Builders \cup {"none"}]
    /\ name \in [Signers -> Names]
    /\ todo \in [Signers -> SUBSET Names]
    /\ unable \in [Signers -> SUBSET Names]
    /\ left \in [fail: Nat, kill: Nat, drift: Nat]

\* Directories that exist.
Present == away \cup {dir[slot] : slot \in Slots}

\* Files that exist: under a public name, retained, or kept elsewhere.
Placed ==
    faway \cup {file[b][n] : b \in Builders \cap Present, n \in Names}
          \cup {kept[s][n] : s \in {x \in Signers : opened[x] \in Present}, n \in Names}

Fail == left.fail > 0 /\ left' = [left EXCEPT !.fail = @ - 1]
=============================================================================
