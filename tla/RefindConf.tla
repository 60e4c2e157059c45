----------------------------- MODULE RefindConf -----------------------------
(***************************************************************************)
(* What an installation does to the text of the user's refind.conf         *)
(* (patch_refind_conf in src/refind_forest/config.py, and                  *)
(* _patch_refind_conf_once and _verify_refind_config in install.py).       *)
(*                                                                         *)
(* A text is its lines.  A line is the user's own, blank, an include of    *)
(* the theme's configuration, one of the two markers or the tool row of    *)
(* the block, or a line that has a marker and more ("mangled").            *)
(***************************************************************************)
EXTENDS Naturals, Sequences, SequencesExt

CONSTANTS
    Stock,      \* texts of refind.conf before the first installation
    MaxEdits,   \* bound: lines the user adds or removes
    MaxInstalls \* bound: installations

UserLines == {"timeout", "menuentry"}
Lines == UserLines \cup {"blank", "include", "begin", "tools", "end", "mangled"}

ASSUME ConfStock == Stock \subseteq Seq(UserLines)
ASSUME ConfBounds == MaxEdits \in Nat /\ MaxInstalls \in Nat

VARIABLES
    text,       \* refind.conf
    mine,       \* history: what the user last left in it, outside the block
    status,     \* who wrote it last, and whether an installation was refused
    left        \* what is left of each bound

vars == <<text, mine, status, left>>

\* Mutant: the block includes a variant's configuration, not the active one.
Block_Variant == <<"begin", "include theme-a", "tools", "end">>

\* INCLUDE_BLOCK.
Block == <<"begin", "include", "tools", "end">>

Occurrences(t, line) == {i \in DOMAIN t : t[i] = line}

\* One whole block or none, and no other mention of a marker.
PatchableText(t) ==
    /\ Occurrences(t, "mangled") = {}
    /\ Cardinality(Occurrences(t, "begin")) = Cardinality(Occurrences(t, "end"))
    /\ Cardinality(Occurrences(t, "begin")) <= 1
    /\ \A i \in Occurrences(t, "begin"), j \in Occurrences(t, "end") : i < j

NotBlank(line) == line # "blank"

\* Mutant: trailing blank lines are kept.
RStrip_Nothing(t) == t

\* str.rstrip.
RStrip(t) == SubSeq(t, 1, SelectLastInSeq(t, NotBlank))

\* str.lstrip of line ends.
LStrip(t) ==
    IF \A i \in DOMAIN t : ~NotBlank(t[i]) THEN <<>>
    ELSE SubSeq(t, SelectInSeq(t, NotBlank), Len(t))

\* What is before the block, and after it.
BeforeBlock(t) == SubSeq(t, 1, (CHOOSE i \in Occurrences(t, "begin") : TRUE) - 1)
AfterBlock(t) == SubSeq(t, (CHOOSE i \in Occurrences(t, "end") : TRUE) + 1, Len(t))

\* Mutant: what is after the block goes with it.
WithoutBlock_Truncates(t) ==
    IF Occurrences(t, "begin") = {} THEN t ELSE RStrip(BeforeBlock(t))

\* Joined by a line end: a blank line where nothing is before it.
WithoutBlock(t) ==
    IF Occurrences(t, "begin") = {} THEN t
    ELSE (IF RStrip(BeforeBlock(t)) = <<>> THEN <<"blank">> ELSE RStrip(BeforeBlock(t)))
         \o LStrip(AfterBlock(t))

\* patch_refind_conf: the rest, a blank line (two, if there is no rest) and the block.
Patch(t) ==
    LET rest == RStrip(WithoutBlock(t)) IN
    rest \o (IF rest = <<>> THEN <<"blank", "blank">> ELSE <<"blank">>) \o Block

\* The lines of t that are in lines, in their order.
Kept(t, lines) ==
    LET kept[n \in 0 .. Len(t)] ==
            IF n = 0 THEN <<>>
            ELSE IF t[n] \in lines THEN Append(kept[n - 1], t[n]) ELSE kept[n - 1]
    IN kept[Len(t)]

\* Mutant: naked includes stay.
WithoutIncludes_None(t) == t

\* _patch_refind_conf_once: naked includes go first.
WithoutIncludes(t) == Kept(t, Lines \ {"include"})

PatchOnce(t) == Patch(WithoutIncludes(t))

\* _verify_refind_config.
Accepted(t) ==
    /\ \E i \in Occurrences(t, "begin") : SubSeq(t, i, i + Len(Block) - 1) = Block
    /\ Occurrences(t, "mangled") = {}
    /\ \A line \in {"begin", "end", "include"} : Cardinality(Occurrences(t, line)) = 1

-----------------------------------------------------------------------------
\* The user's part of a text: all but the block, blank lines and includes of the theme.
UsersPart(t) ==
    Kept(IF Occurrences(t, "begin") = {} THEN t ELSE BeforeBlock(t) \o AfterBlock(t),
         Lines \ {"blank", "include"})

TypeOK ==
    /\ text \in Seq(Lines) /\ mine \in Seq(Lines)
    /\ status \in {"edited", "patched", "refused"}
    /\ left \in [edits: Nat, installs: Nat]

Init ==
    /\ text \in Stock /\ mine = UsersPart(text) /\ status = "edited"
    /\ left = [edits |-> MaxEdits, installs |-> MaxInstalls]

Edits(t) ==
    /\ left.edits > 0 /\ left' = [left EXCEPT !.edits = @ - 1]
    /\ text' = t
    /\ mine' = IF PatchableText(t) THEN UsersPart(t) ELSE <<>>
    /\ status' = "edited"

\* The user's editor: a line anywhere, also inside the block.
Insert == \E i \in 1 .. Len(text) + 1, line \in Lines : Edits(InsertAt(text, i, line))
Delete == \E i \in DOMAIN text : Edits(RemoveAt(text, i))

Installs == left.installs > 0 /\ left' = [left EXCEPT !.installs = @ - 1]

InstallPatches ==
    /\ Installs /\ PatchableText(WithoutIncludes(text))
    /\ text' = PatchOnce(text) /\ status' = "patched"
    /\ UNCHANGED mine

\* It raises; the installation is undone.
InstallRefuses ==
    /\ Installs /\ ~PatchableText(WithoutIncludes(text))
    /\ status' = "refused"
    /\ UNCHANGED <<text, mine>>

Next == Insert \/ Delete \/ InstallPatches \/ InstallRefuses

Spec == Init /\ [][Next]_vars

-----------------------------------------------------------------------------
\* Whatever the user did to refind.conf between two installations, and wherever in it
\* the block of the last one has got to, the next one that is not refused leaves every
\* line that the user has outside the block, in the user's order: a line lost here is a
\* menu entry the machine no longer boots (patch_refind_conf).
UsersLinesKept ==
    status = "patched" => UsersPart(text) = mine

\* ... and leaves what the verification of the same installation accepts, with the block
\* last (_verify_refind_config): a text that is patched and then not accepted could never
\* be installed on.
PatchedAccepted ==
    status = "patched" => Accepted(text) /\ IsSuffix(Block, text)

\* Installing again changes nothing and is not refused (test_include_patch_is_idempotent
\* says so of one text).
PatchSettles ==
    status = "patched" => PatchableText(text) /\ PatchOnce(text) = text
=============================================================================
