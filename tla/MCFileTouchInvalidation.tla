---------------------- MODULE MCFileTouchInvalidation -----------------------
(***************************************************************************)
(* Small instances of FileTouchInvalidation for TLC.                       *)
(***************************************************************************)
EXTENDS FileTouchInvalidation, TLC

CONSTANTS s1, s2, f1, f2, e1, e2, e3, o1, o2

(***************************************************************************)
(* Two claims and an obligation, all of session s1.                        *)
(***************************************************************************)
OneSession == [x \in {1, 2, o1} |-> s1]

Legacy == [shadow |-> FALSE, reverseIndex |-> FALSE]
ReverseIndex == [shadow |-> FALSE, reverseIndex |-> TRUE]
Shadow == [shadow |-> TRUE, reverseIndex |-> TRUE]

LegacyOnly == {Legacy}
ReverseIndexOnly == {ReverseIndex}
ShadowOnly == {Shadow}
Rollout == {ReverseIndex, Shadow}

(***************************************************************************)
(* Claim 1 is about f1, under the obligation.  Claim 2 is now under the    *)
(* obligation with no scope, now about f1 and on its own.                  *)
(***************************************************************************)
Shapes ==
    <<{[obligation |-> o1, scope |-> f1]},
      {[obligation |-> o1, scope |-> NoFile], [obligation |-> NoObligation, scope |-> f1]}>>

Active == {"supported"}
Work == {"addressed", "verified"}
Verified == {"verified"}
Both == BOOLEAN
Always == {TRUE}
Never == {FALSE}

EvidenceSymmetry == Permutations(Evidence)
=============================================================================
