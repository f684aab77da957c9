------------------------ MODULE MCIncrementalCompile ------------------------
(***************************************************************************)
(* Small instances of IncrementalCompile for TLC.                          *)
(***************************************************************************)
EXTENDS IncrementalCompile, TLC

CONSTANTS o1, o2, c1, c2

Good == 1 :> "positive"

Says(s, o) == [status |-> s, under |-> o, cites |-> {1}]
Claims == {Says("supported", o1), Says("confirmed", o1), Says("supported", o2)}

OneUnderFirst == (o1 :> 1) @@ (o2 :> 0)

ClaimSymmetry == Permutations({c1, c2})
=============================================================================
