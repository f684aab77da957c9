\* Commands killed at any step or not, from no flags file or one written by hand.
CONSTANTS
    h1 = h1  h2 = h2
    Hook = {h1, h2}
    Faults = {"kill", "by hand"}
    Unset = Unset
SPECIFICATION Spec
SYMMETRY Symmetric
INVARIANTS
    TypeOK
    CompilerHasProjections
    StageIsInForce
    FlagsAreOfOneStage
PROPERTIES
    ClientAgrees
