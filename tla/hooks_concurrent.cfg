\* Three hook processes of any kind over one session.
CONSTANTS
    p1 = p1  p2 = p2  p3 = p3  p4 = p4  f1 = f1
    Proc = {p1, p2, p3}
    File = {f1}
    Jobs <- AllJobs
    ReverseIndex = TRUE
    NoFrontier = NoFrontier
    MaxHead = 1
SPECIFICATION Spec
SYMMETRY ProcSymmetry
INVARIANTS
    TypeOK
    AllowedWriteWasSafe
PROPERTIES
    AllowedCommitUnticketed
    GateOpensAtStartOnly
CHECK_DEADLOCK FALSE
