\* The reverse index with every agent write dual-written.
CONSTANTS
    s1 = s1  s2 = s2  f1 = f1  f2 = f2  e1 = e1  e2 = e2  e3 = e3  o1 = o1  o2 = o2
    Session = {s1}
    File = {f1}
    Evidence = {e1, e2}
    Assertion = {1, 2}
    LastAssertion = 2
    Obligation = {o1}
    SessionOf <- OneSession
    NoFile = NoFile
    NoObligation = NoObligation
    NoTicket = NoTicket
    Configs <- ReverseIndexOnly
    ClaimShapes <- Shapes
    ActiveStatus <- Active
    WorkStatus <- Work
    DualWrites <- Always
    Rebuilt = {s1}
    MaxCites = 1
    MaxTxn = 2
SPECIFICATION Spec
INVARIANT ProjectionsInSync
