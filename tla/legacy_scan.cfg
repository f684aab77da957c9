\* The session-wide scan (runtime_mode legacy), one session.
CONSTANTS
    s1 = s1  s2 = s2  f1 = f1  f2 = f2  e1 = e1  e2 = e2  e3 = e3  o1 = o1  o2 = o2
    Session = {s1}
    File = {f1, f2}
    Evidence = {e1, e2}
    Assertion = {1, 2}
    LastAssertion = 2
    Obligation = {o1}
    SessionOf <- OneSession
    NoFile = NoFile
    NoObligation = NoObligation
    NoTicket = NoTicket
    Configs <- LegacyOnly
    ClaimShapes <- Shapes
    ActiveStatus <- Active
    WorkStatus <- Verified
    DualWrites <- Never
    Rebuilt = {}
    MaxCites = 2
    MaxTxn = 2
SPECIFICATION Spec
SYMMETRY EvidenceSymmetry
INVARIANTS
    TypeOK
    VerifiedRestsOnNothingStale
    EveryTouchIsTicketed
PROPERTIES
    LineageExplains
    ClaimsFallWithTheirEvidence
