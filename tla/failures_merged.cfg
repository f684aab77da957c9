\* Three recorders that overtake each other and an operator's resets.
CONSTANTS
    r1 = r1  r2 = r2  r3 = r3  f1 = f1  f2 = f2  s1 = s1  s2 = s2
    Recorder = {r1, r2, r3}
    Signature = {s1, s2}
    Family = {f1, f2}
    MaxFailures = 3
    Nobody = Nobody
    NoRow = NoRow
SPECIFICATION Spec
SYMMETRY Symmetry
INVARIANTS
    TypeOK
    FailuresCounted
    NeverOvercounted
