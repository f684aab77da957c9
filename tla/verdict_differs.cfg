\* A claim about a file that is touched, under one of two obligations.
CONSTANTS
    o1 = o1  o2 = o2  c1 = c1  c2 = c2
    Obligation = {o1, o2}
    Claim = {c1, c2}
    Evidence = {1}
    Polarity <- Good
    NoObligation = NoObligation
    Nothing = Nothing
    Upserts <- Claims
    Limit = 1
    MaxFamilies <- OneUnderFirst
    MaxWrites = 3
    MaxOvertaken = 1
    NoRow = NoRow  NoCache = NoCache  NoCapsule = NoCapsule
SPECIFICATION Spec
SYMMETRY ClaimSymmetry
INVARIANT PassesAsFullWould
