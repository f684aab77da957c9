\* Boots of every database there is: one after the other or overlapping,
\* killed at any step or not.
CONSTANTS
    p1 = p1  p2 = p2  p3 = p3
    Process = {p1, p2}
    Faults = {"kill", "overlap"}
SPECIFICATION FairSpec
INVARIANTS
    TypeOK
    BootDoesNotFail
    ReadyIsMigrated
PROPERTIES
    VersionSpec
    BootAdvances
    BootEnds
