\* Ends of the session and a tool call overlap; the first end creates the row.
CONSTANTS
    p1 = p1  p2 = p2  p3 = p3  p4 = p4  f1 = f1
    Proc = {p1, p2, p3}
    File = {f1}
    Jobs <- EndingJobs
    ReverseIndex = TRUE
    NoFrontier = NoFrontier
    MaxHead = 1
SPECIFICATION Spec
PROPERTY DirtyLasts
CHECK_DEADLOCK FALSE
