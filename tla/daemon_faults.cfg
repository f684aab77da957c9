\* Two daemons, one of which may be killed at any step; the prompt's client
\* may time out at any step, the other one waits.
CONSTANTS
    p = p  t = t  d1 = d1  d2 = d2
    Hook = {p, t}
    Prompt = {p}
    Daemon = {d1, d2}
    Retries = 1
    Backlog = 1
    Impatient = {p}
    Mortal = {d1}
    Nobody = Nobody
    Unknown = Unknown
SPECIFICATION FairSpec
INVARIANTS
    TypeOK
    HeldIsAwaited
    RunsOnce
PROPERTIES
    LeavesLoopIdle
    HookAdvances
    PromiseSpec
    EveryHookAnswered
