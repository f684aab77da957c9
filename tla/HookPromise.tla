----------------------------- MODULE HookPromise -----------------------------
(***************************************************************************)
(* What a hook promises the agent that calls it, whoever executes it: its  *)
(* handler may be run, by each executor once; the answer is the verdict of *)
(* a run, or the failing answer, which blocks a prompt; and there is one.  *)
(***************************************************************************)
CONSTANTS
    Hook,         \* invocations of a hook
    Executor,     \* who may run a handler
    Verdicts,     \* Verdicts[h]: what the handler of h may say
    FailAnswer,   \* FailAnswer[h]: the answer of h when it fails
    Unknown

VARIABLES
    ran,          \* ran[h][e]: the verdict e committed for h, or Unknown
    answer        \* answer[h]: what the agent was told, or Unknown

Init ==
    /\ ran = [h \in Hook |-> [e \in Executor |-> Unknown]]
    /\ answer = [h \in Hook |-> Unknown]

Run(h) ==
    \E e \in Executor, v \in Verdicts[h] :
        /\ ran[h][e] = Unknown
        /\ ran' = [ran EXCEPT ![h][e] = v]

Answer(h) ==
    /\ answer[h] = Unknown
    /\ answer' = [answer EXCEPT ![h] = FailAnswer[h]]
       \/ \E e \in Executor : /\ ran'[h][e] # Unknown
                              /\ answer' = [answer EXCEPT ![h] = ran'[h][e]]

(***************************************************************************)
(* An executor may commit and answer in one step.                          *)
(***************************************************************************)
Next ==
    \E h \in Hook :
        \/ Run(h) /\ UNCHANGED answer
        \/ Answer(h) /\ UNCHANGED ran
        \/ Run(h) /\ Answer(h)

Spec == Init /\ [][Next]_<<ran, answer>>

(***************************************************************************)
(* A hook is answered.                                                     *)
(***************************************************************************)
Answered(h) == <>(answer[h] # Unknown)
=============================================================================
