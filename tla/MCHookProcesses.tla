-------------------------- MODULE MCHookProcesses ---------------------------
(***************************************************************************)
(* Small instances of HookProcesses for TLC.                               *)
(***************************************************************************)
EXTENDS HookProcesses, TLC

CONSTANTS p1, p2, p3, p4, f1

Start(resume) ==
    [hook |-> "SessionStart", resume |-> resume, write |-> FALSE, files |-> {}]
Prompt(write) ==
    [hook |-> "UserPromptSubmit", resume |-> FALSE, write |-> write, files |-> {}]
Tool(F) == [hook |-> "PostToolUse", resume |-> FALSE, write |-> FALSE, files |-> F]
End == [hook |-> "SessionEnd", resume |-> FALSE, write |-> FALSE, files |-> {}]

AllJobs ==
    {Start(TRUE), Start(FALSE), Prompt(TRUE), Prompt(FALSE), Tool({f1}), End}
EndingJobs == {Tool({f1}), End}

ProcSymmetry == Permutations(Proc)
=============================================================================
