-------------------------- MODULE HookProcessesProofs --------------------------
(***************************************************************************)
(* Proofs about HookProcesses, for any number of hook processes.           *)
(***************************************************************************)
EXTENDS HookProcesses, TLAPS

(***************************************************************************)
(* The two ways a process moves: it reads on, or it finishes.              *)
(***************************************************************************)
LEMMA ReadTyped ==
    ASSUME TypeOK, NEW p \in Proc, NEW found \in Local, NEW next \in Steps,
           Read(p, found, next)
    PROVE  /\ UNCHANGED <<rows, tree, job, response>>
           /\ pc' \in [Proc -> Steps] /\ local' \in [Proc -> Local]
BY DEF TypeOK, Read

LEMMA FinishTyped ==
    ASSUME TypeOK, NEW p \in Proc, NEW r \in {"none", "allow", "block"}, Finish(p, r)
    PROVE  /\ UNCHANGED <<tree, job>>
           /\ pc' \in [Proc -> Steps] /\ local' \in [Proc -> Local]
           /\ response' \in [Proc -> {"none", "allow", "block"}]
<1>1. Unread \in Local
  BY ProcessAssumption DEF Unread, Local
<1>. QED
  BY <1>1 DEF TypeOK, Finish, Steps

(***************************************************************************)
(* What the rows, the worktree and the processes can hold, apart from the  *)
(* history variable.                                                       *)
(***************************************************************************)
RowsTyped ==
    /\ session \in BOOLEAN
    /\ repo \in {"none", "clean", "dirty"}
    /\ gate \in {"none", "open", "blocked"}
    /\ live \subseteq Proc
    /\ baseline \in Frontier \cup {NoFrontier}
    /\ events \subseteq Proc

ProcessesTyped ==
    /\ tree \in Worktree
    /\ job \in [Proc -> Job]
    /\ pc \in [Proc -> Steps]
    /\ local \in [Proc -> Local]
    /\ response \in [Proc -> {"none", "allow", "block"}]

(***************************************************************************)
(* The steps that read and go on.                                          *)
(***************************************************************************)
ReadingAction(p) ==
    \/ StartLoads(p) \/ StartInspects(p)
    \/ PromptReadsGate(p) \/ PromptReadsRepo(p) \/ PromptReadsTickets(p)
    \/ PromptReadsBaseline(p) \/ PromptInspects(p) \/ PromptListsFiles(p)
    \/ PromptObserves(p) \/ PromptCompiles(p)
    \/ EndLoadsRepo(p) \/ EndLoadsEvents(p)

ReadingStep(p) == Running(p) /\ \E found \in Local, next \in Steps : Read(p, found, next)

LEMMA ReadingSteps ==
    ASSUME TypeOK, NEW p \in Proc, ReadingAction(p)
    PROVE  ReadingStep(p)
<1>1. local[p] \in Local
  BY DEF TypeOK
<1>. DEFINE ReadsOn == \E found \in Local, next \in Steps : Read(p, found, next)
<1>2. ASSUME StartLoads(p) PROVE ReadsOn
  <2>1. [local[p] EXCEPT !.session = session] \in Local
    BY <1>1 DEF TypeOK, Local
  <2>. QED  BY <1>2, <2>1 DEF StartLoads, Steps
<1>3. ASSUME StartInspects(p) \/ PromptInspects(p) PROVE ReadsOn
  <2>1. [local[p] EXCEPT !.head = tree.head, !.dirty = Dirty] \in Local
    BY <1>1 DEF TypeOK, Local, Worktree, Dirty
  <2>. QED  BY <1>3, <2>1 DEF StartInspects, PromptInspects, Steps
<1>4. ASSUME PromptReadsGate(p) PROVE ReadsOn
  <2>1. [local[p] EXCEPT !.gate = gate] \in Local
    BY <1>1 DEF TypeOK, Local
  <2>. QED  BY <1>4, <2>1 DEF PromptReadsGate, Steps
<1>5. ASSUME PromptReadsRepo(p) \/ EndLoadsRepo(p) PROVE ReadsOn
  <2>1. [local[p] EXCEPT !.repo = repo] \in Local
    BY <1>1 DEF TypeOK, Local
  <2>. QED  BY <1>5, <2>1 DEF PromptReadsRepo, EndLoadsRepo, Steps
<1>6. ASSUME PromptReadsTickets(p) \/ PromptObserves(p) \/ PromptCompiles(p) PROVE ReadsOn
  <2>1. [local[p] EXCEPT !.live = live] \in Local
    BY <1>1 DEF TypeOK, Local
  <2>. QED  BY <1>6, <2>1 DEF PromptReadsTickets, PromptObserves, PromptCompiles, Steps
<1>7. ASSUME PromptReadsBaseline(p) PROVE ReadsOn
  <2>1. [local[p] EXCEPT !.expected = baseline] \in Local
    BY <1>1 DEF TypeOK, Local
  <2>. QED  BY <1>7, <2>1 DEF PromptReadsBaseline, Steps
<1>8. ASSUME PromptListsFiles(p) PROVE ReadsOn
  <2>1. [local[p] EXCEPT !.changed = tree.changed] \in Local
    BY <1>1 DEF TypeOK, Local, Worktree
  <2>. QED  BY <1>8, <2>1 DEF PromptListsFiles, Steps
<1>9. ASSUME EndLoadsEvents(p) PROVE ReadsOn
  <2>1. [local[p] EXCEPT !.events = events] \in Local
    BY <1>1 DEF TypeOK, Local
  <2>. QED  BY <1>9, <2>1 DEF EndLoadsEvents, Steps
<1>10. Running(p)
  BY DEF ReadingAction, Running, At, StartLoads, StartInspects, PromptReadsGate,
         PromptReadsRepo, PromptReadsTickets, PromptReadsBaseline, PromptInspects,
         PromptListsFiles, PromptObserves, PromptCompiles, EndLoadsRepo, EndLoadsEvents
<1>. QED
  BY <1>2, <1>3, <1>4, <1>5, <1>6, <1>7, <1>8, <1>9, <1>10 DEF ReadingAction, ReadingStep

(***************************************************************************)
(* The steps that end a process, with the rows they leave.                 *)
(***************************************************************************)
EndingStep(p) ==
    \/ \E collected \in BOOLEAN : StartCommits(p, collected)
    \/ PromptRefused(p)
    \/ \E audit \in BOOLEAN : PromptCommits(p, audit) \/ PromptStores(p, audit)
    \/ \E invalidates \in BOOLEAN : ToolCommits(p, invalidates)
    \/ EndCommits(p)
    \/ \E logged \in BOOLEAN : Fail(p, logged)
    \/ Kill(p)

LEMMA EndingSteps ==
    ASSUME TypeOK, NEW p \in Proc, EndingStep(p)
    PROVE  /\ RowsTyped'
           /\ \E r \in {"none", "allow", "block"} : Finish(p, r)
<1>1. ASSUME NEW collected \in BOOLEAN, StartCommits(p, collected)
      PROVE  RowsTyped' /\ Finish(p, "allow")
  <2>1. [head |-> tree.head, dirty |-> Dirty, changed |-> tree.changed, live |-> live]
          \in Frontier
    BY DEF TypeOK, Frontier, Worktree, Dirty
  <2>. QED
    BY <1>1, <2>1 DEF StartCommits, TypeOK, RowsTyped
<1>2. CASE PromptRefused(p)
  BY <1>2 DEF PromptRefused, TypeOK, RowsTyped
<1>3. ASSUME NEW audit \in BOOLEAN, PromptCommits(p, audit) \/ PromptStores(p, audit)
      PROVE  RowsTyped' /\ \E r \in {"none", "allow", "block"} : Finish(p, r)
  BY <1>3 DEF PromptCommits, PromptStores, CommittedVerdict, Verdict, TypeOK, RowsTyped
<1>4. ASSUME NEW invalidates \in BOOLEAN, ToolCommits(p, invalidates)
      PROVE  RowsTyped' /\ Finish(p, "allow")
  BY <1>4 DEF ToolCommits, TypeOK, RowsTyped
<1>5. CASE EndCommits(p)
  <2>1. local[p].repo \in {"none", "clean", "dirty"} /\ local[p].events \subseteq Proc
    BY DEF TypeOK, Local
  <2>. QED
    BY <1>5, <2>1 DEF EndCommits, GateKept, TypeOK, RowsTyped
<1>6. ASSUME NEW logged \in BOOLEAN, Fail(p, logged)
      PROVE  RowsTyped' /\ \E r \in {"none", "allow", "block"} : Finish(p, r)
  BY <1>6 DEF Fail, TypeOK, RowsTyped
<1>7. CASE Kill(p)
  BY <1>7 DEF Kill, rows, TypeOK, RowsTyped
<1>. QED
  BY <1>1, <1>2, <1>3, <1>4, <1>5, <1>6, <1>7 DEF EndingStep

LEMMA StepActions ==
    ASSUME Actions
    PROVE  \/ \E p \in Proc : ReadingAction(p) \/ EndingStep(p)
           \/ \E p \in Proc, j \in Jobs : Launch(p, j)
           \/ Outside
BY DEF Actions, Step, EndingStep, ReadingAction, Rejected

LEMMA StepCases ==
    ASSUME TypeOK, Actions
    PROVE  \/ \E p \in Proc : ReadingStep(p) \/ EndingStep(p)
           \/ \E p \in Proc, j \in Jobs : Launch(p, j)
           \/ Outside
BY StepActions, ReadingSteps

(***************************************************************************)
(* Theorem.  The rows, the processes and what they have read are well      *)
(* formed, whatever fails and whatever changes meanwhile.                  *)
(***************************************************************************)
THEOREM HooksTypeCorrect == Spec => []TypeOK
<1>1. Init => TypeOK
  <2>. SUFFICES ASSUME Init PROVE TypeOK
    OBVIOUS
  <2>1. Unread \in Local /\ NoJob \in Job
    BY ProcessAssumption DEF Unread, Local, NoJob, Job, Hook
  <2>2. tree \in Worktree
    BY ProcessAssumption DEF Init, Worktree
  <2>3. /\ local \in [Proc -> Local] /\ job \in [Proc -> Job]
        /\ pc \in [Proc -> Steps]
    BY <2>1 DEF Init, Steps
  <2>. QED
    BY <2>2, <2>3 DEF Init, TypeOK
<1>2. TypeOK /\ [Next]_vars => TypeOK'
  <2>. SUFFICES ASSUME TypeOK, [Next]_vars PROVE TypeOK'
    OBVIOUS
  <2>1. CASE Next
    <3>1. saw' \in [Proc -> SUBSET {"open", "clean", "unticketed"}]
      <4>1. Holding' \subseteq {"open", "clean", "unticketed"}
        BY DEF Holding
      <4>. QED
        BY <2>1, <4>1 DEF Next, Observed, TypeOK
    <3>2. ASSUME NEW p \in Proc, ReadingStep(p)
          PROVE  RowsTyped' /\ ProcessesTyped'
      <4>1. UNCHANGED <<rows, tree, job, response>>
            /\ pc' \in [Proc -> Steps] /\ local' \in [Proc -> Local]
        BY <3>2, ReadTyped DEF ReadingStep
      <4>. QED
        BY <4>1 DEF TypeOK, rows, RowsTyped, ProcessesTyped
    <3>3. ASSUME NEW p \in Proc, EndingStep(p)
          PROVE  RowsTyped' /\ ProcessesTyped'
      <4>1. PICK r \in {"none", "allow", "block"} : Finish(p, r)
        BY <3>3, EndingSteps
      <4>2. RowsTyped'
        BY <3>3, EndingSteps
      <4>3. /\ UNCHANGED <<tree, job>>
            /\ pc' \in [Proc -> Steps] /\ local' \in [Proc -> Local]
            /\ response' \in [Proc -> {"none", "allow", "block"}]
        BY <4>1, FinishTyped
      <4>. QED
        BY <4>2, <4>3 DEF TypeOK, ProcessesTyped
    <3>4. ASSUME NEW p \in Proc, NEW j \in Jobs, Launch(p, j)
          PROVE  RowsTyped' /\ ProcessesTyped'
      <4>1. j \in Job /\ j.files \subseteq File
        BY ProcessAssumption DEF Job
      <4>2. tree' \in Worktree
        BY <3>4, <4>1 DEF Launch, TypeOK, Worktree
      <4>. QED
        BY <3>4, <4>1, <4>2 DEF Launch, rows, TypeOK, Steps, RowsTyped, ProcessesTyped
    <3>5. ASSUME Outside
          PROVE  RowsTyped' /\ ProcessesTyped'
      <4>1. tree' \in Worktree
        BY <3>5, ProcessAssumption DEF Outside, TypeOK, Worktree
      <4>2. UNCHANGED rows /\ UNCHANGED process
        BY <3>5 DEF Outside
      <4>3. RowsTyped'
        BY <4>2 DEF rows, TypeOK, RowsTyped
      <4>4. ProcessesTyped'
        BY <4>1, <4>2 DEF process, TypeOK, ProcessesTyped
      <4>. QED
        BY <4>3, <4>4
    <3>6. \/ \E p \in Proc : ReadingStep(p) \/ EndingStep(p)
          \/ \E p \in Proc, j \in Jobs : Launch(p, j)
          \/ Outside
      BY <2>1, StepCases DEF Next
    <3>7. RowsTyped' /\ ProcessesTyped'
      BY <3>2, <3>3, <3>4, <3>5, <3>6
    <3>. QED
      BY <3>1, <3>7 DEF TypeOK, RowsTyped, ProcessesTyped
  <2>2. CASE UNCHANGED vars
    BY <2>2 DEF vars, TypeOK
  <2>. QED
    BY <2>1, <2>2
<1>. QED
  BY <1>1, <1>2, PTL DEF Spec

-----------------------------------------------------------------------------
(***************************************************************************)
(* A step of one process leaves the others where they are, and a response  *)
(* is given in the step that ends the process.                             *)
(***************************************************************************)
Unmoved(p) ==
    /\ job'[p] = job[p] /\ pc'[p] = pc[p]
    /\ local'[p] = local[p] /\ response'[p] = response[p]

LEMMA OthersUnmoved ==
    ASSUME TypeOK, NEW p \in Proc, NEW q \in Proc, q # p,
           \/ ReadingStep(q) \/ EndingStep(q)
           \/ \E j \in Jobs : Launch(q, j)
    PROVE  Unmoved(p)
<1>1. CASE ReadingStep(q)
  BY <1>1 DEF ReadingStep, Read, TypeOK, Unmoved
<1>2. CASE EndingStep(q)
  BY <1>2, EndingSteps DEF Finish, TypeOK, Unmoved
<1>3. CASE \E j \in Jobs : Launch(q, j)
  BY <1>3 DEF Launch, TypeOK, Unmoved
<1>. QED
  BY <1>1, <1>2, <1>3

LEMMA RespondingStep ==
    ASSUME TypeOK, Actions, NEW p \in Proc, response'[p] # response[p]
    PROVE  EndingStep(p)
<1>1. CASE \E q \in Proc : ReadingStep(q)
  BY <1>1 DEF ReadingStep, Read
<1>2. CASE \E q \in Proc : EndingStep(q)
  BY <1>2, OthersUnmoved DEF Unmoved
<1>3. CASE \E q \in Proc, j \in Jobs : Launch(q, j)
  BY <1>3 DEF Launch
<1>4. CASE Outside
  BY <1>4 DEF Outside, process
<1>. QED
  BY <1>1, <1>2, <1>3, <1>4, StepCases

(***************************************************************************)
(* Who lets a prompt through: its own commit, or its own store.            *)
(***************************************************************************)
LEMMA WhoAllows ==
    ASSUME TypeOK, NEW p \in Proc, EndingStep(p),
           job[p].hook = "UserPromptSubmit", response'[p] = "allow"
    PROVE  \/ pc[p] = "write" /\ live = {}
           \/ pc[p] = "store" /\ local[p].live = {}
<1>1. \A r : Finish(p, r) => response'[p] = r
  BY DEF Finish, TypeOK
<1>2. ASSUME NEW audit \in BOOLEAN, PromptCommits(p, audit)
      PROVE  pc[p] = "write" /\ live = {}
  BY <1>1, <1>2 DEF PromptCommits, CommittedVerdict, Verdict, At
<1>3. ASSUME NEW audit \in BOOLEAN, PromptStores(p, audit)
      PROVE  pc[p] = "store" /\ local[p].live = {}
  BY <1>1, <1>3 DEF PromptStores, At
<1>4. ~PromptRefused(p) /\ ~Kill(p) /\ \A logged \in BOOLEAN : ~Fail(p, logged)
  BY <1>1 DEF PromptRefused, Kill, Fail
<1>5. /\ \A collected \in BOOLEAN : ~StartCommits(p, collected)
      /\ \A invalidates \in BOOLEAN : ~ToolCommits(p, invalidates)
      /\ ~EndCommits(p)
  BY DEF StartCommits, ToolCommits, EndCommits, At
<1>. QED
  BY <1>2, <1>3, <1>4, <1>5 DEF EndingStep

(***************************************************************************)
(* Theorem.  A prompt whose freshness row took the write lock is never let *)
(* through by a commit that finds a live ticket.                           *)
(***************************************************************************)
THEOREM CommitsAreUnticketed == Spec => AllowedCommitUnticketed
<1>1. TypeOK /\ [Next]_vars
        => [\A p \in Proc : AllowsAPrompt(p) /\ pc[p] = "write" => live = {}]_vars
  <2>. SUFFICES ASSUME TypeOK, Next, NEW p \in Proc, AllowsAPrompt(p), pc[p] = "write"
                PROVE  live = {}
    OBVIOUS
  <2>1. EndingStep(p)
    BY RespondingStep DEF Next, AllowsAPrompt
  <2>. QED
    BY <2>1, WhoAllows DEF AllowsAPrompt
<1>. QED
  BY <1>1, HooksTypeCorrect, PTL DEF Spec, AllowedCommitUnticketed

(***************************************************************************)
(* Theorem.  Nothing but the commit of a SessionStart that found no live   *)
(* ticket reopens a blocked gate.                                          *)
(***************************************************************************)
THEOREM GateIsOpenedByStart == Spec => GateOpensAtStartOnly
<1>1. ASSUME TypeOK, NEW p \in Proc, EndingStep(p), GateReopens
      PROVE  live = {} /\ At(p, "SessionStart", "write") /\ pc'[p] = "done"
  <2>1. ASSUME NEW collected \in BOOLEAN, StartCommits(p, collected)
        PROVE  live = {} /\ At(p, "SessionStart", "write") /\ pc'[p] = "done"
    BY <1>1, <2>1 DEF StartCommits, MustBlock, GateReopens, Finish, TypeOK
  <2>2. ~EndCommits(p)
    BY <1>1 DEF EndCommits, GateKept, GateReopens
  <2>3. /\ ~PromptRefused(p) /\ ~Kill(p)
        /\ \A logged \in BOOLEAN : ~Fail(p, logged)
        /\ \A audit \in BOOLEAN : ~PromptCommits(p, audit) /\ ~PromptStores(p, audit)
        /\ \A invalidates \in BOOLEAN : ~ToolCommits(p, invalidates)
    BY <1>1 DEF PromptRefused, Kill, Fail, PromptCommits, PromptStores, ToolCommits,
                GateReopens, rows
  <2>. QED
    BY <1>1, <2>1, <2>2, <2>3 DEF EndingStep
<1>2. (\E p \in Proc : ReadingStep(p)) \/ (\E p \in Proc, j \in Jobs : Launch(p, j))
        \/ Outside => ~GateReopens
  BY DEF ReadingStep, Read, Launch, Outside, rows, GateReopens
<1>3. TypeOK /\ [Next]_vars
        => [GateReopens =>
              /\ live = {}
              /\ \E p \in Proc : At(p, "SessionStart", "write") /\ pc'[p] = "done"]_vars
  BY <1>1, <1>2, StepCases DEF Next
<1>. QED
  BY <1>3, HooksTypeCorrect, PTL DEF Spec, GateOpensAtStartOnly

-----------------------------------------------------------------------------
(***************************************************************************)
(* What a write prompt knows at each step of its run is covered by what    *)
(* held at some instant of it.  Past the resume gate, all three did.       *)
(***************************************************************************)
Writer(p) == job[p].hook = "UserPromptSubmit" /\ job[p].write

PastTheGate == {"baseline", "inspect", "status", "observe", "write", "compile", "store"}

Covered(p) ==
    /\ pc[p] \in {"repo", "tickets"} /\ local[p].gate # "blocked" => "open" \in saw[p]
    /\ pc[p] = "tickets" /\ local[p].repo # "dirty" => "clean" \in saw[p]
    /\ pc[p] \in PastTheGate \/ response[p] = "allow"
         => {"open", "clean", "unticketed"} \subseteq saw[p]

SilentWhileRunning == \A p \in Proc : pc[p] # "done" => response[p] = "none"

Watched == \A p \in Proc : Writer(p) /\ Running(p) => Holding \subseteq saw[p]

WritersCovered == \A p \in Proc : Writer(p) => Covered(p)

PromptInv == SilentWhileRunning /\ Watched /\ WritersCovered

LEMMA SawGrows ==
    ASSUME TypeOK, Observed
    PROVE  /\ \A p \in Proc : saw[p] \subseteq saw'[p]
           /\ Watched'
BY DEF TypeOK, Observed, Watched, Writer, Running

LEMMA SilenceKept ==
    ASSUME TypeOK, SilentWhileRunning, Actions
    PROVE  SilentWhileRunning'
<1>. SUFFICES ASSUME NEW p \in Proc, pc'[p] # "done"
              PROVE  response'[p] = "none"
  BY DEF SilentWhileRunning
<1>1. ~EndingStep(p)
  BY EndingSteps DEF Finish, TypeOK
<1>2. response'[p] = response[p]
  BY <1>1, RespondingStep
<1>3. pc[p] # "done"
  <2>1. CASE \E q \in Proc : q # p /\ (ReadingStep(q) \/ EndingStep(q) \/ \E j \in Jobs : Launch(q, j))
    BY <2>1, OthersUnmoved DEF Unmoved
  <2>2. CASE ReadingStep(p)
    BY <2>2 DEF ReadingStep, Running
  <2>3. CASE \E j \in Jobs : Launch(p, j)
    BY <2>3 DEF Launch
  <2>4. CASE Outside
    BY <2>4 DEF Outside, process
  <2>. QED
    BY <1>1, <2>1, <2>2, <2>3, <2>4, StepCases
<1>. QED
  BY <1>2, <1>3 DEF SilentWhileRunning

(***************************************************************************)
(* The reads of a write prompt.                                            *)
(***************************************************************************)
LEMMA ReadingCovered ==
    ASSUME TypeOK, PromptInv, NEW p \in Proc, Writer(p), ReadingAction(p),
           saw[p] \subseteq saw'[p]
    PROVE  Covered(p)'
<1>1. Running(p) /\ response[p] = "none"
  BY ReadingSteps DEF ReadingStep, PromptInv, SilentWhileRunning, Running
<1>2. Holding \subseteq saw'[p] /\ Covered(p)
  BY <1>1 DEF PromptInv, Watched, WritersCovered
<1>3. \A found, next : Read(p, found, next) =>
        local'[p] = found /\ pc'[p] = next /\ response'[p] = "none"
  BY <1>1 DEF Read, TypeOK
<1>4. local[p] \in Local
  BY DEF TypeOK
<1>5. CASE PromptReadsGate(p)
  <2>1. local'[p].gate = gate /\ pc'[p] = "repo" /\ response'[p] = "none"
    BY <1>3, <1>4, <1>5 DEF PromptReadsGate, Local
  <2>. QED
    BY <1>2, <2>1 DEF Covered, Holding, PastTheGate
<1>6. CASE PromptReadsRepo(p)
  <2>1. /\ local'[p].gate = local[p].gate /\ local'[p].repo = repo
        /\ pc[p] = "repo" /\ pc'[p] = "tickets" /\ response'[p] = "none"
    BY <1>3, <1>4, <1>6 DEF PromptReadsRepo, At, Local
  <2>. QED
    BY <1>2, <2>1 DEF Covered, Holding, PastTheGate
<1>7. CASE PromptReadsTickets(p)
  <2>1. /\ pc[p] = "tickets" /\ response'[p] = "none"
        /\ pc'[p] = IF GateBlocks(p) THEN "refuse" ELSE "baseline"
    BY <1>3, <1>7 DEF PromptReadsTickets, At, Writer
  <2>2. ~GateBlocks(p) => /\ local[p].gate # "blocked" /\ local[p].repo # "dirty"
                          /\ live = {}
    BY DEF GateBlocks, MustBlock
  <2>3. live = {} => "unticketed" \in saw'[p]
    BY <1>2 DEF Holding
  <2>. QED
    BY <1>2, <2>1, <2>2, <2>3 DEF Covered, PastTheGate
<1>8. CASE PromptReadsBaseline(p) \/ PromptInspects(p) \/ PromptListsFiles(p)
             \/ PromptObserves(p) \/ PromptCompiles(p)
  <2>1. pc[p] \in PastTheGate /\ pc'[p] \in PastTheGate /\ response'[p] = "none"
    BY <1>3, <1>8 DEF PromptReadsBaseline, PromptInspects, PromptListsFiles,
                      PromptObserves, PromptCompiles, At, PastTheGate
  <2>. QED
    BY <1>2, <2>1 DEF Covered, PastTheGate
<1>9. ~StartLoads(p) /\ ~StartInspects(p) /\ ~EndLoadsRepo(p) /\ ~EndLoadsEvents(p)
  BY DEF StartLoads, StartInspects, EndLoadsRepo, EndLoadsEvents, At, Writer
<1>. QED
  BY <1>5, <1>6, <1>7, <1>8, <1>9 DEF ReadingAction

LEMMA WriterStepCovered ==
    ASSUME TypeOK, PromptInv, Actions, NEW p \in Proc, Writer(p)',
           saw[p] \subseteq saw'[p]
    PROVE  Covered(p)'
<1>1. CASE Unmoved(p)
  BY <1>1 DEF Unmoved, Covered, Writer, PromptInv, WritersCovered
<1>2. CASE ReadingAction(p)
  <2>1. job' = job
    BY <1>2, ReadingSteps DEF ReadingStep, Read
  <2>. QED
    BY <1>2, <2>1, ReadingCovered DEF Writer
<1>3. CASE EndingStep(p)
  <2>1. job' = job /\ pc'[p] = "done"
    BY <1>3, EndingSteps DEF Finish, TypeOK
  <2>2. response'[p] = "allow" => pc[p] \in {"write", "store"}
    BY <1>3, <2>1, WhoAllows DEF Writer
  <2>. QED
    BY <2>1, <2>2 DEF Covered, PastTheGate, Writer, PromptInv, WritersCovered
<1>4. CASE \E j \in Jobs : Launch(p, j)
  <2>1. pc[p] = "idle" /\ pc'[p] = "begin" /\ response' = response
    BY <1>4 DEF Launch, TypeOK
  <2>. QED
    BY <2>1 DEF Covered, PastTheGate, PromptInv, SilentWhileRunning
<1>5. CASE Outside
  BY <1>1, <1>5 DEF Outside, process, Unmoved
<1>6. CASE \E q \in Proc : q # p /\ (ReadingAction(q) \/ EndingStep(q) \/ \E j \in Jobs : Launch(q, j))
  BY <1>1, <1>6, ReadingSteps, OthersUnmoved
<1>. QED
  BY <1>2, <1>3, <1>4, <1>5, <1>6, StepActions

(***************************************************************************)
(* Theorem.  No refusal that held from before a write prompt to its end    *)
(* is missed: a prompt let through saw, at some instant of its run each,   *)
(* an open gate, a tree not recorded dirty and no live ticket.             *)
(***************************************************************************)
THEOREM AllowedWritesWereSafe == Spec => []AllowedWriteWasSafe
<1>1. Init => PromptInv
  BY DEF Init, PromptInv, SilentWhileRunning, Watched, WritersCovered, Writer, NoJob
<1>2. TypeOK /\ PromptInv /\ [Next]_vars => PromptInv'
  <2>. SUFFICES ASSUME TypeOK, PromptInv, [Next]_vars PROVE PromptInv'
    OBVIOUS
  <2>1. CASE Next
    <3>1. SilentWhileRunning'
      BY <2>1, SilenceKept DEF Next, PromptInv
    <3>2. (\A p \in Proc : saw[p] \subseteq saw'[p]) /\ Watched'
      BY <2>1, SawGrows DEF Next
    <3>3. WritersCovered'
      BY <2>1, <3>2, WriterStepCovered DEF Next, WritersCovered
    <3>. QED
      BY <3>1, <3>2, <3>3 DEF PromptInv
  <2>2. CASE UNCHANGED vars
    <3>1. UNCHANGED <<job, pc, local, response, saw>> /\ Holding' = Holding
      BY <2>2 DEF vars, Holding
    <3>. QED
      BY <3>1 DEF PromptInv, SilentWhileRunning, Watched, WritersCovered, Covered,
                  Writer, Running
  <2>. QED
    BY <2>1, <2>2
<1>3. TypeOK /\ PromptInv => AllowedWriteWasSafe
  BY DEF TypeOK, PromptInv, WritersCovered, Covered, Writer, AllowedWriteWasSafe
<1>. QED
  BY <1>1, <1>2, <1>3, HooksTypeCorrect, PTL DEF Spec

=============================================================================
