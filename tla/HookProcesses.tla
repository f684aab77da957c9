--------------------------- MODULE HookProcesses ----------------------------
(***************************************************************************)
(* The four hooks as concurrent processes over one session's rows.         *)
(*                                                                         *)
(* Claude Code runs every hook as a process of its own; nothing but        *)
(* SQLite's write lock orders them.  A connection in Python's default      *)
(* isolation level reads outside a transaction until its first INSERT,     *)
(* UPDATE or DELETE, and from there to commit it holds the write lock.  So *)
(* each SELECT before the first write is an action here (as is each call   *)
(* of git), and everything from the first write to the commit is one.      *)
(*                                                                         *)
(* A process may fail at any step (an exception: busy_timeout exceeded, a  *)
(* missing session row, a full disk) or be killed; its transaction is then *)
(* rolled back.                                                            *)
(*                                                                         *)
(* Compilation is the full compiler's (runtime_mode legacy), whose audit   *)
(* refuses a capsule as soon as the session has a live evidence or         *)
(* assertion ticket.  What else the audit looks at is a free choice.       *)
(***************************************************************************)
EXTENDS Naturals, FiniteSets

CONSTANTS
    Proc,          \* hook invocations
    File,          \* paths git status may list
    Jobs,          \* the invocations that occur
    ReverseIndex,  \* the enable_reverse_index flag
    NoFrontier,    \* no session_start row in freshness_frontiers
    MaxHead        \* bound: commits

Hook == {"SessionStart", "UserPromptSubmit", "PostToolUse", "SessionEnd"}

(***************************************************************************)
(* An invocation: the hook, whether its source is resume or compact,       *)
(* whether its prompt is a write risk, and the files its tool changed.     *)
(***************************************************************************)
Job == [hook : Hook, resume : BOOLEAN, write : BOOLEAN, files : SUBSET File]

ASSUME ProcessAssumption ==
    /\ Jobs \subseteq Job
    /\ ReverseIndex \in BOOLEAN
    /\ MaxHead \in Nat

VARIABLES
    session,    \* whether the sessions row exists
    repo,       \* repo_state: no row, clean or dirty
    gate,       \* resume_gate_state: no row, open or blocked
    live,       \* the tool calls that left live tickets
    baseline,   \* the latest session_start row of freshness_frontiers
    events,     \* the invocations with an event row
    tree,       \* the git worktree: HEAD and the files status lists
    job,        \* job[p]
    pc,         \* pc[p]
    local,      \* local[p]: what the process has read
    response,   \* response[p]: "none" until the hook prints one
    saw         \* history: what held at some instant of the run of p

rows == <<session, repo, gate, live, baseline, events>>
process == <<job, pc, local, response>>
vars == <<session, repo, gate, live, baseline, events, tree, job, pc, local,
          response, saw>>

Worktree == [head : 0 .. MaxHead, changed : SUBSET File]
Frontier == [head : 0 .. MaxHead, dirty : BOOLEAN, changed : SUBSET File,
             live : SUBSET Proc]
Local == [session : BOOLEAN, repo : {"none", "clean", "dirty"},
          gate : {"none", "open", "blocked"}, live : SUBSET Proc,
          expected : Frontier \cup {NoFrontier},
          head : 0 .. MaxHead, dirty : BOOLEAN, changed : SUBSET File,
          events : SUBSET Proc]

Unread == [session |-> FALSE, repo |-> "none", gate |-> "none", live |-> {},
           expected |-> NoFrontier, head |-> 0, dirty |-> FALSE, changed |-> {},
           events |-> {}]
NoJob == [hook |-> "PostToolUse", resume |-> FALSE, write |-> FALSE, files |-> {}]

Dirty == tree.changed # {}

(***************************************************************************)
(* ResumeGateService.evaluate: whether the gate is to block.               *)
(***************************************************************************)
MustBlock(resume, dirty, tickets) == resume \/ dirty \/ tickets # {}

Running(p) == pc[p] \notin {"idle", "done"}

Init ==
    /\ session = FALSE
    /\ repo = "none"
    /\ gate = "none"
    /\ live = {}
    /\ baseline = NoFrontier
    /\ events = {}
    /\ tree = [head |-> 0, changed |-> {}]
    /\ job = [p \in Proc |-> NoJob]
    /\ pc = [p \in Proc |-> "idle"]
    /\ local = [p \in Proc |-> Unread]
    /\ response = [p \in Proc |-> "none"]
    /\ saw = [p \in Proc |-> {}]

-----------------------------------------------------------------------------
(***************************************************************************)
(* Steps of a process.  Read moves it to its next step with new locals;    *)
(* Finish ends it with a response.                                         *)
(***************************************************************************)
At(p, hook, step) == pc[p] = step /\ job[p].hook = hook

Read(p, found, next) ==
    /\ local' = [local EXCEPT ![p] = found]
    /\ pc' = [pc EXCEPT ![p] = next]
    /\ UNCHANGED <<rows, tree, job, response>>

Finish(p, r) ==
    /\ pc' = [pc EXCEPT ![p] = "done"]
    /\ response' = [response EXCEPT ![p] = r]
    /\ local' = [local EXCEPT ![p] = Unread]
    /\ UNCHANGED <<tree, job>>

(***************************************************************************)
(* Claude Code starts a hook.  A tool has changed its files by then.       *)
(***************************************************************************)
Launch(p, j) ==
    /\ pc[p] = "idle"
    /\ job' = [job EXCEPT ![p] = j]
    /\ pc' = [pc EXCEPT ![p] = "begin"]
    /\ tree' = [tree EXCEPT !.changed = @ \cup j.files]
    /\ UNCHANGED <<rows, local, response>>

(***************************************************************************)
(* The worktree changes behind the runtime's back: an editor, a commit.    *)
(***************************************************************************)
Outside ==
    /\ \/ \E f \in File : tree' = [tree EXCEPT !.changed = @ \cup {f}]
       \/ /\ tree.head < MaxHead
          /\ tree' = [head |-> tree.head + 1, changed |-> {}]
    /\ UNCHANGED <<rows, process>>

-----------------------------------------------------------------------------
(***************************************************************************)
(* SessionBootstrapService.load_or_create.                                 *)
(***************************************************************************)
StartLoads(p) ==
    /\ At(p, "SessionStart", "begin")
    /\ Read(p, [local[p] EXCEPT !.session = session], "inspect")

StartInspects(p) ==
    /\ At(p, "SessionStart", "inspect")
    /\ Read(p, [local[p] EXCEPT !.head = tree.head, !.dirty = Dirty], "write")

StartCommits(p, collected) ==
    /\ At(p, "SessionStart", "write")
    /\ local[p].session = session
    /\ session' = TRUE
    /\ repo' = IF local[p].dirty THEN "dirty" ELSE "clean"
    /\ gate' = IF MustBlock(job[p].resume, local[p].dirty, live)
               THEN "blocked" ELSE "open"
    /\ baseline' = IF collected
                   THEN [head |-> tree.head, dirty |-> Dirty,
                         changed |-> tree.changed, live |-> live]
                   ELSE baseline
    /\ events' = events \cup {p}
    /\ UNCHANGED live
    /\ Finish(p, "allow")

-----------------------------------------------------------------------------
(***************************************************************************)
(* UserPromptSubmitService.handle, phase 2: the resume gate.  The stored   *)
(* gate wins over a fresh evaluation that would not block.                 *)
(***************************************************************************)
PromptReadsGate(p) ==
    /\ At(p, "UserPromptSubmit", "begin")
    /\ Read(p, [local[p] EXCEPT !.gate = gate], "repo")

PromptReadsGateRow(p) ==    \* mutant: the row of the wrong table
    /\ At(p, "UserPromptSubmit", "repo")
    /\ Read(p, [local[p] EXCEPT !.repo = gate], "tickets")

PromptReadsRepo(p) ==
    /\ At(p, "UserPromptSubmit", "repo")
    /\ Read(p, [local[p] EXCEPT !.repo = repo], "tickets")

EvaluatedGateBlocks(p) ==    \* mutant: a fresh evaluation replaces the stored gate
    MustBlock(job[p].resume, local[p].repo = "dirty", live)

GateBlocks(p) ==
    \/ local[p].gate = "blocked"
    \/ MustBlock(job[p].resume, local[p].repo = "dirty", live)

PromptReadsTickets(p) ==
    /\ At(p, "UserPromptSubmit", "tickets")
    /\ Read(p, [local[p] EXCEPT !.live = live],
            IF GateBlocks(p) /\ job[p].write THEN "refuse" ELSE "baseline")

PromptRefused(p) ==
    /\ At(p, "UserPromptSubmit", "refuse")
    /\ session
    /\ events' = events \cup {p}
    /\ UNCHANGED <<session, repo, gate, live, baseline>>
    /\ Finish(p, "block")

(***************************************************************************)
(* Phase 2.5: the freshness gate compares what it collects with the latest *)
(* session_start frontier; without one it finds no mismatch.               *)
(***************************************************************************)
PromptReadsBaseline(p) ==
    /\ At(p, "UserPromptSubmit", "baseline")
    /\ Read(p, [local[p] EXCEPT !.expected = baseline],
            IF baseline = NoFrontier THEN "compile" ELSE "inspect")

PromptInspects(p) ==
    /\ At(p, "UserPromptSubmit", "inspect")
    /\ Read(p, [local[p] EXCEPT !.head = tree.head, !.dirty = Dirty], "status")

PromptListsFiles(p) ==
    /\ At(p, "UserPromptSubmit", "status")
    /\ Read(p, [local[p] EXCEPT !.changed = tree.changed], "observe")

PromptObserves(p) ==
    /\ At(p, "UserPromptSubmit", "observe")
    /\ Read(p, [local[p] EXCEPT !.live = live], "write")

Mismatch(p) ==
    \/ local[p].expected.head # local[p].head
    \/ local[p].expected.dirty # local[p].dirty
    \/ local[p].expected.changed # local[p].changed
    \/ ~(local[p].live \subseteq local[p].expected.live)

(***************************************************************************)
(* Saving the collected frontier takes the write lock, so phase 3 compiles *)
(* and audits what is committed at that instant.                           *)
(***************************************************************************)
Verdict(p, tickets, audit) ==
    IF (Mismatch(p) /\ job[p].write) \/ tickets # {} \/ ~audit THEN "block" ELSE "allow"

ObservedVerdict(p, audit) ==    \* mutant: compiles from what the freshness gate read
    Verdict(p, local[p].live, audit)

CommittedVerdict(p, audit) == Verdict(p, live, audit)

PromptCommits(p, audit) ==
    /\ At(p, "UserPromptSubmit", "write")
    /\ session
    /\ events' = events \cup {p}
    /\ UNCHANGED <<session, repo, gate, live, baseline>>
    /\ Finish(p, CommittedVerdict(p, audit))

(***************************************************************************)
(* Without a baseline nothing has taken the lock: phase 3 compiles from    *)
(* autocommit reads and only then stores its capsule and event.            *)
(***************************************************************************)
PromptCompiles(p) ==
    /\ At(p, "UserPromptSubmit", "compile")
    /\ Read(p, [local[p] EXCEPT !.live = live], "store")

PromptStores(p, audit) ==
    /\ At(p, "UserPromptSubmit", "store")
    /\ session
    /\ events' = events \cup {p}
    /\ UNCHANGED <<session, repo, gate, live, baseline>>
    /\ Finish(p, IF local[p].live # {} \/ ~audit THEN "block" ELSE "allow")

-----------------------------------------------------------------------------
(***************************************************************************)
(* PostToolUseService.handle: its first statement writes, so it is one     *)
(* transaction (module FileTouchInvalidation says which tickets).          *)
(***************************************************************************)
ToolCommits(p, invalidates) ==
    /\ At(p, "PostToolUse", "begin")
    /\ session
    /\ invalidates => job[p].files # {}
    /\ live' = IF invalidates THEN live \cup {p} ELSE live
    /\ repo' = IF ReverseIndex /\ job[p].files # {} THEN "dirty" ELSE repo
    /\ events' = events \cup {p}
    /\ UNCHANGED <<session, gate, baseline>>
    /\ Finish(p, "allow")

-----------------------------------------------------------------------------
(***************************************************************************)
(* SessionEndService.handle: load_snapshot reads outside the transaction   *)
(* that save_snapshot writes it back in.                                   *)
(***************************************************************************)
EndLoadsRepo(p) ==
    /\ At(p, "SessionEnd", "begin")
    /\ Read(p, [local[p] EXCEPT !.repo = repo], "events")

EndLoadsEvents(p) ==
    /\ At(p, "SessionEnd", "events")
    /\ Read(p, [local[p] EXCEPT !.events = events], "write")

GateOfSnapshot(p) ==    \* mutant: the evaluated gate always replaces the stored one
    IF MustBlock(job[p].resume, local[p].repo = "dirty", live) THEN "blocked" ELSE "open"

GateKept(p) ==
    IF gate = "blocked" \/ MustBlock(job[p].resume, local[p].repo = "dirty", live)
    THEN "blocked" ELSE "open"

EndCommits(p) ==
    /\ At(p, "SessionEnd", "write")
    /\ session' = TRUE
    /\ repo' = local[p].repo
    /\ events' = local[p].events \cup {p}
    /\ gate' = GateKept(p)
    /\ UNCHANGED <<live, baseline>>
    /\ Finish(p, "allow")

-----------------------------------------------------------------------------
(***************************************************************************)
(* An exception: entrypoint._fail_response blocks a prompt and lets every  *)
(* other hook pass.  A failing prompt may still log and commit its event:  *)
(* _fail_closed_result and the handler of phase 3 do.                      *)
(***************************************************************************)
Fail(p, logged) ==
    /\ Running(p)
    /\ logged => session /\ job[p].hook = "UserPromptSubmit"
    /\ events' = IF logged THEN events \cup {p} ELSE events
    /\ UNCHANGED <<session, repo, gate, live, baseline>>
    /\ Finish(p, IF job[p].hook = "UserPromptSubmit" THEN "block" ELSE "allow")

(***************************************************************************)
(* The exceptions that are bound to happen: an event or evidence row whose *)
(* session row is missing, and a session row another process has created   *)
(* since this one found none.                                              *)
(***************************************************************************)
Rejected(p) ==
    /\ \/ /\ ~session
          /\ \/ \E step \in {"refuse", "write", "store"} : At(p, "UserPromptSubmit", step)
             \/ At(p, "PostToolUse", "begin")
       \/ At(p, "SessionStart", "write") /\ session # local[p].session
    /\ Fail(p, FALSE)

(***************************************************************************)
(* The process is killed: no response.                                     *)
(***************************************************************************)
Kill(p) ==
    /\ Running(p)
    /\ UNCHANGED rows
    /\ Finish(p, "none")

-----------------------------------------------------------------------------
Step(p) ==
    \/ StartLoads(p) \/ StartInspects(p)
    \/ \E collected \in BOOLEAN : StartCommits(p, collected)
    \/ PromptReadsGate(p) \/ PromptReadsRepo(p) \/ PromptReadsTickets(p)
    \/ PromptRefused(p)
    \/ PromptReadsBaseline(p) \/ PromptInspects(p) \/ PromptListsFiles(p)
    \/ PromptObserves(p) \/ PromptCompiles(p)
    \/ \E audit \in BOOLEAN : PromptCommits(p, audit) \/ PromptStores(p, audit)
    \/ \E invalidates \in BOOLEAN : ToolCommits(p, invalidates)
    \/ EndLoadsRepo(p) \/ EndLoadsEvents(p) \/ EndCommits(p)
    \/ Rejected(p)

Actions ==
    \/ \E p \in Proc :
          \/ \E j \in Jobs : Launch(p, j)
          \/ Step(p)
          \/ \E logged \in BOOLEAN : Fail(p, logged)
          \/ Kill(p)
    \/ Outside

(***************************************************************************)
(* What holds of the rows, and its record for every running write prompt.  *)
(***************************************************************************)
Holding ==
    (IF gate # "blocked" THEN {"open"} ELSE {}) \cup
    (IF repo # "dirty" THEN {"clean"} ELSE {}) \cup
    (IF live = {} THEN {"unticketed"} ELSE {})

Observed ==
    saw' = [p \in Proc |-> IF Running(p)' /\ job'[p].write THEN saw[p] \cup Holding' ELSE saw[p]]

Next == Actions /\ Observed

Spec == Init /\ [][Next]_vars

-----------------------------------------------------------------------------
(***************************************************************************)
(* The rows, the processes and what they have read are well formed.        *)
(***************************************************************************)
Steps == {"idle", "begin", "inspect", "repo", "tickets", "refuse", "baseline",
          "status", "observe", "compile", "store", "events", "write", "done"}

TypeOK ==
    /\ session \in BOOLEAN
    /\ repo \in {"none", "clean", "dirty"}
    /\ gate \in {"none", "open", "blocked"}
    /\ live \subseteq Proc
    /\ baseline \in Frontier \cup {NoFrontier}
    /\ events \subseteq Proc
    /\ tree \in Worktree
    /\ job \in [Proc -> Job]
    /\ pc \in [Proc -> Steps]
    /\ local \in [Proc -> Local]
    /\ response \in [Proc -> {"none", "allow", "block"}]
    /\ saw \in [Proc -> SUBSET {"open", "clean", "unticketed"}]

(***************************************************************************)
(* A write prompt that is let through was, at some instant of its own run, *)
(* not refused by the stored gate; at some instant the session's tree was  *)
(* not recorded dirty; and at some instant no ticket was live.  Whatever   *)
(* the other hooks commit meanwhile, no refusal that held from before the  *)
(* prompt to its end is missed.                                            *)
(***************************************************************************)
AllowedWriteWasSafe ==
    \A p \in Proc :
        response[p] = "allow" /\ job[p].hook = "UserPromptSubmit" /\ job[p].write
            => saw[p] = {"open", "clean", "unticketed"}

(***************************************************************************)
(* When a session has a baseline, no prompt at all is let through by a     *)
(* commit that finds a live ticket, however late the ticket came.          *)
(***************************************************************************)
AllowsAPrompt(p) ==
    job[p].hook = "UserPromptSubmit" /\ response[p] = "none" /\ response'[p] = "allow"

AllowedCommitUnticketed ==
    [][\A p \in Proc : AllowsAPrompt(p) /\ pc[p] = "write" => live = {}]_vars

(***************************************************************************)
(* A blocked gate is reopened by nothing but the commit of a SessionStart  *)
(* that found no live ticket: not by the end of the session, whatever it   *)
(* read before, and not by a prompt.                                       *)
(***************************************************************************)
GateReopens == gate = "blocked" /\ gate' # "blocked"

GateOpensAtStartOnly ==
    [][GateReopens =>
          /\ live = {}
          /\ \E p \in Proc : At(p, "SessionStart", "write") /\ pc'[p] = "done"]_vars

(***************************************************************************)
(* PostToolUse records a dirty tree ("sync changed_files to repo_state").  *)
(* The record lasts until a SessionStart inspects the tree again.          *)
(***************************************************************************)
DirtyLasts ==
    [][repo = "dirty" /\ repo' # "dirty" =>
          \E p \in Proc : At(p, "SessionStart", "write") /\ pc'[p] = "done"]_vars

=============================================================================
