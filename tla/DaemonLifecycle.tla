-------------------------- MODULE DaemonLifecycle --------------------------
(***************************************************************************)
(* The resident hook daemon, its control file and socket, and the hook     *)
(* processes that look for it, start it, ask it, and do without it.        *)
(*                                                                         *)
(* A hook process reads the control file, pings, spawns a daemon when none *)
(* answers, sends its request, and runs the handler itself when any of     *)
(* this fails or takes too long.  A daemon boots (cleanup, bind, publish), *)
(* serves one connection after the other and, when it leaves its loop,     *)
(* removes the control file and the socket, whoever they lead to by then.  *)
(* Time is a choice: a timeout may always be over.                         *)
(***************************************************************************)
EXTENDS Integers, Sequences

CONSTANTS
    Hook,        \* hook invocations, each a process
    Prompt,      \* those that are user_prompt_submit
    Daemon,      \* daemon processes; each is spawned at most once
    Retries,     \* SPAWN_RETRIES
    Backlog,     \* connections the kernel queues for a listening socket
    Impatient,   \* hooks whose client may time out while a daemon holds its connection
    Mortal,      \* daemons that may be killed
    Nobody,      \* no daemon, no request
    Unknown

ASSUME DaemonAssumption ==
    /\ Prompt \subseteq Hook
    /\ Retries \in Nat \ {0} /\ Backlog \in Nat \ {0}
    /\ Impatient \subseteq Hook /\ Mortal \subseteq Daemon
    /\ Nobody \notin Daemon \cup Hook
    /\ Unknown \notin {"allow", "block"}

VARIABLES
    control,     \* the daemon whose pid is in control.json, or Nobody
    tmp,         \* the one in control.tmp
    sock,        \* the daemon that bound the socket file, or Nobody
    server,      \* server[d]: the daemon's next step
    running,     \* running[d]: its _running flag
    queue,       \* queue[d]: connections not accepted yet
    job,         \* job[d]: the request it handles
    pc,          \* pc[h]: the hook process's next step
    polls,       \* polls[h]: its attempt to find the spawned daemon, 0 before
    ran,         \* ran[h][e]: the verdict committed for h by e
    answer       \* answer[h]: what it printed

files == <<control, tmp, sock>>
serving == <<server, running, queue, job>>
client == <<pc, polls, answer>>
vars == <<files, serving, client, ran>>

Executor == {"daemon", "inline"}

(***************************************************************************)
(* What a handler may return, and what stands in for a failed one: a       *)
(* prompt is blocked, any other hook lets the agent go on.                 *)
(***************************************************************************)
Verdict(h) == IF h \in Prompt THEN {"allow", "block"} ELSE {"allow"}
FailOpen(h) == "allow"    \* mutant: a prompt passes when its hook fails
Failing(h) == IF h \in Prompt THEN "block" ELSE "allow"

(***************************************************************************)
(* A connection: who made it (Nobody for a command), what it asks or, once *)
(* the handler has run, what is to be replied, and whether its client has  *)
(* closed it.                                                              *)
(***************************************************************************)
Asked == {"ping", "hook", "shutdown"}
ToReply == {"allow", "block", "failed"}
Connection == [hook : Hook \cup {Nobody}, kind : Asked \cup ToReply, gone : BOOLEAN]
Idle == [hook |-> Nobody, kind |-> "ping", gone |-> TRUE]

Alive(d) == server[d] \notin {"unborn", "dead", "killed"}     \* is_pid_alive
Listening(d) == server[d] \in {"write", "publish", "serve"}

Init ==
    /\ control = Nobody /\ tmp = Nobody /\ sock = Nobody
    /\ server = [d \in Daemon |-> "unborn"]
    /\ running = [d \in Daemon |-> FALSE]
    /\ queue = [d \in Daemon |-> <<>>]
    /\ job = [d \in Daemon |-> Idle]
    /\ pc = [h \in Hook |-> "start"]
    /\ polls = [h \in Hook |-> 0]
    /\ ran = [h \in Hook |-> [e \in Executor |-> Unknown]]
    /\ answer = [h \in Hook |-> Unknown]

-----------------------------------------------------------------------------
(***************************************************************************)
(* The hook process.                                                       *)
(***************************************************************************)
Goto(h, p) == pc' = [pc EXCEPT ![h] = p]

(***************************************************************************)
(* _is_daemon_enabled and the project of the hook are read.                *)
(***************************************************************************)
Begin(h) ==
    /\ pc[h] = "start"
    /\ Goto(h, "look") \/ Goto(h, "inline")
    /\ UNCHANGED <<files, serving, polls, answer, ran>>

(***************************************************************************)
(* The daemon is not found: before a spawn the hook cleans up, after one   *)
(* it polls again, and in the end does without.                            *)
(***************************************************************************)
NotFoundLate(h) ==    \* mutant: one poll too many
    /\ polls' = IF polls[h] \in 1..Retries THEN [polls EXCEPT ![h] = @ + 1] ELSE polls
    /\ Goto(h, CASE polls[h] = 0 -> "cleanup"
                 [] polls[h] \in 1..Retries -> "look"
                 [] OTHER -> "inline")

NotFound(h) ==
    /\ polls' = IF polls[h] \in 1..(Retries - 1) THEN [polls EXCEPT ![h] = @ + 1] ELSE polls
    /\ Goto(h, CASE polls[h] = 0 -> "cleanup"
                 [] polls[h] \in 1..(Retries - 1) -> "look"
                 [] OTHER -> "inline")

(***************************************************************************)
(* read_control and is_pid_alive.                                          *)
(***************************************************************************)
Look(h) ==
    /\ pc[h] = "look"
    /\ \/ control # Nobody /\ Alive(control) /\ Goto(h, "ping") /\ UNCHANGED polls
       \/ control # Nobody /\ ~Alive(control) /\ NotFound(h)
       \/ control = Nobody /\ polls[h] = 0 /\ Goto(h, "spawn") /\ UNCHANGED polls
       \/ control = Nobody /\ polls[h] > 0 /\ NotFound(h)
    /\ UNCHANGED <<files, serving, answer, ran>>

(***************************************************************************)
(* _connect by the path of the socket, whoever listens there, and the      *)
(* request sent on the new connection.                                     *)
(***************************************************************************)
CanConnect == sock # Nobody /\ Listening(sock) /\ Len(queue[sock]) < Backlog

Connect(c) ==
    /\ CanConnect
    /\ queue' = [queue EXCEPT ![sock] = Append(@, c)]

Request(h, what) == [hook |-> h, kind |-> what, gone |-> FALSE]

Ping(h) ==
    /\ pc[h] = "ping"
    /\ \/ Connect(Request(h, "ping")) /\ Goto(h, "pinging") /\ UNCHANGED polls
       \/ ~CanConnect /\ NotFound(h) /\ UNCHANGED queue
    /\ UNCHANGED <<files, server, running, job, answer, ran>>

(***************************************************************************)
(* The client closes its connection; the daemon finds out when it replies. *)
(***************************************************************************)
Closed(c, h) == IF c.hook = h THEN [c EXCEPT !.gone = TRUE] ELSE c

HangUpInQueue(h) ==    \* mutant: a connection already accepted stays open
    /\ queue' = [d \in Daemon |-> [i \in DOMAIN queue[d] |-> Closed(queue[d][i], h)]]
    /\ UNCHANGED job

HangUp(h) ==
    /\ queue' = [d \in Daemon |-> [i \in DOMAIN queue[d] |-> Closed(queue[d][i], h)]]
    /\ job' = [d \in Daemon |-> Closed(job[d], h)]

(***************************************************************************)
(* The client's connection is still held by a daemon.                      *)
(***************************************************************************)
Held(h) ==
    \E d \in Daemon : \E c \in {job[d]} \cup {queue[d][i] : i \in DOMAIN queue[d]} :
        c.hook = h /\ ~c.gone

PingFails(h) ==
    /\ pc[h] = "pinging"
    /\ h \in Impatient \/ ~Held(h)
    /\ HangUp(h)
    /\ NotFound(h)
    /\ UNCHANGED <<files, server, running, answer, ran>>

(***************************************************************************)
(* cleanup_stale: the control file is read, then it and the socket go.     *)
(***************************************************************************)
CleanupStale(h) ==
    /\ pc[h] = "cleanup"
    /\ Goto(h, IF control # Nobody /\ ~Alive(control) THEN "remove" ELSE "spawn")
    /\ UNCHANGED <<files, serving, polls, answer, ran>>

RemoveControl(h) ==
    /\ pc[h] = "remove"
    /\ control' = Nobody
    /\ Goto(h, "unlink")
    /\ UNCHANGED <<tmp, sock, serving, polls, answer, ran>>

RemoveSocket(h) ==
    /\ pc[h] = "unlink"
    /\ sock' = Nobody
    /\ Goto(h, "spawn")
    /\ UNCHANGED <<control, tmp, serving, polls, answer, ran>>

(***************************************************************************)
(* A spawned daemon boots by itself; the spawn may fail.                   *)
(***************************************************************************)
Spawn(h) ==
    /\ pc[h] = "spawn"
    /\ \/ \E d \in Daemon : /\ server[d] = "unborn"
                            /\ server' = [server EXCEPT ![d] = "boot"]
                            /\ polls' = [polls EXCEPT ![h] = 1]
                            /\ Goto(h, "look")
       \/ Goto(h, "inline") /\ UNCHANGED <<server, polls>>
    /\ UNCHANGED <<files, running, queue, job, answer, ran>>

Send(h) ==
    /\ pc[h] = "send"
    /\ \/ Connect(Request(h, "hook")) /\ Goto(h, "waiting")
       \/ ~CanConnect /\ Goto(h, "inline") /\ UNCHANGED queue
    /\ UNCHANGED <<files, server, running, job, polls, answer, ran>>

(***************************************************************************)
(* No answer within HOOK_TIMEOUT, or the connection is lost.               *)
(***************************************************************************)
GiveUpOnLoss(h) ==    \* mutant: the client has no timeout
    /\ pc[h] = "waiting"
    /\ ~Held(h)
    /\ HangUp(h)
    /\ Goto(h, "inline")
    /\ UNCHANGED <<files, server, running, polls, answer, ran>>

GiveUp(h) ==
    /\ pc[h] = "waiting"
    /\ h \in Impatient \/ ~Held(h)
    /\ HangUp(h)
    /\ Goto(h, "inline")
    /\ UNCHANGED <<files, server, running, polls, answer, ran>>

Tell(h, v) ==
    /\ answer' = [answer EXCEPT ![h] = v]
    /\ Goto(h, "done")

(***************************************************************************)
(* The handler in the hook's own process: one transaction, or a failure.   *)
(***************************************************************************)
Inline(h) ==
    /\ pc[h] = "inline"
    /\ \/ \E v \in Verdict(h) : /\ ran' = [ran EXCEPT ![h]["inline"] = v]
                                /\ Tell(h, v)
       \/ Tell(h, Failing(h)) /\ UNCHANGED ran
    /\ UNCHANGED <<files, serving, polls>>

HookStep(h) ==
    \/ Begin(h) \/ Look(h) \/ Ping(h) \/ PingFails(h)
    \/ CleanupStale(h) \/ RemoveControl(h) \/ RemoveSocket(h) \/ Spawn(h)
    \/ Send(h) \/ GiveUp(h) \/ Inline(h)

-----------------------------------------------------------------------------
(***************************************************************************)
(* DaemonServer.boot.  A daemon that fails here dies without cleaning up.  *)
(***************************************************************************)
Become(d, s) == server' = [server EXCEPT ![d] = s]

Boot(d) ==
    /\ server[d] = "boot"
    /\ Become(d, "cleanup") \/ Become(d, "dead")
    /\ UNCHANGED <<files, running, queue, job, client, ran>>

BootCleanup(d) ==
    /\ server[d] = "cleanup"
    /\ Become(d, IF control # Nobody /\ ~Alive(control) THEN "remove" ELSE "rebind")
    /\ UNCHANGED <<files, running, queue, job, client, ran>>

BootRemoveControl(d) ==
    /\ server[d] = "remove"
    /\ control' = Nobody
    /\ Become(d, "rebind")
    /\ UNCHANGED <<tmp, sock, running, queue, job, client, ran>>

(***************************************************************************)
(* The socket file is unlinked, also after a stale control file, whether   *)
(* or not a daemon listens on it.                                          *)
(***************************************************************************)
Unlink(d) ==
    /\ server[d] = "rebind"
    /\ sock' = Nobody
    /\ Become(d, "bind")
    /\ UNCHANGED <<control, tmp, running, queue, job, client, ran>>

Bind(d) ==
    /\ server[d] = "bind"
    /\ IF sock = Nobody THEN sock' = d /\ Become(d, "write")
       ELSE Become(d, "dead") /\ UNCHANGED sock
    /\ UNCHANGED <<control, tmp, running, queue, job, client, ran>>

(***************************************************************************)
(* write_control: a temporary file, one for all daemons, and a rename,     *)
(* which fails when another daemon has renamed it.                         *)
(***************************************************************************)
WriteTmp(d) ==
    /\ server[d] = "write"
    /\ tmp' = d
    /\ Become(d, "publish")
    /\ UNCHANGED <<control, sock, running, queue, job, client, ran>>

Lost(d) == queue' = [queue EXCEPT ![d] = <<>>] /\ job' = [job EXCEPT ![d] = Idle]

Publish(d) ==
    /\ server[d] = "publish"
    /\ IF tmp = Nobody
       THEN Become(d, "dead") /\ Lost(d) /\ UNCHANGED <<files, running>>
       ELSE /\ control' = tmp /\ tmp' = Nobody
            /\ Become(d, "serve")
            /\ running' = [running EXCEPT ![d] = TRUE]
            /\ UNCHANGED <<sock, queue, job>>
    /\ UNCHANGED <<client, ran>>

-----------------------------------------------------------------------------
(***************************************************************************)
(* DaemonServer.serve: one connection after the other.                     *)
(***************************************************************************)
Accept(d) ==
    /\ server[d] = "serve" /\ running[d] /\ job[d] = Idle
    /\ queue[d] # <<>>
    /\ job' = [job EXCEPT ![d] = Head(queue[d])]
    /\ queue' = [queue EXCEPT ![d] = Tail(@)]
    /\ UNCHANGED <<files, server, running, client, ran>>

Handled(d) == job' = [job EXCEPT ![d] = Idle]

(***************************************************************************)
(* A reply on a connection its client has closed is an exception that      *)
(* nothing catches before serve's finally: the daemon goes down.           *)
(***************************************************************************)
ReplyFails(d) ==
    /\ server[d] = "serve" /\ job[d].kind # "hook"
    /\ job[d] # Idle /\ job[d].gone
    /\ Handled(d)
    /\ Become(d, "stop")
    /\ UNCHANGED <<files, running, queue, client, ran>>

Pong(d) ==
    /\ server[d] = "serve" /\ job[d].kind = "ping" /\ ~job[d].gone
    /\ Handled(d)
    /\ Goto(job[d].hook, "send")
    /\ UNCHANGED <<files, server, running, queue, polls, answer, ran>>

Shutdown(d) ==
    /\ server[d] = "serve" /\ job[d].kind = "shutdown" /\ ~job[d].gone
    /\ Handled(d)
    /\ running' = [running EXCEPT ![d] = FALSE]
    /\ UNCHANGED <<files, server, queue, client, ran>>

(***************************************************************************)
(* _dispatch_hook: the handler commits and says its verdict, or fails and  *)
(* is rolled back.                                                         *)
(***************************************************************************)
RunHookUnsaved(d) ==    \* mutant: an exception is replied but not rolled back
    /\ server[d] = "serve" /\ job[d].kind = "hook"
    /\ \E v \in Verdict(job[d].hook) :
          /\ ran' = [ran EXCEPT ![job[d].hook]["daemon"] = v]
          /\ \E r \in {v, "failed"} : job' = [job EXCEPT ![d].kind = r]
    /\ UNCHANGED <<files, server, running, queue, client>>

RunHook(d) ==
    /\ server[d] = "serve" /\ job[d].kind = "hook"
    /\ \/ \E v \in Verdict(job[d].hook) :
             /\ ran' = [ran EXCEPT ![job[d].hook]["daemon"] = v]
             /\ job' = [job EXCEPT ![d].kind = v]
       \/ job' = [job EXCEPT ![d].kind = "failed"] /\ UNCHANGED ran
    /\ UNCHANGED <<files, server, running, queue, client>>

Reply(d) ==
    /\ server[d] = "serve" /\ job[d].kind \in ToReply /\ ~job[d].gone
    /\ Handled(d)
    /\ IF job[d].kind = "failed"
       THEN Goto(job[d].hook, "inline") /\ UNCHANGED answer
       ELSE Tell(job[d].hook, job[d].kind)
    /\ UNCHANGED <<files, server, running, queue, polls, ran>>

(***************************************************************************)
(* Nothing for idle_timeout seconds, or told to stop.                      *)
(***************************************************************************)
LeaveLoopAtOnce(d) ==    \* mutant: told to stop, it drops what it handles
    /\ server[d] = "serve" /\ (job[d] = Idle \/ ~running[d])
    /\ Become(d, "stop")
    /\ UNCHANGED <<files, running, queue, job, client, ran>>

LeaveLoop(d) ==
    /\ server[d] = "serve" /\ job[d] = Idle
    /\ Become(d, "stop")
    /\ UNCHANGED <<files, running, queue, job, client, ran>>

(***************************************************************************)
(* _shutdown: the socket is closed, then the files are removed.            *)
(***************************************************************************)
CloseSocket(d) ==
    /\ server[d] = "stop"
    /\ Lost(d)
    /\ Become(d, "forget")
    /\ UNCHANGED <<files, running, client, ran>>

ForgetControl(d) ==
    /\ server[d] = "forget"
    /\ control' = Nobody
    /\ Become(d, "leave")
    /\ UNCHANGED <<tmp, sock, running, queue, job, client, ran>>

ForgetSocket(d) ==
    /\ server[d] = "leave"
    /\ sock' = Nobody
    /\ Become(d, "dead")
    /\ UNCHANGED <<control, tmp, running, queue, job, client, ran>>

(***************************************************************************)
(* SIGTERM while serving; a shutdown command (the daemon stops whether or  *)
(* not it gets the reply); and a kill.                                     *)
(***************************************************************************)
Signal(d) ==
    /\ server[d] = "serve"
    /\ running' = [running EXCEPT ![d] = FALSE]
    /\ UNCHANGED <<files, server, queue, job, client, ran>>

AskShutdown ==
    /\ control # Nobody
    /\ Connect(Request(Nobody, "shutdown"))
    /\ UNCHANGED <<files, server, running, job, client, ran>>

Kill(d) ==
    /\ d \in Mortal /\ Alive(d)
    /\ Become(d, "killed") /\ Lost(d)
    /\ UNCHANGED <<files, running, client, ran>>

DaemonStep(d) ==
    \/ Boot(d) \/ BootCleanup(d) \/ BootRemoveControl(d) \/ Unlink(d) \/ Bind(d)
    \/ WriteTmp(d) \/ Publish(d)
    \/ Accept(d) \/ ReplyFails(d) \/ Pong(d) \/ Shutdown(d) \/ RunHook(d) \/ Reply(d)
    \/ LeaveLoop(d) \/ CloseSocket(d) \/ ForgetControl(d) \/ ForgetSocket(d)

(***************************************************************************)
(* All hooks are answered and all daemons are gone.                        *)
(***************************************************************************)
Terminated ==
    /\ \A h \in Hook : pc[h] = "done"
    /\ \A d \in Daemon : ~Alive(d)
    /\ UNCHANGED vars

Next ==
    \/ \E h \in Hook : HookStep(h)
    \/ \E d \in Daemon : DaemonStep(d) \/ Signal(d) \/ Kill(d)
    \/ AskShutdown
    \/ Terminated

(***************************************************************************)
(* A hook process runs on and its waits are bounded by timeouts.  Of a     *)
(* daemon nothing is assumed: it may hang at any step.                     *)
(***************************************************************************)
Spec == Init /\ [][Next]_vars
FairSpec == Spec /\ \A h \in Hook : WF_vars(HookStep(h))

-----------------------------------------------------------------------------
(***************************************************************************)
(* Files, daemons, connections and hooks have their types.                 *)
(***************************************************************************)
TypeOK ==
    /\ control \in Daemon \cup {Nobody}
    /\ tmp \in Daemon \cup {Nobody}
    /\ sock \in Daemon \cup {Nobody}
    /\ server \in [Daemon -> {"unborn", "boot", "cleanup", "remove", "rebind", "bind",
                              "write", "publish", "serve", "stop", "forget", "leave", "dead",
                              "killed"}]
    /\ running \in [Daemon -> BOOLEAN]
    /\ queue \in [Daemon -> Seq(Connection)]
    /\ job \in [Daemon -> Connection]
    /\ pc \in [Hook -> {"start", "look", "ping", "pinging", "cleanup", "remove", "unlink",
                        "spawn", "send", "waiting", "inline", "done"}]
    /\ polls \in [Hook -> 0..Retries]
    /\ ran \in [Hook -> [Executor -> {"allow", "block", Unknown}]]
    /\ answer \in [Hook -> {"allow", "block", Unknown}]

(***************************************************************************)
(* What a daemon still holds of a hook's connection is what the hook is    *)
(* waiting for, so that no answer reaches a hook that has moved on.        *)
(***************************************************************************)
Awaited(c) ==
    c.hook \in Hook /\ ~c.gone =>
        pc[c.hook] = IF c.kind = "ping" THEN "pinging" ELSE "waiting"

HeldIsAwaited ==
    \A d \in Daemon : /\ Awaited(job[d])
                      /\ \A i \in DOMAIN queue[d] : Awaited(queue[d][i])

(***************************************************************************)
(* A prompt is let through only by a run of its handler that let it, in    *)
(* the daemon or inline, whatever failed on the way: it fails closed.      *)
(***************************************************************************)
PromptFailsClosed ==
    \A h \in Prompt : answer[h] = "allow" => \E e \in Executor : ran[h][e] = "allow"

(***************************************************************************)
(* A hook is run twice, by a daemon and inline, only if its client timed   *)
(* out or a daemon was killed: nothing else daemons do to one another, or  *)
(* impatient clients to daemons, makes a patient client run its hook again *)
(* or leave it to a daemon that would.                                     *)
(***************************************************************************)
RunsOnce ==
    \A h \in Hook \ Impatient :
        ran[h]["inline"] # Unknown /\ (\A d \in Daemon : server[d] # "killed") =>
            /\ ran[h]["daemon"] = Unknown
            /\ \A d \in Daemon : \A c \in {job[d]} \cup {queue[d][i] : i \in DOMAIN queue[d]} :
                  c.hook = h => c.kind # "hook"

(***************************************************************************)
(* A daemon leaves its loop with a request in its hands only when a client *)
(* has hung up on it, and so never with a patient client's.                *)
(***************************************************************************)
LeavesLoopIdle ==
    [][\A d \in Daemon : server[d] = "serve" /\ server'[d] = "stop" =>
          job[d] = Idle \/ job[d].hook \in Impatient]_vars

(***************************************************************************)
(* What is left of a hook process, in steps at most, goes down with every  *)
(* step of it and with the answers it gets: whatever daemons do, it polls, *)
(* spawns, asks and runs its handler within a bound that Retries sets.     *)
(***************************************************************************)
Before(s) ==
    CASE s = "done" -> 0 [] s = "inline" -> 1 [] s = "waiting" -> 2 [] s = "send" -> 3
      [] s = "pinging" -> 4 [] s = "ping" -> 5 [] s = "look" -> 6 [] s = "spawn" -> 7
      [] s = "unlink" -> 8 [] s = "remove" -> 9 [] s = "cleanup" -> 10 [] s = "start" -> 14

Turns(s, n) ==
    CASE s \in {"done", "inline", "waiting", "send"} -> 0
      [] s \in {"look", "ping", "pinging"} -> IF n = 0 THEN 3 * Retries + 7 ELSE 3 * (Retries - n)
      [] OTHER -> 3 * Retries

Left(h) == Before(pc[h]) + Turns(pc[h], polls[h])

HookAdvances ==
    [][\A h \in Hook :
          pc'[h] # pc[h] \/ polls'[h] # polls[h] => Left(h)' \in 0..(Left(h) - 1)]_vars

(***************************************************************************)
(* The hooks keep their promise to the agent, whatever the daemons do: a   *)
(* failure blocks a prompt and lets anything else pass.  And every hook    *)
(* whose client times out is answered: those of the code all do.           *)
(***************************************************************************)
Promise == INSTANCE HookPromise WITH
    Verdicts <- [h \in Hook |-> IF h \in Prompt THEN {"allow", "block"} ELSE {"allow"}],
    FailAnswer <- [h \in Hook |-> IF h \in Prompt THEN "block" ELSE "allow"]

PromiseSpec == Promise!Spec
EveryHookAnswered == \A h \in Impatient : Promise!Answered(h)
=============================================================================
