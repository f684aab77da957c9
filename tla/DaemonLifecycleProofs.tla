------------------------ MODULE DaemonLifecycleProofs ------------------------
(***************************************************************************)
(* Proofs about DaemonLifecycle, for any hooks, daemons, polls and queues, *)
(* whichever clients time out and whichever daemons are killed.            *)
(***************************************************************************)
EXTENDS DaemonLifecycle, TLAPS

Waits == {"start", "look", "ping", "cleanup", "remove", "unlink", "spawn", "send"}
HookState == Waits \cup {"pinging", "waiting", "inline", "done"}

-----------------------------------------------------------------------------
(***************************************************************************)
(* Type correctness.                                                       *)
(***************************************************************************)
LEMMA RequestTyped ==
    /\ \A h \in Hook \cup {Nobody}, k \in Asked : Request(h, k) \in Connection
    /\ Idle \in Connection
BY DEF Request, Idle, Connection, Asked

LEMMA ConnectTyped ==
    ASSUME TypeOK, NEW c \in Connection, Connect(c)
    PROVE  queue' \in [Daemon -> Seq(Connection)]
<1>1. sock \in Daemon /\ queue[sock] \in Seq(Connection)
  BY DEF TypeOK, Connect, CanConnect
<1>2. Append(queue[sock], c) \in Seq(Connection)
  BY <1>1
<1>. QED
  BY <1>1, <1>2 DEF TypeOK, Connect

LEMMA HangUpTyped ==
    ASSUME TypeOK, NEW h \in Hook, HangUp(h)
    PROVE  queue' \in [Daemon -> Seq(Connection)] /\ job' \in [Daemon -> Connection]
<1>1. \A c \in Connection : Closed(c, h) \in Connection
  BY DEF Closed, Connection
<1>2. ASSUME NEW d \in Daemon
      PROVE  [i \in DOMAIN queue[d] |-> Closed(queue[d][i], h)] \in Seq(Connection)
  <2>1. queue[d] \in Seq(Connection)
    BY DEF TypeOK
  <2>2. Len(queue[d]) \in Nat /\ DOMAIN queue[d] = 1..Len(queue[d])
    BY <2>1
  <2>3. \A i \in 1..Len(queue[d]) : queue[d][i] \in Connection
    BY <2>1
  <2>. QED
    BY <1>1, <2>2, <2>3
<1>. QED
  BY <1>1, <1>2 DEF TypeOK, HangUp

LEMMA NotFoundTyped ==
    ASSUME TypeOK, NEW h \in Hook, NotFound(h)
    PROVE  /\ polls' \in [Hook -> 0..Retries]
           /\ \E s \in {"cleanup", "look", "inline"} : pc' = [pc EXCEPT ![h] = s]
<1>1. polls' \in [Hook -> 0..Retries]
  BY DaemonAssumption DEF TypeOK, NotFound
<1>2. \E s \in {"cleanup", "look", "inline"} : pc' = [pc EXCEPT ![h] = s]
  <2>1. CASE polls[h] = 0
    BY <2>1 DEF NotFound, Goto
  <2>2. CASE polls[h] # 0 /\ polls[h] \in 1..(Retries - 1)
    BY <2>2 DEF NotFound, Goto
  <2>3. CASE polls[h] # 0 /\ polls[h] \notin 1..(Retries - 1)
    BY <2>3 DEF NotFound, Goto
  <2>. QED
    BY <2>1, <2>2, <2>3
<1>. QED
  BY <1>1, <1>2

LEMMA VerdictTyped ==
    \A h : Verdict(h) \subseteq {"allow", "block"} /\ Failing(h) \in {"allow", "block"}
BY DEF Verdict, Failing

LEMMA RanTyped ==
    ASSUME TypeOK, NEW h, NEW e, NEW v \in {"allow", "block"}
    PROVE  [ran EXCEPT ![h][e] = v] \in [Hook -> [Executor -> {"allow", "block", Unknown}]]
<1>1. ASSUME NEW g \in Hook
      PROVE  [ran[g] EXCEPT ![e] = v] \in [Executor -> {"allow", "block", Unknown}]
  BY DEF TypeOK
<1>. QED
  BY <1>1 DEF TypeOK

LEMMA HookStepTyped ==
    ASSUME TypeOK, NEW h \in Hook, HookStep(h)
    PROVE  TypeOK'
<1>1. CASE Begin(h)
  BY <1>1 DEF Begin, Goto, TypeOK, files, serving
<1>2. CASE Look(h)
  BY <1>2, NotFoundTyped DEF Look, Goto, TypeOK, files, serving
<1>3. CASE Ping(h)
  <2>1. CASE Connect(Request(h, "ping")) /\ Goto(h, "pinging") /\ UNCHANGED polls
    <3>1. queue' \in [Daemon -> Seq(Connection)]
      BY <2>1, RequestTyped, ConnectTyped DEF Asked
    <3>. QED
      BY <1>3, <2>1, <3>1 DEF Ping, Goto, TypeOK, files
  <2>2. CASE NotFound(h) /\ UNCHANGED queue
    BY <1>3, <2>2, NotFoundTyped DEF Ping, TypeOK, files
  <2>. QED
    BY <1>3, <2>1, <2>2 DEF Ping
<1>4. CASE PingFails(h)
  BY <1>4, NotFoundTyped, HangUpTyped DEF PingFails, TypeOK, files
<1>5. CASE CleanupStale(h) \/ RemoveControl(h) \/ RemoveSocket(h)
  BY <1>5 DEF CleanupStale, RemoveControl, RemoveSocket, Goto, TypeOK, files, serving
<1>6. CASE Spawn(h)
  <2>1. 1 \in 0..Retries
    BY DaemonAssumption
  <2>2. server' \in [Daemon -> {"unborn", "boot", "cleanup", "remove", "rebind", "bind",
                                "write", "publish", "serve", "stop", "forget", "leave", "dead",
                                "killed"}]
    BY <1>6 DEF Spawn, TypeOK
  <2>3. polls' \in [Hook -> 0..Retries] /\ \E s \in {"look", "inline"} : pc' = [pc EXCEPT ![h] = s]
    BY <1>6, <2>1 DEF Spawn, Goto, TypeOK
  <2>. QED
    BY <1>6, <2>2, <2>3 DEF Spawn, TypeOK, files
<1>7. CASE Send(h)
  <2>1. CASE Connect(Request(h, "hook")) /\ Goto(h, "waiting")
    <3>1. queue' \in [Daemon -> Seq(Connection)]
      BY <2>1, RequestTyped, ConnectTyped DEF Asked
    <3>. QED
      BY <1>7, <2>1, <3>1 DEF Send, Goto, TypeOK, files
  <2>2. CASE Goto(h, "inline") /\ UNCHANGED queue
    BY <1>7, <2>2 DEF Send, Goto, TypeOK, files
  <2>. QED
    BY <1>7, <2>1, <2>2 DEF Send
<1>8. CASE GiveUp(h)
  BY <1>8, HangUpTyped DEF GiveUp, Goto, TypeOK, files
<1>9. CASE Inline(h)
  <2>1. PICK v \in {"allow", "block"} :
            /\ ran' \in {ran, [ran EXCEPT ![h]["inline"] = v]}
            /\ answer' = [answer EXCEPT ![h] = v] /\ pc' = [pc EXCEPT ![h] = "done"]
    BY <1>9, VerdictTyped DEF Inline, Tell, Goto
  <2>2. ran' \in [Hook -> [Executor -> {"allow", "block", Unknown}]]
    <3>1. CASE ran' = ran
      BY <3>1 DEF TypeOK
    <3>2. CASE ran' = [ran EXCEPT ![h]["inline"] = v]
      BY <3>2, RanTyped
    <3>. QED
      BY <2>1, <3>1, <3>2
  <2>. QED
    BY <1>9, <2>1, <2>2 DEF Inline, TypeOK, files, serving
<1>. QED
  BY <1>1, <1>2, <1>3, <1>4, <1>5, <1>6, <1>7, <1>8, <1>9 DEF HookStep

LEMMA LostTyped ==
    ASSUME TypeOK, NEW d \in Daemon, Lost(d)
    PROVE  queue' \in [Daemon -> Seq(Connection)] /\ job' \in [Daemon -> Connection]
BY RequestTyped DEF Lost, TypeOK

LEMMA ReplyKinds ==
    ASSUME NEW c \in Connection, NEW k \in ToReply
    PROVE  [c EXCEPT !.kind = k] \in Connection
BY DEF Connection

LEMMA DaemonStepTyped ==
    ASSUME TypeOK, NEW d \in Daemon, DaemonStep(d) \/ Signal(d) \/ Kill(d)
    PROVE  TypeOK'
<1>1. CASE Boot(d) \/ BootCleanup(d) \/ BootRemoveControl(d) \/ Unlink(d) \/ Bind(d) \/ WriteTmp(d)
           \/ LeaveLoop(d) \/ ForgetControl(d) \/ ForgetSocket(d) \/ Signal(d)
  BY <1>1 DEF Boot, BootCleanup, BootRemoveControl, Unlink, Bind, WriteTmp, LeaveLoop,
     ForgetControl, ForgetSocket, Signal, Become, TypeOK, files, client
<1>2. CASE Publish(d)
  BY <1>2, LostTyped DEF Publish, Become, TypeOK, files, client
<1>3. CASE CloseSocket(d) \/ Kill(d)
  BY <1>3, LostTyped DEF CloseSocket, Kill, Become, TypeOK, files, client
<1>4. CASE Accept(d)
  <2>1. queue[d] \in Seq(Connection) /\ queue[d] # <<>>
    BY <1>4 DEF Accept, TypeOK
  <2>2. Head(queue[d]) \in Connection /\ Tail(queue[d]) \in Seq(Connection)
    BY <2>1
  <2>. QED
    BY <1>4, <2>2 DEF Accept, TypeOK, files, client
<1>5. CASE ReplyFails(d)
  BY <1>5, RequestTyped DEF ReplyFails, Handled, Become, TypeOK, files, client
<1>6. CASE Pong(d)
  BY <1>6, RequestTyped DEF Pong, Handled, Goto, TypeOK, files
<1>7. CASE Shutdown(d)
  BY <1>7, RequestTyped DEF Shutdown, Handled, TypeOK, files, client
<1>8. CASE RunHook(d)
  <2>1. PICK k \in ToReply : job' = [job EXCEPT ![d].kind = k]
    BY <1>8, VerdictTyped DEF RunHook, ToReply
  <2>2. job' \in [Daemon -> Connection]
    BY <2>1, ReplyKinds DEF TypeOK
  <2>3. ran' \in [Hook -> [Executor -> {"allow", "block", Unknown}]]
    <3>1. CASE ran' = ran
      BY <3>1 DEF TypeOK
    <3>2. CASE ran' # ran
      <4>1. PICK v \in {"allow", "block"} : ran' = [ran EXCEPT ![job[d].hook]["daemon"] = v]
        BY <1>8, <3>2, VerdictTyped DEF RunHook
      <4>. QED
        BY <4>1, RanTyped
    <3>. QED
      BY <3>1, <3>2
  <2>. QED
    BY <1>8, <2>2, <2>3 DEF RunHook, TypeOK, files, client
<1>9. CASE Reply(d)
  BY <1>9, RequestTyped DEF Reply, Handled, Tell, Goto, TypeOK, files, ToReply
<1>. QED
  BY <1>1, <1>2, <1>3, <1>4, <1>5, <1>6, <1>7, <1>8, <1>9 DEF DaemonStep

LEMMA LifecycleTypeInit == Init => TypeOK
BY RequestTyped, DaemonAssumption DEF Init, TypeOK, Executor

LEMMA LifecycleTypeStep == TypeOK /\ [Next]_vars => TypeOK'
<1>. SUFFICES ASSUME TypeOK, [Next]_vars PROVE TypeOK'
  OBVIOUS
<1>1. CASE AskShutdown
  <2>1. queue' \in [Daemon -> Seq(Connection)]
    BY <1>1, RequestTyped, ConnectTyped DEF AskShutdown, Asked
  <2>. QED
    BY <1>1, <2>1 DEF AskShutdown, TypeOK, files, client
<1>2. CASE UNCHANGED vars
  BY <1>2 DEF vars, files, serving, client, TypeOK
<1>3. CASE Next /\ ~AskShutdown
  BY <1>2, <1>3, HookStepTyped, DaemonStepTyped DEF Next, Terminated
<1>. QED
  BY <1>1, <1>2, <1>3

(***************************************************************************)
(* Whatever daemons and clients do to each other, every queue, job and     *)
(* poll count is well formed: no hook polls more than SPAWN_RETRIES times. *)
(***************************************************************************)
THEOREM LifecycleTypeCorrect == Spec => []TypeOK
BY LifecycleTypeInit, LifecycleTypeStep, PTL DEF Spec

-----------------------------------------------------------------------------
(***************************************************************************)
(* The inductive invariant.  A daemon holds connections at places: its job *)
(* is place 0, its queue the places from 1 on.  Of a hook at most one      *)
(* connection matters, its request or the ping it waits for; it tells how  *)
(* far the hook has come.                                                  *)
(***************************************************************************)
Place(d) == 0..Len(queue[d])
At(d, i) == IF i = 0 THEN job[d] ELSE queue[d][i]

Matters(c, h) == c.hook = h /\ (c.kind # "ping" \/ ~c.gone)

Sound(c) ==
    /\ c.hook = Nobody => c.kind = "shutdown" \/ c = Idle
    /\ c.gone => c = Idle \/ c.hook \in Impatient
    /\ c.hook \in Hook =>
          /\ c.kind # "shutdown"
          /\ c.kind = "ping" /\ ~c.gone => pc[c.hook] = "pinging"
          /\ c.kind # "ping" /\ ~c.gone => pc[c.hook] = "waiting"
          /\ c.kind # "ping" /\ c.gone => pc[c.hook] \in {"inline", "done"}
          /\ c.kind \in {"hook", "failed"} => ran[c.hook]["daemon"] = Unknown
          /\ c.kind \in {"allow", "block"} => ran[c.hook]["daemon"] = c.kind

EverySound == \A d \in Daemon : \A i \in Place(d) : Sound(At(d, i))

OneEach ==
    \A h \in Hook, d, e \in Daemon : \A i \in Place(d), j \in Place(e) :
        Matters(At(d, i), h) /\ Matters(At(e, j), h) => d = e /\ i = j

IdleUnserved == \A d \in Daemon : server[d] # "serve" => job[d] = Idle

InOrder(h) ==
    /\ ran[h]["daemon"] # Unknown => pc[h] \in {"waiting", "inline", "done"}
    /\ ran[h]["inline"] # Unknown => pc[h] = "done"
    /\ answer[h] # Unknown => pc[h] = "done"
    /\ h \in Prompt /\ answer[h] = "allow" => \E e \in Executor : ran[h][e] = "allow"

NoneKilled == \A d \in Daemon : server[d] # "killed"

Delivered(h) ==
    h \notin Impatient /\ NoneKilled /\ ran[h]["daemon"] # Unknown =>
        /\ ran[h]["inline"] = Unknown
        /\ \/ pc[h] = "done"
           \/ \E d \in Daemon :
                 job[d].hook = h /\ ~job[d].gone /\ job[d].kind \in {"allow", "block"}

LifecycleInv ==
    /\ TypeOK /\ EverySound /\ OneEach /\ IdleUnserved
    /\ \A h \in Hook : InOrder(h) /\ Delivered(h)

LEMMA PlacesTyped ==
    ASSUME TypeOK, NEW d \in Daemon
    PROVE  /\ queue[d] \in Seq(Connection) /\ Len(queue[d]) \in Nat
           /\ DOMAIN queue[d] = 1..Len(queue[d])
           /\ 0 \in Place(d) /\ At(d, 0) = job[d]
           /\ \A i \in Place(d) : At(d, i) \in Connection
<1>1. queue[d] \in Seq(Connection) /\ job[d] \in Connection
  BY DEF TypeOK
<1>2. Len(queue[d]) \in Nat /\ DOMAIN queue[d] = 1..Len(queue[d])
  BY <1>1
<1>3. \A i \in 1..Len(queue[d]) : queue[d][i] \in Connection
  BY <1>1
<1>. QED
  BY <1>1, <1>2, <1>3 DEF Place, At

LEMMA IdleFacts ==
    /\ Idle \in Connection /\ Idle.hook = Nobody /\ Idle.kind = "ping" /\ Idle.gone
    /\ Nobody \notin Hook
BY RequestTyped, DaemonAssumption DEF Idle

LEMMA LifecycleInit == Init => LifecycleInv
<1>. SUFFICES ASSUME Init PROVE LifecycleInv
  OBVIOUS
<1>1. TypeOK
  BY LifecycleTypeInit
<1>2. \A d \in Daemon : \A i \in Place(d) : At(d, i) = Idle
  BY DEF Init, Place, At
<1>3. EverySound /\ OneEach
  BY <1>2, IdleFacts DEF EverySound, OneEach, Sound, Matters
<1>. QED
  BY <1>1, <1>3, DaemonAssumption
     DEF Init, LifecycleInv, IdleUnserved, InOrder, Delivered, Executor

(***************************************************************************)
(* A step that touches no connection, by a hook that has none that         *)
(* matters, or by no hook.                                                 *)
(***************************************************************************)
LEMMA QuietStep ==
    ASSUME LifecycleInv, TypeOK', IdleUnserved', NoneKilled' => NoneKilled,
           UNCHANGED <<queue, job, ran, answer>>,
           \/ pc' = pc
           \/ \E h \in Hook, s \in Waits \cup {"inline"} :
                 pc[h] \in Waits /\ pc' = [pc EXCEPT ![h] = s]
    PROVE  LifecycleInv'
<1>1. \A d \in Daemon : Place(d)' = Place(d) /\ \A i \in Place(d) : At(d, i)' = At(d, i)
  BY DEF Place, At
<1>2. OneEach'
  BY <1>1 DEF LifecycleInv, OneEach
<1>3. \A g \in Hook : pc'[g] = pc[g] \/ (pc[g] \in Waits /\ pc'[g] \in Waits \cup {"inline"})
  BY DEF LifecycleInv, TypeOK
<1>4. EverySound'
  <2>. SUFFICES ASSUME NEW d \in Daemon, NEW i \in Place(d) PROVE Sound(At(d, i))'
    BY <1>1 DEF EverySound
  <2>1. PICK c : c = At(d, i)
    OBVIOUS
  <2>2. Sound(c)
    BY <2>1 DEF LifecycleInv, EverySound
  <2>3. At(d, i)' = c
    BY <1>1, <2>1
  <2>. QED
    BY <1>3, <2>2, <2>3 DEF Sound, Waits
<1>5. ASSUME NEW h \in Hook PROVE InOrder(h)' /\ Delivered(h)'
  <2>1. InOrder(h) /\ Delivered(h)
    BY DEF LifecycleInv
  <2>2. InOrder(h)'
    BY <1>3, <2>1 DEF InOrder, Waits
  <2>3. Delivered(h)'
    BY <1>3, <2>1 DEF InOrder, Delivered, Waits
  <2>. QED
    BY <2>2, <2>3
<1>. QED
  BY <1>2, <1>4, <1>5 DEF LifecycleInv

(***************************************************************************)
(* A new connection, of a hook that has none that matters or of a command. *)
(***************************************************************************)
LEMMA ConnectStep ==
    ASSUME LifecycleInv, TypeOK', NEW g \in Hook \cup {Nobody}, NEW k \in Asked,
           Connect(Request(g, k)), UNCHANGED <<server, job, ran, answer>>,
           \/ g = Nobody /\ k = "shutdown" /\ pc' = pc
           \/ g \in Hook /\ k = "ping" /\ pc[g] = "ping" /\ pc' = [pc EXCEPT ![g] = "pinging"]
           \/ g \in Hook /\ k = "hook" /\ pc[g] = "send" /\ pc' = [pc EXCEPT ![g] = "waiting"]
    PROVE  LifecycleInv'
<1>1. PICK c \in Connection : c = Request(g, k)
  BY RequestTyped
<1>2. c.hook = g /\ c.kind = k /\ ~c.gone
  BY <1>1 DEF Request
<1>3. sock \in Daemon /\ queue' = [queue EXCEPT ![sock] = Append(@, c)]
  BY <1>1 DEF LifecycleInv, TypeOK, Connect, CanConnect
<1>4. \A d \in Daemon : queue[d] \in Seq(Connection) /\ Len(queue[d]) \in Nat
  BY PlacesTyped DEF LifecycleInv
<1>5. ASSUME NEW d \in Daemon, NEW i \in Place(d)'
      PROVE  \/ i \in Place(d) /\ At(d, i)' = At(d, i)
             \/ d = sock /\ i = Len(queue[sock]) + 1 /\ At(d, i)' = c
  <2>1. CASE d = sock
    <3>1. queue'[d] = Append(queue[d], c)
      BY <1>3, <2>1 DEF LifecycleInv, TypeOK
    <3>2. /\ Len(queue'[d]) = Len(queue[d]) + 1
          /\ \A j \in 1..Len(queue[d]) : queue'[d][j] = queue[d][j]
          /\ queue'[d][Len(queue[d]) + 1] = c
      BY <1>4, <3>1
    <3>. QED
      BY <1>4, <1>5, <2>1, <3>2 DEF Place, At
  <2>2. CASE d # sock
    <3>1. queue'[d] = queue[d]
      BY <1>3, <2>2 DEF LifecycleInv, TypeOK
    <3>. QED
      BY <1>5, <3>1 DEF Place, At
  <2>. QED
    BY <2>1, <2>2
<1>6. \A d \in Daemon : \A i \in Place(d) : Sound(At(d, i))
  BY DEF LifecycleInv, EverySound
<1>7. ASSUME g \in Hook, NEW d \in Daemon, NEW i \in Place(d) PROVE ~Matters(At(d, i), g)
  <2>1. PICK b : b = At(d, i)
    OBVIOUS
  <2>2. Sound(b)
    BY <1>6, <2>1
  <2>3. pc[g] \in {"ping", "send"}
    BY <1>7, IdleFacts
  <2>. QED
    BY <1>7, <2>1, <2>2, <2>3 DEF Sound, Matters
<1>8. \A h \in Hook : h # g => pc'[h] = pc[h]
  BY DEF LifecycleInv, TypeOK
<1>9. g \in Hook => /\ pc[g] \in {"ping", "send"} /\ ran[g]["daemon"] = Unknown
                    /\ pc'[g] = IF k = "ping" THEN "pinging" ELSE "waiting"
                    /\ k \in {"ping", "hook"}
  <2>. SUFFICES ASSUME g \in Hook
                PROVE  /\ pc[g] \in {"ping", "send"} /\ ran[g]["daemon"] = Unknown
                       /\ pc'[g] = IF k = "ping" THEN "pinging" ELSE "waiting"
                       /\ k \in {"ping", "hook"}
    OBVIOUS
  <2>1. /\ pc[g] \in {"ping", "send"} /\ k \in {"ping", "hook"}
        /\ pc'[g] = IF k = "ping" THEN "pinging" ELSE "waiting"
    BY IdleFacts DEF LifecycleInv, TypeOK
  <2>2. InOrder(g)
    BY DEF LifecycleInv
  <2>3. ran[g]["daemon"] = Unknown
    BY <2>1, <2>2 DEF InOrder
  <2>. QED
    BY <2>1, <2>3
<1>10. EverySound'
  <2>. SUFFICES ASSUME NEW d \in Daemon, NEW i \in Place(d)' PROVE Sound(At(d, i))'
    BY DEF EverySound
  <2>1. CASE At(d, i)' = c
    BY <1>2, <1>9, <2>1, IdleFacts DEF Sound
  <2>2. CASE i \in Place(d) /\ At(d, i)' = At(d, i)
    <3>1. PICK b : b = At(d, i)
      OBVIOUS
    <3>2. Sound(b) /\ (b.hook = g /\ g \in Hook => ~Matters(b, g))
      BY <1>6, <1>7, <2>2, <3>1
    <3>3. At(d, i)' = b
      BY <2>2, <3>1
    <3>4. CASE b.hook = g /\ g \in Hook
      BY <3>2, <3>3, <3>4, IdleFacts DEF Sound, Matters
    <3>5. CASE ~(b.hook = g /\ g \in Hook)
      BY <1>8, <3>2, <3>3, <3>5 DEF Sound
    <3>. QED
      BY <3>4, <3>5
  <2>. QED
    BY <1>5, <2>1, <2>2
<1>11. OneEach'
  <2>. SUFFICES ASSUME NEW h \in Hook, NEW d \in Daemon, NEW e \in Daemon,
                       NEW i \in Place(d)', NEW j \in Place(e)',
                       Matters(At(d, i)', h), Matters(At(e, j)', h)
                PROVE  d = e /\ i = j
    BY DEF OneEach, Matters
  <2>1. CASE g # h
    <3>1. /\ i \in Place(d) /\ At(d, i)' = At(d, i)
          /\ j \in Place(e) /\ At(e, j)' = At(e, j)
      BY <1>2, <1>5, <2>1 DEF Matters
    <3>. QED
      BY <3>1 DEF LifecycleInv, OneEach
  <2>2. CASE g = h
    BY <1>5, <1>7, <2>2
  <2>. QED
    BY <2>1, <2>2
<1>12. ASSUME NEW h \in Hook PROVE InOrder(h)' /\ Delivered(h)'
  <2>1. InOrder(h) /\ Delivered(h)
    BY DEF LifecycleInv
  <2>2. InOrder(h)'
    BY <1>8, <1>9, <2>1 DEF InOrder
  <2>3. Delivered(h)'
    BY <1>8, <1>9, <2>1 DEF Delivered, NoneKilled
  <2>. QED
    BY <2>2, <2>3
<1>13. IdleUnserved'
  BY DEF LifecycleInv, IdleUnserved
<1>. QED
  BY <1>10, <1>11, <1>12, <1>13 DEF LifecycleInv

(***************************************************************************)
(* A client hangs up: on what it has timed out for, or on nothing.         *)
(***************************************************************************)
LEMMA HangUpStep ==
    ASSUME LifecycleInv, TypeOK', NEW g \in Hook, NEW s \in {"cleanup", "look", "inline"},
           HangUp(g), pc' = [pc EXCEPT ![g] = s],
           g \in Impatient \/ ~Held(g),
           pc[g] = "pinging" \/ (pc[g] = "waiting" /\ s = "inline"),
           UNCHANGED <<server, ran, answer>>
    PROVE  LifecycleInv'
<1>1. ASSUME NEW d \in Daemon
      PROVE  /\ Place(d)' = Place(d)
             /\ \A i \in Place(d) : At(d, i)' = Closed(At(d, i), g)
  <2>1. /\ job'[d] = Closed(job[d], g)
        /\ queue'[d] = [i \in DOMAIN queue[d] |-> Closed(queue[d][i], g)]
    BY DEF HangUp
  <2>2. DOMAIN queue[d] = 1..Len(queue[d]) /\ Len(queue[d]) \in Nat
    BY PlacesTyped DEF LifecycleInv
  <2>3. Len(queue'[d]) = Len(queue[d])
    BY <2>1, <2>2
  <2>. QED
    BY <2>1, <2>2, <2>3 DEF Place, At
<1>2. \A d \in Daemon : \A i \in Place(d) : Sound(At(d, i)) /\ At(d, i) \in Connection
  BY PlacesTyped DEF LifecycleInv, EverySound
<1>3. ASSUME g \notin Impatient, NEW d \in Daemon, NEW i \in Place(d), At(d, i).hook = g
      PROVE  FALSE
  <2>1. PICK b \in Connection : b = At(d, i)
    BY <1>2
  <2>2. b \in {job[d]} \cup {queue[d][j] : j \in DOMAIN queue[d]}
    <3>1. DOMAIN queue[d] = 1..Len(queue[d]) /\ Len(queue[d]) \in Nat
      BY PlacesTyped DEF LifecycleInv
    <3>. QED
      BY <2>1, <3>1 DEF At, Place
  <2>3. b.gone
    BY <1>3, <2>1, <2>2 DEF Held, Connection
  <2>. QED
    BY <1>2, <1>3, <2>1, <2>3, IdleFacts DEF Sound
<1>4. /\ pc'[g] = s /\ \A h \in Hook : h # g => pc'[h] = pc[h]
  BY DEF LifecycleInv, TypeOK
<1>5. EverySound'
  <2>. SUFFICES ASSUME NEW d \in Daemon, NEW i \in Place(d) PROVE Sound(At(d, i))'
    BY <1>1 DEF EverySound
  <2>1. PICK b \in Connection : b = At(d, i)
    BY <1>2
  <2>2. Sound(b) /\ At(d, i)' = Closed(b, g)
    BY <1>1, <1>2, <2>1
  <2>3. CASE b.hook # g
    BY <1>4, <2>2, <2>3 DEF Sound, Closed
  <2>4. CASE b.hook = g
    <3>1. PICK a : a = Closed(b, g)
      OBVIOUS
    <3>2. a.hook = g /\ a.kind = b.kind /\ a.gone
      BY <2>4, <3>1 DEF Closed, Connection
    <3>3. g \in Impatient
      BY <1>3, <2>1, <2>4
    <3>4. b.kind # "ping" => s = "inline"
      BY <2>2, <2>4 DEF Sound, Connection
    <3>5. At(d, i)' = a
      BY <2>2, <3>1
    <3>. QED
      BY <1>4, <2>2, <2>4, <3>2, <3>3, <3>4, <3>5, IdleFacts DEF Sound
  <2>. QED
    BY <2>3, <2>4
<1>6. OneEach'
  <2>1. \A h \in Hook, b \in Connection : Matters(Closed(b, g), h) => Matters(b, h)
    BY DEF Matters, Closed, Connection
  <2>2. \A h \in Hook, d \in Daemon : \A i \in Place(d) :
            Matters(At(d, i)', h) => Matters(At(d, i), h)
    BY <1>1, <1>2, <2>1
  <2>. SUFFICES ASSUME NEW h \in Hook, NEW d \in Daemon, NEW e \in Daemon,
                       NEW i \in Place(d), NEW j \in Place(e),
                       Matters(At(d, i)', h), Matters(At(e, j)', h)
                PROVE  d = e /\ i = j
    BY <1>1 DEF OneEach, Matters
  <2>. QED
    BY <2>2 DEF LifecycleInv, OneEach
<1>7. IdleUnserved'
  <2>1. Closed(Idle, g) = Idle
    BY IdleFacts DEF Closed
  <2>. QED
    BY <2>1 DEF LifecycleInv, IdleUnserved, HangUp
<1>8. ASSUME NEW h \in Hook PROVE InOrder(h)' /\ Delivered(h)'
  <2>1. InOrder(h) /\ Delivered(h)
    BY DEF LifecycleInv
  <2>2. InOrder(h)'
    BY <1>4, <2>1 DEF InOrder
  <2>3. CASE h = g
    <3>1. ASSUME g \notin Impatient, NEW d \in Daemon PROVE job[d].hook # g
      <4>1. 0 \in Place(d) /\ At(d, 0) = job[d]
        BY PlacesTyped DEF LifecycleInv
      <4>. QED
        BY <1>3, <3>1, <4>1
    <3>. QED
      BY <2>1, <2>2, <2>3, <3>1 DEF Delivered, NoneKilled
  <2>4. CASE h # g
    <3>1. \A d \in Daemon : job[d].hook = h => job'[d] = job[d]
      BY <2>4 DEF HangUp, Closed
    <3>. QED
      BY <1>4, <2>1, <2>2, <2>4, <3>1 DEF Delivered, NoneKilled
  <2>. QED
    BY <2>3, <2>4
<1>. QED
  BY <1>5, <1>6, <1>7, <1>8 DEF LifecycleInv

(***************************************************************************)
(* A hook runs its handler itself.                                         *)
(***************************************************************************)
LEMMA InlineStep ==
    ASSUME LifecycleInv, TypeOK', NEW h \in Hook, Inline(h)
    PROVE  LifecycleInv'
<1>1. PICK v \in {"allow", "block"} :
          /\ pc[h] = "inline"
          /\ \/ ran' = [ran EXCEPT ![h]["inline"] = v]
             \/ ran' = ran /\ (h \in Prompt => v = "block")
          /\ answer' = [answer EXCEPT ![h] = v] /\ pc' = [pc EXCEPT ![h] = "done"]
          /\ UNCHANGED <<server, queue, job>>
  BY VerdictTyped DEF Inline, Tell, Goto, Failing, serving
<1>2. "inline" \in Executor /\ "daemon" \in Executor
  BY DEF Executor
<1>3. /\ \A g \in Hook : ran'[g]["daemon"] = ran[g]["daemon"]
      /\ \A g \in Hook : g # h => ran'[g] = ran[g] /\ answer'[g] = answer[g] /\ pc'[g] = pc[g]
      /\ pc'[h] = "done" /\ answer'[h] = v
      /\ ran'[h]["inline"] = v \/ (h \in Prompt => v = "block")
  <2>1. ran \in [Hook -> [Executor -> {"allow", "block", Unknown}]]
    BY DEF LifecycleInv, TypeOK
  <2>2. /\ \A g \in Hook : g # h => answer'[g] = answer[g] /\ pc'[g] = pc[g]
        /\ pc'[h] = "done" /\ answer'[h] = v
    BY <1>1 DEF LifecycleInv, TypeOK
  <2>3. CASE ran' = [ran EXCEPT ![h]["inline"] = v]
    <3>1. /\ \A g \in Hook : g # h => ran'[g] = ran[g]
          /\ ran'[h] = [ran[h] EXCEPT !["inline"] = v]
      BY <2>1, <2>3
    <3>2. ran'[h]["inline"] = v /\ ran'[h]["daemon"] = ran[h]["daemon"]
      BY <1>2, <2>1, <3>1
    <3>. QED
      BY <2>2, <3>1, <3>2
  <2>4. CASE ran' = ran /\ (h \in Prompt => v = "block")
    BY <2>2, <2>4
  <2>. QED
    BY <1>1, <2>3, <2>4
<1>4. \A d \in Daemon : Place(d)' = Place(d) /\ \A i \in Place(d) : At(d, i)' = At(d, i)
  BY <1>1 DEF Place, At
<1>5. OneEach' /\ IdleUnserved'
  BY <1>1, <1>4 DEF LifecycleInv, OneEach, IdleUnserved
<1>6. EverySound'
  <2>. SUFFICES ASSUME NEW d \in Daemon, NEW i \in Place(d) PROVE Sound(At(d, i))'
    BY <1>4 DEF EverySound
  <2>1. PICK b \in Connection : b = At(d, i)
    BY PlacesTyped DEF LifecycleInv
  <2>2. Sound(b) /\ At(d, i)' = b
    BY <1>4, <2>1 DEF LifecycleInv, EverySound
  <2>. QED
    BY <1>1, <1>3, <2>2 DEF Sound
<1>7. ASSUME NEW g \in Hook PROVE InOrder(g)' /\ Delivered(g)'
  <2>1. InOrder(g) /\ Delivered(g)
    BY DEF LifecycleInv
  <2>2. InOrder(g)'
    BY <1>2, <1>3, <2>1 DEF InOrder
  <2>3. CASE g = h
    <3>1. ASSUME NEW d \in Daemon, job[d].hook = h, ~job[d].gone, job[d].kind \in {"allow", "block"}
          PROVE  FALSE
      <4>1. Sound(job[d])
        BY PlacesTyped DEF LifecycleInv, EverySound
      <4>. QED
        BY <1>1, <3>1, <4>1 DEF Sound
    <3>. QED
      BY <1>1, <1>3, <2>1, <2>2, <2>3, <3>1 DEF Delivered, NoneKilled
  <2>4. CASE g # h
    BY <1>1, <1>3, <2>1, <2>2, <2>4 DEF Delivered, NoneKilled
  <2>. QED
    BY <2>2, <2>3, <2>4
<1>. QED
  BY <1>5, <1>6, <1>7 DEF LifecycleInv

(***************************************************************************)
(* A daemon loses what it holds: it handles nothing, or it is killed.      *)
(***************************************************************************)
LEMMA LostStep ==
    ASSUME LifecycleInv, TypeOK', NEW d \in Daemon, Lost(d), IdleUnserved',
           job[d] = Idle \/ ~NoneKilled', NoneKilled' => NoneKilled,
           UNCHANGED <<pc, ran, answer>>
    PROVE  LifecycleInv'
<1>1. job'[d] = Idle /\ queue'[d] = <<>>
  BY DEF LifecycleInv, TypeOK, Lost
<1>2. \A e \in Daemon : e # d => job'[e] = job[e] /\ queue'[e] = queue[e]
  BY DEF LifecycleInv, TypeOK, Lost
<1>3. ASSUME NEW e \in Daemon, NEW i \in Place(e)'
      PROVE  At(e, i)' = Idle \/ (i \in Place(e) /\ At(e, i)' = At(e, i))
  BY <1>1, <1>2, <1>3 DEF Place, At
<1>4. Sound(Idle)' /\ \A h \in Hook : ~Matters(Idle, h)
  BY IdleFacts DEF Sound, Matters
<1>5. EverySound'
  <2>. SUFFICES ASSUME NEW e \in Daemon, NEW i \in Place(e)' PROVE Sound(At(e, i))'
    BY DEF EverySound
  <2>1. CASE At(e, i)' = Idle
    BY <1>4, <2>1 DEF Sound
  <2>2. CASE i \in Place(e) /\ At(e, i)' = At(e, i)
    BY <2>2 DEF LifecycleInv, EverySound, Sound
  <2>. QED
    BY <1>3, <2>1, <2>2
<1>6. OneEach'
  <2>. SUFFICES ASSUME NEW h \in Hook, NEW e \in Daemon, NEW f \in Daemon,
                       NEW i \in Place(e)', NEW j \in Place(f)',
                       Matters(At(e, i)', h), Matters(At(f, j)', h)
                PROVE  e = f /\ i = j
    BY DEF OneEach, Matters
  <2>1. /\ i \in Place(e) /\ At(e, i)' = At(e, i)
        /\ j \in Place(f) /\ At(f, j)' = At(f, j)
    BY <1>3, <1>4
  <2>. QED
    BY <2>1 DEF LifecycleInv, OneEach
<1>7. ASSUME NEW h \in Hook PROVE InOrder(h)' /\ Delivered(h)'
  <2>1. InOrder(h) /\ Delivered(h)
    BY DEF LifecycleInv
  <2>2. InOrder(h)'
    BY <2>1 DEF InOrder
  <2>3. Delivered(h)'
    BY <1>2, <2>1, IdleFacts DEF Delivered
  <2>. QED
    BY <2>2, <2>3
<1>. QED
  BY <1>5, <1>6, <1>7 DEF LifecycleInv

(***************************************************************************)
(* The connection at the head of the queue becomes the job.                *)
(***************************************************************************)
LEMMA AcceptStep ==
    ASSUME LifecycleInv, TypeOK', NEW d \in Daemon, Accept(d)
    PROVE  LifecycleInv'
<1>1. /\ server[d] = "serve" /\ job[d] = Idle /\ queue[d] # <<>>
      /\ job' = [job EXCEPT ![d] = Head(queue[d])]
      /\ queue' = [queue EXCEPT ![d] = Tail(@)]
      /\ UNCHANGED <<server, pc, ran, answer>>
  BY DEF Accept, client
<1>2. /\ queue[d] \in Seq(Connection) /\ Len(queue[d]) \in Nat
      /\ DOMAIN queue[d] = 1..Len(queue[d])
  BY PlacesTyped DEF LifecycleInv
<1>3. /\ job'[d] = queue[d][1] /\ queue'[d] = Tail(queue[d])
      /\ \A e \in Daemon : e # d => job'[e] = job[e] /\ queue'[e] = queue[e]
  BY <1>1, <1>2 DEF LifecycleInv, TypeOK
<1>4. /\ Len(queue[d]) >= 1 /\ Len(queue'[d]) = Len(queue[d]) - 1
      /\ \A i \in 1..Len(queue'[d]) : queue'[d][i] = queue[d][i + 1]
  <2>1. PICK q \in Seq(Connection) : q = queue[d]
    BY <1>2
  <2>2. q # <<>>
    BY <1>1, <2>1
  <2>3. Len(q) >= 1 /\ Len(Tail(q)) = Len(q) - 1
    BY <2>2
  <2>4. \A i \in 1..Len(Tail(q)) : Tail(q)[i] = q[i + 1]
    BY <2>2, <2>3
  <2>. QED
    BY <1>3, <2>1, <2>3, <2>4
<1>5. ASSUME NEW i \in Place(d)'
      PROVE  i + 1 \in Place(d) /\ At(d, i)' = At(d, i + 1)
  BY <1>2, <1>3, <1>4, <1>5 DEF Place, At
<1>6. \A e \in Daemon : e # d =>
          Place(e)' = Place(e) /\ \A i \in Place(e) : At(e, i)' = At(e, i)
  BY <1>3 DEF Place, At
<1>7. EverySound'
  <2>. SUFFICES ASSUME NEW e \in Daemon, NEW i \in Place(e)' PROVE Sound(At(e, i))'
    BY DEF EverySound
  <2>1. PICK j \in Place(e) : At(e, i)' = At(e, j)
    BY <1>5, <1>6
  <2>. QED
    BY <1>1, <2>1 DEF LifecycleInv, EverySound, Sound
<1>8. OneEach'
  <2>. SUFFICES ASSUME NEW h \in Hook, NEW e \in Daemon, NEW f \in Daemon,
                       NEW i \in Place(e)', NEW j \in Place(f)',
                       Matters(At(e, i)', h), Matters(At(f, j)', h)
                PROVE  e = f /\ i = j
    BY DEF OneEach, Matters
  <2>1. PICK m \in Place(e) : At(e, i)' = At(e, m) /\ m = IF e = d THEN i + 1 ELSE i
    BY <1>5, <1>6
  <2>2. PICK n \in Place(f) : At(f, j)' = At(f, n) /\ n = IF f = d THEN j + 1 ELSE j
    BY <1>5, <1>6
  <2>3. e = f /\ m = n
    BY <2>1, <2>2 DEF LifecycleInv, OneEach
  <2>4. i \in Int /\ j \in Int
    BY <1>2, <1>3, <1>4, <1>6 DEF Place
  <2>. QED
    BY <2>1, <2>2, <2>3, <2>4
<1>9. IdleUnserved'
  BY <1>1, <1>3 DEF LifecycleInv, IdleUnserved
<1>10. ASSUME NEW h \in Hook PROVE InOrder(h)' /\ Delivered(h)'
  <2>1. InOrder(h) /\ Delivered(h)
    BY DEF LifecycleInv
  <2>2. InOrder(h)'
    BY <1>1, <2>1 DEF InOrder
  <2>3. Delivered(h)'
    BY <1>1, <1>3, <2>1, IdleFacts DEF Delivered, NoneKilled
  <2>. QED
    BY <2>2, <2>3
<1>. QED
  BY <1>7, <1>8, <1>9, <1>10 DEF LifecycleInv

(***************************************************************************)
(* A daemon is through with its job: it has replied, or could not.         *)
(***************************************************************************)
LEMMA HandledStep ==
    ASSUME LifecycleInv, TypeOK', NEW d \in Daemon,
           ReplyFails(d) \/ Pong(d) \/ Shutdown(d) \/ Reply(d)
    PROVE  LifecycleInv'
<1>1. /\ job'[d] = Idle /\ \A e \in Daemon : e # d => job'[e] = job[e]
      /\ queue' = queue /\ ran' = ran
      /\ server[d] = "serve" /\ server'[d] \in {"serve", "stop"}
      /\ \A e \in Daemon : e # d => server'[e] = server[e]
  BY DEF Handled, LifecycleInv, TypeOK, ReplyFails, Pong, Shutdown, Reply, Become, files, client
<1>2. PICK c \in Connection : c = job[d]
  BY DEF LifecycleInv, TypeOK
<1>3. Sound(c)
  BY <1>2, PlacesTyped DEF LifecycleInv, EverySound
<1>4. \A e \in Daemon : Place(e)' = Place(e)
  BY <1>1 DEF Place
<1>5. ASSUME NEW e \in Daemon, NEW i \in Place(e)
      PROVE  \/ e = d /\ i = 0 /\ At(e, i)' = Idle
             \/ ~(e = d /\ i = 0) /\ At(e, i)' = At(e, i)
  BY <1>1 DEF At
<1>6. ASSUME NEW h \in Hook, Matters(c, h), NEW e \in Daemon, NEW i \in Place(e), ~(e = d /\ i = 0)
      PROVE  ~Matters(At(e, i), h)
  <2>1. 0 \in Place(d) /\ At(d, 0) = c
    BY <1>2, PlacesTyped DEF LifecycleInv
  <2>. QED
    BY <1>6, <2>1 DEF LifecycleInv, OneEach
<1>7. Sound(Idle)'
  BY IdleFacts DEF Sound
<1>8. OneEach'
  <2>. SUFFICES ASSUME NEW h \in Hook, NEW e \in Daemon, NEW f \in Daemon,
                       NEW i \in Place(e), NEW j \in Place(f),
                       Matters(At(e, i)', h), Matters(At(f, j)', h)
                PROVE  e = f /\ i = j
    BY <1>4 DEF OneEach, Matters
  <2>1. At(e, i)' = At(e, i) /\ At(f, j)' = At(f, j)
    BY <1>5, IdleFacts DEF Matters
  <2>. QED
    BY <2>1 DEF LifecycleInv, OneEach
<1>9. IdleUnserved'
  BY <1>1 DEF LifecycleInv, IdleUnserved
<1>10. NoneKilled' => NoneKilled
  BY <1>1 DEF NoneKilled
<1>11. CASE ReplyFails(d) \/ Shutdown(d)
  <2>1. /\ UNCHANGED <<pc, answer>>
        /\ c.gone \/ c.kind = "shutdown"
    BY <1>2, <1>11 DEF ReplyFails, Shutdown, client
  <2>2. EverySound'
    <3>. SUFFICES ASSUME NEW e \in Daemon, NEW i \in Place(e) PROVE Sound(At(e, i))'
      BY <1>4 DEF EverySound
    <3>1. CASE At(e, i)' = Idle
      BY <1>7, <3>1 DEF Sound
    <3>2. CASE At(e, i)' = At(e, i)
      BY <1>1, <2>1, <3>2 DEF LifecycleInv, EverySound, Sound
    <3>. QED
      BY <1>5, <3>1, <3>2
  <2>3. ASSUME NEW h \in Hook PROVE InOrder(h)' /\ Delivered(h)'
    <3>1. InOrder(h) /\ Delivered(h)
      BY DEF LifecycleInv
    <3>2. InOrder(h)'
      BY <1>1, <2>1, <3>1 DEF InOrder
    <3>3. ~(~c.gone /\ c.kind \in {"allow", "block"})
      BY <2>1
    <3>4. Delivered(h)'
      BY <1>1, <1>2, <1>10, <2>1, <3>1, <3>3 DEF Delivered
    <3>. QED
      BY <3>2, <3>4
  <2>. QED
    BY <1>8, <1>9, <2>2, <2>3 DEF LifecycleInv
<1>12. CASE Pong(d) \/ Reply(d)
  <2>1. /\ ~c.gone /\ c.kind \in {"ping"} \cup ToReply
        /\ c.hook \in Hook
    <3>1. ~c.gone /\ c.kind \in {"ping"} \cup ToReply
      BY <1>2, <1>12 DEF Pong, Reply
    <3>. QED
      BY <1>3, <3>1, IdleFacts DEF Sound, Connection, ToReply
  <2>2. PICK h \in Hook : h = c.hook
    BY <2>1
  <2>3. Matters(c, h) /\ pc[h] = IF c.kind = "ping" THEN "pinging" ELSE "waiting"
    BY <1>3, <2>1, <2>2 DEF Matters, Sound
  <2>4. \A g \in Hook : g # h => pc'[g] = pc[g] /\ answer'[g] = answer[g]
    BY <1>2, <1>12, <2>2 DEF Pong, Reply, Goto, Tell, LifecycleInv, TypeOK
  <2>5. \/ c.kind = "ping" /\ pc'[h] = "send" /\ answer' = answer
        \/ c.kind = "failed" /\ pc'[h] = "inline" /\ answer' = answer
        \/ c.kind \in {"allow", "block"} /\ pc'[h] = "done" /\ answer'[h] = c.kind
    BY <1>2, <1>12, <2>2 DEF Pong, Reply, Goto, Tell, LifecycleInv, TypeOK, ToReply
  <2>6. EverySound'
    <3>. SUFFICES ASSUME NEW e \in Daemon, NEW i \in Place(e) PROVE Sound(At(e, i))'
      BY <1>4 DEF EverySound
    <3>1. CASE At(e, i)' = Idle
      BY <1>7, <3>1 DEF Sound
    <3>2. CASE ~(e = d /\ i = 0) /\ At(e, i)' = At(e, i)
      <4>1. PICK b : b = At(e, i)
        OBVIOUS
      <4>2. Sound(b) /\ ~Matters(b, h)
        BY <1>6, <2>3, <3>2, <4>1 DEF LifecycleInv, EverySound
      <4>3. At(e, i)' = b
        BY <3>2, <4>1
      <4>. QED
        BY <1>1, <2>4, <4>2, <4>3 DEF Sound, Matters
    <3>. QED
      BY <1>5, <3>1, <3>2
  <2>7. ASSUME NEW g \in Hook PROVE InOrder(g)' /\ Delivered(g)'
    <3>1. InOrder(g) /\ Delivered(g)
      BY DEF LifecycleInv
    <3>2. CASE g # h
      <4>1. InOrder(g)'
        BY <1>1, <2>4, <3>1, <3>2 DEF InOrder
      <4>2. Delivered(g)'
        BY <1>1, <1>2, <1>10, <2>2, <2>4, <3>1, <3>2 DEF Delivered
      <4>. QED
        BY <4>1, <4>2
    <3>3. CASE g = h
      <4>1. ran[h]["inline"] = Unknown /\ answer[h] = Unknown
        BY <2>3, <3>1, <3>3 DEF InOrder
      <4>2. CASE c.kind \in {"ping", "failed"}
        <5>1. pc'[h] \in {"send", "inline"} /\ answer' = answer
          BY <2>5, <4>2
        <5>2. ran[h]["daemon"] = Unknown
          BY <1>3, <2>2, <2>3, <3>1, <3>3, <4>2 DEF Sound, InOrder
        <5>. QED
          BY <1>1, <3>3, <4>1, <5>1, <5>2, DaemonAssumption DEF InOrder, Delivered
      <4>3. CASE c.kind \in {"allow", "block"}
        <5>1. pc'[h] = "done" /\ answer'[h] = c.kind
          BY <2>5, <4>3
        <5>2. ran[h]["daemon"] = c.kind /\ "daemon" \in Executor
          BY <1>3, <2>2, <4>3 DEF Sound, Executor
        <5>. QED
          BY <1>1, <3>3, <4>1, <5>1, <5>2 DEF InOrder, Delivered
      <4>. QED
        BY <2>5, <4>2, <4>3
    <3>. QED
      BY <3>2, <3>3
  <2>. QED
    BY <1>8, <1>9, <2>6, <2>7 DEF LifecycleInv
<1>. QED
  BY <1>11, <1>12

(***************************************************************************)
(* A daemon runs a hook's handler.                                         *)
(***************************************************************************)
LEMMA RunHookStep ==
    ASSUME LifecycleInv, TypeOK', NEW d \in Daemon, RunHook(d)
    PROVE  LifecycleInv'
<1>1. PICK c \in Connection : c = job[d]
  BY DEF LifecycleInv, TypeOK
<1>2. Sound(c) /\ c.kind = "hook" /\ server[d] = "serve"
  BY <1>1, PlacesTyped DEF LifecycleInv, EverySound, RunHook
<1>3. PICK h \in Hook : h = c.hook
  BY <1>2, IdleFacts DEF Sound, Connection
<1>4. PICK k \in ToReply : /\ job' = [job EXCEPT ![d].kind = k]
                           /\ \/ k # "failed" /\ ran' = [ran EXCEPT ![h]["daemon"] = k]
                              \/ k = "failed" /\ ran' = ran
  BY <1>1, <1>3, VerdictTyped DEF RunHook, ToReply
<1>5. UNCHANGED <<server, queue, pc, answer>>
  BY DEF RunHook, client
<1>6. PICK a \in Connection : a.hook = h /\ a.gone = c.gone /\ a.kind = k /\ a = job'[d]
  BY <1>1, <1>3, <1>4 DEF LifecycleInv, TypeOK, Connection
<1>7. \A e \in Daemon : e # d => job'[e] = job[e]
  BY <1>4 DEF LifecycleInv, TypeOK
<1>8. ran[h]["daemon"] = Unknown /\ Matters(c, h)
  BY <1>2, <1>3 DEF Sound, Matters
<1>9. /\ \A g \in Hook : g # h => ran'[g] = ran[g]
      /\ ran'[h]["inline"] = ran[h]["inline"]
      /\ ran'[h]["daemon"] = IF k = "failed" THEN Unknown ELSE k
  <2>1. ran \in [Hook -> [Executor -> {"allow", "block", Unknown}]]
    BY DEF LifecycleInv, TypeOK
  <2>2. CASE ran' = ran /\ k = "failed"
    BY <1>8, <2>2
  <2>3. CASE k # "failed" /\ ran' = [ran EXCEPT ![h]["daemon"] = k]
    <3>1. /\ \A g \in Hook : g # h => ran'[g] = ran[g]
          /\ ran'[h] = [ran[h] EXCEPT !["daemon"] = k]
      BY <2>1, <2>3
    <3>2. ran'[h]["daemon"] = k /\ ran'[h]["inline"] = ran[h]["inline"]
      BY <2>1, <3>1 DEF Executor
    <3>. QED
      BY <2>3, <3>1, <3>2
  <2>. QED
    BY <1>4, <2>2, <2>3
<1>10. \A e \in Daemon : Place(e)' = Place(e)
  BY <1>5 DEF Place
<1>11. ASSUME NEW e \in Daemon, NEW i \in Place(e)
       PROVE  \/ e = d /\ i = 0 /\ At(e, i)' = a /\ At(e, i) = c
              \/ ~(e = d /\ i = 0) /\ At(e, i)' = At(e, i)
  BY <1>1, <1>5, <1>6, <1>7 DEF At
<1>12. ASSUME NEW e \in Daemon, NEW i \in Place(e), ~(e = d /\ i = 0)
       PROVE  ~Matters(At(e, i), h)
  <2>1. 0 \in Place(d) /\ At(d, 0) = c
    BY <1>1, PlacesTyped DEF LifecycleInv
  <2>. QED
    BY <1>8, <1>12, <2>1 DEF LifecycleInv, OneEach
<1>13. EverySound'
  <2>. SUFFICES ASSUME NEW e \in Daemon, NEW i \in Place(e) PROVE Sound(At(e, i))'
    BY <1>10 DEF EverySound
  <2>1. CASE At(e, i)' = a
    <3>1. a.gone => h \in Impatient
      BY <1>2, <1>3, <1>6, IdleFacts DEF Sound
    <3>2. pc[h] = "waiting" \/ (a.gone /\ pc[h] \in {"inline", "done"})
      BY <1>2, <1>3, <1>6 DEF Sound
    <3>3. ~a.gone => pc[h] = "waiting"
      BY <1>2, <1>3, <1>6 DEF Sound
    <3>4. a.gone => pc[h] \in {"inline", "done"}
      BY <1>2, <1>3, <1>6 DEF Sound
    <3>. QED
      BY <1>5, <1>6, <1>9, <2>1, <3>1, <3>3, <3>4, IdleFacts DEF Sound, ToReply
  <2>2. CASE ~(e = d /\ i = 0) /\ At(e, i)' = At(e, i)
    <3>1. PICK b : b = At(e, i)
      OBVIOUS
    <3>2. Sound(b) /\ ~Matters(b, h)
      BY <1>12, <2>2, <3>1 DEF LifecycleInv, EverySound
    <3>3. At(e, i)' = b
      BY <2>2, <3>1
    <3>. QED
      BY <1>5, <1>9, <3>2, <3>3 DEF Sound, Matters
  <2>. QED
    BY <1>11, <2>1, <2>2
<1>14. OneEach'
  <2>1. \A g \in Hook : Matters(a, g) => Matters(c, g)
    BY <1>3, <1>6, <1>8 DEF Matters
  <2>. SUFFICES ASSUME NEW g \in Hook, NEW e \in Daemon, NEW f \in Daemon,
                       NEW i \in Place(e), NEW j \in Place(f),
                       Matters(At(e, i)', g), Matters(At(f, j)', g)
                PROVE  e = f /\ i = j
    BY <1>10 DEF OneEach, Matters
  <2>2. Matters(At(e, i), g) /\ Matters(At(f, j), g)
    BY <1>11, <2>1
  <2>. QED
    BY <2>2 DEF LifecycleInv, OneEach
<1>15. IdleUnserved'
  BY <1>2, <1>5, <1>7 DEF LifecycleInv, IdleUnserved
<1>16. ASSUME NEW g \in Hook PROVE InOrder(g)' /\ Delivered(g)'
  <2>1. InOrder(g) /\ Delivered(g)
    BY DEF LifecycleInv
  <2>2. CASE g # h
    <3>1. InOrder(g)'
      BY <1>5, <1>9, <2>1, <2>2 DEF InOrder
    <3>2. Delivered(g)'
      BY <1>1, <1>3, <1>5, <1>7, <1>9, <2>1, <2>2 DEF Delivered, NoneKilled
    <3>. QED
      BY <3>1, <3>2
  <2>3. CASE g = h
    <3>1. pc[h] \in {"waiting", "inline", "done"} /\ (~c.gone => pc[h] = "waiting")
      BY <1>2, <1>3 DEF Sound
    <3>2. h \in Prompt /\ answer[h] = "allow" => ran[h]["inline"] = "allow" /\ "inline" \in Executor
      BY <1>8, <2>1, <2>3, DaemonAssumption DEF InOrder, Executor
    <3>3. InOrder(h)'
      BY <1>5, <1>9, <2>1, <2>3, <3>1, <3>2 DEF InOrder
    <3>4. h \notin Impatient => ~c.gone
      BY <1>2, <1>3, IdleFacts DEF Sound
    <3>5. ~c.gone => ran[h]["inline"] = Unknown
      BY <2>1, <2>3, <3>1 DEF InOrder
    <3>6. Delivered(h)'
      BY <1>6, <1>9, <3>4, <3>5 DEF Delivered, ToReply
    <3>. QED
      BY <2>3, <3>3, <3>6
  <2>. QED
    BY <2>2, <2>3
<1>. QED
  BY <1>13, <1>14, <1>15, <1>16 DEF LifecycleInv

-----------------------------------------------------------------------------
(***************************************************************************)
(* All the steps.                                                          *)
(***************************************************************************)
LEMMA HookKeepsInv ==
    ASSUME LifecycleInv, TypeOK', NEW h \in Hook, HookStep(h)
    PROVE  LifecycleInv'
<1>1. TypeOK
  BY DEF LifecycleInv
<1>2. CASE Begin(h) \/ Look(h) \/ CleanupStale(h) \/ RemoveControl(h) \/ RemoveSocket(h)
  <2>1. /\ UNCHANGED <<queue, job, ran, answer, server>> /\ pc[h] \in Waits
        /\ \E s \in Waits \cup {"inline"} : pc' = [pc EXCEPT ![h] = s]
    BY <1>1, <1>2, NotFoundTyped
       DEF Begin, Look, CleanupStale, RemoveControl, RemoveSocket, Goto, serving, Waits
  <2>2. IdleUnserved' /\ NoneKilled' = NoneKilled
    BY <2>1 DEF LifecycleInv, IdleUnserved, NoneKilled
  <2>. QED
    BY <2>1, <2>2, QuietStep
<1>3. CASE Spawn(h)
  <2>1. /\ UNCHANGED <<queue, job, ran, answer>> /\ pc[h] \in Waits
        /\ \E s \in Waits \cup {"inline"} : pc' = [pc EXCEPT ![h] = s]
    BY <1>3 DEF Spawn, Goto, Waits
  <2>2. \A e \in Daemon : server'[e] = server[e] \/ (server[e] = "unborn" /\ server'[e] = "boot")
    BY <1>1, <1>3 DEF Spawn, TypeOK
  <2>3. IdleUnserved' /\ (NoneKilled' => NoneKilled)
    BY <2>1, <2>2 DEF LifecycleInv, IdleUnserved, NoneKilled
  <2>. QED
    BY <2>1, <2>3, QuietStep
<1>4. CASE Ping(h)
  <2>1. CASE Connect(Request(h, "ping")) /\ Goto(h, "pinging")
    BY <1>4, <2>1, ConnectStep DEF Ping, Goto, Asked
  <2>2. CASE NotFound(h) /\ UNCHANGED queue
    <3>1. /\ UNCHANGED <<queue, job, ran, answer, server>> /\ pc[h] \in Waits
          /\ \E s \in Waits \cup {"inline"} : pc' = [pc EXCEPT ![h] = s]
      BY <1>1, <1>4, <2>2, NotFoundTyped DEF Ping, Waits
    <3>2. IdleUnserved' /\ NoneKilled' = NoneKilled
      BY <3>1 DEF LifecycleInv, IdleUnserved, NoneKilled
    <3>. QED
      BY <3>1, <3>2, QuietStep
  <2>. QED
    BY <1>4, <2>1, <2>2 DEF Ping
<1>5. CASE PingFails(h)
  <2>1. PICK s \in {"cleanup", "look", "inline"} : pc' = [pc EXCEPT ![h] = s]
    BY <1>1, <1>5, NotFoundTyped DEF PingFails
  <2>. QED
    BY <1>5, <2>1, HangUpStep DEF PingFails
<1>6. CASE Send(h)
  <2>1. CASE Connect(Request(h, "hook")) /\ Goto(h, "waiting")
    BY <1>6, <2>1, ConnectStep DEF Send, Goto, Asked
  <2>2. CASE Goto(h, "inline") /\ UNCHANGED queue
    <3>1. /\ UNCHANGED <<queue, job, ran, answer, server>> /\ pc[h] \in Waits
          /\ pc' = [pc EXCEPT ![h] = "inline"]
      BY <1>6, <2>2 DEF Send, Goto, Waits
    <3>2. IdleUnserved' /\ NoneKilled' = NoneKilled
      BY <3>1 DEF LifecycleInv, IdleUnserved, NoneKilled
    <3>. QED
      BY <3>1, <3>2, QuietStep
  <2>. QED
    BY <1>6, <2>1, <2>2 DEF Send
<1>7. CASE GiveUp(h)
  BY <1>7, HangUpStep DEF GiveUp, Goto
<1>8. CASE Inline(h)
  BY <1>8, InlineStep
<1>. QED
  BY <1>2, <1>3, <1>4, <1>5, <1>6, <1>7, <1>8 DEF HookStep

LEMMA DaemonKeepsInv ==
    ASSUME LifecycleInv, TypeOK', NEW d \in Daemon, DaemonStep(d) \/ Signal(d) \/ Kill(d)
    PROVE  LifecycleInv'
<1>1. server \in [Daemon -> {"unborn", "boot", "cleanup", "remove", "rebind", "bind",
                              "write", "publish", "serve", "stop", "forget", "leave", "dead",
                              "killed"}]
  BY DEF LifecycleInv, TypeOK
<1>2. CASE Boot(d) \/ BootCleanup(d) \/ BootRemoveControl(d) \/ Unlink(d) \/ Bind(d) \/ WriteTmp(d)
           \/ ForgetControl(d) \/ ForgetSocket(d) \/ LeaveLoop(d) \/ Signal(d)
           \/ (Publish(d) /\ tmp # Nobody)
  <2>1. /\ UNCHANGED <<queue, job, ran, answer, pc>>
        /\ server[d] # "killed" /\ \A e \in Daemon : e # d => server'[e] = server[e]
        /\ server[d] # "serve" \/ job[d] = Idle \/ server'[d] = "serve"
    BY <1>1, <1>2 DEF Boot, BootCleanup, BootRemoveControl, Unlink, Bind, WriteTmp, ForgetControl,
       ForgetSocket, LeaveLoop, Signal, Publish, Become, client
  <2>2. IdleUnserved' /\ (NoneKilled' => NoneKilled)
    BY <2>1 DEF LifecycleInv, IdleUnserved, NoneKilled
  <2>. QED
    BY <2>1, <2>2, QuietStep
<1>3. CASE CloseSocket(d) \/ Kill(d) \/ (Publish(d) /\ tmp = Nobody)
  <2>1. /\ Lost(d) /\ UNCHANGED <<pc, ran, answer>>
        /\ server[d] # "killed" /\ \A e \in Daemon : e # d => server'[e] = server[e]
        /\ server[d] # "serve" \/ server'[d] = "killed"
    BY <1>1, <1>3 DEF CloseSocket, Kill, Publish, Become, client, Alive
  <2>2. job'[d] = Idle /\ \A e \in Daemon : e # d => job'[e] = job[e]
    BY <2>1 DEF Lost, LifecycleInv, TypeOK
  <2>3. IdleUnserved' /\ (NoneKilled' => NoneKilled) /\ (job[d] = Idle \/ ~NoneKilled')
    BY <2>1, <2>2 DEF LifecycleInv, IdleUnserved, NoneKilled
  <2>. QED
    BY <2>1, <2>3, LostStep
<1>4. CASE Accept(d)
  BY <1>4, AcceptStep
<1>5. CASE ReplyFails(d) \/ Pong(d) \/ Shutdown(d) \/ Reply(d)
  BY <1>5, HandledStep
<1>6. CASE RunHook(d)
  BY <1>6, RunHookStep
<1>. QED
  BY <1>2, <1>3, <1>4, <1>5, <1>6 DEF DaemonStep

LEMMA LifecycleStep == LifecycleInv /\ [Next]_vars => LifecycleInv'
<1>. SUFFICES ASSUME LifecycleInv, [Next]_vars PROVE LifecycleInv'
  OBVIOUS
<1>1. TypeOK'
  BY LifecycleTypeStep DEF LifecycleInv
<1>2. CASE AskShutdown
  BY <1>1, <1>2, ConnectStep DEF AskShutdown, Asked, client
<1>3. CASE UNCHANGED vars
  <2>1. UNCHANGED <<queue, job, ran, answer, pc, server>>
    BY <1>3 DEF vars, serving, client
  <2>2. IdleUnserved' /\ NoneKilled' = NoneKilled
    BY <2>1 DEF LifecycleInv, IdleUnserved, NoneKilled
  <2>. QED
    BY <1>1, <2>1, <2>2, QuietStep
<1>4. CASE Next /\ ~AskShutdown
  BY <1>1, <1>3, <1>4, HookKeepsInv, DaemonKeepsInv DEF Next, Terminated
<1>. QED
  BY <1>2, <1>3, <1>4

LEMMA LifecycleInvariant == Spec => []LifecycleInv
BY LifecycleInit, LifecycleStep, PTL DEF Spec

-----------------------------------------------------------------------------
LEMMA HeldConnections ==
    ASSUME LifecycleInv, NEW d \in Daemon,
           NEW c \in {job[d]} \cup {queue[d][i] : i \in DOMAIN queue[d]}
    PROVE  c \in Connection /\ Sound(c)
<1>1. /\ DOMAIN queue[d] = 1..Len(queue[d]) /\ Len(queue[d]) \in Nat
      /\ 0 \in Place(d) /\ At(d, 0) = job[d]
      /\ \A i \in Place(d) : At(d, i) \in Connection
  BY PlacesTyped DEF LifecycleInv
<1>2. \A i \in DOMAIN queue[d] : i \in Place(d) /\ At(d, i) = queue[d][i]
  BY <1>1 DEF Place, At
<1>3. PICK i \in Place(d) : c = At(d, i)
  BY <1>1, <1>2
<1>. QED
  BY <1>1, <1>3 DEF LifecycleInv, EverySound

(***************************************************************************)
(* No answer of a daemon reaches a hook that has moved on, for any number  *)
(* of hooks and daemons.                                                   *)
(***************************************************************************)
THEOREM AnswersAreAwaited == Spec => []HeldIsAwaited
<1>1. LifecycleInv => HeldIsAwaited
  <2>. SUFFICES ASSUME LifecycleInv, NEW d \in Daemon,
                       NEW c \in {job[d]} \cup {queue[d][i] : i \in DOMAIN queue[d]}
                PROVE  Awaited(c)
    BY DEF HeldIsAwaited
  <2>. QED
    BY HeldConnections DEF Awaited, Sound
<1>. QED
  BY <1>1, LifecycleInvariant, PTL

(***************************************************************************)
(* A prompt is let through only by a run of its handler that let it.       *)
(***************************************************************************)
THEOREM PromptsFailClosed == Spec => []PromptFailsClosed
<1>1. LifecycleInv => PromptFailsClosed
  BY DaemonAssumption DEF LifecycleInv, InOrder, PromptFailsClosed
<1>. QED
  BY <1>1, LifecycleInvariant, PTL

(***************************************************************************)
(* A hook whose client does not time out runs once if no daemon is killed, *)
(* however daemons start, hide and stop one another.                       *)
(***************************************************************************)
THEOREM PatientHooksRunOnce == Spec => []RunsOnce
<1>1. LifecycleInv => RunsOnce
  <2>. SUFFICES ASSUME LifecycleInv, NEW h \in Hook \ Impatient,
                       ran[h]["inline"] # Unknown, NoneKilled
                PROVE  /\ ran[h]["daemon"] = Unknown
                       /\ \A d \in Daemon :
                            \A c \in {job[d]} \cup {queue[d][i] : i \in DOMAIN queue[d]} :
                                c.hook = h => c.kind # "hook"
    BY DEF RunsOnce, NoneKilled
  <2>1. InOrder(h) /\ Delivered(h)
    BY DEF LifecycleInv
  <2>2. ran[h]["daemon"] = Unknown /\ pc[h] = "done"
    BY <2>1 DEF InOrder, Delivered
  <2>3. ASSUME NEW d \in Daemon,
               NEW c \in {job[d]} \cup {queue[d][i] : i \in DOMAIN queue[d]},
               c.hook = h
        PROVE  c.kind # "hook"
    <3>1. c \in Connection /\ Sound(c)
      BY HeldConnections
    <3>2. ~c.gone
      BY <2>3, <3>1, IdleFacts DEF Sound, Connection
    <3>. QED
      BY <2>2, <2>3, <3>1, <3>2 DEF Sound
  <2>. QED
    BY <2>2, <2>3
<1>. QED
  BY <1>1, LifecycleInvariant, PTL

(***************************************************************************)
(* A daemon never goes down with a patient client's request in its hands.  *)
(***************************************************************************)
THEOREM LoopIsLeftIdle == Spec => LeavesLoopIdle
<1>1. ASSUME LifecycleInv, [Next]_vars, NEW d \in Daemon, server[d] = "serve", server'[d] = "stop"
      PROVE  job[d] = Idle \/ job[d].hook \in Impatient
  <2>1. server \in [Daemon -> {"unborn", "boot", "cleanup", "remove", "rebind", "bind",
                              "write", "publish", "serve", "stop", "forget", "leave", "dead",
                              "killed"}]
    BY <1>1 DEF LifecycleInv, TypeOK
  <2>2. Sound(job[d])
    BY <1>1, HeldConnections
  <2>3. server' # server
    BY <1>1
  <2>4. \A h \in Hook : ~HookStep(h)
    <3>. SUFFICES ASSUME NEW h \in Hook, HookStep(h) PROVE FALSE
      OBVIOUS
    <3>1. Spawn(h)
      BY <2>3 DEF HookStep, Begin, Look, Ping, PingFails, CleanupStale, RemoveControl,
         RemoveSocket, Send, GiveUp, Inline, serving
    <3>. QED
      BY <1>1, <2>1, <2>3, <3>1 DEF Spawn
  <2>5. PICK e \in Daemon : DaemonStep(e) \/ Signal(e) \/ Kill(e)
    BY <1>1, <2>3, <2>4 DEF Next, AskShutdown, Terminated, vars, serving
  <2>6. LeaveLoop(d) \/ ReplyFails(d)
    BY <1>1, <2>1, <2>3, <2>5
       DEF DaemonStep, Boot, BootCleanup, BootRemoveControl, Unlink, Bind, WriteTmp, Publish,
           Accept, ReplyFails, Pong, Shutdown, RunHook, Reply, LeaveLoop, CloseSocket,
           ForgetControl, ForgetSocket, Signal, Kill, Become
  <2>. QED
    BY <2>2, <2>6 DEF LeaveLoop, ReplyFails, Sound
<1>2. LifecycleInv /\ [Next]_vars =>
        \A d \in Daemon : server[d] = "serve" /\ server'[d] = "stop" =>
            job[d] = Idle \/ job[d].hook \in Impatient
  BY <1>1
<1>. QED
  BY <1>2, LifecycleInvariant, PTL DEF Spec, LeavesLoopIdle

(***************************************************************************)
(* The refinement.  A handler's run and an answer are steps of the         *)
(* promise; all that clients and daemons do besides is stuttering.         *)
(***************************************************************************)
LEMMA InlineIsPromised ==
    ASSUME LifecycleInv, NEW h \in Hook, Inline(h)
    PROVE  Promise!Next
<1>1. /\ pc[h] = "inline" /\ InOrder(h)
      /\ ran \in [Hook -> [Executor -> {"allow", "block", Unknown}]]
  BY DEF LifecycleInv, TypeOK, Inline
<1>2. ran[h]["inline"] = Unknown /\ answer[h] = Unknown /\ "inline" \in Executor
  BY <1>1 DEF InOrder, Executor
<1>3. CASE \E v \in Verdict(h) : ran' = [ran EXCEPT ![h]["inline"] = v] /\ Tell(h, v)
  <2>1. PICK v \in Verdict(h) : ran' = [ran EXCEPT ![h]["inline"] = v] /\ Tell(h, v)
    BY <1>3
  <2>2. ran'[h]["inline"] = v
    BY <1>1, <1>2, <2>1
  <2>3. v # Unknown
    BY VerdictTyped, DaemonAssumption
  <2>4. Promise!Run(h)
    BY <1>2, <2>1 DEF Promise!Run, Verdict
  <2>5. Promise!Answer(h)
    BY <1>2, <2>1, <2>2, <2>3 DEF Promise!Answer, Tell
  <2>. QED
    BY <2>4, <2>5 DEF Promise!Next
<1>4. CASE Tell(h, Failing(h)) /\ UNCHANGED ran
  BY <1>2, <1>4 DEF Promise!Next, Promise!Answer, Tell, Failing
<1>. QED
  BY <1>3, <1>4 DEF Inline

LEMMA RunHookIsPromised ==
    ASSUME LifecycleInv, NEW d \in Daemon, RunHook(d)
    PROVE  [Promise!Next]_<<ran, answer>>
<1>1. Sound(job[d]) /\ job[d] \in Connection /\ job[d].kind = "hook"
  BY HeldConnections DEF RunHook
<1>2. PICK h \in Hook : h = job[d].hook
  BY <1>1, IdleFacts DEF Sound, Connection
<1>3. ran[h]["daemon"] = Unknown /\ "daemon" \in Executor
  BY <1>1, <1>2 DEF Sound, Executor
<1>4. answer' = answer
  BY DEF RunHook, client
<1>5. CASE ran' = ran
  BY <1>4, <1>5
<1>6. CASE ran' # ran
  <2>1. PICK v \in Verdict(h) : ran' = [ran EXCEPT ![h]["daemon"] = v]
    BY <1>2, <1>6 DEF RunHook
  <2>2. Promise!Run(h)
    BY <1>3, <2>1 DEF Promise!Run, Verdict
  <2>. QED
    BY <1>4, <2>2 DEF Promise!Next
<1>. QED
  BY <1>5, <1>6

LEMMA ReplyIsPromised ==
    ASSUME LifecycleInv, NEW d \in Daemon, Reply(d)
    PROVE  [Promise!Next]_<<ran, answer>>
<1>1. Sound(job[d]) /\ job[d] \in Connection /\ job[d].kind \in ToReply /\ ~job[d].gone
  BY HeldConnections DEF Reply
<1>2. PICK h \in Hook : h = job[d].hook
  BY <1>1, IdleFacts DEF Sound, Connection, ToReply
<1>3. ran' = ran
  BY DEF Reply
<1>4. CASE job[d].kind = "failed"
  BY <1>3, <1>4 DEF Reply
<1>5. CASE job[d].kind # "failed"
  <2>1. answer' = [answer EXCEPT ![h] = job[d].kind]
    BY <1>2, <1>5 DEF Reply, Tell
  <2>2. ran[h]["daemon"] = job[d].kind /\ job[d].kind # Unknown /\ "daemon" \in Executor
    BY <1>1, <1>2, <1>5, DaemonAssumption DEF Sound, ToReply, Executor
  <2>3. pc[h] = "waiting"
    BY <1>1, <1>2, <1>5 DEF Sound, ToReply
  <2>4. InOrder(h)
    BY DEF LifecycleInv
  <2>5. answer[h] = Unknown
    BY <2>3, <2>4 DEF InOrder
  <2>6. Promise!Answer(h)
    BY <1>3, <2>1, <2>2, <2>5 DEF Promise!Answer
  <2>. QED
    BY <1>3, <2>6 DEF Promise!Next
<1>. QED
  BY <1>4, <1>5

(***************************************************************************)
(* The hooks implement their promise to the agent: whatever daemons and    *)
(* timeouts do, each executor runs a handler at most once, and there is    *)
(* one answer, a verdict of a run or the one that stands for a failure.    *)
(***************************************************************************)
THEOREM HooksKeepPromise == Spec => PromiseSpec
<1>1. Init => Promise!Init
  BY DEF Init, Promise!Init
<1>2. LifecycleInv /\ [Next]_vars => [Promise!Next]_<<ran, answer>>
  <2>. SUFFICES ASSUME LifecycleInv, [Next]_vars PROVE [Promise!Next]_<<ran, answer>>
    OBVIOUS
  <2>1. ASSUME NEW h \in Hook, HookStep(h) PROVE [Promise!Next]_<<ran, answer>>
    <3>1. CASE Inline(h)
      BY <3>1, InlineIsPromised
    <3>2. CASE ~Inline(h)
      BY <2>1, <3>2 DEF HookStep, Begin, Look, Ping, PingFails, CleanupStale, RemoveControl,
         RemoveSocket, Spawn, Send, GiveUp
    <3>. QED
      BY <3>1, <3>2
  <2>2. ASSUME NEW d \in Daemon, DaemonStep(d) \/ Signal(d) \/ Kill(d)
        PROVE  [Promise!Next]_<<ran, answer>>
    <3>1. CASE RunHook(d) \/ Reply(d)
      BY <3>1, RunHookIsPromised, ReplyIsPromised
    <3>2. CASE ~RunHook(d) /\ ~Reply(d)
      BY <2>2, <3>2 DEF DaemonStep, Boot, BootCleanup, BootRemoveControl, Unlink, Bind, WriteTmp,
         Publish, Accept, ReplyFails, Pong, Shutdown, LeaveLoop, CloseSocket, ForgetControl,
         ForgetSocket, Signal, Kill, client
    <3>. QED
      BY <3>1, <3>2
  <2>3. CASE AskShutdown \/ UNCHANGED vars
    BY <2>3 DEF AskShutdown, vars, client
  <2>. QED
    BY <2>1, <2>2, <2>3 DEF Next, Terminated
<1>. QED
  BY <1>1, <1>2, LifecycleInvariant, PTL DEF Spec, PromiseSpec, Promise!Spec

-----------------------------------------------------------------------------
(***************************************************************************)
(* A hook process comes to an end.  What may follow step s of its n-th     *)
(* poll: step t of the m-th.                                               *)
(***************************************************************************)
NotFoundFollows(n, t, m) ==
    \/ n = 0 /\ m = n /\ t = "cleanup"
    \/ n \in 1..(Retries - 1) /\ m = n + 1 /\ t = "look"
    \/ n > 0 /\ m = n /\ t = "inline"

Follows(s, n, t, m) ==
    \/ s \in {"look", "ping", "pinging"} /\ NotFoundFollows(n, t, m)
    \/ s = "look" /\ n = 0 /\ m = n /\ t = "spawn"
    \/ s = "spawn" /\ m = 1 /\ t = "look"
    \/ /\ m = n
       /\ \/ s = "start" /\ t \in {"look", "inline"}
          \/ s = "look" /\ t = "ping"
          \/ s = "ping" /\ t = "pinging"
          \/ s = "pinging" /\ t = "send"
          \/ s = "cleanup" /\ t \in {"remove", "spawn"}
          \/ s = "remove" /\ t = "unlink"
          \/ s = "unlink" /\ t = "spawn"
          \/ s = "spawn" /\ t = "inline"
          \/ s = "send" /\ t \in {"waiting", "inline"}
          \/ s = "waiting" /\ t \in {"inline", "done"}
          \/ s = "inline" /\ t = "done"

LEMMA FollowingIsLess ==
    ASSUME NEW s \in HookState, NEW t \in HookState, NEW n \in 0..Retries, NEW m \in 0..Retries,
           Follows(s, n, t, m)
    PROVE  Before(t) + Turns(t, m) \in 0..(Before(s) + Turns(s, n) - 1)
<1>1. Retries \in Nat \ {0}
  BY DaemonAssumption
<1>2. Before(t) \in 0..14 /\ Turns(t, m) \in Nat
  BY <1>1 DEF Before, Turns, HookState, Waits
<1>3. CASE s \in {"look", "ping", "pinging"} /\ NotFoundFollows(n, t, m)
  <2>1. Before(s) \in 4..6
    BY <1>3 DEF Before
  <2>2. CASE n = 0
    BY <1>1, <1>2, <1>3, <2>1, <2>2 DEF NotFoundFollows, Before, Turns
  <2>3. CASE n # 0
    BY <1>1, <1>2, <1>3, <2>1, <2>3 DEF NotFoundFollows, Before, Turns
  <2>. QED
    BY <2>2, <2>3
<1>4. CASE s \in {"look", "ping", "pinging"} /\ ~NotFoundFollows(n, t, m)
  BY <1>1, <1>2, <1>4 DEF Follows, Before, Turns
<1>5. CASE s \notin {"look", "ping", "pinging"}
  BY <1>1, <1>2, <1>5 DEF Follows, Before, Turns
<1>. QED
  BY <1>3, <1>4, <1>5

LEMMA NotFoundIsFollowed ==
    ASSUME TypeOK, NEW h \in Hook, NotFound(h)
    PROVE  /\ NotFoundFollows(polls[h], pc'[h], polls'[h])
           /\ \A k \in Hook \ {h} : pc'[k] = pc[k] /\ polls'[k] = polls[k]
<1>1. /\ polls \in [Hook -> 0..Retries] /\ Retries \in Nat \ {0}
      /\ pc \in [Hook -> HookState]
  BY DaemonAssumption DEF TypeOK, HookState, Waits
<1>2. CASE polls[h] = 0
  BY <1>1, <1>2 DEF NotFound, Goto, NotFoundFollows
<1>3. CASE polls[h] # 0 /\ polls[h] \in 1..(Retries - 1)
  BY <1>1, <1>3 DEF NotFound, Goto, NotFoundFollows
<1>4. CASE polls[h] # 0 /\ polls[h] \notin 1..(Retries - 1)
  BY <1>1, <1>4 DEF NotFound, Goto, NotFoundFollows
<1>. QED
  BY <1>2, <1>3, <1>4

LEMMA HookStepFollows ==
    ASSUME TypeOK, NEW h \in Hook, HookStep(h)
    PROVE  /\ Follows(pc[h], polls[h], pc'[h], polls'[h])
           /\ \A k \in Hook \ {h} : pc'[k] = pc[k] /\ polls'[k] = polls[k]
<1>1. polls \in [Hook -> 0..Retries] /\ pc \in [Hook -> HookState]
  BY DEF TypeOK, HookState, Waits
<1>2. CASE Look(h) \/ Ping(h) \/ PingFails(h)
  <2>1. pc[h] \in {"look", "ping", "pinging"}
    BY <1>2 DEF Look, Ping, PingFails
  <2>2. CASE NotFound(h)
    BY <2>1, <2>2, NotFoundIsFollowed DEF Follows
  <2>3. CASE ~NotFound(h)
    <3>1. /\ polls' = polls
          /\ \/ pc[h] = "look" /\ Goto(h, "ping")
             \/ pc[h] = "look" /\ polls[h] = 0 /\ Goto(h, "spawn")
             \/ pc[h] = "ping" /\ Goto(h, "pinging")
      BY <1>2, <2>3 DEF Look, Ping, PingFails
    <3>. QED
      BY <1>1, <3>1 DEF Follows, Goto
  <2>. QED
    BY <2>2, <2>3
<1>3. CASE Spawn(h)
  <2>1. /\ pc[h] = "spawn"
        /\ \/ polls' = [polls EXCEPT ![h] = 1] /\ Goto(h, "look")
           \/ polls' = polls /\ Goto(h, "inline")
    BY <1>3 DEF Spawn
  <2>. QED
    BY <1>1, <2>1 DEF Follows, Goto
<1>4. CASE Begin(h) \/ CleanupStale(h) \/ RemoveControl(h) \/ RemoveSocket(h)
  <2>1. /\ polls' = polls
        /\ \/ pc[h] = "start" /\ (Goto(h, "look") \/ Goto(h, "inline"))
           \/ pc[h] = "cleanup" /\ (Goto(h, "remove") \/ Goto(h, "spawn"))
           \/ pc[h] = "remove" /\ Goto(h, "unlink")
           \/ pc[h] = "unlink" /\ Goto(h, "spawn")
    BY <1>4 DEF Begin, CleanupStale, RemoveControl, RemoveSocket
  <2>. QED
    BY <1>1, <2>1 DEF Follows, Goto
<1>5. CASE Send(h) \/ GiveUp(h) \/ Inline(h)
  <2>1. /\ polls' = polls
        /\ \/ pc[h] = "send" /\ (Goto(h, "waiting") \/ Goto(h, "inline"))
           \/ pc[h] = "waiting" /\ Goto(h, "inline")
           \/ pc[h] = "inline" /\ Goto(h, "done")
    BY <1>5 DEF Send, GiveUp, Inline, Tell
  <2>. QED
    BY <1>1, <2>1 DEF Follows, Goto
<1>. QED
  BY <1>2, <1>3, <1>4, <1>5 DEF HookStep

(***************************************************************************)
(* Of a daemon's steps, a hook notices the reply it waits for.             *)
(***************************************************************************)
LEMMA DaemonStepFollows ==
    ASSUME LifecycleInv, NEW d \in Daemon, DaemonStep(d) \/ Signal(d) \/ Kill(d)
    PROVE  /\ polls' = polls
           /\ \A h \in Hook : pc'[h] # pc[h] => Follows(pc[h], polls[h], pc'[h], polls[h])
<1>1. pc \in [Hook -> HookState]
  BY DEF LifecycleInv, TypeOK, HookState, Waits
<1>2. Sound(job[d]) /\ job[d] \in Connection
  BY HeldConnections
<1>3. CASE Pong(d)
  <2>1. /\ job[d].kind = "ping" /\ ~job[d].gone /\ polls' = polls
        /\ pc' = [pc EXCEPT ![job[d].hook] = "send"]
    BY <1>3 DEF Pong, Goto
  <2>2. \A h \in Hook : pc'[h] # pc[h] => h = job[d].hook /\ pc'[h] = "send" /\ pc[h] = "pinging"
    BY <1>1, <1>2, <2>1 DEF Sound
  <2>. QED
    BY <2>1, <2>2 DEF Follows
<1>4. CASE Reply(d)
  <2>1. /\ job[d].kind \in ToReply /\ ~job[d].gone /\ polls' = polls
        /\ \/ pc' = [pc EXCEPT ![job[d].hook] = "inline"]
           \/ pc' = [pc EXCEPT ![job[d].hook] = "done"]
    BY <1>4 DEF Reply, Goto, Tell
  <2>2. \A h \in Hook : pc'[h] # pc[h] =>
            h = job[d].hook /\ pc'[h] \in {"inline", "done"} /\ pc[h] = "waiting"
    BY <1>1, <1>2, <2>1 DEF Sound, ToReply
  <2>. QED
    BY <2>1, <2>2 DEF Follows
<1>5. CASE ~Pong(d) /\ ~Reply(d)
  <2>1. UNCHANGED <<pc, polls>>
    BY <1>5 DEF DaemonStep, Boot, BootCleanup, BootRemoveControl, Unlink, Bind, WriteTmp, Publish,
       Accept, ReplyFails, Shutdown, RunHook, LeaveLoop, CloseSocket, ForgetControl, ForgetSocket,
       Signal, Kill, client
  <2>. QED
    BY <2>1
<1>. QED
  BY <1>3, <1>4, <1>5

(***************************************************************************)
(* Whatever daemons do, a hook process takes 3 * Retries + 14 steps at     *)
(* most, the answers of daemons included.                                  *)
(***************************************************************************)
THEOREM HooksAdvance == Spec => HookAdvances
<1>1. ASSUME LifecycleInv, TypeOK', [Next]_vars, NEW h \in Hook,
             pc'[h] # pc[h] \/ polls'[h] # polls[h]
      PROVE  Left(h)' \in 0..(Left(h) - 1)
  <2>1. Follows(pc[h], polls[h], pc'[h], polls'[h])
    <3>1. ASSUME NEW k \in Hook, HookStep(k)
          PROVE  Follows(pc[h], polls[h], pc'[h], polls'[h])
      <4>1. k = h
        BY <1>1, <3>1, HookStepFollows DEF LifecycleInv
      <4>. QED
        BY <1>1, <3>1, <4>1, HookStepFollows DEF LifecycleInv
    <3>2. ASSUME NEW d \in Daemon, DaemonStep(d) \/ Signal(d) \/ Kill(d)
          PROVE  Follows(pc[h], polls[h], pc'[h], polls'[h])
      BY <1>1, <3>2, DaemonStepFollows
    <3>3. CASE AskShutdown \/ UNCHANGED vars
      BY <1>1, <3>3 DEF AskShutdown, vars, client
    <3>. QED
      BY <1>1, <3>1, <3>2, <3>3 DEF Next, Terminated
  <2>2. /\ pc[h] \in HookState /\ pc'[h] \in HookState
        /\ polls[h] \in 0..Retries /\ polls'[h] \in 0..Retries
    BY <1>1 DEF LifecycleInv, TypeOK, HookState, Waits
  <2>3. Before(pc'[h]) + Turns(pc'[h], polls'[h]) \in 0..(Before(pc[h]) + Turns(pc[h], polls[h]) - 1)
    BY <2>1, <2>2, FollowingIsLess
  <2>4. \A t \in HookState, m \in 0..Retries : Before(t) \in Int /\ Turns(t, m) \in Int
    BY DaemonAssumption DEF Before, Turns, HookState, Waits
  <2>. QED
    BY <2>2, <2>3, <2>4 DEF Left
<1>2. LifecycleInv /\ LifecycleInv' /\ [Next]_vars =>
        \A h \in Hook :
            pc'[h] # pc[h] \/ polls'[h] # polls[h] => Left(h)' \in 0..(Left(h) - 1)
  BY <1>1 DEF LifecycleInv
<1>. QED
  BY <1>2, LifecycleInvariant, PTL DEF Spec, HookAdvances
=============================================================================
