# EGTSR, specified in TLA+

EGTSR (`src/egtsr_runtime`) keeps explicit task state for a coding agent in one
SQLite database per repository and uses it to refuse prompts that would act on
stale state. This directory holds TLA+ modules of that runtime, the TLC
configurations that check them on small instances, and proofs of the main
results for instances of any size.

## 1. Inventory

| Part (under `src/egtsr_runtime`) | State it keeps | Operations | Hard behaviour | What makes it correct |
|---|---|---|---|---|
| Hooks: `hooks/*` | none of their own; every hook is a process over the database | SessionStart, UserPromptSubmit, PostToolUse, SessionEnd; fail closed (prompt) or open (the rest) | statements of several hooks interleave, any of them fails or is killed | no refusal in force is missed; a blocked gate is reopened only by a start |
| Invalidation: `services/invalidation.py` | `invalidation_tickets`, statuses of assertions and obligations | `apply`, by session scan or by reverse index | three axes in one transaction, lineage between tickets, two implementations of one function | every touch ticketed; claims and verified work fall together; lineage whole; both paths agree |
| Canonical store: `db/schema.sql`, `repositories/*` | sessions, evidence, assertions, obligations, tickets, capsules, events, gate, repo state, frontiers | upsert, mark, list | callers follow no protocol but SQLite's | statuses consistent with each other |
| Projections: `services/projections.py`, `projection_backfill.py` | `path_subject_index`, `assertion_evidence_links`, `obligation_frontier`, `session_frontier` | dual-write sync, dirty marks, backfill | derived rows go stale | what they answer equals what the canonical rows answer |
| Shadow runner: `compat/shadow_runner.py` | none | run both paths, keep one, report differences | the comparison shares the transaction | the primary result is never lost |
| Resume gate, freshness gate: `services/resume_gate.py`, `freshness_gate.py` | `resume_gate_state`, `freshness_frontiers` | evaluate, collect, compare | several reads at several instants, git behind them | see hooks |
| Unit of work, snapshots: `db/uow.py` | a connection | commit, rollback on exit, load and save a session snapshot | read in one transaction, write in another | no lost update |
| Verify recorder, attempt families | `verify_results`, `attempt_families` | record, count failures | read-modify-write | a family has counted every failure; counts are lost only in a race, and never made up |
| Compilers and audit: `compiler/*` | capsules, cached blocks | full and incremental compile, audit | cached blocks, dirty flags, fallback | a reused block is the one a rebuild gives; a capsule argues from nothing withdrawn; nothing withdrawn passes the audit |
| Daemon: `daemon/*` | control file, socket, one long-lived runtime | boot, serve, ping, shut down; client with inline fallback | takeover races, timeouts, double execution | every hook is answered; a patient client's hook is executed once; a prompt fails closed |
| Migrations, boot: `db/migrations/*`, `db/runtime.py` | `schema_migrations` | run pending migrations | concurrent boots, a crash between a step and its mark | a marked version is complete; undisturbed boots succeed |
| Cutover: `compat/cutover.py`, `config.py` | stage file, flag file | advance, set, rollback | two files, no transaction, a daemon that loaded its flags earlier | no unsafe combination of flags is in force; a stage beyond baseline is |
| Recovery: `ops/*` | exported JSON, log | doctor, reset | acts beside the running hooks | a reset is undone only by a recorder that read before it |
| Ingest, prompt intent | none | text to records and flags | text matching | not a matter for a model checker |
| CLI, MCP, UI, benchmarks | none | views and measurement | | not modelled |

The hooks meet in the database, in the daemon's files, and in the flags file.
PostToolUse calls the invalidation service inside its own transaction;
UserPromptSubmit reads the gate, `repo_state` and the tickets, collects a frontier
and compiles; SessionStart and SessionEnd write the gate. The agent (and
`db/seed.py`, and the tests) writes obligations and assertions through the
repositories.

`PROJECT.json` lists the components with their status, and under `hazards` every
behaviour that is hard to test, at its line.

## 2. Modules

| Module | Contents |
|---|---|
| `ClaimTrust` | abstract specification: claims are trusted, work is verified; trust is withdrawn all the way up in one step |
| `FileTouchInvalidation` | the store, PostToolUse, the agent's writes, the backfill; refines `ClaimTrust` |
| `FileTouchInvalidationProofs` | theorems about it |
| `HookProcesses` | the four hooks as processes over one session's rows, statement by statement |
| `HookProcessesProofs` | its proofs |
| `EvidencePools` | the block a capsule shows for one obligation, as a function of the rows |
| `IncrementalCompile` | the incremental and the full compiler, the block cache, and the writers that mark it dirty or do not |
| `AttemptFamilies` | concurrent recorders of failed attempts, and the operator's reset |
| `HookPromise` | abstract specification: what a hook promises the agent that calls it |
| `DaemonLifecycle` | hook clients and daemons with their files, sockets and queues; refines `HookPromise` |
| `SchemaVersion` | abstract specification: a database goes up one version at a time, each when all of it is there |
| `Migrations` | the boot of a database, statement by statement; refines `SchemaVersion` |
| `Cutover` | the cutover commands, the two files they write, and the readers of flags |
| `<module>Proofs` | the theorems about each of the seven detailed modules |
| `MC<module>` | values of the constants for TLC |

### FileTouchInvalidation

A PostToolUse is one action, because it is one transaction:
`PostToolUseService.handle` writes its evidence row first, which takes SQLite's
write lock, and commits last. Everything it reads in between is read under the
lock.

| Variable | Code |
|---|---|
| `stored`, `row` | `evidence`: which rows exist; session and `path`/`scope_ref` |
| `claims`, `claim`, `status` | `assertions` |
| `obStatus` | `obligations.status` |
| `tickets` | rows of `invalidation_tickets` (subject, session, `caused_by_ticket_id`, the call that made them) |
| `txn` | number of the call, so that a ticket of this call differs from an older one of the same subject |
| `repoDirty` | `repo_state.dirty` |
| `indexed`, `scopeIndex`, `links`, `frontier` | the projections |
| `touched`, `synced` | history variables: the touches that took place; the sessions whose projections hold every row |

Actions: `InvalidateByScan` (`_apply_legacy`), `InvalidateByIndex`
(`_apply_reverse_index`), `ShadowAgrees`/`ShadowDiffers` (the shadow runner and
its diff), `UpsertClaim`, `MarkStatus`, `RecordVerifyFailure`, `Backfill`.

Choices a reader should know:

- **Rows in place of identifiers.** `uuid4` ids are members of constant sets. Claims
  are numbered in the order the repositories list them (`created_at, id`),
  because the code takes the last impacted claim as an obligation's cause.
- **A ticket has no status.** Every ticket is created `live` and no code of the
  repository writes another status, so the column is dropped. For the same
  reason a claim may be re-made after it went stale while its old ticket stays.
- **The agent** is outside the repository. Assumed of it: a claim cites existing
  evidence of its own session and stands under an obligation of its own session;
  an obligation is marked verified only while no claim under it is stale. The
  repositories enforce none of it. What the agent may do otherwise is free: claims
  are re-made with any citations and, for as many shapes as `ClaimShapes` gives,
  with another obligation and scope, in any status but stale.
- **`Configs`** is the set of configurations in force at one time or another, so that
  a cutover in mid-session is a behaviour of the model.

### HookProcesses

Python's `sqlite3` in its default mode opens a transaction at the first INSERT,
UPDATE or DELETE; a SELECT before that is its own read. Each such SELECT, and
each call of git, is an action; everything from the first write to the commit is
one action. `local[p]` is what process `p` has read so far, `pc[p]` where it is,
and `Fail` and `Kill` may strike at any step (busy timeout, full disk, a missing
session row, a signal); an open transaction is then rolled back. `Outside`
changes the worktree at any time.

Three abstractions: a ticket is known by the tool call that left it, and
whether a call leaves one is free (module `FileTouchInvalidation` says which);
the audit's other reasons to refuse are a free choice; and the two git calls that
SessionStart makes inside its own transaction are taken at its commit. Runtime
mode is legacy, so that the full compiler runs. `saw[p]` is a history
variable: what held of the rows at some instant while write prompt `p` ran.

### EvidencePools, IncrementalCompile

`EvidencePools` is pure: from a record of rows (statuses, obligations, citations,
stored evidence, live tickets, failed families) it gives the pools and the next check
of a block, following `compiler/pools.py` and `next_checks.py`. Both compilers build
their blocks with it and differ in the rows they have read. Evidence ids are numbers
in the order of creation, since the uncertain pool shows the oldest one.

| Variable | Code |
|---|---|
| `obligation`, `status`, `under`, `cites`, `stored`, `live`, `failures` | the canonical rows: obligations reduced to verified or not, a claim's status, `obligation_id` and evidence ids, evidence, live tickets, attempt families by last outcome |
| `frontier` | `obligation_frontier`: dirty flag and cached block |
| `pc`, `read`, `writing` | where the compile is, what it has read, whether it holds the write lock |
| `capsule` | the capsule compiled, with what the audit is told, until the hook replies |
| `missed`, `overtaken` | history: obligations a write has changed without marking their row; obligations written to since the compile began |

The compile is a sequence of SELECTs, one action each (`ReadOpen` to `ReadFamilies`,
`ReadLive`, `Assemble`). `CacheBlocks` writes the rebuilt blocks to the cache and marks
them clean; from there to its commit the compile holds SQLite's write lock, before that
anyone may write between two reads. A session with a freshness baseline has written
before it compiles; then nobody does, which is one of these behaviours. `FallBack` and
`CachingFails` are the exception handler around it; `ReadOpenAgain` to `FullCompile` are
the other compiler, which reads all rows where the incremental one reads a slice:
`everything` and `slice` differ in the stale claims and in which families count as
failed. The fallback for too many dirty rows is one of `FallBack`; it needs
`session_frontier.last_compiled_capsule_id`, which only tests set.

Writers are one transaction each. A claim may be upserted under any obligation or none
and cite evidence that is not there; only the obligation it comes under is marked
(`services/projections.py:363-364`). Evidence may be stored after the claim that cites
it; then nothing is marked. A failure may be recorded with its projections or by
`register_failure`, which marks nothing (`benchmarks/scenarios.py` and tests call it);
an invalidation may be found by the reverse index, which marks, or by the scan, which
does not. A write that changes a block without marking its row puts the obligation in
`missed`, until the block is rebuilt.

One session is modelled, with claims and failures written by callers that use the
dual-write functions, apart from the two exceptions named; the three ticket lookups of
the materializer are one step; the block cached does not hold the token estimates and
texts of the code's; the hashes over rendered text take part in no decision other than
that a block has a cache; the capsule's warnings and layout are left out.

### AttemptFamilies

`Find` is the SELECT by signature, made without a lock; `Register` the upsert up to the
commit, `Abandon` a failure or death of the caller, `ResetToCheckpoint` the reset of
`ops/recovery_cli.py`, which deletes the families that last said 'fail'. A caller that
has written before it looks holds SQLite's lock all along; that nobody commits in between
is one of the behaviours. History variables: `registered`, the failures committed to a
signature since its last reset; `into`, those committed to a family; `behind`, the
recorders since whose read another has written to their signature; `spoilt`, the
signatures such a recorder has registered.

### HookPromise, DaemonLifecycle

| Variable | Code |
|---|---|
| `control`, `tmp`, `sock` | `control.json` and its temporary file, the socket file: which daemon they lead to |
| `server`, `running` | where a daemon is, from boot to removal of its files; its `_running` flag |
| `queue`, `job` | connections the kernel holds for it, the one it handles; with what is asked or to be replied and whether the client has hung up |
| `pc`, `polls` | where a hook process is, from discovery to answer; the attempt to find a daemon it spawned |
| `ran`, `answer` | what was committed for the hook, by the daemon and inline; what it printed |

One action per system call that another process can see: reading the control file,
connecting, unlinking a file, renaming the temporary file, binding, accepting,
replying. A timeout is a step that may be taken whenever the client waits, for the
hooks in `Impatient`; for the others only when the connection is lost. Two
executors may run a handler, the daemon and the hook's own process, and
`HookPromise` says what they may do together; the refinement gives it the verdicts and
the failing answers literally, so that a prompt that fails open breaks it. The handler's
inside is module `HookProcesses`; here it commits a verdict or fails.

### Migrations

Python's `sqlite3` opens no transaction for DDL, so every statement of a script
commits by itself and the row in `schema_migrations` comes after the last one. A
script is the sequence of the objects it makes, where one name stands for tables and
indexes that behave alike; `Needs` and `Unguarded` say when a statement raises.
`faults` is chosen at the start and says what happens in this history of the
database: processes that are killed, boots that overlap. Initially the database is
new, one from before the registry, or at any version. The version of `SchemaVersion`
is the number of marks, and a history with faults is what it calls disturbed: there it
promises less of version 1.

### Cutover

A command reads both files, writes the flags, then the stage, each an action;
`Die` ends it in between. A hook decides by the flags file whether to use the daemon
(`Decide`) and runs under the config it loads then, or under the one the daemon
loaded at its boot. `faults` says whether commands are killed and whether the first
flags file was written by hand with `runtime_mode` alone. The four flags are those of
`_FEATURE_FLAGS` in `config.py`.

## 3. Runs

| Run | Question | Result | Bounds |
|---|---|---|---|
| `legacy_scan` | does the session-wide scan miss a touch, or leave verified work on a stale claim? | passes | 1 session, 2 files, 2 evidence rows, 2 claims (3 shapes), 1 obligation, 2 tool calls, 2 citations |
| `reverse_index_backfilled` | do projections, kept by dual writes and backfills, give the scan's answer, and what may lagging ones add or miss? is the store still sound in shadow mode and with the index on? | passes | 2 sessions, 1 file, 1 citation, otherwise the same |
| `projections_in_sync` | are they in sync at all times, as `services/projections.py` says? | violated in 1 call | |
| `shadow_primary` | is the scan's result always kept in shadow mode, as the runner says? | violated in 2 calls | |
| `hooks_concurrent` | what can an allowed prompt have missed, and who reopens a gate? | passes | 3 processes of any of 6 kinds, 1 file, 1 outside commit |
| `dirty_lasts` | does a recorded dirty tree last until the next start? | violated in 10 steps: two ends and one tool call | |
| `block_cache` | when may a cached block be wrong, and what may a capsule argue from, leave out, or pass the audit with? | passes | 2 obligations, 2 claims (symmetric), 1 evidence row, 3 writes by others, of them behind a running compile those to 1 obligation; 1 failed family, 1 read of them |
| `verdict_differs` | does the incremental compiler's capsule pass the audit only if the full one's does, as its tests say? | violated: one claim, one tool call, one compile | the same |
| `failures_merged` | is every failure counted once, and when not, what can happen? | passes | 3 recorders, 2 signatures, 2 ids at a time, 3 failures each |
| `daemon_faults` | what may a client be told, when does a hook run twice, how many steps does one take, is every hook answered? | passes, with fairness of the hooks alone | 2 hooks (a prompt that may time out, a tool call that does not), 2 daemons (one may be killed), 1 poll, backlog 1 |
| `migrate_boots` | in which order does the schema grow, what does a ready process have under it, and when does a boot succeed? | passes, with fairness | 2 processes, all 9 initial databases, any number of boots |
| `cutover_commands` | which stage, flags and mode can be in force together? | passes | 2 hooks (symmetric), 1 daemon at a time, any number of commands |

Why the bounds are enough. Two evidence rows give a claim that cites a fresh and
a stale one, in both orders; two claims under one obligation give a reopening
with one claim already stale and the choice of the cause; two calls give a ticket
older than the one the property asks for, and a claim re-made in between; two
files give a call that misses the evidence. A second session, with tool calls of
its own over the same path, is what a missing session filter would mix up. Three
processes give a prompt, a tool call and an end or a start that overlap pairwise; a
fourth adds no new pair of reader and writer. For a block, two claims give a
supported one that a confirmed one depends on, and a claim changed while the other is
shown from the cache; the second obligation gives a block that is reused while the
other is rebuilt, the place a claim moves to, and the frontier rows missing in part.
Three writes make a claim, withdraw it and make it again, or make it, move it and
withdraw it, with compiles between or under way; 700 000 states come of it. Writes to the
second obligation behind a compile that already was overtaken in the first are left out,
since each exempts only its own. Two recorders that overtake each other and a third that
reads what they leave behind, with resets at any time, are all the roles there are; two
family ids at a time give a signature with two families. Two daemons give one hidden
by the other and one that removes the other's files; a backlog of one is full when a
ping or a shutdown command waits in it. One poll is enough to be late. The schema is
the repository's own; of it nothing is bounded. The proofs below lift the safety
results of all seven modules from these bounds.

`CHECK_DEADLOCK FALSE` appears in the `HookProcesses` configurations alone: with
every process done and the worktree at its bound the model stops, as the program
does. Module `DaemonLifecycle` has an action `Terminated` instead, that
stutters when all hooks are answered and all daemons gone, so that any other
standstill is reported.

**Fairness.** In `DaemonLifecycle`, `WF_vars(HookStep(h))`: a hook process that can take
a step is scheduled until it ends, and its socket timeouts (0.3 s for a ping, 10 s for a
hook) bound its waits. No fairness is assumed of Claude Code's launches, of failures,
kills or signals, and none of daemons: they may hang in any step. In `Migrations`,
`WF_vars(BootStep(p))`: a process that boots goes on, for SQLite's `busy_timeout` turns
a lock that is not released into an exception; the other modules state none.

### What the properties say

- `VerifiedRestsOnNothingStale`, `TrustSpec`: no state shows work verified on
  a claim that has gone stale, and every step is one of `ClaimTrust`.
- `EveryTouchIsTicketed`, `ClaimsFallWithTheirEvidence`: staleness is not missed. These
  hold of the scan; the reverse index has them only where its projections are complete.
- `SyncedTouchesAreTold` is what remains of them in every configuration: a call that
  commits in a session with complete projections, and keeps them so, tickets all it
  touches and fells the claims that cite it. A call that shadow mode rolls back
  (`shadow_primary`) has not committed, and the statement is silent on it.
- `IndexNeverInvents`: a projection that lags makes the reverse index miss rows, never
  invalidate one the scan would leave, for any set of changed files. It needs dual writes:
  without them a claim re-made under another scope keeps the index row of its old one.
- `LineageSound`, `LineageExplains`: `caused_by_ticket_id` names an existing ticket
  one axis up, of the same call and session, that does explain the effect.
- `ReverseIndexMatchesScan`: for any set of changed files the two paths would
  invalidate exactly the same rows, for sessions with every row projected.
- `AllowedWriteWasSafe`: three rows read at three instants cannot be combined into
  a permission that no instant of the prompt's run justified. It is stated per
  condition: the code has no snapshot, and the stronger statement (all three at one
  instant) does not hold of it.
- `AllowedCommitUnticketed`: with a baseline, the freshness row takes the write
  lock, so the capsule is compiled from what is committed.
- `GateOpensAtStartOnly`: SessionEnd's stale `repo_state` cannot open a gate.
- `CacheHitIsValid`: a clean cached block equals the one a rebuild would give now. It
  relates the cache to six tables, whatever compiles and writers do between each other's
  statements. Of an obligation in `missed` it says nothing until its block is rebuilt,
  because there the code does keep a wrong block: of the obligation a claim was moved
  away from (`repositories/assertions.py:86`, `services/projections.py:363-364`), of one
  whose claim cites evidence that was stored later (`services/projections.py:369`), after
  a failure recorded by `register_failure`, after an invalidation found by the scan, and
  when the block was written to while it was built: the compile's clean mark then wipes
  the writer's dirty mark (`compiler/incremental.py:215`). What the property adds is that
  these are all the cases, and that a rebuild ends them.
- `ShownIsInForce`: the claims and evidence a capsule argues with are live when it is
  handed over, however old the cached block they come from, and no open obligation is
  left out. `ConfirmedIsAccountedFor`: of a confirmed claim the capsule shows all the
  positive evidence that is left, or the audit is told that it is unsupported. These
  speak of the capsule as the agent reads it, from either compiler, and are silent on
  obligations in `missed` or `overtaken`: a capsule is of the rows it has read.
- `PassedRestsOnNothingWithdrawn`: with a capsule that passes the audit, no active claim
  under an obligation it shows cites evidence a live ticket withdraws, `missed` or not.
  It rests on the tickets being read again after the blocks, and it holds of a claim that
  was made again on withdrawn evidence, whose block is marked and cached like any other.
- `PassesAsFullWould`, which the run `verdict_differs` refutes: the audit refuses a
  capsule for tickets for claims too, and the incremental compiler does not hand it
  those. With no open obligation its capsule is empty, and so is what the audit is told,
  where the full compiler's would name the live tickets; the property leaves this case
  out, as the test it is taken from does.
- `FailuresCounted`: no failure is lost or split, and none from before a reset comes
  back, but for the signature of a recorder that was overtaken between its read and its
  write. Such a recorder does all of that: two that read the same count lose one, two
  that find no family make two (`services/attempt_families.py:27-33`, though its docstring
  says "merging into existing family if signature matches"), and one that read before a
  reset inserts the deleted family again, with its count. The property says that nothing
  else can, and that a reset of the signature ends it.
- `NeverOvercounted`: in all of these cases a family claims no more failures than were
  committed to it.
- `HeldIsAwaited`: a connection that a daemon still holds open is the one its client
  waits on, so that an answer never reaches a hook that has moved on.
- `RunsOnce`: a hook is executed twice only if its client timed out or a daemon was
  killed. The condition is needed: a client that gives up after 10 s runs the handler
  inline while the daemon may still commit it, and a kill may fall between commit
  and reply.
- `LeavesLoopIdle`: what takes a daemon out of its loop with a request in hand is a
  client that hung up, whose reply raises out of the loop (`daemon/server.py:165`).
- `PromiseSpec` of `DaemonLifecycle`, `EveryHookAnswered`: whatever daemons do to one
  another, a prompt passes only by a verdict, every executor commits a hook at most
  once, and an impatient client is answered. That there is one daemon at a time does
  not hold of the code: a daemon that boots unlinks the socket of a live one.
- `HookAdvances`: what is left of a hook process (`Left`) goes down with each step of it
  and each answer it gets, from at most `3 * Retries + 14`. Discovery may look, ping, time
  out, clean up and spawn; it does not go round in circles, whatever files daemons
  make and remove under it. Together with fairness of the process and the absence of a
  standstill this is why `EveryHookAnswered` holds.
- `VersionSpec`, `ReadyIsMigrated`: with kills and overlapping boots, no statement runs
  before its version's turn, and a version that is marked is complete but for the
  first one: a process that finds `sessions` while another is half-way through
  migration 1 takes the database for one from before the registry and marks it.
- `BootAdvances`: a boot's remaining steps go down with each of its own and with
  nobody else's, though others mark versions meanwhile: 46 steps at most.
- `BootDoesNotFail`, `BootEnds` are stated of histories without a fault. With one they
  do not hold: a kill between `ALTER TABLE` of migration 7 and its mark makes every later
  boot fail on the duplicate column, and of two boots that overlap there one fails.
- `FlagsAreOfOneStage`: whatever was rolled back, how often and in what order, and wherever
  commands died, the file holds the flags of one stage or what one rollback leaves of
  them: there is no mixture of two stages, and rolling back twice is rolling back
  once, to the deeper level.
- `CompilerHasProjections`: no config in force anywhere has the incremental compiler
  without its tables. `StageIsInForce`: a recorded stage beyond baseline is in force,
  if no command was killed. Of baseline it does not hold: a minimal or medium rollback
  records baseline and leaves other flags on, after which `set baseline` does nothing
  (`compat/cutover.py:131`). `ClientAgrees`: the client's own reading of the daemon
  flag agrees with the mode matrix, but for a mode written by hand.

### Disagreements between code and text

1. `projections_in_sync`: PostToolUse never projects the evidence it stores, so
   with `enable_reverse_index` on, evidence of hooks is not quarantined until an
   operator backfills. `services/projections.py` promises sync "within the same
   transaction". The trace is one call that reports a file and changes none (a Read):
   from then on a change of that file would be found by the scan and not by the index.
2. `shadow_primary`: `ShadowInvalidationRunner._diff` appends to
   `non_critical_diffs`, a field its slotted result does not have. When only the ticket
   counts differ (after 1., they do) the exception rolls the whole PostToolUse back.
3. `dirty_lasts`: SessionEnd writes back the `repo_state` it read before its
   transaction and loses a dirty mark committed in between.
4. `verdict_differs`: the incremental compiler's `audit_inputs` have no
   `live_stale_assertion_ids` (`compiler/incremental.py:256`), which the full compiler's
   have (`compiler/decision_compiler.py:63-67`, 92) and on which the audit refuses
   (`compiler/audit.py:72-75`). A tool call that touches a claim by its scope, and no
   evidence, leaves a ticket for the claim alone: the incremental capsule passes, the full
   one's would not. "Incremental compile must match legacy compile on critical fields",
   says `tests/test_incremental_compiler_equivalence.py:34`.

## 4. Proofs

`FileTouchInvalidationProofs` proves, for every value of the constants that
satisfies `StoreAssumption`:

| Theorem | Statement |
|---|---|
| `TypeCorrect` | `Spec => []TypeOK` |
| `SessionsStayApart` | `Spec => []SessionsApart` |
| `VerifiedWorkIsSound` | `Spec => []VerifiedRestsOnNothingStale` |
| `LineageIsSound` | `Spec => []LineageSound` |
| `TicketsAreDated` | `Spec => []NoTicketIsEarly` |
| `CausesExplain` | `Spec => LineageExplains` |
| `StoreImplementsTrust` | `Spec => TrustSpec` |
| `ScanTicketsEveryTouch`, `SupportIsUntouched`, `ClaimsFallAtOnce` | with every configuration the legacy one (`LegacyMode`): every touch has its ticket, a claim reported as supported has evidence no call touched since, and claims fall in the step of the touch |
| `BackfilledIndexIsExact` | `Spec => []ReverseIndexMatchesScan` |
| `IndexIsConservative` | with claims dual-written (`DualWriteMode`): `Spec => []IndexNeverInvents` |
| `SyncedTouchesTold` | `Spec => SyncedTouchesAreTold` |

The argument. `StoreAssumption` types the constants; `LegacyMode`, a hypothesis of
three theorems, says the scan is the path in force, `DualWriteMode`, of one, that claims
are written with their projections. Most properties are not
inductive. The strengthening is `SessionsApart`: claims present cite and are linked
to evidence of their own session only and stand under obligations of their own
session (`ClaimsApart`, `LinksApart`), and cited or indexed rows exist
(`RowsPresent`). It is what makes the link lookup without a session filter
harmless: without it a call in one session could ticket a claim of another.
`PostToolUseEffect` then reduces the four ways through a PostToolUse to one fact:
the transaction either changes nothing of the claims or quarantines an effect `x`
whose claims are of the session and whose obligations are exactly the verified ones
under them. `VerifiedWorkIsSound`, `LineageIsSound` and `StoreImplementsTrust` are
proved from that fact alone, hence for both paths at once.
`BackfilledIndexIsExact` needs the second strengthening, `SyncedComplete`: in a
session called synced, every row is indexed and links are exactly citations;
`CompleteIsExact` shows that this makes the two effects equal. `SyncedTouchesTold` uses
it as well: `EffectIsTold` says what an effect must contain for a touch to be told of,
`ScanTells` and `IndexTells` show that each path's effect does, the second for a session
that is complete, and a shadow call commits the scan's. A call about a file makes its
own session incomplete and is excluded by the statement, which is the code's
defect of `projections_in_sync`. `IndexIsConservative` holds of incomplete sessions
too; its invariant, `ProjectionsFaithful`, is one half of completeness: an index row
names the claim's present scope and every link is a citation, but any may be missing.
`DualWriteMode` is what keeps it true when a claim is re-made. That the two CHOOSE
operators find a ticket's cause rests on the well-foundedness of the naturals
(`LeastNat`, `GreatestBelow`).

`CausesExplain` compares the tickets before and after a call, and needs
`NoTicketIsEarly`: no ticket is dated after `txn`, so those of the running call are
exactly the new ones.

`HookProcessesProofs` proves, for any set of processes and every value of the
constants that satisfies `ProcessAssumption`:

| Theorem | Statement |
|---|---|
| `HooksTypeCorrect` | `Spec => []TypeOK` |
| `CommitsAreUnticketed` | `Spec => AllowedCommitUnticketed` |
| `GateIsOpenedByStart` | `Spec => GateOpensAtStartOnly` |
| `AllowedWritesWereSafe` | `Spec => []AllowedWriteWasSafe` |

The two action properties follow from the guards of the steps that can end a
process (`EndingStep`) once all others are shown to leave gate and responses alone.
`AllowedWriteWasSafe` is not inductive: it speaks of a finished prompt, and what
makes it true happened earlier. The strengthening is `PromptInv`, of three parts:
a process that runs has not answered (`SilentWhileRunning`); a running write prompt
has in `saw` whatever holds now (`Watched`); and what it has read and passed is
covered by `saw` (`WritersCovered`): a gate read as not blocked by "open", a
repo state read as not dirty by "clean", and past the gate all three. A step of
another process can change the rows but only adds to `saw`, which is why the
invariant survives any interleaving (`OthersUnmoved`, `SawGrows`).

`IncrementalCompileProofs`, for every value of the constants that satisfies
`PoolsAssumption` and `CompileAssumption`, with no other condition:

| Theorem | Statement |
|---|---|
| `CompileTypeCorrect` | `Spec => []TypeOK` |
| `CacheStaysValid` | `Spec => []CacheHitIsValid` |
| `CapsulesAreInForce` | `Spec => []ShownIsInForce` |
| `ConfirmedAreAccountedFor` | `Spec => []ConfirmedIsAccountedFor` |
| `PassedRestOnNothingWithdrawn` | `Spec => []PassedRestsOnNothingWithdrawn` |

The data lemma is `BlockOfAlike`: a block depends on the rows of its obligation alone, and
on those of a claim's evidence and tickets only as far as the claim is under it. The
inductive invariant is `CompileInv`, which says of each obligation not overtaken that
what the compile has read of it is still so: claims, evidence, tickets and families, as
far as it has come (`RowsInv`), that what it took for clean is clean or about to be
rebuilt (`DirtyInv`, `HitInv`, `BuiltInv`), and that the audit will hear of every ticket
that withdraws evidence (`Withdrawn`); once there is a capsule, that it is right by the
rows there are (`CapsuleInv`). `WriteDisturbs` goes through the writers once and shows that
each leaves the rows of an obligation as they are, or overtakes it, and marks its row, or
puts it in `missed`; `SparedKeeps` shows that an obligation left alone keeps its part of
the invariant, whatever was written elsewhere, also when a claim moves between two others.
The theorems about capsules then follow without a further induction (`PoolsInForce`).

`DaemonLifecycleProofs`, for every value that satisfies `DaemonAssumption`:

| Theorem | Statement |
|---|---|
| `LifecycleTypeCorrect` | `Spec => []TypeOK` |
| `AnswersAreAwaited` | `Spec => []HeldIsAwaited` |
| `PromptsFailClosed` | `Spec => []PromptFailsClosed` |
| `PatientHooksRunOnce` | `Spec => []RunsOnce` |
| `LoopIsLeftIdle` | `Spec => LeavesLoopIdle` |
| `HooksKeepPromise` | `Spec => PromiseSpec` |
| `HooksAdvance` | `Spec => HookAdvances` |

All rest on one invariant, `LifecycleInv`. `EverySound` ties each connection, queued or
in hand, to the state of its client and to what was committed for it. `OneEach` says
that of a hook's connections only one matters, over all daemons: without it a second
daemon could commit a hook the first has committed. `Delivered` is what `RunsOnce`
lacks to be inductive: the verdict of a patient client's hook, once committed, is on
its way to it, so that the client never runs inline. One lemma per kind of step on
connections (`ConnectStep`, `HangUpStep`, `LostStep`, `AcceptStep`, `HandledStep`,
`RunHookStep`) carries it; all steps on files and program counters are `QuietStep`.
`HooksAdvance` goes by the relation `Follows`, which lists the places a hook may go to from
where it is: `HookStepFollows` and `DaemonStepFollows` show that every step stays within
it, and `FollowingIsLess` that it descends. That `polls` stays within `Retries`, from
the type invariant, is all the arithmetic it needs.

`AttemptFamiliesProofs`, from `FamiliesAssumption` alone, for any number of recorders and
resets: `FamiliesTypeCorrect`, `FailuresAreCounted` (`FailuresCounted`) and
`FailuresAreNeverMadeUp` (`NeverOvercounted`). `FamiliesInv` adds that a recorder has in hand
a family of its own signature, or one that is gone, and no more failures than were
committed to it (`HeldInv`), that two who have the same family in hand register the same
signature (`SharedInv`), that a recorder that was not overtaken has read the rows as they
are (`FreshInv`), and that a spoilt signature has a family (`SpoiltInv`).

`MigrationsProofs`, from `BootAssumption`: `MigrationsTypeCorrect`, `VersionsInOrder`
(`MarkedInOrder`: marks leave no gap), `MarkedScriptsRan` (`MarkedIsComplete`: a marked
version has all its objects), `UndisturbedBootsSucceed` (`BootDoesNotFail`),
`ReadySchemaIsWhole` (`ReadyIsMigrated`), `BootsUpgradeInOrder` (`VersionSpec`) and
`BootsAdvance` (`BootAdvances`), for any number of processes. `MigrationInv` says with faults only what survives them: applied versions are
marked, and executed statements have left their objects (`AppliedIsMarked`,
`Executed`), since no step removes any. Without faults it adds that boots come one
after the other (`OneByOne`), that between scripts the first one is there whole or
not at all (`WholeBetween`), and that the column of migration 7 belongs to a marked
migration or to the one running (`ColumnIsMarked`); the last is what keeps its
unrepeatable statement from running twice. `BootsUpgradeInOrder` is the refinement, step
by step: marks without a gap are `1..v` for the version `v` (`MarkedUpTo`), so that the
script a process has in hand is either the next one, or one of a version already
complete, whose statements then change nothing (`InHandIsNext`). `BootsAdvance` adds to
the invariant that the place in a script is within it and that a boot starts with
nothing applied (`AdvanceInv`).

`CutoverProofs`, from `CutoverAssumption`, for any hooks: `CutoverTypeCorrect`,
`CompilerIsCovered` (`CompilerHasProjections`), `LegacyLeavesNothingOn` (`LegacyIsOff`),
`RecordedStageIsInForce` (`StageIsInForce`), `ClientFollowsConfig` (`ClientAgrees`),
`FlagsStayOfOneStage` (`FlagsAreOfOneStage`).
`CutoverInv` adds that a file in legacy mode has set every flag and that flags are
unset all together or not at all (`LegacySetsAll`, `UnsetTogether`), which the mode
matrix needs to give no mixture; and that at "save" the file holds the flags of the
stage about to be recorded (`FileOfStage`). `FlagsAreOfOneStage` is inductive by itself
once two rollbacks are shown to be one (`RollbackTwice`, from `DeeperSwitchesBothOff`).

Some theorems state invariants that no run checks, because a run checks a
property with the same content: `SupportedRestsOnUntouched` follows from
`EveryTouchIsTicketed`, `PromptFailsClosed` from `PromiseSpec`; `MarkedInOrder` and `MarkedIsComplete` are what `VersionSpec` says of
marks, `LegacyIsOff` what `FlagsAreOfOneStage` says of a full rollback; and
`SessionsApart` and `NoTicketIsEarly` are the strengthenings behind `LineageSound` and
`LineageExplains`.

Only model-checked: the liveness properties `EveryHookAnswered` and `BootEnds`, and the
counterexamples of the four violation runs. Liveness, ENABLED and
what a recursive definition computes are outside what the prover handles. Of the two
properties the part about safety is proved: `HookAdvances` and `BootAdvances` bound
the steps a process can take. That it can always take one is left to TLC.

## 5. Not modelled

- **Text**: prompt keywords, normalisers, rendering, envelope parsing. It decides
  inputs of the models (is a prompt a write risk, which files did a tool change),
  which are free choices there.
- **Token budget**: ordering and trimming of pools, so that a capsule here shows
  every block whole.
- **Shadow compilation**: the runner's second compile keeps no state and its result
  is dropped; the shadow invalidation, which shares the transaction, is modelled.
- **git failures**: a failing call reads as an empty list, which a call that
  succeeds may also return.
- **Contents of files**: the freshness fingerprint is over file names, and so is
  the model's.
- **Release check, contract test, doctor, health, CLI, MCP, UI, benchmarks**: they read
  and report. Of recovery, only the reset of the attempt families changes what other
  code reads.
- **Environment variables** that override flags: none are assumed to be set.
- **Raw archive, logs, metrics, JSON exports**: files that no hook reads back; that
  writing them may fail is one of the failures of `HookProcesses`.
- **Events in the snapshot**: `save_snapshot` also deletes and re-inserts events and
  capsules read earlier. Nothing decides by them; the same interleaving is shown with
  `repo_state` by `dirty_lasts`.
- **Messages that are not JSON**, from a client other than the hooks, to the daemon.

Every hazard known to the authors is in `PROJECT.json` with its line, also those
without a property, with the reason.
