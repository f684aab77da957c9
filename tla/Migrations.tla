----------------------------- MODULE Migrations -----------------------------
(***************************************************************************)
(* The migrations every process runs when it opens the database.           *)
(*                                                                         *)
(* A migration is a script of DDL statements.  Python's sqlite3 opens no   *)
(* transaction for DDL, so each statement commits by itself; the row that  *)
(* marks the migration is committed after the last one.  Every hook, the   *)
(* daemon and the commands boot this way, at any moment and in parallel.   *)
(***************************************************************************)
EXTENDS Integers, Sequences, SequencesExt, FiniteSetsExt

CONSTANTS
    Process,
    Faults        \* what may happen: "kill" a process that boots, boots that "overlap"

ASSUME BootAssumption == Faults \subseteq {"kill", "overlap"}

(***************************************************************************)
(* The scripts, in the order of their statements.  A name stands for the   *)
(* tables and indexes next to it, which behave alike.                      *)
(***************************************************************************)
m0001 == <<"sessions", "assertions", "invalidation_tickets", "attempt_families", "events">>
m0002 == <<"obligation_frontier">>
m0003 == <<"idx_assertions", "idx_attempt_families">>
m0004 == <<"runtime_projects">>
m0005 == <<"resume_gate_state">>
m0006 == <<"freshness_frontiers">>
m0007 == <<"caused_by_ticket_id", "idx_caused_by">>

Migration == <<m0001, m0002, m0003, m0004, m0005, m0006, m0007>>
Version == DOMAIN Migration
Objects(v) == ToSet(Migration[v])

(***************************************************************************)
(* What a statement alters or indexes; and the statement that is not       *)
(* guarded by IF NOT EXISTS, ALTER TABLE ADD COLUMN.                       *)
(***************************************************************************)
Needs(x) ==
    CASE x = "idx_assertions" -> {"assertions"}
      [] x = "idx_attempt_families" -> {"attempt_families"}
      [] x = "caused_by_ticket_id" -> {"invalidation_tickets"}
      [] x = "idx_caused_by" -> {"caused_by_ticket_id"}
      [] OTHER -> {}
Unguarded == {"caused_by_ticket_id"}

VARIABLES
    schema,     \* the tables, columns and indexes there are
    marked,     \* the versions in schema_migrations
    pc,         \* pc[p]: the next step of p's boot
    applied,    \* applied[p]: the versions p read, or marked since
    at,         \* at[p]: statements of its current migration p has executed
    faults      \* what happens in this history of the database

vars == <<schema, marked, pc, applied, at, faults>>

(***************************************************************************)
(* A database no version has opened, one of before the registry, or one    *)
(* that is at version k.                                                   *)
(***************************************************************************)
Init ==
    /\ \E k \in 0..Len(Migration) :
          /\ marked = 1..k
          /\ schema = UNION {Objects(v) : v \in 1..k} \/ (k = 0 /\ schema = Objects(1))
    /\ pc = [p \in Process |-> "closed"]
    /\ applied = [p \in Process |-> {}]
    /\ at = [p \in Process |-> 0]
    /\ faults \in SUBSET Faults

Booting(p) == pc[p] \notin {"closed", "ready", "failed"}
Goto(p, s) == pc' = [pc EXCEPT ![p] = s]

(***************************************************************************)
(* A process opens the database.                                           *)
(***************************************************************************)
Open(p) ==
    /\ pc[p] = "closed"
    /\ "overlap" \in faults \/ \A q \in Process : ~Booting(q)
    /\ Goto(p, "read")
    /\ UNCHANGED <<faults, schema, marked, applied, at>>

(***************************************************************************)
(* _get_applied_versions.                                                  *)
(***************************************************************************)
ReadApplied(p) ==
    /\ pc[p] = "read"
    /\ applied' = [applied EXCEPT ![p] = marked]
    /\ Goto(p, IF marked = {} THEN "legacy" ELSE "up")
    /\ UNCHANGED <<faults, schema, marked, at>>

(***************************************************************************)
(* Nothing is marked but the canonical tables are there, or one of them:   *)
(* the database is taken for one of before the registry.                   *)
(***************************************************************************)
CheckLegacyByName(p) ==    \* mutant: the first migration is marked on any database
    /\ pc[p] = "legacy"
    /\ Goto(p, "markInitial")
    /\ UNCHANGED <<faults, schema, marked, applied, at>>

CheckLegacy(p) ==
    /\ pc[p] = "legacy"
    /\ Goto(p, IF "sessions" \in schema THEN "markInitial" ELSE "up")
    /\ UNCHANGED <<faults, schema, marked, applied, at>>

MarkInitialIndex(p) ==    \* mutant: its place in the list is marked, not its version
    /\ pc[p] = "markInitial"
    /\ marked' = marked \cup {0}
    /\ applied' = [applied EXCEPT ![p] = @ \cup {1}]
    /\ Goto(p, "up")
    /\ UNCHANGED <<faults, schema, at>>

MarkInitial(p) ==
    /\ pc[p] = "markInitial"
    /\ marked' = marked \cup {1}
    /\ applied' = [applied EXCEPT ![p] = @ \cup {1}]
    /\ Goto(p, "up")
    /\ UNCHANGED <<faults, schema, at>>

(***************************************************************************)
(* The migration in hand: the first one not applied.                       *)
(***************************************************************************)
Pending(p) == Version \ applied[p]
Current(p) == Min(Pending(p))

(***************************************************************************)
(* The next statement of its script.  It raises, and the boot fails, if    *)
(* what it needs is missing, or if it adds a column that is there.         *)
(***************************************************************************)
Up(p) ==
    /\ pc[p] = "up" /\ Pending(p) # {}
    /\ at[p] < Len(Migration[Current(p)])
    /\ LET x == Migration[Current(p)][at[p] + 1]
       IN  IF Needs(x) \subseteq schema /\ ~(x \in Unguarded /\ x \in schema)
           THEN /\ schema' = schema \cup {x}
                /\ at' = [at EXCEPT ![p] = @ + 1]
                /\ UNCHANGED pc
           ELSE Goto(p, "failed") /\ UNCHANGED <<schema, at>>
    /\ UNCHANGED <<faults, marked, applied>>

(***************************************************************************)
(* _mark_applied and the commit.                                           *)
(***************************************************************************)
MarkFirst(p) ==    \* mutant: a migration is marked before its script has run
    /\ pc[p] = "up" /\ Pending(p) # {}
    /\ at[p] = 1
    /\ marked' = marked \cup {Current(p)}
    /\ applied' = [applied EXCEPT ![p] = @ \cup {Current(p)}]
    /\ at' = [at EXCEPT ![p] = 0]
    /\ UNCHANGED <<faults, schema, pc>>

MarkKeepingPlace(p) ==    \* mutant: the statement count is carried to the next script
    /\ pc[p] = "up" /\ Pending(p) # {}
    /\ at[p] >= Len(Migration[Current(p)])
    /\ marked' = marked \cup {Current(p)}
    /\ applied' = [applied EXCEPT ![p] = @ \cup {Current(p)}]
    /\ UNCHANGED <<faults, schema, at, pc>>

Mark(p) ==
    /\ pc[p] = "up" /\ Pending(p) # {}
    /\ at[p] = Len(Migration[Current(p)])
    /\ marked' = marked \cup {Current(p)}
    /\ applied' = [applied EXCEPT ![p] = @ \cup {Current(p)}]
    /\ at' = [at EXCEPT ![p] = 0]
    /\ UNCHANGED <<faults, schema, pc>>

Ready(p) ==
    /\ pc[p] = "up" /\ Pending(p) = {}
    /\ Goto(p, "ready")
    /\ UNCHANGED <<faults, schema, marked, applied, at>>

(***************************************************************************)
(* The process ends, or is killed; another one takes its place.            *)
(***************************************************************************)
Close(p) ==
    /\ pc[p] \in {"ready", "failed"} \/ ("kill" \in faults /\ Booting(p))
    /\ Goto(p, "closed")
    /\ applied' = [applied EXCEPT ![p] = {}]
    /\ at' = [at EXCEPT ![p] = 0]
    /\ UNCHANGED <<faults, schema, marked>>

BootStep(p) ==
    \/ ReadApplied(p) \/ CheckLegacy(p) \/ MarkInitial(p)
    \/ Up(p) \/ Mark(p) \/ Ready(p)

Next == \E p \in Process : Open(p) \/ BootStep(p) \/ Close(p)

(***************************************************************************)
(* A process that boots goes on until it is ready or fails.                *)
(***************************************************************************)
Spec == Init /\ [][Next]_vars
FairSpec == Spec /\ \A p \in Process : WF_vars(BootStep(p))

-----------------------------------------------------------------------------
(***************************************************************************)
(* Only what the scripts make is in the schema, only their versions marked. *)
(***************************************************************************)
TypeOK ==
    /\ schema \subseteq UNION {Objects(v) : v \in Version}
    /\ marked \subseteq Version
    /\ pc \in [Process -> {"closed", "read", "legacy", "markInitial", "up", "ready", "failed"}]
    /\ applied \in [Process -> SUBSET Version]
    /\ at \in [Process -> 0..5]
    /\ faults \subseteq Faults

(***************************************************************************)
(* A version is marked after the versions before it, in whatever order the *)
(* processes mark: the database is at one version.                         *)
(***************************************************************************)
MarkedInOrder == \A v \in marked : 1..v \subseteq marked

(***************************************************************************)
(* A version that is marked is complete: no object of its script is        *)
(* missing.  For the first one this takes a history without faults.        *)
(***************************************************************************)
MarkedIsComplete ==
    \A v \in marked : v # 1 \/ faults = {} => Objects(v) \subseteq schema

(***************************************************************************)
(* Migrations can be run again and again, one boot after the other, and do *)
(* not fail.                                                               *)
(***************************************************************************)
BootDoesNotFail == faults = {} => \A p \in Process : pc[p] # "failed"

(***************************************************************************)
(* A process that is ready has the whole schema under it.                  *)
(***************************************************************************)
ReadyIsMigrated ==
    \A p \in Process : pc[p] = "ready" =>
        \A v \in Version : v # 1 \/ faults = {} => Objects(v) \subseteq schema

(***************************************************************************)
(* However boots overlap and wherever they are killed, the database goes   *)
(* up version by version: no statement repeated by a process that is       *)
(* behind changes it, and none runs before its version's turn.             *)
(***************************************************************************)
Database == INSTANCE SchemaVersion WITH
    Script <- [v \in Version |-> Objects(v)],
    version <- Cardinality(marked), disturbed <- faults # {}

VersionSpec == Database!Spec

(***************************************************************************)
(* What is left of a boot, in steps at most, goes down with each of its    *)
(* steps and with no one else's, whatever others mark or make meanwhile:   *)
(* no boot goes round in circles.                                          *)
(***************************************************************************)
Place(p) == <<pc[p], applied[p], at[p]>>

Ahead(s) ==
    CASE s = "read" -> 4 [] s = "legacy" -> 3 [] s = "markInitial" -> 2 [] s = "up" -> 1
      [] OTHER -> 0

Left(p) == 6 * Cardinality(Pending(p)) + Ahead(pc[p]) - at[p]

BootAdvances ==
    [][\A p \in Process :
          Booting(p) /\ Place(p)' # Place(p) =>
              pc'[p] = "closed" \/ Left(p)' \in 0..(Left(p) - 1)]_vars

(***************************************************************************)
(* Every boot gets there.                                                  *)
(***************************************************************************)
BootEnds == \A p \in Process : faults = {} /\ pc[p] = "read" ~> pc[p] = "ready"
=============================================================================
