--------------------------- MODULE MigrationsProofs ---------------------------
(***************************************************************************)
(* Proofs about Migrations, for any number of processes and whichever      *)
(* faults happen.                                                          *)
(***************************************************************************)
EXTENDS Migrations, FiniteSetTheorems, TLAPS

(***************************************************************************)
(* The scripts.                                                            *)
(***************************************************************************)
LEMMA Versions == Version = 1..7 /\ Len(Migration) = 7
BY DEF Version, Migration

LEMMA Scripts ==
    /\ Migration[1] = m0001 /\ Migration[2] = m0002 /\ Migration[3] = m0003
    /\ Migration[4] = m0004 /\ Migration[5] = m0005 /\ Migration[6] = m0006
    /\ Migration[7] = m0007
BY DEF Migration

LEMMA ScriptOf ==
    ASSUME NEW v \in Version
    PROVE  /\ Len(Migration[v]) \in 1..5
           /\ DOMAIN Migration[v] = 1..Len(Migration[v])
           /\ Objects(v) = {Migration[v][i] : i \in 1..Len(Migration[v])}
<1>1. /\ Len(Migration[v]) \in 1..5
      /\ DOMAIN Migration[v] = 1..Len(Migration[v])
  <2>1. CASE v = 1  BY <2>1, Scripts DEF m0001
  <2>2. CASE v = 2  BY <2>2, Scripts DEF m0002
  <2>3. CASE v = 3  BY <2>3, Scripts DEF m0003
  <2>4. CASE v = 4  BY <2>4, Scripts DEF m0004
  <2>5. CASE v = 5  BY <2>5, Scripts DEF m0005
  <2>6. CASE v = 6  BY <2>6, Scripts DEF m0006
  <2>7. CASE v = 7  BY <2>7, Scripts DEF m0007
  <2>. QED
    BY <2>1, <2>2, <2>3, <2>4, <2>5, <2>6, <2>7, Versions
<1>. QED
  BY <1>1 DEF Objects, ToSet

LEMMA FirstScript ==
    /\ Objects(1) = {"sessions", "assertions", "invalidation_tickets", "attempt_families", "events"}
    /\ 1 \in Version /\ 7 \in Version
<1>1. 1 \in Version /\ 7 \in Version
  BY Versions
<1>2. Objects(1) = {m0001[i] : i \in 1..Len(m0001)}
  BY <1>1, ScriptOf, Scripts
<1>. QED
  BY <1>1, <1>2 DEF m0001

(***************************************************************************)
(* A statement needs tables of the first script and statements before it   *)
(* in its own; the unguarded one is the first of the last script.          *)
(***************************************************************************)
LEMMA NeedsEarlier ==
    ASSUME NEW v \in Version, NEW i \in 1..Len(Migration[v])
    PROVE  /\ v = 1 => Needs(Migration[v][i]) = {}
           /\ Needs(Migration[v][i]) \subseteq
                  Objects(1) \cup {Migration[v][j] : j \in 1..(i-1)}
           /\ Migration[v][i] \in Unguarded <=> v = 7 /\ i = 1
<1>1. CASE v = 1
  BY <1>1, Scripts DEF m0001, Needs, Unguarded
<1>2. CASE v = 2
  BY <1>2, Scripts DEF m0002, Needs, Unguarded
<1>3. CASE v = 3
  BY <1>3, Scripts, FirstScript DEF m0003, Needs, Unguarded
<1>4. CASE v = 4
  BY <1>4, Scripts DEF m0004, Needs, Unguarded
<1>5. CASE v = 5
  BY <1>5, Scripts DEF m0005, Needs, Unguarded
<1>6. CASE v = 6
  BY <1>6, Scripts DEF m0006, Needs, Unguarded
<1>7. CASE v = 7
  <2>1. Len(Migration[v]) = 2 /\ Migration[v][1] = "caused_by_ticket_id"
        /\ Migration[v][2] = "idx_caused_by"
    BY <1>7, Scripts DEF m0007
  <2>2. CASE i = 1
    BY <1>7, <2>1, <2>2, FirstScript DEF Needs, Unguarded
  <2>3. CASE i = 2
    <3>1. Needs(Migration[v][i]) = {Migration[v][1]}
      BY <2>1, <2>3 DEF Needs
    <3>. QED
      BY <1>7, <2>1, <2>3, <3>1 DEF Unguarded
  <2>. QED
    BY <2>1, <2>2, <2>3
<1>. QED
  BY <1>1, <1>2, <1>3, <1>4, <1>5, <1>6, <1>7, Versions

LEMMA ColumnIsOfLast ==
    ASSUME NEW v \in Version, "caused_by_ticket_id" \in Objects(v)
    PROVE  v = 7
BY ScriptOf, NeedsEarlier DEF Unguarded

(***************************************************************************)
(* The migration in hand is the least version not applied.                 *)
(***************************************************************************)
LEMMA CurrentIsFirst ==
    ASSUME NEW p, Pending(p) # {}
    PROVE  /\ Current(p) \in Pending(p) /\ Current(p) \in Version
           /\ \A v \in Pending(p) : Current(p) <= v
<1>. DEFINE Least(n) == n \in Pending(p) /\ \A m \in Pending(p) : n <= m
<1>1. Pending(p) \subseteq 1..7
  BY Versions DEF Pending
<1>2. \E n \in Pending(p) : \A m \in Pending(p) : n <= m
  <2>1. CASE 1 \in Pending(p)
    BY <1>1, <2>1
  <2>2. CASE 1 \notin Pending(p) /\ 2 \in Pending(p)
    BY <1>1, <2>2
  <2>3. CASE {1, 2} \cap Pending(p) = {} /\ 3 \in Pending(p)
    BY <1>1, <2>3
  <2>4. CASE {1, 2, 3} \cap Pending(p) = {} /\ 4 \in Pending(p)
    BY <1>1, <2>4
  <2>5. CASE {1, 2, 3, 4} \cap Pending(p) = {} /\ 5 \in Pending(p)
    BY <1>1, <2>5
  <2>6. CASE {1, 2, 3, 4, 5} \cap Pending(p) = {} /\ 6 \in Pending(p)
    BY <1>1, <2>6
  <2>7. CASE {1, 2, 3, 4, 5, 6} \cap Pending(p) = {}
    BY <1>1, <2>7
  <2>. QED
    BY <2>1, <2>2, <2>3, <2>4, <2>5, <2>6, <2>7
<1>3. Current(p) = CHOOSE n \in Pending(p) : \A m \in Pending(p) : n <= m
  BY DEF Current, Min
<1>4. Current(p) \in Pending(p) /\ \A m \in Pending(p) : Current(p) <= m
  BY <1>2, <1>3
<1>. QED
  BY <1>4 DEF Pending

-----------------------------------------------------------------------------
(***************************************************************************)
(* The inductive invariant.  What a process has applied is marked; what it *)
(* has executed of the script in hand is there.  When boots follow one     *)
(* another undisturbed, what it has applied is all that is marked; between *)
(* two of them the first script is there whole or not at all; and the new  *)
(* column is of a marked migration or of the one in hand.                  *)
(***************************************************************************)
AppliedIsMarked == \A p \in Process : applied[p] \subseteq marked

ReadyHasAll == \A p \in Process : pc[p] = "ready" => applied[p] = Version

ScriptNotStarted ==
    \A p \in Process : pc[p] \in {"closed", "read", "legacy", "markInitial"} => at[p] = 0

Executed ==
    \A p \in Process : pc[p] = "up" /\ Pending(p) # {} =>
        \A i \in 1..at[p] : Migration[Current(p)][i] \in schema

OneByOne ==
    faults = {} =>
        /\ \A p, q \in Process : Booting(p) /\ Booting(q) => p = q
        /\ \A p \in Process : pc[p] # "failed"
        /\ \A p \in Process : pc[p] \in {"legacy", "markInitial"} => marked = {}
        /\ \A p \in Process : pc[p] = "up" => applied[p] = marked
        /\ \A p \in Process : pc[p] = "markInitial" => "sessions" \in schema

WholeBetween ==
    faults = {} /\ (\A p \in Process : pc[p] # "up") =>
        ("sessions" \in schema => Objects(1) \subseteq schema)

ColumnIsMarked ==
    faults = {} /\ "caused_by_ticket_id" \in schema =>
        \/ 7 \in marked
        \/ \E p \in Process :
              pc[p] = "up" /\ Pending(p) # {} /\ Current(p) = 7 /\ at[p] >= 1

MigrationInv ==
    /\ TypeOK /\ AppliedIsMarked /\ MarkedInOrder /\ MarkedIsComplete
    /\ ReadyHasAll /\ ScriptNotStarted /\ Executed
    /\ OneByOne /\ WholeBetween /\ ColumnIsMarked

LEMMA MigrationInit == Init => MigrationInv
<1>. SUFFICES ASSUME Init PROVE MigrationInv
  OBVIOUS
<1>1. PICK k \in 0..7 :
          /\ marked = 1..k
          /\ schema = UNION {Objects(v) : v \in 1..k} \/ (k = 0 /\ schema = Objects(1))
  BY Versions DEF Init
<1>2. 1..k \subseteq Version
  BY Versions
<1>3. /\ \A p \in Process : pc[p] = "closed" /\ applied[p] = {} /\ at[p] = 0
      /\ pc = [p \in Process |-> "closed"] /\ applied = [p \in Process |-> {}]
      /\ at = [p \in Process |-> 0] /\ faults \subseteq Faults
  BY DEF Init
<1>4. TypeOK
  BY <1>1, <1>2, <1>3, FirstScript DEF TypeOK
<1>5. MarkedInOrder /\ MarkedIsComplete
  BY <1>1 DEF MarkedInOrder, MarkedIsComplete
<1>6. AppliedIsMarked /\ ReadyHasAll /\ ScriptNotStarted /\ Executed
  BY <1>3 DEF AppliedIsMarked, ReadyHasAll, ScriptNotStarted, Executed
<1>7. OneByOne
  BY <1>3 DEF OneByOne, Booting
<1>8. WholeBetween
  <2>1. CASE k = 0
    BY <1>1, <2>1 DEF WholeBetween
  <2>2. CASE k # 0
    BY <1>1, <2>2 DEF WholeBetween
  <2>. QED
    BY <2>1, <2>2
<1>9. ColumnIsMarked
  <2>. SUFFICES ASSUME "caused_by_ticket_id" \in schema PROVE 7 \in marked
    BY DEF ColumnIsMarked
  <2>1. PICK v \in Version : "caused_by_ticket_id" \in Objects(v) /\ (v \in 1..k \/ v = 1)
    BY <1>1, <1>2, FirstScript
  <2>2. v = 7
    BY <2>1, ColumnIsOfLast
  <2>. QED
    BY <1>1, <2>1, <2>2
<1>. QED
  BY <1>4, <1>5, <1>6, <1>7, <1>8, <1>9 DEF MigrationInv

(***************************************************************************)
(* A process whose record of versions stays has the same migration in hand.*)
(***************************************************************************)
LEMMA InHand ==
    ASSUME NEW q \in Process, applied'[q] = applied[q]
    PROVE  Pending(q)' = Pending(q) /\ Current(q)' = Current(q)
BY DEF Pending, Current

LEMMA OpenKeeps ==
    ASSUME MigrationInv, NEW p \in Process, Open(p)
    PROVE  MigrationInv'
<1>1. /\ pc[p] = "closed" /\ pc' = [pc EXCEPT ![p] = "read"]
      /\ faults = {} => \A q \in Process : ~Booting(q)
      /\ UNCHANGED <<faults, schema, marked, applied, at>>
  BY DEF Open, Goto
<1>2. pc \in [Process -> {"closed", "read", "legacy", "markInitial", "up", "ready", "failed"}]
  BY DEF MigrationInv, TypeOK
<1>3. \A q \in Process : Pending(q)' = Pending(q) /\ Current(q)' = Current(q)
  BY <1>1, InHand
<1>4. TypeOK' /\ AppliedIsMarked' /\ ReadyHasAll' /\ ScriptNotStarted'
  BY <1>1, <1>2 DEF MigrationInv, TypeOK, AppliedIsMarked, ReadyHasAll, ScriptNotStarted
<1>5. MarkedInOrder' /\ MarkedIsComplete'
  BY <1>1 DEF MigrationInv, MarkedInOrder, MarkedIsComplete
<1>6. Executed'
  BY <1>1, <1>2, <1>3 DEF MigrationInv, Executed
<1>7. OneByOne'
  BY <1>1, <1>2 DEF MigrationInv, OneByOne, Booting
<1>8. WholeBetween'
  BY <1>1, <1>2 DEF MigrationInv, WholeBetween
<1>9. ColumnIsMarked'
  BY <1>1, <1>2, <1>3 DEF MigrationInv, ColumnIsMarked
<1>. QED
  BY <1>4, <1>5, <1>6, <1>7, <1>8, <1>9 DEF MigrationInv

LEMMA ReadAppliedKeeps ==
    ASSUME MigrationInv, NEW p \in Process, ReadApplied(p)
    PROVE  MigrationInv'
<1>1. /\ pc[p] = "read" /\ at[p] = 0 /\ applied' = [applied EXCEPT ![p] = marked]
      /\ pc' = [pc EXCEPT ![p] = IF marked = {} THEN "legacy" ELSE "up"]
      /\ UNCHANGED <<faults, schema, marked, at>>
  BY DEF ReadApplied, Goto, MigrationInv, ScriptNotStarted
<1>2. /\ pc \in [Process -> {"closed", "read", "legacy", "markInitial", "up", "ready", "failed"}]
      /\ applied \in [Process -> SUBSET Version] /\ marked \subseteq Version
  BY DEF MigrationInv, TypeOK
<1>3. \A q \in Process \ {p} : Pending(q)' = Pending(q) /\ Current(q)' = Current(q)
  BY <1>1, <1>2, InHand
<1>4. TypeOK' /\ AppliedIsMarked' /\ ReadyHasAll' /\ ScriptNotStarted'
  BY <1>1, <1>2 DEF MigrationInv, TypeOK, AppliedIsMarked, ReadyHasAll, ScriptNotStarted
<1>5. MarkedInOrder' /\ MarkedIsComplete'
  BY <1>1 DEF MigrationInv, MarkedInOrder, MarkedIsComplete
<1>6. Executed'
  BY <1>1, <1>2, <1>3 DEF MigrationInv, Executed
<1>7. OneByOne'
  BY <1>1, <1>2 DEF MigrationInv, OneByOne, Booting
<1>8. WholeBetween'
  <2>1. \A q \in Process : pc[q] = "up" => pc'[q] = "up"
    BY <1>1, <1>2
  <2>. QED
    BY <1>1, <2>1 DEF MigrationInv, WholeBetween
<1>9. ColumnIsMarked'
  BY <1>1, <1>2, <1>3 DEF MigrationInv, ColumnIsMarked
<1>. QED
  BY <1>4, <1>5, <1>6, <1>7, <1>8, <1>9 DEF MigrationInv

LEMMA CheckLegacyKeeps ==
    ASSUME MigrationInv, NEW p \in Process, CheckLegacy(p)
    PROVE  MigrationInv'
<1>1. /\ pc[p] = "legacy" /\ at[p] = 0
      /\ pc' = [pc EXCEPT ![p] = IF "sessions" \in schema THEN "markInitial" ELSE "up"]
      /\ UNCHANGED <<faults, schema, marked, applied, at>>
  BY DEF CheckLegacy, Goto, MigrationInv, ScriptNotStarted
<1>2. pc \in [Process -> {"closed", "read", "legacy", "markInitial", "up", "ready", "failed"}]
  BY DEF MigrationInv, TypeOK
<1>3. \A q \in Process : Pending(q)' = Pending(q) /\ Current(q)' = Current(q)
  BY <1>1, InHand
<1>4. TypeOK' /\ AppliedIsMarked' /\ ReadyHasAll' /\ ScriptNotStarted'
  BY <1>1, <1>2 DEF MigrationInv, TypeOK, AppliedIsMarked, ReadyHasAll, ScriptNotStarted
<1>5. MarkedInOrder' /\ MarkedIsComplete'
  BY <1>1 DEF MigrationInv, MarkedInOrder, MarkedIsComplete
<1>6. Executed'
  BY <1>1, <1>2, <1>3 DEF MigrationInv, Executed
<1>7. OneByOne'
  BY <1>1, <1>2 DEF MigrationInv, OneByOne, Booting, AppliedIsMarked
<1>8. WholeBetween'
  <2>1. \A q \in Process : pc[q] = "up" => pc'[q] = "up"
    BY <1>1, <1>2
  <2>. QED
    BY <1>1, <2>1 DEF MigrationInv, WholeBetween
<1>9. ColumnIsMarked'
  BY <1>1, <1>2, <1>3 DEF MigrationInv, ColumnIsMarked
<1>. QED
  BY <1>4, <1>5, <1>6, <1>7, <1>8, <1>9 DEF MigrationInv

(***************************************************************************)
(* A database of before the registry is marked as version 1: when boots    *)
(* are undisturbed, the first script is there whole.                       *)
(***************************************************************************)
LEMMA MarkInitialKeeps ==
    ASSUME MigrationInv, NEW p \in Process, MarkInitial(p)
    PROVE  MigrationInv'
<1>1. /\ pc[p] = "markInitial" /\ at[p] = 0 /\ pc' = [pc EXCEPT ![p] = "up"]
      /\ marked' = marked \cup {1}
      /\ applied' = [applied EXCEPT ![p] = @ \cup {1}]
      /\ UNCHANGED <<faults, schema, at>>
  BY DEF MarkInitial, Goto, MigrationInv, ScriptNotStarted
<1>2. /\ pc \in [Process -> {"closed", "read", "legacy", "markInitial", "up", "ready", "failed"}]
      /\ applied \in [Process -> SUBSET Version] /\ marked \subseteq Version
  BY DEF MigrationInv, TypeOK
<1>3. \A q \in Process \ {p} : Pending(q)' = Pending(q) /\ Current(q)' = Current(q)
  BY <1>1, <1>2, InHand
<1>4. TypeOK' /\ AppliedIsMarked' /\ ReadyHasAll' /\ ScriptNotStarted'
  BY <1>1, <1>2, FirstScript
     DEF MigrationInv, TypeOK, AppliedIsMarked, ReadyHasAll, ScriptNotStarted
<1>5. MarkedInOrder'
  BY <1>1 DEF MigrationInv, MarkedInOrder
<1>6. MarkedIsComplete'
  <2>1. faults = {} => Objects(1) \subseteq schema
    BY <1>1 DEF MigrationInv, OneByOne, Booting, WholeBetween
  <2>. QED
    BY <1>1, <2>1 DEF MigrationInv, MarkedIsComplete
<1>7. Executed'
  BY <1>1, <1>2, <1>3 DEF MigrationInv, Executed
<1>8. OneByOne'
  BY <1>1, <1>2 DEF MigrationInv, OneByOne, Booting, AppliedIsMarked
<1>9. WholeBetween'
  BY <1>1, <1>2 DEF WholeBetween
<1>10. ColumnIsMarked'
  BY <1>1, <1>2, <1>3 DEF MigrationInv, ColumnIsMarked
<1>. QED
  BY <1>4, <1>5, <1>6, <1>7, <1>8, <1>9, <1>10 DEF MigrationInv

(***************************************************************************)
(* A statement.  It fails only if another boot got in between, or one was  *)
(* killed: its tables are of the first script, complete since it is        *)
(* marked, or of statements before it; and if the new column were there,   *)
(* this process would have put it there, and be past it.                   *)
(***************************************************************************)
LEMMA StatementRuns ==
    ASSUME MigrationInv, faults = {}, NEW p \in Process,
           pc[p] = "up", Pending(p) # {}, at[p] < Len(Migration[Current(p)])
    PROVE  LET x == Migration[Current(p)][at[p] + 1]
           IN  Needs(x) \subseteq schema /\ ~(x \in Unguarded /\ x \in schema)
<1>. DEFINE v == Current(p)
            i == at[p] + 1
<1>1. /\ v \in Pending(p) /\ v \in Version
      /\ \A w \in Pending(p) : v <= w
  BY CurrentIsFirst
<1>2. at[p] \in 0..5 /\ i \in 1..Len(Migration[v]) /\ v \in 1..7
  BY <1>1, ScriptOf, Versions DEF MigrationInv, TypeOK
<1>3. applied[p] = marked
  BY DEF MigrationInv, OneByOne
<1>4. \A j \in 1..(i-1) : Migration[v][j] \in schema
  BY <1>2 DEF MigrationInv, Executed
<1>5. Needs(Migration[v][i]) \subseteq schema
  <2>1. CASE v = 1
    <3>1. Needs(Migration[v][i]) = {}
      BY <1>1, <1>2, <2>1, NeedsEarlier
    <3>. QED
      BY <3>1
  <2>2. CASE v # 1
    <3>1. 1 \in marked
      BY <1>1, <1>2, <1>3, <2>2, FirstScript DEF Pending
    <3>2. Objects(1) \subseteq schema
      BY <3>1 DEF MigrationInv, MarkedIsComplete
    <3>3. Needs(Migration[v][i]) \subseteq Objects(1) \cup {Migration[v][j] : j \in 1..(i-1)}
      BY <1>1, <1>2, NeedsEarlier
    <3>. QED
      BY <1>4, <3>2, <3>3
  <2>. QED
    BY <2>1, <2>2
<1>6. ASSUME Migration[v][i] \in Unguarded, Migration[v][i] \in schema PROVE FALSE
  <2>1. v = 7 /\ i = 1
    BY <1>1, <1>2, <1>6, NeedsEarlier
  <2>2. "caused_by_ticket_id" \in schema
    BY <1>6 DEF Unguarded
  <2>3. 7 \notin marked
    BY <1>1, <1>3, <2>1 DEF Pending
  <2>4. PICK q \in Process : pc[q] = "up" /\ at[q] >= 1
    BY <2>2, <2>3 DEF MigrationInv, ColumnIsMarked
  <2>5. q = p
    BY <2>4 DEF MigrationInv, OneByOne, Booting
  <2>. QED
    BY <1>2, <2>1, <2>4, <2>5
<1>. QED
  BY <1>5, <1>6

LEMMA UpKeeps ==
    ASSUME MigrationInv, NEW p \in Process, Up(p)
    PROVE  MigrationInv'
<1>. DEFINE v == Current(p)
            x == Migration[v][at[p] + 1]
<1>1. /\ pc[p] = "up" /\ Pending(p) # {} /\ at[p] < Len(Migration[v])
      /\ UNCHANGED <<faults, marked, applied>>
  BY DEF Up
<1>2. v \in Version /\ Len(Migration[v]) \in 1..5 /\ at[p] \in 0..5
  BY <1>1, CurrentIsFirst, ScriptOf DEF MigrationInv, TypeOK
<1>3. /\ pc \in [Process -> {"closed", "read", "legacy", "markInitial", "up", "ready", "failed"}]
      /\ at \in [Process -> 0..5]
  BY DEF MigrationInv, TypeOK
<1>4. \A q \in Process : Pending(q)' = Pending(q) /\ Current(q)' = Current(q)
  BY <1>1, InHand
<1>5. CASE Needs(x) \subseteq schema /\ ~(x \in Unguarded /\ x \in schema)
  <2>1. schema' = schema \cup {x} /\ at' = [at EXCEPT ![p] = @ + 1] /\ pc' = pc
    BY <1>5 DEF Up
  <2>2. x \in Objects(v)
    BY <1>1, <1>2, ScriptOf
  <2>3. TypeOK'
    BY <1>1, <1>2, <1>3, <2>1, <2>2 DEF MigrationInv, TypeOK
  <2>4. AppliedIsMarked' /\ ReadyHasAll' /\ ScriptNotStarted'
    BY <1>1, <1>3, <2>1 DEF MigrationInv, AppliedIsMarked, ReadyHasAll, ScriptNotStarted
  <2>5. MarkedInOrder' /\ MarkedIsComplete'
    BY <1>1, <2>1 DEF MigrationInv, MarkedInOrder, MarkedIsComplete
  <2>6. Executed'
    <3>. SUFFICES ASSUME NEW q \in Process, pc[q] = "up", Pending(q) # {}, NEW i \in 1..at'[q]
                  PROVE  Migration[Current(q)][i] \in schema'
      BY <1>4, <2>1 DEF Executed
    <3>1. CASE q = p /\ i = at[p] + 1
      BY <2>1, <3>1
    <3>2. CASE ~(q = p /\ i = at[p] + 1)
      <4>1. i \in 1..at[q]
        BY <1>3, <2>1, <3>2
      <4>. QED
        BY <2>1, <4>1 DEF MigrationInv, Executed
    <3>. QED
      BY <3>1, <3>2
  <2>7. OneByOne'
    BY <1>1, <2>1 DEF MigrationInv, OneByOne, Booting
  <2>8. WholeBetween'
    BY <1>1, <2>1 DEF WholeBetween
  <2>9. ColumnIsMarked'
    <3>1. CASE x = "caused_by_ticket_id"
      <4>1. v = 7
        BY <1>2, <2>2, <3>1, ColumnIsOfLast
      <4>2. at'[p] >= 1
        BY <1>2, <1>3, <2>1
      <4>. QED
        BY <1>1, <1>4, <2>1, <4>1, <4>2 DEF ColumnIsMarked
    <3>2. CASE x # "caused_by_ticket_id"
      <4>1. \A q \in Process : at[q] >= 1 => at'[q] >= 1
        BY <1>3, <2>1
      <4>. QED
        BY <1>1, <1>4, <2>1, <3>2, <4>1 DEF MigrationInv, ColumnIsMarked
    <3>. QED
      BY <3>1, <3>2
  <2>. QED
    BY <2>3, <2>4, <2>5, <2>6, <2>7, <2>8, <2>9 DEF MigrationInv
<1>6. CASE ~(Needs(x) \subseteq schema /\ ~(x \in Unguarded /\ x \in schema))
  <2>1. pc' = [pc EXCEPT ![p] = "failed"] /\ UNCHANGED <<schema, at>>
    BY <1>6 DEF Up, Goto
  <2>2. faults # {}
    BY <1>1, <1>6, StatementRuns
  <2>3. TypeOK'
    BY <1>1, <1>3, <2>1 DEF MigrationInv, TypeOK
  <2>4. AppliedIsMarked' /\ ReadyHasAll' /\ ScriptNotStarted'
    BY <1>1, <1>3, <2>1 DEF MigrationInv, AppliedIsMarked, ReadyHasAll, ScriptNotStarted
  <2>5. MarkedInOrder' /\ MarkedIsComplete'
    BY <1>1, <2>1 DEF MigrationInv, MarkedInOrder, MarkedIsComplete
  <2>6. Executed'
    BY <1>1, <1>3, <1>4, <2>1 DEF MigrationInv, Executed
  <2>7. OneByOne' /\ WholeBetween' /\ ColumnIsMarked'
    BY <1>1, <2>2 DEF OneByOne, WholeBetween, ColumnIsMarked
  <2>. QED
    BY <2>3, <2>4, <2>5, <2>6, <2>7 DEF MigrationInv
<1>. QED
  BY <1>5, <1>6

(***************************************************************************)
(* A migration is marked: its script has run to the end, and the versions  *)
(* before it are applied.                                                  *)
(***************************************************************************)
LEMMA MarkKeeps ==
    ASSUME MigrationInv, NEW p \in Process, Mark(p)
    PROVE  MigrationInv'
<1>1. PICK v : v = Current(p)
  OBVIOUS
<1>2. /\ pc[p] = "up" /\ Pending(p) # {} /\ at[p] = Len(Migration[v])
      /\ marked' = marked \cup {v}
      /\ applied' = [applied EXCEPT ![p] = @ \cup {v}]
      /\ at' = [at EXCEPT ![p] = 0]
      /\ UNCHANGED <<faults, schema, pc>>
  BY <1>1 DEF Mark
<1>3. /\ v \in Version /\ v \in 1..7
      /\ Objects(v) = {Migration[v][i] : i \in 1..at[p]}
      /\ \A w \in Pending(p) : v <= w
  <2>1. v \in Version /\ v \in 1..7 /\ \A w \in Pending(p) : v <= w
    BY <1>1, <1>2, CurrentIsFirst, Versions
  <2>2. Objects(v) = {Migration[v][i] : i \in 1..Len(Migration[v])}
    BY <2>1, ScriptOf
  <2>. QED
    BY <1>2, <2>1, <2>2
<1>4. /\ pc \in [Process -> {"closed", "read", "legacy", "markInitial", "up", "ready", "failed"}]
      /\ applied \in [Process -> SUBSET Version] /\ marked \subseteq Version
      /\ at \in [Process -> 0..5]
  BY DEF MigrationInv, TypeOK
<1>5. \A q \in Process \ {p} : Pending(q)' = Pending(q) /\ Current(q)' = Current(q)
  BY <1>2, <1>4, InHand
<1>6. TypeOK' /\ AppliedIsMarked' /\ ReadyHasAll' /\ ScriptNotStarted'
  BY <1>2, <1>3, <1>4
     DEF MigrationInv, TypeOK, AppliedIsMarked, ReadyHasAll, ScriptNotStarted
<1>7. MarkedInOrder'
  <2>1. ASSUME NEW w \in 1..v, w # v PROVE w \in marked
    <3>1. w \in Version /\ ~(v <= w)
      BY <1>3, <2>1, Versions
    <3>. QED
      BY <1>3, <3>1 DEF Pending, MigrationInv, AppliedIsMarked
  <2>. QED
    BY <1>2, <2>1 DEF MigrationInv, MarkedInOrder
<1>8. MarkedIsComplete'
  <2>1. Objects(v) \subseteq schema
    BY <1>1, <1>2, <1>3 DEF MigrationInv, Executed
  <2>. QED
    BY <1>2, <2>1 DEF MigrationInv, MarkedIsComplete
<1>9. Executed'
  BY <1>2, <1>4, <1>5 DEF MigrationInv, Executed
<1>10. OneByOne'
  BY <1>2, <1>4 DEF MigrationInv, OneByOne, Booting
<1>11. WholeBetween'
  BY <1>2 DEF WholeBetween
<1>12. ColumnIsMarked'
  BY <1>1, <1>2, <1>4, <1>5 DEF MigrationInv, ColumnIsMarked
<1>. QED
  BY <1>6, <1>7, <1>8, <1>9, <1>10, <1>11, <1>12 DEF MigrationInv

LEMMA ReadyKeeps ==
    ASSUME MigrationInv, NEW p \in Process, Ready(p)
    PROVE  MigrationInv'
<1>1. /\ pc[p] = "up" /\ Pending(p) = {} /\ pc' = [pc EXCEPT ![p] = "ready"]
      /\ UNCHANGED <<faults, schema, marked, applied, at>>
  BY DEF Ready, Goto
<1>2. /\ pc \in [Process -> {"closed", "read", "legacy", "markInitial", "up", "ready", "failed"}]
      /\ applied \in [Process -> SUBSET Version]
  BY DEF MigrationInv, TypeOK
<1>3. applied[p] = Version
  BY <1>1, <1>2 DEF Pending
<1>4. \A q \in Process : Pending(q)' = Pending(q) /\ Current(q)' = Current(q)
  BY <1>1, InHand
<1>5. TypeOK' /\ AppliedIsMarked' /\ ReadyHasAll' /\ ScriptNotStarted'
  BY <1>1, <1>2, <1>3
     DEF MigrationInv, TypeOK, AppliedIsMarked, ReadyHasAll, ScriptNotStarted
<1>6. MarkedInOrder' /\ MarkedIsComplete'
  BY <1>1 DEF MigrationInv, MarkedInOrder, MarkedIsComplete
<1>7. Executed'
  BY <1>1, <1>2, <1>4 DEF MigrationInv, Executed
<1>8. OneByOne'
  BY <1>1, <1>2 DEF MigrationInv, OneByOne, Booting
<1>9. WholeBetween'
  <2>1. 1 \in marked
    BY <1>3, FirstScript DEF MigrationInv, AppliedIsMarked
  <2>2. faults = {} => Objects(1) \subseteq schema
    BY <2>1 DEF MigrationInv, MarkedIsComplete
  <2>. QED
    BY <1>1, <2>2 DEF WholeBetween
<1>10. ColumnIsMarked'
  BY <1>1, <1>2, <1>4 DEF MigrationInv, ColumnIsMarked
<1>. QED
  BY <1>5, <1>6, <1>7, <1>8, <1>9, <1>10 DEF MigrationInv

LEMMA CloseKeeps ==
    ASSUME MigrationInv, NEW p \in Process, Close(p)
    PROVE  MigrationInv'
<1>1. /\ pc[p] \in {"ready", "failed"} \/ faults # {}
      /\ pc' = [pc EXCEPT ![p] = "closed"]
      /\ applied' = [applied EXCEPT ![p] = {}]
      /\ at' = [at EXCEPT ![p] = 0]
      /\ UNCHANGED <<faults, schema, marked>>
  BY DEF Close, Goto
<1>2. /\ pc \in [Process -> {"closed", "read", "legacy", "markInitial", "up", "ready", "failed"}]
      /\ applied \in [Process -> SUBSET Version] /\ at \in [Process -> 0..5]
  BY DEF MigrationInv, TypeOK
<1>3. \A q \in Process \ {p} : Pending(q)' = Pending(q) /\ Current(q)' = Current(q)
  BY <1>1, <1>2, InHand
<1>4. TypeOK' /\ AppliedIsMarked' /\ ReadyHasAll' /\ ScriptNotStarted'
  BY <1>1, <1>2 DEF MigrationInv, TypeOK, AppliedIsMarked, ReadyHasAll, ScriptNotStarted
<1>5. MarkedInOrder' /\ MarkedIsComplete'
  BY <1>1 DEF MigrationInv, MarkedInOrder, MarkedIsComplete
<1>6. Executed'
  BY <1>1, <1>2, <1>3 DEF MigrationInv, Executed
<1>7. OneByOne'
  BY <1>1, <1>2 DEF MigrationInv, OneByOne, Booting
<1>8. WholeBetween'
  <2>1. faults = {} => \A q \in Process : pc[q] = "up" => pc'[q] = "up"
    BY <1>1, <1>2
  <2>. QED
    BY <1>1, <2>1 DEF MigrationInv, WholeBetween
<1>9. ColumnIsMarked'
  BY <1>1, <1>2, <1>3 DEF MigrationInv, ColumnIsMarked
<1>. QED
  BY <1>4, <1>5, <1>6, <1>7, <1>8, <1>9 DEF MigrationInv

LEMMA MigrationStep == MigrationInv /\ [Next]_vars => MigrationInv'
<1>. SUFFICES ASSUME MigrationInv, [Next]_vars PROVE MigrationInv'
  OBVIOUS
<1>1. CASE Next
  BY <1>1, OpenKeeps, ReadAppliedKeeps, CheckLegacyKeeps, MarkInitialKeeps, UpKeeps, MarkKeeps,
     ReadyKeeps, CloseKeeps DEF Next, BootStep
<1>2. CASE UNCHANGED vars
  <2>1. UNCHANGED <<schema, marked, pc, applied, at, faults>>
    BY <1>2 DEF vars
  <2>2. \A q \in Process : Pending(q)' = Pending(q) /\ Current(q)' = Current(q)
    BY <2>1, InHand
  <2>3. TypeOK' /\ AppliedIsMarked' /\ ReadyHasAll' /\ ScriptNotStarted'
        /\ MarkedInOrder' /\ MarkedIsComplete'
    BY <2>1 DEF MigrationInv, TypeOK, AppliedIsMarked, ReadyHasAll, ScriptNotStarted,
       MarkedInOrder, MarkedIsComplete
  <2>4. Executed' /\ OneByOne' /\ WholeBetween' /\ ColumnIsMarked'
    BY <2>1, <2>2
       DEF MigrationInv, Executed, OneByOne, WholeBetween, ColumnIsMarked, Booting
  <2>. QED
    BY <2>3, <2>4 DEF MigrationInv
<1>. QED
  BY <1>1, <1>2

LEMMA MigrationInvariant == Spec => []MigrationInv
BY MigrationInit, MigrationStep, PTL DEF Spec

-----------------------------------------------------------------------------
(***************************************************************************)
(* Whatever boots do to each other, the record of versions and the place   *)
(* in a script are well formed: no process runs past a script's end.       *)
(***************************************************************************)
THEOREM MigrationsTypeCorrect == Spec => []TypeOK
<1>1. MigrationInv => TypeOK
  BY DEF MigrationInv
<1>. QED
  BY <1>1, MigrationInvariant, PTL

(***************************************************************************)
(* The versions marked are an initial run of them, with any number of      *)
(* processes that boot at the same time and are killed anywhere.           *)
(***************************************************************************)
THEOREM VersionsInOrder == Spec => []MarkedInOrder
<1>1. MigrationInv => MarkedInOrder
  BY DEF MigrationInv
<1>. QED
  BY <1>1, MigrationInvariant, PTL

(***************************************************************************)
(* A marked version has all its objects; the first one if boots follow one *)
(* another undisturbed.                                                    *)
(***************************************************************************)
THEOREM MarkedScriptsRan == Spec => []MarkedIsComplete
<1>1. MigrationInv => MarkedIsComplete
  BY DEF MigrationInv
<1>. QED
  BY <1>1, MigrationInvariant, PTL

(***************************************************************************)
(* Undisturbed boots do not fail, from any version of the database: the    *)
(* ALTER that cannot be repeated is not repeated.                          *)
(***************************************************************************)
THEOREM UndisturbedBootsSucceed == Spec => []BootDoesNotFail
<1>1. MigrationInv => BootDoesNotFail
  BY DEF MigrationInv, OneByOne, BootDoesNotFail
<1>. QED
  BY <1>1, MigrationInvariant, PTL

(***************************************************************************)
(* A process that is ready works on the whole schema.                      *)
(***************************************************************************)
THEOREM ReadySchemaIsWhole == Spec => []ReadyIsMigrated
<1>1. MigrationInv => ReadyIsMigrated
  BY DEF MigrationInv, ReadyHasAll, AppliedIsMarked, MarkedIsComplete, ReadyIsMigrated
<1>. QED
  BY <1>1, MigrationInvariant, PTL

-----------------------------------------------------------------------------
(***************************************************************************)
(* Migrations implements SchemaVersion.  The versions marked are those up  *)
(* to their number.                                                        *)
(***************************************************************************)
LEMMA UpTo == ASSUME NEW k \in 0..7 PROVE Cardinality(1..k) = k
<1>1. 1 \in Int /\ k \in Int
  OBVIOUS
<1>2. Cardinality(1..k) = IF 1 > k THEN 0 ELSE k - 1 + 1
  BY <1>1, FS_Interval
<1>. QED
  BY <1>2

LEMMA MarkedUpTo ==
    ASSUME MigrationInv
    PROVE  Cardinality(marked) \in 0..7 /\ marked = 1..Cardinality(marked)
<1>1. marked \subseteq 1..7 /\ \A v \in marked : 1..v \subseteq marked
  BY Versions DEF MigrationInv, TypeOK, MarkedInOrder
<1>2. \A v \in marked, w \in 1..7 : w <= v => w \in marked
  BY <1>1
<1>3. PICK k \in 0..7 : \A w \in 1..7 : w \in marked <=> w <= k
  <2>1. CASE 7 \in marked
    BY <1>2, <2>1
  <2>2. CASE 7 \notin marked /\ 6 \in marked
    BY <1>2, <2>2
  <2>3. CASE 6 \notin marked /\ 5 \in marked
    BY <1>2, <2>3
  <2>4. CASE 5 \notin marked /\ 4 \in marked
    BY <1>2, <2>4
  <2>5. CASE 4 \notin marked /\ 3 \in marked
    BY <1>2, <2>5
  <2>6. CASE 3 \notin marked /\ 2 \in marked
    BY <1>2, <2>6
  <2>7. CASE 2 \notin marked /\ 1 \in marked
    BY <1>2, <2>7
  <2>8. CASE 1 \notin marked
    BY <1>1, <1>2, <2>8
  <2>. QED
    BY <2>1, <2>2, <2>3, <2>4, <2>5, <2>6, <2>7, <2>8
<1>4. marked = 1..k
  <2>1. ASSUME NEW w \in marked PROVE w \in 1..k
    <3>1. w \in 1..7 /\ w <= k
      BY <1>1, <1>3
    <3>. QED
      BY <3>1
  <2>2. ASSUME NEW w \in 1..k PROVE w \in marked
    <3>1. w \in 1..7 /\ w <= k
      OBVIOUS
    <3>. QED
      BY <1>3, <3>1
  <2>. QED
    BY <2>1, <2>2
<1>. QED
  BY <1>4, UpTo

(***************************************************************************)
(* The version in hand is at most the next one of the database.            *)
(***************************************************************************)
LEMMA InHandIsNext ==
    ASSUME MigrationInv, NEW p \in Process, Pending(p) # {}
    PROVE  /\ Current(p) \in Version
           /\ Current(p) \in marked \/ Current(p) = Cardinality(marked) + 1
<1>1. /\ Current(p) \in Version /\ Current(p) \in 1..7
      /\ \A w \in Pending(p) : Current(p) <= w
  BY CurrentIsFirst, Versions
<1>2. Version \ marked \subseteq Pending(p)
  BY DEF Pending, MigrationInv, AppliedIsMarked
<1>3. Cardinality(marked) \in 0..7 /\ marked = 1..Cardinality(marked)
  BY MarkedUpTo
<1>4. ASSUME Current(p) \notin marked PROVE Current(p) = Cardinality(marked) + 1
  <2>1. Current(p) > Cardinality(marked)
    BY <1>1, <1>3, <1>4
  <2>2. Cardinality(marked) + 1 \in Version \ marked
    BY <1>1, <1>3, <2>1, Versions
  <2>. QED
    BY <1>1, <1>2, <1>3, <2>1, <2>2
<1>. QED
  BY <1>1, <1>4

(***************************************************************************)
(* Marking the next version is an upgrade, marking one that is marked      *)
(* changes nothing.                                                        *)
(***************************************************************************)
LEMMA MarkingUpgrades ==
    ASSUME MigrationInv, NEW v \in Version,
           v \in marked \/ v = Cardinality(marked) + 1,
           v \in marked \/ Objects(v) \subseteq schema \/ (faults # {} /\ v = 1),
           marked' = marked \cup {v}, UNCHANGED <<schema, faults>>
    PROVE  Database!Upgrade \/ UNCHANGED <<Cardinality(marked), schema, faults # {}>>
<1>1. Cardinality(marked) \in 0..7 /\ marked = 1..Cardinality(marked) /\ v \in 1..7
  BY MarkedUpTo, Versions
<1>2. CASE v \in marked
  BY <1>2
<1>3. CASE v \notin marked
  <2>1. v = Cardinality(marked) + 1
    BY <1>3
  <2>2. marked' = 1..v
    BY <1>1, <2>1
  <2>3. Cardinality(marked') = Cardinality(marked) + 1
    <3>1. v \in 0..7
      BY <1>1
    <3>2. Cardinality(1..v) = v
      BY <3>1, UpTo
    <3>. QED
      BY <2>1, <2>2, <3>2
  <2>4. [w \in Version |-> Objects(w)][v] = Objects(v)
    OBVIOUS
  <2>. QED
    BY <1>1, <1>3, <2>1, <2>3, <2>4 DEF Database!Upgrade, Database!Version
<1>. QED
  BY <1>2, <1>3

(***************************************************************************)
(* A statement makes an object of the next version, or one that is there.  *)
(***************************************************************************)
LEMMA StatementMakes ==
    ASSUME MigrationInv, NEW p \in Process, Up(p)
    PROVE  Database!Make \/ UNCHANGED <<Cardinality(marked), schema, faults # {}>>
<1>. DEFINE v == Current(p)
            x == Migration[v][at[p] + 1]
<1>1. /\ Pending(p) # {} /\ at[p] < Len(Migration[v]) /\ at[p] \in 0..5
      /\ UNCHANGED <<faults, marked>>
      /\ schema' = schema \cup {x} \/ UNCHANGED schema
  BY DEF Up, MigrationInv, TypeOK
<1>2. /\ v \in Version /\ Len(Migration[v]) \in 1..5
      /\ v \in marked \/ v = Cardinality(marked) + 1
  BY <1>1, InHandIsNext, ScriptOf
<1>3. x \in Objects(v)
  BY <1>1, <1>2, ScriptOf
<1>4. CASE v \in marked /\ ~(v = 1 /\ faults # {})
  <2>1. Objects(v) \subseteq schema
    BY <1>4 DEF MigrationInv, MarkedIsComplete
  <2>. QED
    BY <1>1, <1>3, <2>1
<1>5. CASE v = Cardinality(marked) + 1 \/ (v = 1 /\ faults # {})
  <2>1. [w \in Version |-> Objects(w)][v] = Objects(v)
    BY <1>2
  <2>. QED
    BY <1>1, <1>2, <1>3, <1>5, <2>1 DEF Database!Make, Database!Version
<1>. QED
  BY <1>2, <1>4, <1>5

LEMMA VersionStep ==
    ASSUME MigrationInv, [Next]_vars
    PROVE  Database!Next \/ UNCHANGED <<Cardinality(marked), schema, faults # {}>>
<1>1. ASSUME NEW p \in Process, Up(p)
      PROVE  Database!Next \/ UNCHANGED <<Cardinality(marked), schema, faults # {}>>
  BY <1>1, StatementMakes DEF Database!Next
<1>2. ASSUME NEW p \in Process, MarkInitial(p)
      PROVE  Database!Next \/ UNCHANGED <<Cardinality(marked), schema, faults # {}>>
  <2>1. /\ pc[p] = "markInitial" /\ marked' = marked \cup {1}
        /\ UNCHANGED <<schema, faults>>
    BY <1>2 DEF MarkInitial
  <2>2. Objects(1) \subseteq schema \/ faults # {}
    BY <2>1 DEF MigrationInv, OneByOne, Booting, WholeBetween
  <2>3. 1 \in marked \/ Cardinality(marked) = 0
    BY MarkedUpTo
  <2>. QED
    BY <2>1, <2>2, <2>3, FirstScript, MarkingUpgrades DEF Database!Next
<1>3. ASSUME NEW p \in Process, Mark(p)
      PROVE  Database!Next \/ UNCHANGED <<Cardinality(marked), schema, faults # {}>>
  <2>. DEFINE v == Current(p)
  <2>1. /\ pc[p] = "up" /\ Pending(p) # {} /\ at[p] = Len(Migration[v])
        /\ marked' = marked \cup {v} /\ UNCHANGED <<schema, faults>>
    BY <1>3 DEF Mark
  <2>2. v \in Version /\ (v \in marked \/ v = Cardinality(marked) + 1)
    BY <2>1, InHandIsNext
  <2>3. Objects(v) \subseteq schema
    BY <2>1, <2>2, ScriptOf DEF MigrationInv, Executed
  <2>. HIDE DEF v
  <2>. QED
    BY <2>1, <2>2, <2>3, MarkingUpgrades DEF Database!Next
<1>4. ASSUME UNCHANGED <<schema, marked, faults>>
      PROVE  UNCHANGED <<Cardinality(marked), schema, faults # {}>>
  BY <1>4
<1>. QED
  BY <1>1, <1>2, <1>3, <1>4
     DEF Next, BootStep, Open, ReadApplied, CheckLegacy, Ready, Close, vars

LEMMA VersionInit == Init => Database!Init
<1>. SUFFICES ASSUME Init PROVE Database!Init
  OBVIOUS
<1>1. PICK k \in 0..7 :
          /\ marked = 1..k
          /\ schema = UNION {Objects(v) : v \in 1..k} \/ (k = 0 /\ schema = Objects(1))
  BY Versions DEF Init
<1>2. Cardinality(marked) = k
  BY <1>1, UpTo
<1>3. /\ \A v \in 1..k : v \in Version /\ [w \in Version |-> Objects(w)][v] = Objects(v)
      /\ [w \in Version |-> Objects(w)][1] = Objects(1)
  BY <1>1, Versions
<1>4. UNION {[w \in Version |-> Objects(w)][v] : v \in 1..k} = UNION {Objects(v) : v \in 1..k}
  BY <1>3
<1>5. k \in {0} \cup Version /\ (faults # {}) \in BOOLEAN
  BY Versions
<1>. QED
  BY <1>1, <1>2, <1>3, <1>4, <1>5 DEF Database!Init, Database!Version

(***************************************************************************)
(* Any number of boots, killed anywhere, take the database up by one       *)
(* version at a time: Migrations implements SchemaVersion.                 *)
(***************************************************************************)
THEOREM BootsUpgradeInOrder == Spec => VersionSpec
<1>1. MigrationInv /\ [Next]_vars
         => [Database!Next]_<<Cardinality(marked), schema, faults # {}>>
  BY VersionStep
<1>. QED
  BY <1>1, VersionInit, MigrationInvariant, PTL DEF Spec, VersionSpec, Database!Spec

-----------------------------------------------------------------------------
(***************************************************************************)
(* A boot advances.  It is within the script in hand, and starts each one  *)
(* at its first statement.                                                 *)
(***************************************************************************)
WithinScript ==
    \A p \in Process :
        at[p] = 0 \/ (Pending(p) # {} /\ at[p] <= Len(Migration[Current(p)]))

StartsFresh == \A p \in Process : pc[p] \in {"closed", "read"} => applied[p] = {}

AdvanceInv == MigrationInv /\ WithinScript /\ StartsFresh

LEMMA AdvanceInit == Init => AdvanceInv
<1>1. Init => WithinScript /\ StartsFresh
  BY DEF Init, WithinScript, StartsFresh
<1>. QED
  BY <1>1, MigrationInit DEF AdvanceInv

LEMMA StartsFreshStep == MigrationInv /\ StartsFresh /\ [Next]_vars => StartsFresh'
<1>. SUFFICES ASSUME MigrationInv, StartsFresh, [Next]_vars, NEW q \in Process,
                     pc'[q] \in {"closed", "read"}
              PROVE  applied'[q] = {}
  BY DEF StartsFresh
<1>1. /\ pc \in [Process -> {"closed", "read", "legacy", "markInitial", "up", "ready", "failed"}]
      /\ applied \in [Process -> SUBSET Version]
  BY DEF MigrationInv, TypeOK
<1>2. CASE UNCHANGED vars
  BY <1>2 DEF vars, StartsFresh
<1>3. ASSUME NEW p \in Process, Open(p) \/ BootStep(p)
      PROVE  applied'[q] = {}
  <2>1. CASE p # q
    <3>1. pc'[q] = pc[q] /\ applied'[q] = applied[q]
      BY <1>1, <1>3, <2>1
         DEF BootStep, Open, ReadApplied, CheckLegacy, MarkInitial, Up, Mark, Ready, Goto
    <3>. QED
      BY <3>1 DEF StartsFresh
  <2>2. CASE p = q
    <3>1. pc[q] = "closed" /\ applied' = applied
      BY <1>1, <1>3, <2>2
         DEF BootStep, Open, ReadApplied, CheckLegacy, MarkInitial, Up, Mark, Ready, Goto
    <3>. QED
      BY <3>1 DEF StartsFresh
  <2>. QED
    BY <2>1, <2>2
<1>4. ASSUME NEW p \in Process, Close(p)
      PROVE  applied'[q] = {}
  BY <1>1, <1>4 DEF Close, Goto, StartsFresh
<1>. QED
  BY <1>2, <1>3, <1>4 DEF Next

LEMMA WithinScriptStep == MigrationInv /\ WithinScript /\ [Next]_vars => WithinScript'
<1>. SUFFICES ASSUME MigrationInv, WithinScript, [Next]_vars, NEW q \in Process,
                     at'[q] # 0
              PROVE  Pending(q)' # {} /\ at'[q] <= Len(Migration[Current(q)'])
  BY DEF WithinScript
<1>1. /\ at \in [Process -> 0..5] /\ applied \in [Process -> SUBSET Version]
      /\ \A p \in Process : pc[p] \in {"closed", "read", "legacy", "markInitial"} => at[p] = 0
  BY DEF MigrationInv, TypeOK, ScriptNotStarted
<1>2. ASSUME at'[q] = at[q], applied'[q] = applied[q]
      PROVE  Pending(q)' # {} /\ at'[q] <= Len(Migration[Current(q)'])
  BY <1>2, InHand DEF WithinScript
<1>3. CASE UNCHANGED vars
  BY <1>2, <1>3 DEF vars
<1>4. ASSUME NEW p \in Process, Open(p) \/ CheckLegacy(p) \/ Ready(p)
      PROVE  Pending(q)' # {} /\ at'[q] <= Len(Migration[Current(q)'])
  BY <1>2, <1>4 DEF Open, CheckLegacy, Ready
<1>5. ASSUME NEW p \in Process, ReadApplied(p) \/ MarkInitial(p)
      PROVE  Pending(q)' # {} /\ at'[q] <= Len(Migration[Current(q)'])
  <2>1. at[p] = 0 /\ at' = at
    BY <1>1, <1>5 DEF ReadApplied, MarkInitial
  <2>2. q # p /\ applied'[q] = applied[q]
    BY <1>1, <1>5, <2>1 DEF ReadApplied, MarkInitial
  <2>. QED
    BY <1>2, <2>1, <2>2
<1>6. ASSUME NEW p \in Process, Mark(p) \/ Close(p)
      PROVE  Pending(q)' # {} /\ at'[q] <= Len(Migration[Current(q)'])
  <2>1. at' = [at EXCEPT ![p] = 0]
    BY <1>6 DEF Mark, Close
  <2>2. q # p /\ applied'[q] = applied[q] /\ at'[q] = at[q]
    BY <1>1, <1>6, <2>1 DEF Mark, Close
  <2>. QED
    BY <1>2, <2>2
<1>7. ASSUME NEW p \in Process, Up(p)
      PROVE  Pending(q)' # {} /\ at'[q] <= Len(Migration[Current(q)'])
  <2>1. /\ Pending(p) # {} /\ at[p] < Len(Migration[Current(p)])
        /\ applied' = applied
        /\ at' = [at EXCEPT ![p] = @ + 1] \/ at' = at
    BY <1>7 DEF Up
  <2>2. CASE at'[q] = at[q]
    BY <1>2, <2>1, <2>2
  <2>3. CASE at'[q] # at[q]
    <3>1. q = p /\ at'[q] = at[q] + 1
      BY <1>1, <2>1, <2>3
    <3>2. Len(Migration[Current(p)]) \in 1..5
      BY <2>1, CurrentIsFirst, ScriptOf
    <3>3. Pending(q)' = Pending(q) /\ Current(q)' = Current(q)
      BY <2>1, InHand
    <3>. QED
      BY <1>1, <2>1, <3>1, <3>2, <3>3
  <2>. QED
    BY <2>2, <2>3
<1>. QED
  BY <1>3, <1>4, <1>5, <1>6, <1>7 DEF Next, BootStep

(***************************************************************************)
(* How many versions are left to apply.                                    *)
(***************************************************************************)
LEMMA VersionsLeft ==
    ASSUME NEW S \in SUBSET Version
    PROVE  /\ Cardinality(S) \in 0..7
           /\ S = {} <=> Cardinality(S) = 0
           /\ \A T \in SUBSET S : Cardinality(T) <= Cardinality(S)
           /\ \A v \in S : Cardinality(S \ {v}) = Cardinality(S) - 1
<1>1. IsFiniteSet(1..7) /\ Cardinality(1..7) = 7
  <2>1. 1 \in Int /\ 7 \in Int /\ 7 \in 0..7
    OBVIOUS
  <2>. QED
    BY <2>1, FS_Interval, UpTo
<1>2. S \in SUBSET (1..7)
  BY Versions
<1>3. IsFiniteSet(S) /\ Cardinality(S) <= 7
  BY <1>1, <1>2, FS_Subset
<1>4. Cardinality(S) \in Nat
  BY <1>3, FS_CardinalityType
<1>5. S = {} <=> Cardinality(S) = 0
  BY <1>3, FS_EmptySet
<1>6. \A T \in SUBSET S : Cardinality(T) <= Cardinality(S)
  BY <1>3, FS_Subset
<1>7. \A v \in S : Cardinality(S \ {v}) = Cardinality(S) - 1
  BY <1>3, FS_RemoveElement
<1>. QED
  BY <1>3, <1>4, <1>5, <1>6, <1>7

LEMMA AheadIsBounded == \A s : Ahead(s) \in 0..4
BY DEF Ahead

(***************************************************************************)
(* What is left never falls below zero, and a step of the boot takes from  *)
(* it: a statement one, a mark a version's six but for the statements that *)
(* count again.                                                            *)
(***************************************************************************)
LEMMA LeftIsNatural ==
    ASSUME NEW S \in SUBSET Version, NEW n \in 0..5, NEW s, n = 0 \/ S # {}
    PROVE  6 * Cardinality(S) + Ahead(s) - n \in Nat
<1>1. Cardinality(S) \in 0..7 /\ (S = {} <=> Cardinality(S) = 0)
  BY VersionsLeft
<1>2. Ahead(s) \in 0..4
  BY AheadIsBounded
<1>. QED
  BY <1>1, <1>2

LEMMA AdvanceStep ==
    ASSUME AdvanceInv, AdvanceInv', [Next]_vars,
           NEW p \in Process, Booting(p), Place(p)' # Place(p), pc'[p] # "closed"
    PROVE  Left(p)' \in 0..(Left(p) - 1)
<1>1. /\ pc \in [Process -> {"closed", "read", "legacy", "markInitial", "up", "ready", "failed"}]
      /\ applied \in [Process -> SUBSET Version] /\ at \in [Process -> 0..5]
      /\ at' \in [Process -> 0..5]
  BY DEF AdvanceInv, MigrationInv, TypeOK
<1>2. Pending(p) \in SUBSET Version /\ Pending(p)' \in SUBSET Version
  BY DEF Pending
<1>3. Left(p) \in Nat /\ Left(p)' \in Nat
  <2>1. at[p] = 0 \/ Pending(p) # {}
    BY DEF AdvanceInv, WithinScript
  <2>2. at'[p] = 0 \/ Pending(p)' # {}
    BY DEF AdvanceInv, WithinScript
  <2>. QED
    BY <1>1, <1>2, <2>1, <2>2, LeftIsNatural DEF Left
<1>4. /\ Cardinality(Pending(p)) \in 0..7 /\ Cardinality(Pending(p)') \in 0..7
      /\ Ahead(pc[p]) \in 0..4 /\ Ahead(pc'[p]) \in 0..4
      /\ at[p] \in 0..5 /\ at'[p] \in 0..5
  BY <1>1, <1>2, VersionsLeft, AheadIsBounded
<1>5. Left(p)' = 6 * Cardinality(Pending(p)') + Ahead(pc'[p]) - at'[p]
  BY DEF Left
<1>6. SUFFICES Left(p)' < Left(p)
  BY <1>3
<1>7. ASSUME at'[p] = at[p], Pending(p)' \in SUBSET Pending(p), Ahead(pc'[p]) < Ahead(pc[p])
      PROVE  Left(p)' < Left(p)
  <2>1. Cardinality(Pending(p)') <= Cardinality(Pending(p))
    BY <1>2, <1>7, VersionsLeft
  <2>. QED
    BY <1>4, <1>5, <1>7, <2>1 DEF Left
<1>8. CASE ReadApplied(p)
  <2>1. pc[p] = "read" /\ pc'[p] \in {"legacy", "up"} /\ at'[p] = at[p]
    BY <1>1, <1>8 DEF ReadApplied, Goto
  <2>2. Ahead(pc'[p]) < Ahead(pc[p])
    BY <2>1 DEF Ahead
  <2>3. Pending(p) = Version
    BY <2>1 DEF Pending, AdvanceInv, StartsFresh
  <2>. QED
    BY <1>2, <1>7, <2>1, <2>2, <2>3
<1>9. CASE CheckLegacy(p) \/ Ready(p)
  <2>1. /\ \/ pc[p] = "legacy" /\ pc'[p] \in {"markInitial", "up"}
           \/ pc[p] = "up" /\ pc'[p] = "ready"
        /\ at'[p] = at[p] /\ applied' = applied
    BY <1>1, <1>9 DEF CheckLegacy, Ready, Goto
  <2>2. Ahead(pc'[p]) < Ahead(pc[p])
    BY <2>1 DEF Ahead
  <2>3. Pending(p)' = Pending(p)
    BY <2>1 DEF Pending
  <2>. QED
    BY <1>7, <2>1, <2>2, <2>3
<1>10. CASE MarkInitial(p)
  <2>1. /\ pc[p] = "markInitial" /\ pc'[p] = "up"
        /\ at'[p] = at[p] /\ applied'[p] = applied[p] \cup {1}
    BY <1>1, <1>10 DEF MarkInitial, Goto
  <2>2. Ahead(pc'[p]) < Ahead(pc[p])
    BY <2>1 DEF Ahead
  <2>3. Pending(p)' \in SUBSET Pending(p)
    BY <2>1 DEF Pending
  <2>. QED
    BY <1>7, <2>1, <2>2, <2>3
<1>11. CASE Up(p)
  <2>1. /\ Pending(p)' = Pending(p) /\ pc[p] = "up"
        /\ \/ at'[p] = at[p] + 1 /\ pc' = pc
           \/ at'[p] = at[p] /\ pc'[p] = "failed"
    BY <1>1, <1>11 DEF Up, Goto, Pending
  <2>2. Ahead("failed") = 0 /\ Ahead("up") = 1
    BY DEF Ahead
  <2>. QED
    BY <1>4, <1>5, <2>1, <2>2 DEF Left
<1>12. CASE Mark(p)
  <2>. DEFINE v == Current(p)
  <2>1. /\ Pending(p) # {} /\ pc' = pc /\ at'[p] = 0
        /\ applied'[p] = applied[p] \cup {v}
    BY <1>1, <1>12 DEF Mark
  <2>2. v \in Pending(p)
    BY <2>1, CurrentIsFirst
  <2>3. Pending(p)' = Pending(p) \ {v}
    BY <2>1 DEF Pending
  <2>4. Cardinality(Pending(p)') = Cardinality(Pending(p)) - 1
    BY <1>2, <2>2, <2>3, VersionsLeft
  <2>. QED
    BY <1>4, <1>5, <2>1, <2>4 DEF Left
<1>13. ASSUME NEW q \in Process, q # p, BootStep(q) \/ Open(q) \/ Close(q) PROVE FALSE
  <2>1. pc'[p] = pc[p] /\ applied'[p] = applied[p] /\ at'[p] = at[p]
    BY <1>1, <1>13 DEF BootStep, Open, Close, ReadApplied, CheckLegacy, MarkInitial, Up, Mark, Ready,
       Goto
  <2>. QED
    BY <2>1 DEF Place
<1>14. ~Open(p) /\ ~Close(p)
  BY <1>1 DEF Open, Close, Booting, Goto
<1>15. ~UNCHANGED vars
  BY DEF vars, Place
<1>. QED
  BY <1>8, <1>9, <1>10, <1>11, <1>12, <1>13, <1>14, <1>15 DEF Next, BootStep

(***************************************************************************)
(* No boot goes round in circles, however many others mark versions under  *)
(* it: with the seven scripts it takes 46 steps at most.                   *)
(***************************************************************************)
THEOREM BootsAdvance == Spec => BootAdvances
<1>1. AdvanceInv /\ [Next]_vars => AdvanceInv'
  BY MigrationStep, WithinScriptStep, StartsFreshStep DEF AdvanceInv
<1>2. Spec => []AdvanceInv
  BY <1>1, AdvanceInit, PTL DEF Spec
<1>3. AdvanceInv /\ AdvanceInv' /\ [Next]_vars =>
        [\A p \in Process :
            Booting(p) /\ Place(p)' # Place(p) =>
                pc'[p] = "closed" \/ Left(p)' \in 0..(Left(p) - 1)]_vars
  BY AdvanceStep
<1>. QED
  BY <1>2, <1>3, PTL DEF Spec, BootAdvances
=============================================================================
