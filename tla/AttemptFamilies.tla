-------------------------- MODULE AttemptFamilies --------------------------
(***************************************************************************)
(* AttemptFamilyService.register_failure in several processes.             *)
(*                                                                         *)
(* A failed attempt is counted in the family of its signature (obligation  *)
(* and files touched), or starts that family.  The family is read first,   *)
(* in autocommit, and written after: between the two others may commit,    *)
(* and no constraint of the schema keeps signatures unique.  A caller that *)
(* has written before holds SQLite's write lock all along: nobody commits  *)
(* in between, which is one of the behaviours here.  An operator's reset   *)
(* deletes the families whose last outcome is 'fail'.                      *)
(***************************************************************************)
EXTENDS Integers

CONSTANTS
    Recorder,      \* processes
    Signature,
    Family,        \* ids of attempt_families rows; bound: as many at a time
    MaxFailures,   \* bound: failures registered per signature, and counted
    Nobody, NoRow

Outcome == {"fail", "other"}    \* the outcome is stored as the caller gives it

ASSUME FamiliesAssumption ==
    /\ Nobody \notin Signature
    /\ NoRow \notin Family
    /\ NoRow \notin [signature : Signature, count : Nat, last : Outcome]
    /\ MaxFailures \in Nat

VARIABLES
    row,           \* row[f]: signature, fail_count and last_outcome, or NoRow
    doing,         \* doing[r]: the signature r registers, or Nobody
    found,         \* found[r]: the family it read, and its count
    registered,    \* history: failures committed per signature since its family
                   \* was last reset
    into,          \* history: into[f]: failures committed to family f
    behind,        \* history: recorders on their way since whose read another has
                   \* written to their signature
    spoilt         \* history: signatures such a recorder has registered

vars == <<row, doing, found, registered, into, behind, spoilt>>

Row == [signature : Signature, count : 1..MaxFailures, last : Outcome]
NotFound == [family |-> NoRow, count |-> 0]

OfSignature(s) == {f \in Family : row[f] # NoRow /\ row[f].signature = s}

Init ==
    /\ row = [f \in Family |-> NoRow]
    /\ doing = [r \in Recorder |-> Nobody]
    /\ found = [r \in Recorder |-> NotFound]
    /\ registered = [s \in Signature |-> 0]
    /\ into = [f \in Family |-> 0]
    /\ behind = {} /\ spoilt = {}

(***************************************************************************)
(* get_by_signature: any row of the signature, if there is one.            *)
(***************************************************************************)
Find(r, s) ==
    /\ doing[r] = Nobody
    /\ doing' = [doing EXCEPT ![r] = s]
    /\ IF OfSignature(s) = {} THEN found' = [found EXCEPT ![r] = NotFound]
       ELSE \E f \in OfSignature(s) :
                found' = [found EXCEPT ![r] = [family |-> f, count |-> row[f].count]]
    /\ UNCHANGED <<row, registered, into, behind, spoilt>>

(***************************************************************************)
(* The family is written, with its event, and the caller commits.  From    *)
(* the write to the commit this is one step: the lock is held, and other   *)
(* connections read what was there before.  A family that is gone comes    *)
(* back: the upsert inserts it.                                            *)
(***************************************************************************)
Done(r) ==
    /\ doing' = [doing EXCEPT ![r] = Nobody]
    /\ found' = [found EXCEPT ![r] = NotFound]

Others(r, S) == {q \in Recorder \ {r} : doing[q] \in S}

IsNew(f) == row[f] = NoRow /\ \A r \in Recorder : found[r].family # f

Committed(r, f) ==
    LET s == doing[r]
    IN  /\ registered' = [registered EXCEPT ![s] = @ + 1]
        /\ into' = [into EXCEPT ![f] = IF found[r].family = NoRow THEN 1 ELSE @ + 1]
        /\ behind' = (behind \ {r}) \cup Others(r, {s})
        /\ spoilt' = IF r \in behind THEN spoilt \cup {s} ELSE spoilt

RegisterFromZero(r, k) ==    \* mutant: a new family has no failure yet
    LET s == doing[r]
        n == IF found[r].family = NoRow THEN 0 ELSE found[r].count + 1
    IN  /\ s # Nobody
        /\ registered[s] < MaxFailures /\ found[r].count < MaxFailures
        /\ \E f \in Family :
              /\ IF found[r].family = NoRow THEN IsNew(f) ELSE f = found[r].family
              /\ row' = [row EXCEPT ![f] = [signature |-> s, count |-> n, last |-> k]]
              /\ Committed(r, f)
        /\ Done(r)

Register(r, k) ==
    LET s == doing[r]
    IN  /\ s # Nobody
        /\ registered[s] < MaxFailures /\ found[r].count < MaxFailures
        /\ \E f \in Family :
              /\ IF found[r].family = NoRow THEN IsNew(f) ELSE f = found[r].family
              /\ row' = [row EXCEPT ![f] =
                            [signature |-> s, count |-> found[r].count + 1, last |-> k]]
              /\ Committed(r, f)
        /\ Done(r)

(***************************************************************************)
(* The caller fails, is refused the lock for too long, or dies: what it    *)
(* has written is rolled back.                                             *)
(***************************************************************************)
AbandonKeeps(r) ==    \* mutant: the count written stays when the caller fails
    /\ doing[r] # Nobody
    /\ row' = [f \in Family |->
                  IF f = found[r].family /\ row[f] # NoRow /\ found[r].count < MaxFailures
                  THEN [row[f] EXCEPT !.count = found[r].count + 1] ELSE row[f]]
    /\ Done(r)
    /\ behind' = behind \ {r}
    /\ UNCHANGED <<registered, into, spoilt>>

Abandon(r) ==
    /\ doing[r] # Nobody
    /\ Done(r)
    /\ behind' = behind \ {r}
    /\ UNCHANGED <<row, registered, into, spoilt>>

(***************************************************************************)
(* reset_to_checkpoint: the families that last said 'fail' go.             *)
(***************************************************************************)
Failed == {f \in Family : row[f] # NoRow /\ row[f].last = "fail"}

Emptied == {s \in Signature : OfSignature(s) \subseteq Failed}

ResetEvery ==    \* mutant: all families go, whatever they last said
    /\ row' = [f \in Family |-> NoRow]
    /\ registered' = [s \in Signature |-> IF s \in Emptied THEN 0 ELSE registered[s]]
    /\ behind' = behind \cup {q \in Recorder : \E f \in Failed : doing[q] = row[f].signature}
    /\ spoilt' = spoilt \ Emptied
    /\ UNCHANGED <<doing, found, into>>

ResetToCheckpoint ==
    /\ row' = [f \in Family |-> IF f \in Failed THEN NoRow ELSE row[f]]
    /\ registered' = [s \in Signature |-> IF s \in Emptied THEN 0 ELSE registered[s]]
    /\ behind' = behind \cup {q \in Recorder : \E f \in Failed : doing[q] = row[f].signature}
    /\ spoilt' = spoilt \ Emptied
    /\ UNCHANGED <<doing, found, into>>

Next ==
    \/ \E r \in Recorder :
          \/ \E s \in Signature : Find(r, s)
          \/ \E k \in Outcome : Register(r, k)
          \/ Abandon(r)
    \/ ResetToCheckpoint

Spec == Init /\ [][Next]_vars

-----------------------------------------------------------------------------
(***************************************************************************)
(* Rows, counts and local reads have their types; a family has a failure.  *)
(***************************************************************************)
TypeOK ==
    /\ row \in [Family -> Row \cup {NoRow}]
    /\ doing \in [Recorder -> Signature \cup {Nobody}]
    /\ found \in [Recorder -> [family : Family \cup {NoRow}, count : 0..MaxFailures]]
    /\ registered \in [Signature -> 0..MaxFailures]
    /\ into \in [Family -> Nat]
    /\ behind \in SUBSET Recorder
    /\ spoilt \in SUBSET Signature

(***************************************************************************)
(* register_failure merges: a signature has one family, which has counted  *)
(* every failure registered for it since its last reset, and none from     *)
(* before.  Only a recorder that others have overtaken, between its read   *)
(* and its write, can split a family, lose counts or bring deleted ones    *)
(* back, and only for its own signature until that is reset.               *)
(***************************************************************************)
FailuresCounted ==
    \A s \in Signature \ spoilt :
        /\ OfSignature(s) = {} => registered[s] = 0
        /\ \A f \in OfSignature(s) : row[f].count = registered[s]
        /\ \A f, g \in OfSignature(s) : f = g

(***************************************************************************)
(* Whoever overtakes whom, a family never claims more failures than were   *)
(* committed to it: counts are lost in a race but never made up, neither   *)
(* by a family that comes back after a reset nor by a caller that fails.   *)
(***************************************************************************)
NeverOvercounted == \A f \in Family : row[f] # NoRow => row[f].count <= into[f]
=============================================================================
