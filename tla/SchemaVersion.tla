--------------------------- MODULE SchemaVersion ----------------------------
(***************************************************************************)
(* What the migrations promise, however many processes run them: the       *)
(* database is at one version and goes up by one at a time, when the       *)
(* objects of the next version are all there; nothing else is made         *)
(* meanwhile, and nothing is taken away.                                   *)
(*                                                                         *)
(* The promise is less for version 1.  A database that has its tables is   *)
(* taken for one of before the registry.  If boots overlap or are killed,  *)
(* it may be one whose first script has not run to its end: the version is *)
(* then recorded too early, and the rest may be made late.                 *)
(***************************************************************************)
EXTENDS Integers

CONSTANT Script      \* Script[v]: what version v adds

VARIABLES
    version,         \* the version of the database
    schema,          \* the objects it has
    disturbed        \* boots may overlap or be killed

Version == DOMAIN Script

Init ==
    /\ version \in {0} \cup Version
    /\ \/ schema = UNION {Script[v] : v \in 1..version}
       \/ version = 0 /\ schema = Script[1]
    /\ disturbed \in BOOLEAN

Make ==
    /\ \E v \in Version :
          /\ v = version + 1 \/ (disturbed /\ v = 1)
          /\ \E x \in Script[v] : schema' = schema \cup {x}
    /\ UNCHANGED <<version, disturbed>>

Upgrade ==
    /\ version + 1 \in Version
    /\ Script[version + 1] \subseteq schema \/ (disturbed /\ version = 0)
    /\ version' = version + 1
    /\ UNCHANGED <<schema, disturbed>>

Next == Make \/ Upgrade

Spec == Init /\ [][Next]_<<version, schema, disturbed>>
=============================================================================
