----------------------------- MODULE ClaimTrust -----------------------------
(***************************************************************************)
(* What the task-state store promises about claims, without saying how.   *)
(*                                                                         *)
(* A claim (an assertion) is trusted until something it depends on         *)
(* changes.  Work (an obligation) is verified only while every claim that  *)
(* rests on it is trusted.  Trust is withdrawn in one step, all the way    *)
(* up: there is no moment at which a claim has lost its trust and the work *)
(* above it still counts as verified.  Nothing but a new claim by the      *)
(* agent restores trust.                                                   *)
(***************************************************************************)
CONSTANTS
    Assertion,     \* identities of claims
    Obligation,    \* identities of work items
    NoObligation   \* a claim may rest under no obligation at all

VARIABLES
    trusted,       \* the claims in force
    basis,         \* basis[a]: the obligation claim a rests under
    verified       \* the obligations that count as done

vars == <<trusted, basis, verified>>

(***************************************************************************)
(* The obligations a set of claims carries.                                *)
(***************************************************************************)
CarriedBy(A) == {basis[a] : a \in A} \cap Obligation

Init ==
    /\ trusted = {}
    /\ basis = [a \in Assertion |-> NoObligation]
    /\ verified = {}

(***************************************************************************)
(* The claims A lose their trust, and with them every verified obligation  *)
(* they carry.                                                             *)
(***************************************************************************)
Withdraw(A) ==
    /\ A # {}
    /\ A \subseteq trusted
    /\ trusted' = trusted \ A
    /\ verified' = verified \ CarriedBy(A)
    /\ UNCHANGED basis

(***************************************************************************)
(* The agent makes a claim, or makes it again on new grounds.              *)
(***************************************************************************)
Claim(a, o) ==
    /\ trusted' = trusted \cup {a}
    /\ basis' = [basis EXCEPT ![a] = o]
    /\ UNCHANGED verified

(***************************************************************************)
(* Work counts as done only while every claim under it is trusted.         *)
(***************************************************************************)
Accept(o) ==
    /\ \A a \in Assertion : basis[a] = o => a \in trusted
    /\ verified' = verified \cup {o}
    /\ UNCHANGED <<trusted, basis>>

(***************************************************************************)
(* Work is put back to some open status.                                   *)
(***************************************************************************)
Reject(o) ==
    /\ verified' = verified \ {o}
    /\ UNCHANGED <<trusted, basis>>

Next ==
    \/ \E A \in SUBSET Assertion : Withdraw(A)
    \/ \E a \in Assertion, o \in Obligation \cup {NoObligation} : Claim(a, o)
    \/ \E o \in Obligation : Accept(o) \/ Reject(o)

Spec == Init /\ [][Next]_vars

=============================================================================
