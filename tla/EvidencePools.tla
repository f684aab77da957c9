--------------------------- MODULE EvidencePools ----------------------------
(***************************************************************************)
(* The block a decision capsule shows for one obligation, as a function of *)
(* the rows it is built from.  Both compilers build it; they differ in the *)
(* rows they give it: the full one all of the session, the incremental one *)
(* a slice, in which there are no stale claims and fewer failed attempts.  *)
(*                                                                         *)
(* The rows are a record r:                                                *)
(*   r.status[c]    status of the assertion row c, "none" without one      *)
(*   r.under[c]     its obligation, NoObligation if it has none            *)
(*   r.cites[c]     its evidence ids                                       *)
(*   r.stored       the evidence rows there are                            *)
(*   r.live         subjects of live tickets, per subject type             *)
(*   r.failed[o]    how many failed attempt families of o there are        *)
(***************************************************************************)
EXTENDS Integers, FiniteSetsExt

CONSTANTS
    Obligation,
    Claim,         \* identities of assertion rows
    Evidence,      \* identities of evidence, numbered in order of creation
    Polarity,      \* Polarity[e]
    NoObligation,  \* the obligation_id of a claim under no obligation
    Nothing        \* no evidence

ASSUME PoolsAssumption ==
    /\ Evidence \subseteq Nat
    /\ NoObligation \notin Obligation
    /\ Polarity \in [Evidence -> {"positive", "negative", "neutral"}]

Status == {"speculative", "supported", "confirmed", "refuted", "stale"}
Check == {"READ_REQUIRED", "INVESTIGATE_ALT_PATH", "RECHECK_STALE",
          "VERIFY_UNCERTAINTY", "ADDRESS_NEGATIVE", "CONTINUE"}

Tickets == [evidence : SUBSET Evidence, assertion : SUBSET Claim,
            obligation : SUBSET Obligation]

Rows == [status : [Claim -> Status \cup {"none"}],
         under : [Claim -> Obligation \cup {NoObligation}],
         cites : [Claim -> SUBSET Evidence], stored : SUBSET Evidence,
         live : Tickets, failed : [Obligation -> Nat]]

(***************************************************************************)
(* The claims under o that are among the rows, and those not stale.        *)
(***************************************************************************)
Given(r, o) == {c \in Claim : r.under[c] = o /\ r.status[c] # "none"}

Active(r, o) == {c \in Given(r, o) : r.status[c] # "stale"}

(***************************************************************************)
(* The evidence a claim cites that exists and that no live ticket          *)
(* withdraws.                                                              *)
(***************************************************************************)
LiveEvidence(r, c) ==
    {e \in r.cites[c] \cap r.stored : e \notin r.live.evidence /\ c \notin r.live.assertion}

(***************************************************************************)
(* A confirmed claim counts only next to a supported one.  The pools are   *)
(* pairs of a claim and a piece of evidence.                               *)
(***************************************************************************)
Shown(r, o) ==
    {c \in Active(r, o) : \/ r.status[c] # "confirmed"
                          \/ \E d \in Active(r, o) : r.status[d] = "supported"}

Positive(r, o) ==
    {p \in Claim \X Evidence :
        /\ p[1] \in Shown(r, o) /\ r.status[p[1]] \in {"supported", "confirmed"}
        /\ p[2] \in LiveEvidence(r, p[1]) /\ Polarity[p[2]] = "positive"}

Negative(r, o) ==
    {p \in Claim \X Evidence :
        /\ p[1] \in Shown(r, o) /\ r.status[p[1]] = "refuted"
        /\ p[2] \in LiveEvidence(r, p[1]) /\ Polarity[p[2]] = "negative"}

(***************************************************************************)
(* A speculative claim is shown with the oldest evidence it still has.     *)
(***************************************************************************)
Uncertain(r, o) ==
    {<<c, IF LiveEvidence(r, c) = {} THEN Nothing ELSE Min(LiveEvidence(r, c))>> :
        c \in {d \in Shown(r, o) : r.status[d] = "speculative"}}

(***************************************************************************)
(* No claim shown has evidence: the block says READ REQUIRED.              *)
(***************************************************************************)
Unread(r, o) == \A c \in Shown(r, o) : LiveEvidence(r, c) = {}

(***************************************************************************)
(* A ticket is live for o or for a claim of o that was given.              *)
(***************************************************************************)
Unresolved(r, o) ==
    o \in r.live.obligation \/ Given(r, o) \cap r.live.assertion # {}

(***************************************************************************)
(* The negative pool is never empty (it has a placeholder), so the last    *)
(* check a block can suggest is ADDRESS_NEGATIVE.                          *)
(***************************************************************************)
NextCheck(r, o) ==
    IF Unread(r, o) THEN "READ_REQUIRED"
    ELSE IF r.failed[o] > 0 THEN "INVESTIGATE_ALT_PATH"
    ELSE IF Unresolved(r, o) THEN "RECHECK_STALE"
    ELSE IF Uncertain(r, o) # {} THEN "VERIFY_UNCERTAINTY"
    ELSE "ADDRESS_NEGATIVE"

Pools(r, o) ==
    [positive |-> Positive(r, o), negative |-> Negative(r, o),
     uncertain |-> Uncertain(r, o), failed |-> r.failed[o],
     unread |-> Unread(r, o)]

Pool == [positive : SUBSET (Claim \X Evidence), negative : SUBSET (Claim \X Evidence),
         uncertain : SUBSET (Claim \X (Evidence \cup {Nothing})), failed : Nat,
         unread : BOOLEAN]

BlockUnchecked(r, o) ==    \* mutant: the block is kept without its next check
    Pools(r, o)

Block(r, o) == [pools |-> Pools(r, o), next |-> NextCheck(r, o)]

BlockType == [pools : Pool, next : Check]

UnsupportedAlone(r) ==    \* mutant: any other claim stands in for a supported one
    {c \in Claim : /\ r.status[c] = "confirmed" /\ r.under[c] # NoObligation
                   /\ \A d \in Claim \ {c} : r.under[d] = r.under[c] => r.status[d] = "none"}

(***************************************************************************)
(* Confirmed claims of an obligation that has no supported claim.          *)
(***************************************************************************)
Unsupported(r) ==
    {c \in Claim : /\ r.status[c] = "confirmed" /\ r.under[c] # NoObligation
                   /\ \A d \in Claim : r.under[d] = r.under[c] => r.status[d] # "supported"}
=============================================================================
