------------------------ MODULE AttemptFamiliesProofs ------------------------
(***************************************************************************)
(* Proofs about AttemptFamilies, for any recorders, signatures and ids,    *)
(* none of whom is assumed to hold the lock when it looks a family up.     *)
(***************************************************************************)
EXTENDS AttemptFamilies, TLAPS

FoundType == [family : Family \cup {NoRow}, count : 0..MaxFailures]

LEMMA FamiliesInit == Init => TypeOK
BY FamiliesAssumption DEF Init, TypeOK, NotFound

LEMMA DoneTyped ==
    ASSUME TypeOK, NEW r \in Recorder, Done(r)
    PROVE  /\ doing' \in [Recorder -> Signature \cup {Nobody}]
           /\ found' \in [Recorder -> FoundType]
           /\ doing'[r] = Nobody /\ found'[r] = NotFound
           /\ \A q \in Recorder \ {r} : doing'[q] = doing[q] /\ found'[q] = found[q]
BY FamiliesAssumption DEF TypeOK, Done, NotFound, FoundType

(***************************************************************************)
(* What Find has read: nothing, or one family of the signature.            *)
(***************************************************************************)
LEMMA FindReads ==
    ASSUME TypeOK, NEW r \in Recorder, NEW s \in Signature, Find(r, s)
    PROVE  /\ UNCHANGED <<row, registered, into, behind, spoilt>>
           /\ doing[r] = Nobody /\ doing' = [doing EXCEPT ![r] = s]
           /\ IF OfSignature(s) = {} THEN found'[r] = NotFound
              ELSE \E f \in OfSignature(s) : found'[r] = [family |-> f, count |-> row[f].count]
           /\ \A q \in Recorder \ {r} : doing'[q] = doing[q] /\ found'[q] = found[q]
           /\ doing'[r] = s /\ found' \in [Recorder -> FoundType]
<1>1. /\ doing' = [doing EXCEPT ![r] = s] /\ doing[r] = Nobody
      /\ UNCHANGED <<row, registered, into, behind, spoilt>>
  BY DEF Find
<1>2. PICK x \in FoundType :
          /\ found' = [found EXCEPT ![r] = x]
          /\ IF OfSignature(s) = {} THEN x = NotFound
             ELSE \E f \in OfSignature(s) : x = [family |-> f, count |-> row[f].count]
  <2>1. CASE OfSignature(s) = {}
    <3>1. found' = [found EXCEPT ![r] = NotFound]
      BY <2>1 DEF Find
    <3>2. NotFound \in FoundType
      BY FamiliesAssumption DEF NotFound, FoundType
    <3>. QED
      BY <2>1, <3>1, <3>2
  <2>2. CASE OfSignature(s) # {}
    <3>1. PICK f \in OfSignature(s) :
              found' = [found EXCEPT ![r] = [family |-> f, count |-> row[f].count]]
      BY <2>2 DEF Find
    <3>2. f \in Family /\ row[f] \in Row
      BY <3>1 DEF OfSignature, TypeOK
    <3>3. row[f].count \in 0..MaxFailures
      BY <3>2 DEF Row
    <3>4. [family |-> f, count |-> row[f].count] \in FoundType
      BY <3>2, <3>3 DEF FoundType
    <3>. QED
      BY <2>2, <3>1, <3>4
  <2>. QED
    BY <2>1, <2>2
<1>. QED
  BY <1>1, <1>2 DEF TypeOK, FoundType

(***************************************************************************)
(* What Register writes.                                                   *)
(***************************************************************************)
RegistersIn(f, r, k) ==
    /\ IF found[r].family = NoRow THEN IsNew(f) ELSE f = found[r].family
    /\ row' = [row EXCEPT ![f] = [signature |-> doing[r], count |-> found[r].count + 1,
                                  last |-> k]]
    /\ into' = [into EXCEPT ![f] = IF found[r].family = NoRow THEN 1 ELSE into[f] + 1]

LEMMA Registers ==
    ASSUME TypeOK, NEW r \in Recorder, NEW k \in Outcome, Register(r, k)
    PROVE  /\ doing[r] \in Signature /\ Done(r)
           /\ registered' = [registered EXCEPT ![doing[r]] = @ + 1]
           /\ registered' \in [Signature -> 0..MaxFailures]
           /\ behind' = (behind \ {r}) \cup Others(r, {doing[r]})
           /\ spoilt' = IF r \in behind THEN spoilt \cup {doing[r]} ELSE spoilt
           /\ \E f \in Family : RegistersIn(f, r, k)
           /\ [signature |-> doing[r], count |-> found[r].count + 1, last |-> k] \in Row
           /\ [signature |-> doing[r], count |-> found[r].count + 1, last |-> k] # NoRow
<1>1. /\ doing[r] \in Signature /\ registered[doing[r]] \in 0..MaxFailures
      /\ registered[doing[r]] < MaxFailures
  BY DEF Register, TypeOK
<1>2. found[r].count \in 0..MaxFailures /\ found[r].count < MaxFailures
  BY DEF Register, TypeOK
<1>3. found[r].count + 1 \in 1..MaxFailures
  BY <1>2, FamiliesAssumption
<1>4. registered' = [registered EXCEPT ![doing[r]] = @ + 1]
  BY DEF Register, Committed
<1>5. registered' \in [Signature -> 0..MaxFailures]
  BY <1>1, <1>4, FamiliesAssumption DEF TypeOK
<1>6. [signature |-> doing[r], count |-> found[r].count + 1, last |-> k] \in Row
  BY <1>1, <1>3 DEF Row
<1>7. [signature |-> doing[r], count |-> found[r].count + 1, last |-> k] # NoRow
  BY <1>1, <1>3, FamiliesAssumption
<1>. QED
  BY <1>1, <1>4, <1>5, <1>6, <1>7 DEF Register, Committed, RegistersIn

LEMMA RegisterTyped ==
    ASSUME TypeOK, NEW r \in Recorder, NEW k \in Outcome, Register(r, k)
    PROVE  TypeOK'
<1>1. PICK f \in Family : RegistersIn(f, r, k)
  BY Registers
<1>2. row' \in [Family -> Row \cup {NoRow}]
  BY <1>1, Registers DEF TypeOK, RegistersIn
<1>3. into' \in [Family -> Nat]
  BY <1>1 DEF TypeOK, RegistersIn
<1>4. behind' \in SUBSET Recorder /\ spoilt' \in SUBSET Signature
  <2>1. /\ behind' = (behind \ {r}) \cup Others(r, {doing[r]}) /\ doing[r] \in Signature
        /\ spoilt' = IF r \in behind THEN spoilt \cup {doing[r]} ELSE spoilt
    BY Registers
  <2>. QED
    BY <2>1 DEF TypeOK, Others
<1>5. doing' \in [Recorder -> Signature \cup {Nobody}] /\ found' \in [Recorder -> FoundType]
  BY Registers, DoneTyped
<1>. QED
  BY <1>2, <1>3, <1>4, <1>5, Registers DEF TypeOK, FoundType

LEMMA ResetTyped ==
    ASSUME TypeOK, ResetToCheckpoint
    PROVE  TypeOK'
BY FamiliesAssumption DEF ResetToCheckpoint, TypeOK, Emptied

LEMMA FamiliesStep == TypeOK /\ [Next]_vars => TypeOK'
<1>. SUFFICES ASSUME TypeOK, [Next]_vars PROVE TypeOK'
  OBVIOUS
<1>1. CASE UNCHANGED vars
  BY <1>1 DEF vars, TypeOK
<1>2. ASSUME NEW r \in Recorder, NEW s \in Signature, Find(r, s) PROVE TypeOK'
  BY <1>2, FindReads DEF TypeOK, FoundType
<1>3. ASSUME NEW r \in Recorder, Abandon(r) PROVE TypeOK'
  <2>1. Done(r) /\ behind' \in SUBSET Recorder /\ UNCHANGED <<row, registered, into, spoilt>>
    BY <1>3 DEF Abandon, TypeOK
  <2>. QED
    BY <2>1, DoneTyped DEF TypeOK, FoundType
<1>. QED
  BY <1>1, <1>2, <1>3, RegisterTyped, ResetTyped DEF Next

(***************************************************************************)
(* Rows, counts and what recorders have read keep their types, whoever     *)
(* overtakes whom; every family there is has a failure.                    *)
(***************************************************************************)
THEOREM FamiliesTypeCorrect == Spec => []TypeOK
BY FamiliesInit, FamiliesStep, PTL DEF Spec

-----------------------------------------------------------------------------
(***************************************************************************)
(* A recorder writes only to the family it has read or to a new one, and   *)
(* has read no more failures than were committed to it.                    *)
(***************************************************************************)
HeldInv ==
    \A r \in Recorder :
        IF found[r].family = NoRow THEN found[r].count = 0
        ELSE /\ doing[r] # Nobody
             /\ found[r].count <= into[found[r].family]
             /\ row[found[r].family] # NoRow => row[found[r].family].signature = doing[r]

SharedInv ==
    \A q, r \in Recorder :
        found[q].family # NoRow /\ found[q].family = found[r].family => doing[q] = doing[r]

(***************************************************************************)
(* A recorder that is not overtaken has read the rows as they are.         *)
(***************************************************************************)
FreshInv ==
    \A r \in Recorder \ behind : doing[r] # Nobody /\ doing[r] \notin spoilt =>
        IF OfSignature(doing[r]) = {} THEN found[r] = NotFound
        ELSE \E f \in OfSignature(doing[r]) : found[r] = [family |-> f, count |-> row[f].count]

(***************************************************************************)
(* A signature is spoilt by a family, and until its families go.           *)
(***************************************************************************)
SpoiltInv == \A s \in spoilt : OfSignature(s) # {}

FamiliesInv ==
    /\ TypeOK
    /\ HeldInv /\ SharedInv /\ FreshInv /\ SpoiltInv
    /\ FailuresCounted /\ NeverOvercounted

LEMMA CountsInit == Init => FamiliesInv
<1>. SUFFICES ASSUME Init PROVE FamiliesInv
  OBVIOUS
<1>1. \A s \in Signature : OfSignature(s) = {}
  BY DEF Init, OfSignature
<1>2. HeldInv /\ SharedInv /\ FreshInv
  BY <1>1 DEF Init, HeldInv, SharedInv, FreshInv, NotFound
<1>3. SpoiltInv /\ FailuresCounted /\ NeverOvercounted
  BY <1>1 DEF Init, SpoiltInv, FailuresCounted, NeverOvercounted
<1>. QED
  BY <1>2, <1>3, FamiliesInit DEF FamiliesInv

LEMMA SameRows ==
    ASSUME UNCHANGED row
    PROVE  \A s : OfSignature(s)' = OfSignature(s)
BY DEF OfSignature

LEMMA FindCounts ==
    ASSUME FamiliesInv, NEW r \in Recorder, NEW s \in Signature, Find(r, s)
    PROVE  FamiliesInv'
<1>1. TypeOK /\ TypeOK' /\ Find(r, s)
  BY FamiliesStep DEF FamiliesInv, Next
<1>2. /\ UNCHANGED <<row, registered, into, behind, spoilt>>
      /\ IF OfSignature(s) = {} THEN found'[r] = NotFound
         ELSE \E f \in OfSignature(s) : found'[r] = [family |-> f, count |-> row[f].count]
      /\ \A q \in Recorder \ {r} : doing'[q] = doing[q] /\ found'[q] = found[q]
      /\ doing'[r] = s
  BY <1>1, FindReads
<1>3. \A z : OfSignature(z)' = OfSignature(z)
  BY <1>2, SameRows
<1>4. \A f \in OfSignature(s) : /\ f \in Family /\ f # NoRow
                                /\ row[f] # NoRow /\ row[f].signature = s
  BY FamiliesAssumption DEF OfSignature
<1>5. HeldInv'
  <2>. SUFFICES ASSUME NEW q \in Recorder
                PROVE  IF found'[q].family = NoRow THEN found'[q].count = 0
                       ELSE /\ doing'[q] # Nobody
                            /\ found'[q].count <= into[found'[q].family]
                            /\ row[found'[q].family] # NoRow =>
                                  row[found'[q].family].signature = doing'[q]
    BY <1>2 DEF HeldInv
  <2>1. CASE q # r
    BY <1>2, <2>1 DEF FamiliesInv, HeldInv
  <2>2. CASE q = r /\ OfSignature(s) = {}
    BY <1>2, <2>2 DEF NotFound
  <2>3. CASE q = r /\ OfSignature(s) # {}
    <3>1. PICK f \in OfSignature(s) : found'[r] = [family |-> f, count |-> row[f].count]
      BY <1>2, <2>3
    <3>2. row[f].count <= into[f]
      BY <1>4 DEF FamiliesInv, NeverOvercounted
    <3>3. s # Nobody
      BY FamiliesAssumption
    <3>. QED
      BY <1>2, <1>4, <2>3, <3>1, <3>2, <3>3
  <2>. QED
    BY <2>1, <2>2, <2>3
<1>6. SharedInv'
  <2>1. \A q \in Recorder \ {r} : found'[q].family # NoRow /\ found'[q].family = found'[r].family
                                => doing'[q] = s
    <3>1. CASE OfSignature(s) = {}
      BY <1>2, <3>1 DEF NotFound
    <3>2. CASE OfSignature(s) # {}
      <4>1. PICK f \in OfSignature(s) : found'[r] = [family |-> f, count |-> row[f].count]
        BY <1>2, <3>2
      <4>2. found'[r].family = f /\ row[f] # NoRow /\ row[f].signature = s
        BY <1>4, <4>1
      <4>. QED
        BY <1>2, <4>2 DEF FamiliesInv, HeldInv
    <3>. QED
      BY <3>1, <3>2
  <2>. QED
    BY <1>2, <2>1 DEF FamiliesInv, SharedInv
<1>7. FreshInv'
  BY <1>2, <1>3 DEF FamiliesInv, FreshInv
<1>8. SpoiltInv' /\ FailuresCounted' /\ NeverOvercounted'
  BY <1>2, <1>3 DEF FamiliesInv, SpoiltInv, FailuresCounted, NeverOvercounted
<1>. QED
  BY <1>1, <1>5, <1>6, <1>7, <1>8 DEF FamiliesInv

(***************************************************************************)
(* Register adds a row or replaces one of the signature's or one that is   *)
(* gone, and leaves those of the other signatures.                         *)
(***************************************************************************)
LEMMA RegisterCounts ==
    ASSUME FamiliesInv, NEW r \in Recorder, NEW k \in Outcome, Register(r, k)
    PROVE  FamiliesInv'
<1>0. PICK s \in Signature : s = doing[r]
  BY Registers DEF FamiliesInv
<1>. DEFINE new == [signature |-> s, count |-> found[r].count + 1, last |-> k]
<1>1. TypeOK /\ TypeOK'
  BY RegisterTyped DEF FamiliesInv
<1>2. /\ Done(r) /\ s # Nobody
      /\ registered' = [registered EXCEPT ![s] = @ + 1]
      /\ behind' = (behind \ {r}) \cup Others(r, {s})
      /\ spoilt' = IF r \in behind THEN spoilt \cup {s} ELSE spoilt
      /\ new # NoRow
  BY <1>0, <1>1, Registers, FamiliesAssumption
<1>3. PICK f \in Family :
          /\ IF found[r].family = NoRow THEN IsNew(f) ELSE f = found[r].family
          /\ row' = [row EXCEPT ![f] = new]
          /\ into' = [into EXCEPT ![f] = IF found[r].family = NoRow THEN 1 ELSE into[f] + 1]
  <2>1. PICK f \in Family : RegistersIn(f, r, k)
    BY <1>1, Registers
  <2>. QED
    BY <1>0, <2>1 DEF RegistersIn
<1>4. /\ row'[f] = new /\ \A g \in Family \ {f} : row'[g] = row[g] /\ into'[g] = into[g]
      /\ into'[f] = IF found[r].family = NoRow THEN 1 ELSE into[f] + 1
  BY <1>1, <1>3 DEF TypeOK
<1>5. /\ doing'[r] = Nobody /\ found'[r] = NotFound
      /\ \A q \in Recorder \ {r} : doing'[q] = doing[q] /\ found'[q] = found[q]
  BY <1>1, <1>2, DoneTyped
<1>6. row[f] = NoRow \/ row[f].signature = s
  BY <1>0, <1>3 DEF IsNew, FamiliesInv, HeldInv
<1>7. found[r].count \in Nat /\ found[r].count + 1 <= into'[f]
  <2>1. found[r].count \in Nat /\ into[f] \in Nat
    BY <1>1 DEF TypeOK
  <2>2. CASE found[r].family = NoRow
    BY <1>4, <2>1, <2>2 DEF FamiliesInv, HeldInv
  <2>3. CASE found[r].family # NoRow
    BY <1>3, <1>4, <2>1, <2>3 DEF FamiliesInv, HeldInv
  <2>. QED
    BY <2>1, <2>2, <2>3
<1>8. ASSUME NEW z \in Signature, z # s
      PROVE  /\ OfSignature(z)' = OfSignature(z) /\ registered'[z] = registered[z]
             /\ f \notin OfSignature(z)
  <2>1. f \notin OfSignature(z)
    BY <1>6, <1>8 DEF OfSignature
  <2>2. f \notin OfSignature(z)'
    BY <1>4, <1>8 DEF OfSignature
  <2>3. \A g \in Family \ {f} : g \in OfSignature(z)' <=> g \in OfSignature(z)
    BY <1>4 DEF OfSignature
  <2>4. OfSignature(z) \subseteq Family /\ OfSignature(z)' \subseteq Family
    BY DEF OfSignature
  <2>5. registered'[z] = registered[z]
    BY <1>1, <1>2, <1>8 DEF TypeOK
  <2>. QED
    BY <2>1, <2>2, <2>3, <2>4, <2>5
<1>9. HeldInv'
  <2>. SUFFICES ASSUME NEW q \in Recorder
                PROVE  IF found'[q].family = NoRow THEN found'[q].count = 0
                       ELSE /\ doing'[q] # Nobody
                            /\ found'[q].count <= into'[found'[q].family]
                            /\ row'[found'[q].family] # NoRow =>
                                  row'[found'[q].family].signature = doing'[q]
    BY DEF HeldInv
  <2>1. CASE q = r
    BY <1>5, <2>1 DEF NotFound
  <2>2. CASE q # r /\ found[q].family # f
    <3>1. found[q].family \in Family \cup {NoRow}
      BY <1>1 DEF TypeOK
    <3>. QED
      BY <1>4, <1>5, <2>2, <3>1 DEF FamiliesInv, HeldInv
  <2>3. CASE q # r /\ found[q].family = f
    <3>1. f # NoRow /\ f = found[r].family
      BY <1>3, <2>3, FamiliesAssumption DEF IsNew
    <3>2. doing[q] # Nobody /\ found[q].count <= into[f] /\ into'[f] = into[f] + 1
      BY <1>4, <2>3, <3>1 DEF FamiliesInv, HeldInv
    <3>3. found[q].count <= into'[f]
      <4>1. found[q].count \in Nat /\ into[f] \in Nat
        BY <1>1 DEF TypeOK
      <4>. QED
        BY <3>2, <4>1
    <3>4. doing[q] = s
      BY <1>0, <2>3, <3>1 DEF FamiliesInv, SharedInv
    <3>. QED
      BY <1>4, <1>5, <2>3, <3>1, <3>2, <3>3, <3>4
  <2>. QED
    BY <2>1, <2>2, <2>3
<1>10. SharedInv'
  BY <1>5 DEF FamiliesInv, SharedInv, NotFound
<1>11. NeverOvercounted'
  <2>1. row'[f].count <= into'[f]
    BY <1>4, <1>7
  <2>2. \A g \in Family \ {f} : row'[g] # NoRow => row'[g].count <= into'[g]
    BY <1>4 DEF FamiliesInv, NeverOvercounted
  <2>. QED
    BY <2>1, <2>2 DEF NeverOvercounted
<1>12. r \notin behind /\ s \notin spoilt =>
           OfSignature(s) \subseteq {f} /\ found[r].count = registered[s]
  <2>. SUFFICES ASSUME r \notin behind, s \notin spoilt
                PROVE  OfSignature(s) \subseteq {f} /\ found[r].count = registered[s]
    OBVIOUS
  <2>1. CASE OfSignature(s) = {}
    <3>1. found[r] = NotFound /\ registered[s] = 0
      BY <1>0, <1>2, <2>1 DEF FamiliesInv, FreshInv, FailuresCounted
    <3>. QED
      BY <2>1, <3>1 DEF NotFound
  <2>2. CASE OfSignature(s) # {}
    <3>1. PICK g \in OfSignature(s) : found[r] = [family |-> g, count |-> row[g].count]
      BY <1>0, <1>2, <2>2 DEF FamiliesInv, FreshInv
    <3>2. g \in Family /\ g # NoRow /\ row[g].count = registered[s]
      BY <3>1, FamiliesAssumption DEF OfSignature, FamiliesInv, FailuresCounted
    <3>3. f = g /\ found[r].count = row[g].count
      BY <1>3, <3>1, <3>2
    <3>4. OfSignature(s) \subseteq {g}
      BY <3>1 DEF FamiliesInv, FailuresCounted
    <3>. QED
      BY <3>2, <3>3, <3>4
  <2>. QED
    BY <2>1, <2>2
<1>13. s \notin spoilt' => /\ OfSignature(s)' = {f}
                           /\ row'[f].count = registered'[s]
  <2>. SUFFICES ASSUME s \notin spoilt'
                PROVE  OfSignature(s)' = {f} /\ row'[f].count = registered'[s]
    OBVIOUS
  <2>1. OfSignature(s) \subseteq {f} /\ found[r].count = registered[s]
    BY <1>2, <1>12
  <2>2. f \in OfSignature(s)'
    BY <1>2, <1>4 DEF OfSignature
  <2>3. \A g \in OfSignature(s)' : g = f
    BY <1>4, <2>1 DEF OfSignature
  <2>4. registered'[s] = registered[s] + 1
    BY <1>1, <1>2 DEF TypeOK
  <2>. QED
    BY <1>4, <2>1, <2>2, <2>3, <2>4
<1>14. FailuresCounted'
  <2>. SUFFICES ASSUME NEW z \in Signature \ spoilt'
                PROVE  /\ OfSignature(z)' = {} => registered'[z] = 0
                       /\ \A g \in OfSignature(z)' : row'[g].count = registered'[z]
                       /\ \A g, h \in OfSignature(z)' : g = h
    BY DEF FailuresCounted
  <2>1. CASE z = s
    BY <1>13, <2>1
  <2>2. CASE z # s
    <3>1. \A g \in OfSignature(z) : row'[g] = row[g]
      BY <1>4, <1>8, <2>2 DEF OfSignature
    <3>2. z \notin spoilt
      BY <1>2
    <3>. QED
      BY <1>8, <2>2, <3>1, <3>2 DEF FamiliesInv, FailuresCounted
  <2>. QED
    BY <2>1, <2>2
<1>15. FreshInv'
  <2>. SUFFICES ASSUME NEW q \in Recorder \ behind', NEW z, z = doing'[q], z # Nobody,
                       z \notin spoilt'
                PROVE  IF OfSignature(z)' = {} THEN found'[q] = NotFound
                       ELSE \E g \in OfSignature(z)' :
                               found'[q] = [family |-> g, count |-> row'[g].count]
    BY DEF FreshInv, OfSignature
  <2>1. q # r /\ doing[q] = z /\ found'[q] = found[q]
    BY <1>5
  <2>2. z # s /\ q \notin behind /\ z \notin spoilt /\ z \in Signature
    BY <1>1, <1>2, <2>1 DEF Others, TypeOK
  <2>3. OfSignature(z)' = OfSignature(z)
    BY <1>8, <2>2
  <2>4. \A g \in OfSignature(z) : row'[g] = row[g]
    BY <1>4, <1>8, <2>2 DEF OfSignature
  <2>5. IF OfSignature(z) = {} THEN found[q] = NotFound
        ELSE \E g \in OfSignature(z) : found[q] = [family |-> g, count |-> row[g].count]
    BY <2>1, <2>2 DEF FamiliesInv, FreshInv
  <2>. QED
    BY <2>1, <2>3, <2>4, <2>5
<1>16. SpoiltInv'
  <2>1. OfSignature(s)' # {}
    BY <1>2, <1>4 DEF OfSignature
  <2>2. \A z \in spoilt : z # s => OfSignature(z)' # {}
    BY <1>1, <1>8 DEF FamiliesInv, SpoiltInv, TypeOK
  <2>. QED
    BY <1>2, <2>1, <2>2 DEF SpoiltInv
<1>. QED
  BY <1>1, <1>9, <1>10, <1>11, <1>14, <1>15, <1>16 DEF FamiliesInv

LEMMA AbandonCounts ==
    ASSUME FamiliesInv, NEW r \in Recorder, Abandon(r)
    PROVE  FamiliesInv'
<1>1. /\ TypeOK /\ TypeOK' /\ Done(r) /\ UNCHANGED <<row, registered, into, spoilt>>
      /\ behind' = behind \ {r}
  BY FamiliesStep DEF FamiliesInv, Abandon, Next
<1>2. /\ doing'[r] = Nobody /\ found'[r] = NotFound
      /\ \A q \in Recorder \ {r} : doing'[q] = doing[q] /\ found'[q] = found[q]
  BY <1>1, DoneTyped
<1>3. \A z : OfSignature(z)' = OfSignature(z)
  BY <1>1, SameRows
<1>4. HeldInv' /\ SharedInv'
  BY <1>1, <1>2 DEF FamiliesInv, HeldInv, SharedInv, NotFound
<1>5. FreshInv'
  BY <1>1, <1>2, <1>3 DEF FamiliesInv, FreshInv
<1>6. SpoiltInv' /\ FailuresCounted' /\ NeverOvercounted'
  BY <1>1, <1>3 DEF FamiliesInv, SpoiltInv, FailuresCounted, NeverOvercounted
<1>. QED
  BY <1>1, <1>4, <1>5, <1>6 DEF FamiliesInv

(***************************************************************************)
(* A reset overtakes whoever is on its way with a signature it takes       *)
(* families from; a signature it leaves has lost none.                     *)
(***************************************************************************)
LEMMA ResetCounts ==
    ASSUME FamiliesInv, ResetToCheckpoint
    PROVE  FamiliesInv'
<1>1. /\ TypeOK /\ TypeOK' /\ UNCHANGED <<doing, found, into>>
      /\ registered' = [s \in Signature |-> IF s \in Emptied THEN 0 ELSE registered[s]]
      /\ behind' = behind \cup {q \in Recorder : \E f \in Failed : doing[q] = row[f].signature}
      /\ spoilt' = spoilt \ Emptied
      /\ row' = [f \in Family |-> IF f \in Failed THEN NoRow ELSE row[f]]
  BY ResetTyped DEF FamiliesInv, ResetToCheckpoint
<1>2. ASSUME NEW s \in Signature PROVE OfSignature(s)' = OfSignature(s) \ Failed
  BY <1>1 DEF OfSignature
<1>3. HeldInv' /\ SharedInv' /\ NeverOvercounted'
  BY <1>1, FamiliesAssumption
     DEF FamiliesInv, HeldInv, SharedInv, NeverOvercounted, TypeOK
<1>4. ASSUME NEW s \in Signature \ spoilt'
      PROVE  OfSignature(s)' = {} \/ OfSignature(s)' = OfSignature(s)
  <2>1. CASE s \in Emptied
    BY <1>2, <2>1 DEF Emptied
  <2>2. CASE s \notin Emptied
    <3>1. s \notin spoilt
      BY <1>1, <2>2
    <3>2. \A f, g \in OfSignature(s) : f = g
      BY <3>1 DEF FamiliesInv, FailuresCounted
    <3>3. OfSignature(s) \cap Failed = {}
      BY <2>2, <3>2 DEF Emptied
    <3>. QED
      BY <1>2, <3>3
  <2>. QED
    BY <2>1, <2>2
<1>5. FailuresCounted'
  <2>. SUFFICES ASSUME NEW s \in Signature \ spoilt'
                PROVE  /\ OfSignature(s)' = {} => registered'[s] = 0
                       /\ \A f \in OfSignature(s)' : row'[f].count = registered'[s]
                       /\ \A f, g \in OfSignature(s)' : f = g
    BY DEF FailuresCounted
  <2>1. CASE s \in Emptied
    BY <1>1, <1>2, <2>1 DEF Emptied
  <2>2. CASE s \notin Emptied
    <3>1. s \notin spoilt /\ registered'[s] = registered[s]
      BY <1>1, <2>2
    <3>2. OfSignature(s) # {} /\ OfSignature(s)' = OfSignature(s)
      <4>1. OfSignature(s)' # {}
        BY <1>2, <2>2 DEF Emptied
      <4>. QED
        BY <1>4, <1>2, <4>1
    <3>3. \A f \in OfSignature(s) : row'[f] = row[f]
      BY <1>1, <1>2, <3>2 DEF OfSignature
    <3>. QED
      BY <3>1, <3>2, <3>3 DEF FamiliesInv, FailuresCounted
  <2>. QED
    BY <2>1, <2>2
<1>6. FreshInv'
  <2>. SUFFICES ASSUME NEW q \in Recorder \ behind', NEW z, z = doing'[q], z # Nobody,
                       z \notin spoilt'
                PROVE  IF OfSignature(z)' = {} THEN found'[q] = NotFound
                       ELSE \E g \in OfSignature(z)' :
                               found'[q] = [family |-> g, count |-> row'[g].count]
    BY DEF FreshInv, OfSignature
  <2>1. z = doing[q] /\ found'[q] = found[q] /\ z \in Signature /\ q \notin behind
    BY <1>1 DEF TypeOK
  <2>2. OfSignature(z) \cap Failed = {}
    BY <1>1, <2>1 DEF OfSignature
  <2>3. OfSignature(z)' = OfSignature(z)
    BY <1>2, <2>1, <2>2
  <2>4. \A g \in OfSignature(z) : row'[g] = row[g]
    BY <1>1, <2>2 DEF OfSignature
  <2>5. z \notin spoilt
    BY <1>1, <2>1, <2>2 DEF Emptied, FamiliesInv, SpoiltInv
  <2>6. IF OfSignature(z) = {} THEN found[q] = NotFound
        ELSE \E g \in OfSignature(z) : found[q] = [family |-> g, count |-> row[g].count]
    BY <2>1, <2>5 DEF FamiliesInv, FreshInv
  <2>. QED
    BY <2>1, <2>3, <2>4, <2>6
<1>7. SpoiltInv'
  BY <1>1, <1>2 DEF SpoiltInv, Emptied, TypeOK
<1>. QED
  BY <1>1, <1>3, <1>5, <1>6, <1>7 DEF FamiliesInv

LEMMA CountsStep == FamiliesInv /\ [Next]_vars => FamiliesInv'
<1>. SUFFICES ASSUME FamiliesInv, [Next]_vars PROVE FamiliesInv'
  OBVIOUS
<1>1. CASE UNCHANGED vars
  <2>1. \A s : OfSignature(s)' = OfSignature(s)
    BY <1>1, SameRows DEF vars
  <2>2. TypeOK'
    BY FamiliesStep DEF FamiliesInv
  <2>. QED
    BY <1>1, <2>1, <2>2 DEF vars, FamiliesInv, HeldInv, SharedInv, FreshInv, SpoiltInv,
       FailuresCounted, NeverOvercounted
<1>2. CASE Next
  BY <1>2, FindCounts, RegisterCounts, AbandonCounts, ResetCounts DEF Next
<1>. QED
  BY <1>1, <1>2

LEMMA CountsInvariant == Spec => []FamiliesInv
BY CountsInit, CountsStep, PTL DEF Spec

(***************************************************************************)
(* A signature has one family with exactly its failures, however many      *)
(* recorders race for others, unless one that was overtaken has written.   *)
(***************************************************************************)
THEOREM FailuresAreCounted == Spec => []FailuresCounted
<1>1. FamiliesInv => FailuresCounted
  BY DEF FamiliesInv
<1>. QED
  BY <1>1, CountsInvariant, PTL

(***************************************************************************)
(* No family claims a failure that was not committed to it, raced for,     *)
(* deleted and brought back as it may be.                                  *)
(***************************************************************************)
THEOREM FailuresAreNeverMadeUp == Spec => []NeverOvercounted
<1>1. FamiliesInv => NeverOvercounted
  BY DEF FamiliesInv
<1>. QED
  BY <1>1, CountsInvariant, PTL
=============================================================================
