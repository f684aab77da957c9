--------------------- MODULE FileTouchInvalidationProofs ----------------------
(***************************************************************************)
(* Proofs about FileTouchInvalidation, for every set of sessions, files,   *)
(* rows and configurations.                                                *)
(***************************************************************************)
EXTENDS FileTouchInvalidation, WellFoundedInduction, TLAPS

(***************************************************************************)
(* Finite choices.  A non-empty set of naturals has a least element, and a *)
(* bounded one a greatest.                                                 *)
(***************************************************************************)
LEMMA LeastNat ==
    ASSUME NEW T \in SUBSET Nat, T # {}
    PROVE  \E m \in T : \A n \in T : m <= n
<1>1. PICK m \in T : \A n \in T : ~ (<<n, m>> \in OpToRel(<, Nat))
  BY WFMin, NatLessThanWellFounded
<1>2. \A n \in T : ~ (n < m)
  BY <1>1 DEF OpToRel
<1>. QED
  BY <1>2

LEMMA GreatestBelow ==
    ASSUME NEW K \in Nat, NEW T \in SUBSET (0 .. K), T # {}
    PROVE  \E m \in T : \A n \in T : n <= m
<1>. DEFINE D == {K - n : n \in T}
<1>1. D \in SUBSET Nat /\ D # {}
  <2>1. \A n \in T : K - n \in Nat
    OBVIOUS
  <2>2. D # {}
    OBVIOUS
  <2>. QED  BY <2>1, <2>2
<1>2. \E d \in D : \A n \in D : d <= n
  <2>. HIDE DEF D
  <2>. QED  BY <1>1, LeastNat
<1>3. PICK m \in T : \A n \in T : K - m <= K - n
  BY <1>2
<1>4. \A n \in T : n <= m
  BY <1>3
<1>. QED
  BY <1>4

(***************************************************************************)
(* The two CHOOSE operators find what they look for.                       *)
(***************************************************************************)
LEMMA FirstStaleCiteFound ==
    ASSUME TypeOK, NEW a \in Assertion, NEW E, Cited(a) \cap E # {}
    PROVE  /\ FirstStaleCite(a, E) \in DOMAIN claim[a].cites
           /\ claim[a].cites[FirstStaleCite(a, E)] \in E
<1>. DEFINE T == {i \in DOMAIN claim[a].cites : claim[a].cites[i] \in E}
<1>1. claim[a].cites \in Seq(Evidence)
  BY DEF TypeOK, ClaimRow
<1>2. T \in SUBSET Nat /\ T # {}
  BY <1>1 DEF Cited
<1>3. \E i \in T : \A j \in T : i <= j
  <2>. HIDE DEF T
  <2>. QED  BY <1>2, LeastNat
<1>. QED
  BY <1>3 DEF FirstStaleCite

LEMMA LastStaleClaimFound ==
    ASSUME NEW A \in SUBSET Assertion, NEW o, \E a \in A : claim[a].obligation = o
    PROVE  /\ LastStaleClaim(o, A) \in A
           /\ claim[LastStaleClaim(o, A)].obligation = o
<1>. DEFINE T == {a \in A : claim[a].obligation = o}
<1>1. T \in SUBSET (0 .. LastAssertion) /\ T # {} /\ LastAssertion \in Nat
  BY StoreAssumption
<1>2. \E a \in T : \A b \in T : b <= a
  <2>. HIDE DEF T
  <2>. QED  BY <1>1, GreatestBelow
<1>. QED
  BY <1>2 DEF LastStaleClaim

(***************************************************************************)
(* What every effect has in common, however its subjects were found.       *)
(***************************************************************************)
Effect == [evidence : SUBSET Evidence,
           assertions : SUBSET Assertion,
           obligations : SUBSET Obligation]

Grounded(x) ==
    \A o \in x.obligations : \E a \in x.assertions : claim[a].obligation = o

LEMMA ScanEffectTyped ==
    ASSUME TypeOK, NEW E \in SUBSET Evidence, NEW R, NEW s, NEW F
    PROVE  ScanEffect(E, R, s, F) \in Effect /\ Grounded(ScanEffect(E, R, s, F))
BY DEF TypeOK, ScanEffect, ScanStaleEvidence, ScanStaleClaims, Reopened, Effect, Grounded

LEMMA IndexEffectTyped ==
    ASSUME TypeOK, NEW R, NEW s, NEW F
    PROVE  IndexEffect(R, s, F) \in Effect /\ Grounded(IndexEffect(R, s, F))
BY DEF TypeOK, IndexEffect, IndexStaleEvidence, IndexStaleClaims, Reopened, Effect, Grounded

LEMMA CauseTyped ==
    ASSUME TypeOK, NEW a \in Assertion, NEW E, NEW n \in Nat
    PROVE  CauseOfAssertion(a, E, n) \in TicketId \cup {NoTicket}
<1>1. CASE Cited(a) \cap E = {}
  BY <1>1 DEF CauseOfAssertion
<1>2. CASE Cited(a) \cap E # {}
  <2>1. claim[a].cites \in Seq(Evidence)
    BY DEF TypeOK, ClaimRow
  <2>2. claim[a].cites[FirstStaleCite(a, E)] \in Evidence
    BY <1>2, <2>1, FirstStaleCiteFound
  <2>. QED
    BY <1>2, <2>2 DEF CauseOfAssertion, TicketId, TicketKind
<1>. QED
  BY <1>1, <1>2

LEMMA NewTicketsTyped ==
    ASSUME TypeOK, NEW x \in Effect, Grounded(x), NEW s \in Session, NEW n \in Nat
    PROVE  NewTickets(x, s, n) \subseteq Ticket
<1>1. EvidenceTickets(x, s, n) \subseteq Ticket
  BY DEF EvidenceTickets, Ticket, TicketKind, Effect
<1>2. AssertionTickets(x, s, n) \subseteq Ticket
  <2>1. \A a \in x.assertions :
          CauseOfAssertion(a, x.evidence, n) \in TicketId \cup {NoTicket}
    BY CauseTyped DEF Effect
  <2>. QED
    BY <2>1 DEF AssertionTickets, Ticket, TicketKind, Effect
<1>3. ObligationTickets(x, s, n) \subseteq Ticket
  <2>1. \A o \in x.obligations : LastStaleClaim(o, x.assertions) \in Assertion
    BY LastStaleClaimFound DEF Effect, Grounded
  <2>2. \A o \in x.obligations :
          <<"assertion", LastStaleClaim(o, x.assertions), n>> \in TicketId
    BY <2>1 DEF TicketId, TicketKind
  <2>. QED
    BY <2>2 DEF ObligationTickets, Ticket, TicketKind, Effect
<1>. QED
  BY <1>1, <1>2, <1>3 DEF NewTickets

(***************************************************************************)
(* A tool call's transaction keeps the types, whatever its effect.         *)
(***************************************************************************)
LEMMA StoredTyped ==
    ASSUME TypeOK, NEW s \in Session, NEW e \in Evidence, NEW call \in ToolCall,
           Stored(s, e, call)
    PROVE  /\ stored' \subseteq Evidence
           /\ row' \in [Evidence -> EvidenceRow]
           /\ txn' \in 0 .. MaxTxn
           /\ synced' \subseteq Session
<1>1. call.files \in SUBSET File
  BY DEF ToolCall
<1>2. txn' \in 0 .. MaxTxn
  BY StoreAssumption DEF TypeOK, Stored
<1>. QED
  BY <1>1, <1>2 DEF TypeOK, Stored, EvidenceRow

LEMMA QuarantineTyped ==
    ASSUME TypeOK, NEW s \in Session, NEW x \in Effect, Grounded(x), Quarantine(x, s)
    PROVE  /\ tickets' \subseteq Ticket
           /\ status' \in [Assertion -> AssertionStatus]
           /\ obStatus' \in [Obligation -> ObligationStatus]
<1>1. txn + 1 \in Nat
  BY StoreAssumption DEF TypeOK
<1>2. NewTickets(x, s, txn + 1) \subseteq Ticket
  BY <1>1, NewTicketsTyped
<1>. QED
  BY <1>2 DEF TypeOK, Quarantine, AssertionStatus, ObligationStatus

LEMMA ReportedTyped ==
    ASSUME TypeOK, NEW s \in Session, NEW call \in ToolCall, NEW cfg \in Configs,
           stored' \subseteq Evidence, Reported(s, call, cfg)
    PROVE  /\ repoDirty' \in [Session -> BOOLEAN]
           /\ touched' \subseteq Evidence \X Nat
<1>1. txn + 1 \in Nat
  BY StoreAssumption DEF TypeOK
<1>2. Touched(s, stored', row', call.changed) \subseteq Evidence \X Nat
  BY <1>1 DEF Touched
<1>3. cfg.reverseIndex \in BOOLEAN
  BY StoreAssumption DEF Config
<1>4. repoDirty' \in [Session -> BOOLEAN]
  <2>1. \A r \in BOOLEAN : (r \/ (cfg.reverseIndex /\ call.changed # {})) \in BOOLEAN
    BY <1>3
  <2>2. repoDirty[s] \in BOOLEAN
    BY DEF TypeOK
  <2>. QED
    BY <2>1, <2>2 DEF TypeOK, Reported
<1>. QED
  BY <1>2, <1>4 DEF TypeOK, Reported

LEMMA MarkDirtyTyped ==
    ASSUME TypeOK, NEW O
    PROVE  MarkDirty(O) \in [Obligation -> FrontierRow]
BY DEF TypeOK, MarkDirty, FrontierRow

LEMMA PostToolUseTyped ==
    ASSUME TypeOK, NEW s \in Session, NEW e \in Evidence, NEW call \in ToolCall,
           NEW cfg \in Configs, PostToolUse(s, e, call, cfg)
    PROVE  TypeOK'
<1>1. CASE InvalidateByScan(s, e, call, cfg)
  <2>1. Stored(s, e, call) /\ Reported(s, call, cfg)
    BY <1>1 DEF InvalidateByScan
  <2>2. Quarantine(ScanEffect(stored', row', s, call.changed), s)
    BY <1>1 DEF InvalidateByScan
  <2>3. stored' \in SUBSET Evidence
    BY <2>1, StoredTyped
  <2>4. /\ tickets' \subseteq Ticket
        /\ status' \in [Assertion -> AssertionStatus]
        /\ obStatus' \in [Obligation -> ObligationStatus]
    BY <2>2, <2>3, ScanEffectTyped, QuarantineTyped
  <2>. QED
    BY <1>1, <2>1, <2>4, StoredTyped, ReportedTyped
       DEF InvalidateByScan, projectionVars, TypeOK
<1>2. CASE InvalidateByIndex(s, e, call, cfg)
  <2>1. Stored(s, e, call) /\ Reported(s, call, cfg)
    BY <1>2 DEF InvalidateByIndex
  <2>2. Quarantine(IndexEffect(row', s, call.changed), s)
    BY <1>2 DEF InvalidateByIndex
  <2>3. /\ tickets' \subseteq Ticket
        /\ status' \in [Assertion -> AssertionStatus]
        /\ obStatus' \in [Obligation -> ObligationStatus]
    BY <2>2, IndexEffectTyped, QuarantineTyped
  <2>4. frontier' \in [Obligation -> FrontierRow]
    BY <1>2, MarkDirtyTyped DEF InvalidateByIndex
  <2>. QED
    BY <1>2, <2>1, <2>3, <2>4, StoredTyped, ReportedTyped DEF InvalidateByIndex, TypeOK
<1>3. CASE ShadowAgrees(s, e, call, cfg)
  <2>1. Stored(s, e, call) /\ Reported(s, call, cfg)
    BY <1>3 DEF ShadowAgrees
  <2>2. Quarantine(ScanEffect(stored', row', s, call.changed), s)
    BY <1>3 DEF ShadowAgrees
  <2>3. stored' \in SUBSET Evidence
    BY <2>1, StoredTyped
  <2>4. /\ tickets' \subseteq Ticket
        /\ status' \in [Assertion -> AssertionStatus]
        /\ obStatus' \in [Obligation -> ObligationStatus]
    BY <2>2, <2>3, ScanEffectTyped, QuarantineTyped
  <2>. QED
    BY <1>3, <2>1, <2>4, StoredTyped, ReportedTyped DEF ShadowAgrees, projectionVars, TypeOK
<1>4. CASE ShadowDiffers(s, e, call, cfg)
  <2>1. txn + 1 \in Nat
    BY StoreAssumption DEF TypeOK
  <2>2. touched' \subseteq Evidence \X Nat
    BY <1>4, <2>1 DEF ShadowDiffers, Touched, TypeOK
  <2>. QED
    BY <1>4, <2>2 DEF ShadowDiffers, TypeOK, evidenceVars, claimVars, projectionVars
<1>. QED
  BY <1>1, <1>2, <1>3, <1>4 DEF PostToolUse

LEMMA CiteListsTyped ==
    ASSUME NEW a, NEW cites \in CiteLists(a), stored \subseteq Evidence
    PROVE  /\ cites \in Seq(Evidence)
           /\ \A i \in DOMAIN cites :
                cites[i] \in stored /\ row[cites[i]].session = SessionOf[a]
<1>1. PICK k \in 0 .. MaxCites :
        cites \in [1 .. k -> {e \in stored : row[e].session = SessionOf[a]}]
  BY DEF CiteLists
<1>2. k \in Nat
  BY StoreAssumption
<1>. QED
  BY <1>1, <1>2

LEMMA UpsertClaimTyped ==
    ASSUME TypeOK, NEW a \in Assertion, NEW st \in ActiveStatus, NEW dual \in DualWrites,
           NEW shape \in ClaimShapes[a], NEW cites \in CiteLists(a),
           UpsertClaim(a, shape, cites, st, dual)
    PROVE  TypeOK'
<1>1. cites \in Seq(Evidence)
  BY CiteListsTyped DEF TypeOK
<1>2. shape \in [obligation : Obligation \cup {NoObligation}, scope : File \cup {NoFile}]
  BY StoreAssumption
<1>3. st \in AssertionStatus
  BY StoreAssumption
<1>4. claim' \in [Assertion -> ClaimRow]
  BY <1>1, <1>2 DEF UpsertClaim, TypeOK, ClaimRow
<1>5. /\ links' \subseteq Assertion \X Evidence
      /\ scopeIndex' \in [Assertion -> File \cup {NoFile}]
      /\ frontier' \in [Obligation -> FrontierRow]
      /\ synced' \subseteq Session
  <2>1. {<<a, cites[i]>> : i \in DOMAIN cites} \subseteq Assertion \X Evidence
    BY <1>1
  <2>2. Relinked(a, cites) \subseteq Assertion \X Evidence
    BY <2>1 DEF Relinked, TypeOK
  <2>. QED
    BY <1>2, <2>2, MarkDirtyTyped DEF UpsertClaim, TypeOK
<1>. QED
  BY <1>3, <1>4, <1>5 DEF UpsertClaim, TypeOK, evidenceVars

(***************************************************************************)
(* Theorem.  Every variable holds what the schema's columns can hold: the  *)
(* type invariant, for any number of sessions, files and rows.             *)
(***************************************************************************)
THEOREM TypeCorrect == Spec => []TypeOK
<1>1. Init => TypeOK
  <2>. SUFFICES ASSUME Init PROVE TypeOK
    OBVIOUS
  <2>1. claim \in [Assertion -> ClaimRow]
    BY DEF Init, ClaimRow
  <2>2. row \in [Evidence -> EvidenceRow]
    BY StoreAssumption DEF Init, EvidenceRow, NoRow
  <2>. QED
    BY <2>1, <2>2, StoreAssumption
       DEF Init, TypeOK, AssertionStatus, ObligationStatus, FrontierRow
<1>2. TypeOK /\ [Next]_vars => TypeOK'
  <2>. SUFFICES ASSUME TypeOK, [Next]_vars PROVE TypeOK'
    OBVIOUS
  <2>1. ASSUME NEW s \in Session, NEW e \in Evidence, NEW call \in ToolCall,
               NEW cfg \in Configs, PostToolUse(s, e, call, cfg)
        PROVE  TypeOK'
    BY <2>1, PostToolUseTyped
  <2>2. ASSUME NEW a \in Assertion, NEW st \in ActiveStatus, NEW dual \in DualWrites,
               NEW shape \in ClaimShapes[a], NEW cites \in CiteLists(a),
               UpsertClaim(a, shape, cites, st, dual)
        PROVE  TypeOK'
    BY <2>2, UpsertClaimTyped
  <2>3. ASSUME NEW o \in Obligation, NEW st \in WorkStatus, MarkStatus(o, st)
        PROVE  TypeOK'
    BY <2>3, StoreAssumption
       DEF MarkStatus, TypeOK, evidenceVars, claimVars, projectionVars, historyVars
  <2>4. ASSUME NEW O \in SUBSET Obligation, RecordVerifyFailure(O)
        PROVE  TypeOK'
    BY <2>4 DEF RecordVerifyFailure, TypeOK, ObligationStatus,
                evidenceVars, claimVars, projectionVars, historyVars
  <2>5. ASSUME NEW s \in Rebuilt, Backfill(s)
        PROVE  TypeOK'
    <3>1. s \in Session
      BY StoreAssumption
    <3>2. scopeIndex' \in [Assertion -> File \cup {NoFile}]
      BY <2>5 DEF Backfill, TypeOK, ClaimRow
    <3>. QED
      BY <2>5, <3>1, <3>2 DEF Backfill, TypeOK, FrontierRow, evidenceVars, claimVars
  <2>6. CASE UNCHANGED vars
    BY <2>6 DEF vars, TypeOK
  <2>. QED
    BY <2>1, <2>2, <2>3, <2>4, <2>5, <2>6 DEF Next, Hook, Agent
<1>. QED
  BY <1>1, <1>2, PTL DEF Spec

-----------------------------------------------------------------------------
(***************************************************************************)
(* The strengthening every safety proof rests on: nothing in the store     *)
(* reaches from one session into another.  The reverse index needs it, as  *)
(* its link lookup does not ask for the session.                           *)
(***************************************************************************)
RowsPresent ==
    /\ indexed \subseteq stored
    /\ \A p \in touched : p[1] \in stored
    /\ \A t \in tickets :
         t.kind = "evidence" => t.subject \in stored /\ row[t.subject].session = t.session

ClaimsApart ==
    \A a \in claims :
        /\ \A e \in Cited(a) : e \in stored /\ row[e].session = SessionOf[a]
        /\ claim[a].obligation # NoObligation =>
             SessionOf[claim[a].obligation] = SessionOf[a]

LinksApart ==
    \A l \in links :
        l[1] \in claims /\ l[2] \in stored /\ row[l[2]].session = SessionOf[l[1]]

SessionsApart == RowsPresent /\ ClaimsApart /\ LinksApart

(***************************************************************************)
(* An effect a tool call of session s may have.                            *)
(***************************************************************************)
EffectIn(x, s) ==
    /\ x \in Effect
    /\ \A a \in x.assertions : a \in claims /\ SessionOf[a] = s /\ status[a] # "stale"
    /\ x.obligations = Reopened(s, x.assertions)

LEMMA ScanEffectIn ==
    ASSUME TypeOK, NEW E \in SUBSET Evidence, NEW R, NEW s, NEW F
    PROVE  EffectIn(ScanEffect(E, R, s, F), s)
<1>1. ScanEffect(E, R, s, F) \in Effect
  BY ScanEffectTyped
<1>. QED
  BY <1>1 DEF EffectIn, ScanEffect, ScanStaleClaims

LEMMA IndexEffectIn ==
    ASSUME TypeOK, SessionsApart, NEW R, NEW s, NEW F, \A e \in stored : R[e] = row[e]
    PROVE  EffectIn(IndexEffect(R, s, F), s)
<1>1. IndexEffect(R, s, F) \in Effect
  BY IndexEffectTyped
<1>2. \A a \in IndexStaleClaims(R, s, F) :
        a \in claims /\ SessionOf[a] = s /\ status[a] # "stale"
  BY DEF SessionsApart, RowsPresent, LinksApart, IndexStaleClaims, IndexStaleEvidence
<1>. QED
  BY <1>1, <1>2 DEF EffectIn, IndexEffect

(***************************************************************************)
(* What a tool call does to the store, whatever the configuration: it      *)
(* stores its evidence and quarantines an effect in its session, or (a     *)
(* shadow run that differs) it changes no row at all.                      *)
(***************************************************************************)
Quarantined(s) ==
    \E x : /\ EffectIn(x, s)
           /\ \A e \in x.evidence : e \in stored' /\ row'[e].session = s
           /\ Quarantine(x, s)

KeepsRows ==
    /\ stored \subseteq stored'
    /\ \A e \in stored : row'[e] = row[e]
    /\ UNCHANGED <<claims, claim, indexed, scopeIndex, links>>

LEMMA StoredKeepsRows ==
    ASSUME TypeOK, NEW s, NEW e \in Evidence, NEW call, Stored(s, e, call)
    PROVE  stored \subseteq stored' /\ \A d \in stored : row'[d] = row[d]
BY DEF TypeOK, Stored

LEMMA PostToolUseEffect ==
    ASSUME TypeOK, SessionsApart, NEW s \in Session, NEW e \in Evidence,
           NEW call \in ToolCall, NEW cfg \in Configs, PostToolUse(s, e, call, cfg)
    PROVE  /\ KeepsRows
           /\ \A p \in touched' : p \in touched \/ p[1] \in stored'
           /\ Quarantined(s) \/ UNCHANGED <<status, obStatus, tickets>>
<1>1. CASE InvalidateByScan(s, e, call, cfg) \/ ShadowAgrees(s, e, call, cfg)
  <2>1. /\ Stored(s, e, call) /\ Reported(s, call, cfg)
        /\ Quarantine(ScanEffect(stored', row', s, call.changed), s)
        /\ UNCHANGED <<claims, claim, indexed, scopeIndex, links>>
    BY <1>1 DEF InvalidateByScan, ShadowAgrees, projectionVars
  <2>2. stored' \in SUBSET Evidence
    BY <2>1, StoredTyped
  <2>3. EffectIn(ScanEffect(stored', row', s, call.changed), s)
    BY <2>2, ScanEffectIn
  <2>4. \A d \in ScanEffect(stored', row', s, call.changed).evidence :
          d \in stored' /\ row'[d].session = s
    BY DEF ScanEffect, ScanStaleEvidence
  <2>. QED
    BY <2>1, <2>3, <2>4, StoredKeepsRows DEF KeepsRows, Quarantined, Reported, Touched
<1>2. CASE InvalidateByIndex(s, e, call, cfg)
  <2>1. /\ Stored(s, e, call) /\ Reported(s, call, cfg)
        /\ Quarantine(IndexEffect(row', s, call.changed), s)
        /\ UNCHANGED <<claims, claim, indexed, scopeIndex, links>>
    BY <1>2 DEF InvalidateByIndex
  <2>2. stored \subseteq stored' /\ \A d \in stored : row'[d] = row[d]
    BY <2>1, StoredKeepsRows
  <2>3. EffectIn(IndexEffect(row', s, call.changed), s)
    BY <2>2, IndexEffectIn
  <2>4. \A d \in IndexEffect(row', s, call.changed).evidence :
          d \in stored' /\ row'[d].session = s
    BY <2>2 DEF IndexEffect, IndexStaleEvidence, SessionsApart, RowsPresent
  <2>. QED
    BY <2>1, <2>2, <2>3, <2>4 DEF KeepsRows, Quarantined, Reported, Touched
<1>3. CASE ShadowDiffers(s, e, call, cfg)
  BY <1>3 DEF ShadowDiffers, KeepsRows, Touched, evidenceVars, claimVars, projectionVars
<1>. QED
  BY <1>1, <1>2, <1>3 DEF PostToolUse

LEMMA QuarantineApart ==
    ASSUME TypeOK, SessionsApart, KeepsRows, NEW s, Quarantined(s),
           \A p \in touched' : p \in touched \/ p[1] \in stored'
    PROVE  SessionsApart'
<1>1. PICK x : /\ EffectIn(x, s)
               /\ \A e \in x.evidence : e \in stored' /\ row'[e].session = s
               /\ Quarantine(x, s)
  BY DEF Quarantined
<1>2. \A t \in NewTickets(x, s, txn + 1) :
        t.kind = "evidence" => t.subject \in x.evidence /\ t.session = s
  BY DEF NewTickets, EvidenceTickets, AssertionTickets, ObligationTickets
<1>3. \A t \in tickets' : t \in tickets \/ t \in NewTickets(x, s, txn + 1)
  BY <1>1 DEF Quarantine
<1>4. \A t \in tickets' :
        t.kind = "evidence" => t.subject \in stored' /\ row'[t.subject].session = t.session
  <2>. SUFFICES ASSUME NEW t \in tickets', t.kind = "evidence"
                PROVE  t.subject \in stored' /\ row'[t.subject].session = t.session
    OBVIOUS
  <2>1. CASE t \in tickets
    BY <2>1 DEF SessionsApart, RowsPresent, KeepsRows
  <2>2. CASE t \in NewTickets(x, s, txn + 1)
    BY <2>2, <1>1, <1>2
  <2>. QED
    BY <1>3, <2>1, <2>2
<1>. QED
  BY <1>4 DEF SessionsApart, RowsPresent, ClaimsApart, LinksApart, KeepsRows, Cited

LEMMA UpsertClaimApart ==
    ASSUME TypeOK, SessionsApart, NEW a \in Assertion, NEW st \in ActiveStatus,
           NEW dual \in DualWrites, NEW shape \in ClaimShapes[a],
           NEW cites \in CiteLists(a), UpsertClaim(a, shape, cites, st, dual)
    PROVE  SessionsApart'
<1>. stored \subseteq Evidence
  BY DEF TypeOK
<1>1. \A i \in DOMAIN cites : cites[i] \in stored /\ row[cites[i]].session = SessionOf[a]
  BY CiteListsTyped
<1>2. /\ claims' = claims \cup {a}
      /\ claim'[a] = [obligation |-> shape.obligation, scope |-> shape.scope, cites |-> cites]
      /\ \A b \in claims \ {a} : claim'[b] = claim[b]
      /\ UNCHANGED <<stored, row, tickets, indexed, touched>>
  BY DEF UpsertClaim, TypeOK, evidenceVars
<1>3. RowsPresent'
  BY <1>2 DEF SessionsApart, RowsPresent
<1>4. ClaimsApart'
  <2>. SUFFICES ASSUME NEW b \in claims'
                PROVE  /\ \A e \in Cited(b)' : e \in stored /\ row[e].session = SessionOf[b]
                       /\ claim'[b].obligation # NoObligation =>
                            SessionOf[claim'[b].obligation] = SessionOf[b]
    BY <1>2 DEF ClaimsApart
  <2>1. CASE b = a
    BY <2>1, <1>1, <1>2 DEF Cited, UpsertClaim
  <2>2. CASE b # a
    BY <2>2, <1>2 DEF SessionsApart, ClaimsApart, Cited
  <2>. QED
    BY <2>1, <2>2
<1>5. LinksApart'
  <2>1. CASE dual
    <3>1. \A l \in links' : l \in links \/ \E i \in DOMAIN cites : l = <<a, cites[i]>>
      BY <2>1 DEF UpsertClaim, Relinked
    <3>. QED
      BY <3>1, <1>1, <1>2 DEF SessionsApart, LinksApart
  <2>2. CASE ~dual
    BY <2>2, <1>2 DEF UpsertClaim, SessionsApart, LinksApart
  <2>. QED
    BY <2>1, <2>2
<1>. QED
  BY <1>3, <1>4, <1>5 DEF SessionsApart

LEMMA BackfillApart ==
    ASSUME TypeOK, SessionsApart, NEW s \in Session, Backfill(s)
    PROVE  SessionsApart'
<1>1. UNCHANGED <<stored, row, claims, claim, tickets, touched>>
  BY DEF Backfill, evidenceVars, claimVars
<1>2. RowsPresent'
  BY <1>1 DEF Backfill, SessionsApart, RowsPresent
<1>3. ClaimsApart'
  BY <1>1 DEF SessionsApart, ClaimsApart, Cited
<1>4. \A l \in links' :
        l \in links \/ (l \in claims \X stored /\ l[2] \in Cited(l[1]))
  BY DEF Backfill
<1>5. \A l \in claims \X stored : l[2] \in Cited(l[1]) => row[l[2]].session = SessionOf[l[1]]
  BY DEF SessionsApart, ClaimsApart
<1>6. LinksApart'
  BY <1>1, <1>4, <1>5 DEF SessionsApart, LinksApart
<1>. QED
  BY <1>2, <1>3, <1>6 DEF SessionsApart

(***************************************************************************)
(* The three kinds of step that touch neither evidence nor claims.         *)
(***************************************************************************)
WorkOnly == UNCHANGED <<evidenceVars, claimVars, tickets, projectionVars, historyVars>>

LEMMA WorkOnlySteps ==
    /\ \A o, st : MarkStatus(o, st) => WorkOnly
    /\ \A O : RecordVerifyFailure(O) => WorkOnly
    /\ UNCHANGED vars => WorkOnly
BY DEF WorkOnly, MarkStatus, RecordVerifyFailure, vars, evidenceVars, claimVars,
       projectionVars, historyVars

(***************************************************************************)
(* Theorem.  Evidence, claims, links, obligations and tickets of one       *)
(* session never refer to rows of another.                                 *)
(***************************************************************************)
THEOREM SessionsStayApart == Spec => []SessionsApart
<1>1. Init => SessionsApart
  BY DEF Init, SessionsApart, RowsPresent, ClaimsApart, LinksApart
<1>2. TypeOK /\ SessionsApart /\ [Next]_vars => SessionsApart'
  <2>. SUFFICES ASSUME TypeOK, SessionsApart, [Next]_vars PROVE SessionsApart'
    OBVIOUS
  <2>1. ASSUME NEW s \in Session, NEW e \in Evidence, NEW call \in ToolCall,
               NEW cfg \in Configs, PostToolUse(s, e, call, cfg)
        PROVE  SessionsApart'
    <3>1. CASE Quarantined(s)
      BY <2>1, <3>1, PostToolUseEffect, QuarantineApart
    <3>2. CASE UNCHANGED <<status, obStatus, tickets>>
      BY <2>1, <3>2, PostToolUseEffect
         DEF KeepsRows, SessionsApart, RowsPresent, ClaimsApart, LinksApart, Cited
    <3>. QED
      BY <2>1, <3>1, <3>2, PostToolUseEffect
  <2>2. ASSUME NEW a \in Assertion, NEW st \in ActiveStatus, NEW dual \in DualWrites,
               NEW shape \in ClaimShapes[a], NEW cites \in CiteLists(a),
               UpsertClaim(a, shape, cites, st, dual)
        PROVE  SessionsApart'
    BY <2>2, UpsertClaimApart
  <2>3. ASSUME NEW s \in Rebuilt, Backfill(s)
        PROVE  SessionsApart'
    BY <2>3, BackfillApart, StoreAssumption
  <2>4. CASE WorkOnly
    BY <2>4 DEF WorkOnly, evidenceVars, claimVars, projectionVars, historyVars,
                SessionsApart, RowsPresent, ClaimsApart, LinksApart, Cited
  <2>. QED
    BY <2>1, <2>2, <2>3, <2>4, WorkOnlySteps DEF Next, Hook, Agent
<1>. QED
  BY <1>1, <1>2, TypeCorrect, PTL DEF Spec

-----------------------------------------------------------------------------
(***************************************************************************)
(* What a quarantine does to statuses: claims go stale with the verified   *)
(* work above them, and nothing else changes.                              *)
(***************************************************************************)
LEMMA QuarantineStatus ==
    ASSUME TypeOK, SessionsApart, NEW s, NEW x, EffectIn(x, s), Quarantine(x, s)
    PROVE  /\ \A a \in Assertion :
                status'[a] = IF a \in x.assertions THEN "stale" ELSE status[a]
           /\ \A o \in Obligation :
                obStatus'[o] = IF /\ obStatus[o] = "verified"
                                  /\ \E a \in x.assertions : claim[a].obligation = o
                               THEN "reopened" ELSE obStatus[o]
<1>1. \A o \in Obligation :
        (\E a \in x.assertions : claim[a].obligation = o) => SessionOf[o] = s
  BY StoreAssumption DEF EffectIn, SessionsApart, ClaimsApart
<1>2. \A o \in Obligation :
        o \in x.obligations <=> /\ obStatus[o] = "verified"
                                /\ \E a \in x.assertions : claim[a].obligation = o
  BY <1>1 DEF EffectIn, Reopened
<1>. QED
  BY <1>2 DEF Quarantine

(***************************************************************************)
(* Theorem.  Verified work never rests on a stale claim: the three axes    *)
(* fall in one step, in every configuration (the scan, the reverse index,  *)
(* shadow mode) and whatever the projections hold.                         *)
(***************************************************************************)
THEOREM VerifiedWorkIsSound == Spec => []VerifiedRestsOnNothingStale
<1>. DEFINE Inv == VerifiedRestsOnNothingStale
<1>1. Init => Inv
  BY DEF Init, VerifiedRestsOnNothingStale
<1>2. TypeOK /\ SessionsApart /\ Inv /\ [Next]_vars => Inv'
  <2>. SUFFICES ASSUME TypeOK, SessionsApart, Inv, [Next]_vars PROVE Inv'
    OBVIOUS
  <2>. \A a \in claims : a \in Assertion
    BY DEF TypeOK
  <2>1. ASSUME NEW s \in Session, NEW e \in Evidence, NEW call \in ToolCall,
               NEW cfg \in Configs, PostToolUse(s, e, call, cfg)
        PROVE  Inv'
    <3>1. KeepsRows
      BY <2>1, PostToolUseEffect
    <3>2. CASE Quarantined(s)
      <4>1. PICK x : EffectIn(x, s) /\ Quarantine(x, s)
        BY <3>2 DEF Quarantined
      <4>2. \A a \in claims : claim[a].obligation # NoObligation =>
                                claim[a].obligation \in Obligation
        BY DEF TypeOK, ClaimRow
      <4>. QED
        BY <3>1, <4>1, <4>2, QuarantineStatus
           DEF KeepsRows, VerifiedRestsOnNothingStale
    <3>3. CASE UNCHANGED <<status, obStatus, tickets>>
      BY <3>1, <3>3 DEF KeepsRows, VerifiedRestsOnNothingStale
    <3>. QED
      BY <2>1, <3>2, <3>3, PostToolUseEffect
  <2>2. ASSUME NEW a \in Assertion, NEW st \in ActiveStatus, NEW dual \in DualWrites,
               NEW shape \in ClaimShapes[a], NEW cites \in CiteLists(a),
               UpsertClaim(a, shape, cites, st, dual)
        PROVE  Inv'
    <3>1. st # "stale"
      BY StoreAssumption
    <3>2. \A b \in claims' : b = a \/ (b \in claims /\ claim'[b] = claim[b]
                                       /\ status'[b] = status[b])
      BY <2>2 DEF UpsertClaim, TypeOK
    <3>3. status'[a] = st /\ obStatus' = obStatus
      BY <2>2 DEF UpsertClaim, TypeOK
    <3>. QED
      BY <3>1, <3>2, <3>3 DEF VerifiedRestsOnNothingStale
  <2>3. ASSUME NEW o \in Obligation, NEW st \in WorkStatus, MarkStatus(o, st)
        PROVE  Inv'
    <3>1. \A q \in Obligation : obStatus'[q] = IF q = o THEN st ELSE obStatus[q]
      BY <2>3 DEF MarkStatus, TypeOK
    <3>2. UNCHANGED <<claims, claim, status>>
      BY <2>3 DEF MarkStatus, claimVars
    <3>3. \A a \in claims : claim[a].obligation \in Obligation \cup {NoObligation}
      BY DEF TypeOK, ClaimRow
    <3>. QED
      BY <2>3, <3>1, <3>2, <3>3 DEF MarkStatus, VerifiedRestsOnNothingStale
  <2>4. ASSUME NEW O \in SUBSET Obligation, RecordVerifyFailure(O)
        PROVE  Inv'
    <3>1. \A q \in Obligation : obStatus'[q] = "verified" => obStatus[q] = "verified"
      BY <2>4 DEF RecordVerifyFailure
    <3>2. UNCHANGED <<claims, claim, status>>
      BY <2>4 DEF RecordVerifyFailure, claimVars
    <3>3. \A a \in claims : claim[a].obligation \in Obligation \cup {NoObligation}
      BY DEF TypeOK, ClaimRow
    <3>. QED
      BY <3>1, <3>2, <3>3 DEF VerifiedRestsOnNothingStale
  <2>5. ASSUME NEW s \in Rebuilt, Backfill(s)
        PROVE  Inv'
    BY <2>5 DEF Backfill, claimVars, VerifiedRestsOnNothingStale
  <2>6. CASE UNCHANGED vars
    BY <2>6 DEF vars, VerifiedRestsOnNothingStale
  <2>. QED
    BY <2>1, <2>2, <2>3, <2>4, <2>5, <2>6 DEF Next, Hook, Agent
<1>. QED
  BY <1>1, <1>2, TypeCorrect, SessionsStayApart, PTL DEF Spec

(***************************************************************************)
(* The tickets of a quarantine have whole lineages among themselves.       *)
(***************************************************************************)
LEMMA NewLineage ==
    ASSUME TypeOK, SessionsApart, NEW s, NEW x, EffectIn(x, s),
           \A e \in x.evidence : e \in stored' /\ row'[e].session = s,
           Quarantine(x, s),
           NEW t \in NewTickets(x, s, txn + 1)
    PROVE  /\ InOwnSession(t)'
           /\ t.kind = "evidence" => t.cause = NoTicket
           /\ t.kind = "assertion" => t.cause = NoTicket \/ CausedBy(t, "evidence")'
           /\ t.kind = "obligation" => CausedBy(t, "assertion")'
<1>. DEFINE n == txn + 1
<1>1. NewTickets(x, s, n) \subseteq tickets'
  BY DEF Quarantine
<1>2. CASE t \in EvidenceTickets(x, s, n)
  BY <1>2 DEF EvidenceTickets, InOwnSession
<1>3. CASE t \in AssertionTickets(x, s, n)
  <2>1. PICK a \in x.assertions :
          t = [kind |-> "assertion", subject |-> a, txn |-> n, session |-> s,
               cause |-> CauseOfAssertion(a, x.evidence, n)]
    BY <1>3 DEF AssertionTickets
  <2>2. a \in Assertion /\ SessionOf[a] = s
    BY DEF EffectIn, TypeOK
  <2>3. CASE Cited(a) \cap x.evidence = {}
    BY <2>1, <2>2, <2>3 DEF CauseOfAssertion, InOwnSession
  <2>4. CASE Cited(a) \cap x.evidence # {}
    <3>. DEFINE e == claim[a].cites[FirstStaleCite(a, x.evidence)]
                u == [kind |-> "evidence", subject |-> e, txn |-> n, session |-> s,
                      cause |-> NoTicket]
    <3>1. e \in x.evidence
      BY <2>2, <2>4, FirstStaleCiteFound
    <3>2. u \in tickets'
      BY <1>1, <3>1 DEF NewTickets, EvidenceTickets
    <3>3. t.cause = <<"evidence", e, n>>
      BY <2>1, <2>4 DEF CauseOfAssertion
    <3>4. IdOf(u) = t.cause /\ u.kind = "evidence" /\ u.txn = t.txn /\ u.session = t.session
      BY <2>1, <3>3 DEF IdOf
    <3>. HIDE DEF u
    <3>. QED
      BY <2>1, <2>2, <3>2, <3>4 DEF CausedBy, InOwnSession
  <2>. QED
    BY <2>3, <2>4
<1>4. CASE t \in ObligationTickets(x, s, n)
  <2>1. PICK o \in x.obligations :
          t = [kind |-> "obligation", subject |-> o, txn |-> n, session |-> s,
               cause |-> <<"assertion", LastStaleClaim(o, x.assertions), n>>]
    BY <1>4 DEF ObligationTickets
  <2>2. SessionOf[o] = s /\ \E a \in x.assertions : claim[a].obligation = o
    BY DEF EffectIn, Reopened
  <2>. DEFINE a == LastStaleClaim(o, x.assertions)
              u == [kind |-> "assertion", subject |-> a, txn |-> n, session |-> s,
                    cause |-> CauseOfAssertion(a, x.evidence, n)]
  <2>3. a \in x.assertions
    BY <2>2, LastStaleClaimFound DEF EffectIn, Effect
  <2>4. u \in tickets'
    BY <1>1, <2>3 DEF NewTickets, AssertionTickets
  <2>5. IdOf(u) = t.cause /\ u.kind = "assertion" /\ u.txn = t.txn /\ u.session = t.session
    BY <2>1 DEF IdOf
  <2>. HIDE DEF u
  <2>. QED
    BY <2>1, <2>2, <2>4, <2>5 DEF CausedBy, InOwnSession
<1>. QED
  BY <1>2, <1>3, <1>4 DEF NewTickets

LEMMA OldLineage ==
    ASSUME TypeOK, SessionsApart, LineageSound, NEW t \in tickets,
           tickets \subseteq tickets', \A e \in stored : row'[e] = row[e]
    PROVE  /\ InOwnSession(t)'
           /\ t.kind = "evidence" => t.cause = NoTicket
           /\ t.kind = "assertion" => t.cause = NoTicket \/ CausedBy(t, "evidence")'
           /\ t.kind = "obligation" => CausedBy(t, "assertion")'
<1>1. \A k : CausedBy(t, k) => CausedBy(t, k)'
  BY DEF CausedBy, IdOf
<1>2. InOwnSession(t)'
  BY DEF LineageSound, InOwnSession, SessionsApart, RowsPresent
<1>. QED
  BY <1>1, <1>2 DEF LineageSound

(***************************************************************************)
(* Theorem.  The lineage of every ticket is whole: its cause exists, one   *)
(* axis up, in the same session and from the same tool call, and the       *)
(* ticket is filed in the session of its subject.                          *)
(***************************************************************************)
THEOREM LineageIsSound == Spec => []LineageSound
<1>1. Init => LineageSound
  BY DEF Init, LineageSound
<1>2. TypeOK /\ SessionsApart /\ LineageSound /\ [Next]_vars => LineageSound'
  <2>. SUFFICES ASSUME TypeOK, SessionsApart, LineageSound, [Next]_vars
                PROVE  LineageSound'
    OBVIOUS
  <2>1. ASSUME NEW s \in Session, NEW e \in Evidence, NEW call \in ToolCall,
               NEW cfg \in Configs, PostToolUse(s, e, call, cfg)
        PROVE  LineageSound'
    <3>1. \A d \in stored : row'[d] = row[d]
      BY <2>1, PostToolUseEffect DEF KeepsRows
    <3>2. CASE Quarantined(s)
      <4>1. PICK x : /\ EffectIn(x, s)
                     /\ \A d \in x.evidence : d \in stored' /\ row'[d].session = s
                     /\ Quarantine(x, s)
        BY <3>2 DEF Quarantined
      <4>2. tickets' = tickets \cup NewTickets(x, s, txn + 1)
        BY <4>1 DEF Quarantine
      <4>. SUFFICES ASSUME NEW t \in tickets'
                    PROVE  /\ InOwnSession(t)'
                           /\ t.kind = "evidence" => t.cause = NoTicket
                           /\ t.kind = "assertion" =>
                                t.cause = NoTicket \/ CausedBy(t, "evidence")'
                           /\ t.kind = "obligation" => CausedBy(t, "assertion")'
        BY DEF LineageSound
      <4>3. CASE t \in tickets
        BY <4>2, <4>3, <3>1, OldLineage
      <4>4. CASE t \in NewTickets(x, s, txn + 1)
        BY <4>1, <4>4, NewLineage
      <4>. QED
        BY <4>2, <4>3, <4>4
    <3>3. CASE UNCHANGED <<status, obStatus, tickets>>
      BY <3>1, <3>3, OldLineage DEF LineageSound
    <3>. QED
      BY <2>1, <3>2, <3>3, PostToolUseEffect
  <2>2. CASE UNCHANGED <<tickets, row>>
    BY <2>2, OldLineage DEF LineageSound
  <2>3. CASE Agent \/ \E s \in Rebuilt : Backfill(s)
    BY <2>2, <2>3 DEF Agent, UpsertClaim, MarkStatus, RecordVerifyFailure, Backfill, evidenceVars
  <2>4. CASE UNCHANGED vars
    BY <2>2, <2>4 DEF vars
  <2>. QED
    BY <2>1, <2>3, <2>4 DEF Next, Hook
<1>. QED
  BY <1>1, <1>2, TypeCorrect, SessionsStayApart, PTL DEF Spec

-----------------------------------------------------------------------------
(***************************************************************************)
(* Tickets carry the number of the call that made them, so none is from a  *)
(* call yet to come, and what a call adds is new.                          *)
(***************************************************************************)
NoTicketIsEarly == \A t \in tickets : t.txn <= txn

LEMMA ToolCallCounts ==
    ASSUME NEW s, NEW e, NEW call, NEW cfg, PostToolUse(s, e, call, cfg)
    PROVE  txn' = txn + 1 \/ UNCHANGED <<txn, tickets>>
BY DEF PostToolUse, InvalidateByScan, InvalidateByIndex, ShadowAgrees, ShadowDiffers, Stored

LEMMA NewTicketsDated ==
    ASSUME NEW x, NEW s, NEW n, NEW t \in NewTickets(x, s, n)
    PROVE  t.txn = n
BY DEF NewTickets, EvidenceTickets, AssertionTickets, ObligationTickets

LEMMA OtherStepsKeepTickets ==
    (Agent \/ (\E s \in Rebuilt : Backfill(s)) \/ UNCHANGED vars)
        => UNCHANGED <<txn, tickets>>
BY DEF Agent, UpsertClaim, MarkStatus, RecordVerifyFailure, Backfill, vars

(***************************************************************************)
(* Theorem.  No ticket is dated after the last committed tool call.        *)
(***************************************************************************)
THEOREM TicketsAreDated == Spec => []NoTicketIsEarly
<1>1. Init => NoTicketIsEarly
  BY DEF Init, NoTicketIsEarly
<1>2. TypeOK /\ SessionsApart /\ NoTicketIsEarly /\ [Next]_vars => NoTicketIsEarly'
  <2>. SUFFICES ASSUME TypeOK, SessionsApart, NoTicketIsEarly, [Next]_vars
                PROVE  NoTicketIsEarly'
    OBVIOUS
  <2>. txn \in Nat /\ \A t \in tickets : t.txn \in Nat
    BY StoreAssumption DEF TypeOK, Ticket
  <2>1. ASSUME NEW s \in Session, NEW e \in Evidence, NEW call \in ToolCall,
               NEW cfg \in Configs, PostToolUse(s, e, call, cfg)
        PROVE  NoTicketIsEarly'
    <3>1. CASE UNCHANGED <<txn, tickets>>
      BY <3>1 DEF NoTicketIsEarly
    <3>2. CASE txn' = txn + 1 /\ Quarantined(s)
      <4>1. PICK x : tickets' = tickets \cup NewTickets(x, s, txn + 1)
        BY <3>2 DEF Quarantined, Quarantine
      <4>2. \A t \in NewTickets(x, s, txn + 1) : t.txn = txn + 1
        BY NewTicketsDated
      <4>. QED
        BY <3>2, <4>1, <4>2 DEF NoTicketIsEarly
    <3>3. CASE txn' = txn + 1 /\ UNCHANGED tickets
      BY <3>3 DEF NoTicketIsEarly
    <3>. QED
      BY <2>1, <3>1, <3>2, <3>3, ToolCallCounts, PostToolUseEffect
  <2>2. CASE UNCHANGED <<txn, tickets>>
    BY <2>2 DEF NoTicketIsEarly
  <2>. QED
    BY <2>1, <2>2, OtherStepsKeepTickets DEF Next, Hook
<1>. QED
  BY <1>1, <1>2, TypeCorrect, SessionsStayApart, PTL DEF Spec

LEMMA QuarantineExplains ==
    ASSUME TypeOK, SessionsApart, NoTicketIsEarly, NEW s, NEW x, EffectIn(x, s),
           Quarantine(x, s)
    PROVE  NewTicketsAreExplained
<1>. DEFINE n == txn + 1
<1>1. n \in Nat /\ \A t \in tickets : t.txn # n
  BY StoreAssumption DEF TypeOK, Ticket, NoTicketIsEarly
<1>2. tickets' \ tickets = NewTickets(x, s, n)
  BY <1>1, NewTicketsDated DEF Quarantine
<1>. SUFFICES ASSUME NEW t \in NewTickets(x, s, n)
              PROVE  /\ t.kind = "assertion" =>
                          \/ \E u \in NewTickets(x, s, n) : ExplainsClaim(t, u)
                          \/ \A u \in NewTickets(x, s, n) :
                               u.kind = "evidence" => u.subject \notin Cited(t.subject)
                     /\ t.kind = "obligation" =>
                          \E u \in NewTickets(x, s, n) : ExplainsWork(t, u)
  BY <1>2 DEF NewTicketsAreExplained
<1>3. CASE t \in EvidenceTickets(x, s, n)
  BY <1>3 DEF EvidenceTickets
<1>4. CASE t \in AssertionTickets(x, s, n)
  <2>1. PICK a \in x.assertions :
          t = [kind |-> "assertion", subject |-> a, txn |-> n, session |-> s,
               cause |-> CauseOfAssertion(a, x.evidence, n)]
    BY <1>4 DEF AssertionTickets
  <2>2. CASE Cited(a) \cap x.evidence = {}
    <3>1. \A u \in NewTickets(x, s, n) : u.kind = "evidence" => u.subject \in x.evidence
      BY DEF NewTickets, EvidenceTickets, AssertionTickets, ObligationTickets
    <3>. QED
      BY <2>1, <2>2, <3>1
  <2>3. CASE Cited(a) \cap x.evidence # {}
    <3>. DEFINE i == FirstStaleCite(a, x.evidence)
                u == [kind |-> "evidence", subject |-> claim[a].cites[i], txn |-> n,
                      session |-> s, cause |-> NoTicket]
    <3>1. a \in Assertion
      BY DEF EffectIn, TypeOK
    <3>2. i \in DOMAIN claim[a].cites /\ claim[a].cites[i] \in x.evidence
      BY <2>3, <3>1, FirstStaleCiteFound
    <3>3. u \in NewTickets(x, s, n)
      BY <3>2 DEF NewTickets, EvidenceTickets
    <3>4. claim[a].cites[i] \in Cited(a)
      BY <3>2 DEF Cited
    <3>5. t.cause = <<"evidence", claim[a].cites[i], n>>
      BY <2>1, <2>3 DEF CauseOfAssertion
    <3>6. ExplainsClaim(t, u)
      BY <2>1, <3>4, <3>5 DEF ExplainsClaim, IdOf
    <3>. HIDE DEF u
    <3>. QED
      BY <2>1, <3>3, <3>6
  <2>. QED
    BY <2>2, <2>3
<1>5. CASE t \in ObligationTickets(x, s, n)
  <2>1. PICK o \in x.obligations :
          t = [kind |-> "obligation", subject |-> o, txn |-> n, session |-> s,
               cause |-> <<"assertion", LastStaleClaim(o, x.assertions), n>>]
    BY <1>5 DEF ObligationTickets
  <2>. DEFINE a == LastStaleClaim(o, x.assertions)
              u == [kind |-> "assertion", subject |-> a, txn |-> n, session |-> s,
                    cause |-> CauseOfAssertion(a, x.evidence, n)]
  <2>2. a \in x.assertions /\ claim[a].obligation = o
    BY LastStaleClaimFound DEF EffectIn, Effect, Reopened
  <2>3. u \in NewTickets(x, s, n)
    BY <2>2 DEF NewTickets, AssertionTickets
  <2>4. a \in Assertion /\ status[a] # "stale" /\ status'[a] = "stale"
    BY <2>2 DEF EffectIn, Effect, Quarantine
  <2>5. ExplainsWork(t, u)
    BY <2>1, <2>2, <2>4 DEF ExplainsWork, IdOf
  <2>. HIDE DEF u
  <2>. QED
    BY <2>1, <2>3, <2>5
<1>. QED
  BY <1>3, <1>4, <1>5 DEF NewTickets

(***************************************************************************)
(* Theorem.  A cause explains its effect: whenever a call invalidates      *)
(* evidence a claim cites, the claim's ticket names such evidence, and an  *)
(* obligation's ticket names a claim under it that this call made stale.   *)
(***************************************************************************)
THEOREM CausesExplain == Spec => LineageExplains
<1>1. TypeOK /\ SessionsApart /\ NoTicketIsEarly /\ [Next]_vars
        => [NewTicketsAreExplained]_vars
  <2>. SUFFICES ASSUME TypeOK, SessionsApart, NoTicketIsEarly, Next
                PROVE  NewTicketsAreExplained
    OBVIOUS
  <2>1. ASSUME NEW s \in Session, NEW e \in Evidence, NEW call \in ToolCall,
               NEW cfg \in Configs, PostToolUse(s, e, call, cfg)
        PROVE  NewTicketsAreExplained
    <3>1. CASE Quarantined(s)
      BY <3>1, QuarantineExplains DEF Quarantined
    <3>2. CASE UNCHANGED <<status, obStatus, tickets>>
      BY <3>2 DEF NewTicketsAreExplained
    <3>. QED
      BY <2>1, <3>1, <3>2, PostToolUseEffect
  <2>2. CASE UNCHANGED <<txn, tickets>>
    BY <2>2 DEF NewTicketsAreExplained
  <2>. QED
    BY <2>1, <2>2, OtherStepsKeepTickets DEF Next, Hook
<1>. QED
  BY <1>1, TypeCorrect, SessionsStayApart, TicketsAreDated, PTL DEF Spec, LineageExplains

-----------------------------------------------------------------------------
(***************************************************************************)
(* A tool call is one Withdraw of ClaimTrust, an upsert a Claim, and work  *)
(* is accepted only on trusted claims.                                     *)
(***************************************************************************)
LEMMA QuarantineWithdraws ==
    ASSUME TypeOK, SessionsApart, NEW s, KeepsRows, Quarantined(s)
    PROVE  [Trust!Next]_(Trust!vars)
<1>1. PICK x : EffectIn(x, s) /\ Quarantine(x, s)
  BY DEF Quarantined
<1>. DEFINE trusted == {a \in claims : status[a] # "stale"}
            basis == [a \in Assertion |->
                        IF a \in claims THEN claim[a].obligation ELSE NoObligation]
            verified == {o \in Obligation : obStatus[o] = "verified"}
            A == x.assertions
<1>2. A \subseteq trusted /\ A \in SUBSET Assertion
  BY <1>1 DEF EffectIn, Effect
<1>3. trusted' = trusted \ A
  BY <1>1, QuarantineStatus DEF KeepsRows, TypeOK
<1>4. basis' = basis
  BY DEF KeepsRows
<1>5. verified' = verified \ ({basis[a] : a \in A} \cap Obligation)
  <2>1. \A a \in A : basis[a] = claim[a].obligation
    BY <1>2
  <2>2. \A o \in Obligation :
          obStatus'[o] = "verified" <=>
             obStatus[o] = "verified" /\ ~ \E a \in A : claim[a].obligation = o
    BY <1>1, QuarantineStatus
  <2>3. {basis[a] : a \in A} = {claim[a].obligation : a \in A}
    <3>. HIDE DEF basis, A
    <3>. QED  BY <2>1
  <2>. HIDE DEF basis
  <2>. QED
    BY <2>2, <2>3
<1>6. CASE A = {}
  BY <1>3, <1>4, <1>5, <1>6 DEF Trust!vars
<1>7. CASE A # {}
  BY <1>2, <1>3, <1>4, <1>5, <1>7 DEF Trust!Next, Trust!Withdraw, Trust!CarriedBy
<1>. QED
  BY <1>6, <1>7

LEMMA UpsertClaims ==
    ASSUME TypeOK, NEW a \in Assertion, NEW st \in ActiveStatus,
           NEW dual \in DualWrites, NEW shape \in ClaimShapes[a],
           NEW cites \in CiteLists(a), UpsertClaim(a, shape, cites, st, dual)
    PROVE  Trust!Next
<1>1. /\ claims' = claims \cup {a}
      /\ claim' = [claim EXCEPT ![a] = [obligation |-> shape.obligation,
                                        scope |-> shape.scope, cites |-> cites]]
      /\ status' = [status EXCEPT ![a] = st]
      /\ obStatus' = obStatus
  BY DEF UpsertClaim
<1>2. st # "stale"
  BY StoreAssumption
<1>3. shape.obligation \in Obligation \cup {NoObligation}
  BY StoreAssumption
<1>4. Trust!Claim(a, shape.obligation)
  BY <1>1, <1>2, <1>3 DEF Trust!Claim, TypeOK
<1>. QED
  BY <1>3, <1>4 DEF Trust!Next

LEMMA MarkStatusDecides ==
    ASSUME TypeOK, NEW o \in Obligation, NEW st \in WorkStatus, MarkStatus(o, st)
    PROVE  Trust!Next
<1>1. obStatus' = [obStatus EXCEPT ![o] = st] /\ UNCHANGED <<claims, claim, status>>
  BY DEF MarkStatus, claimVars
<1>2. CASE st = "verified"
  <2>1. \A a \in claims : claim[a].obligation = o => status[a] # "stale"
    BY <1>2 DEF MarkStatus
  <2>2. Trust!Accept(o)
    BY <1>1, <1>2, <2>1, StoreAssumption DEF Trust!Accept, TypeOK
  <2>. QED
    BY <2>2 DEF Trust!Next
<1>3. CASE st # "verified"
  <2>1. Trust!Reject(o)
    BY <1>1, <1>3 DEF Trust!Reject, TypeOK
  <2>. QED
    BY <2>1 DEF Trust!Next
<1>. QED
  BY <1>2, <1>3

(***************************************************************************)
(* Theorem.  The store implements ClaimTrust in every configuration: trust *)
(* is withdrawn in one step, all the way up, and only a new claim of the   *)
(* agent restores it.                                                      *)
(***************************************************************************)
THEOREM StoreImplementsTrust == Spec => TrustSpec
<1>1. Init => Trust!Init
  BY DEF Init, Trust!Init
<1>2. TypeOK /\ SessionsApart /\ [Next]_vars => [Trust!Next]_(Trust!vars)
  <2>. SUFFICES ASSUME TypeOK, SessionsApart, [Next]_vars
                PROVE  [Trust!Next]_(Trust!vars)
    OBVIOUS
  <2>1. ASSUME NEW s \in Session, NEW e \in Evidence, NEW call \in ToolCall,
               NEW cfg \in Configs, PostToolUse(s, e, call, cfg)
        PROVE  [Trust!Next]_(Trust!vars)
    <3>1. CASE Quarantined(s)
      BY <2>1, <3>1, PostToolUseEffect, QuarantineWithdraws
    <3>2. CASE UNCHANGED <<status, obStatus, tickets>>
      BY <2>1, <3>2, PostToolUseEffect DEF KeepsRows, Trust!vars
    <3>. QED
      BY <2>1, <3>1, <3>2, PostToolUseEffect
  <2>2. ASSUME NEW a \in Assertion, NEW st \in ActiveStatus, NEW dual \in DualWrites,
               NEW shape \in ClaimShapes[a], NEW cites \in CiteLists(a),
               UpsertClaim(a, shape, cites, st, dual)
        PROVE  Trust!Next
    BY <2>2, UpsertClaims
  <2>3. ASSUME NEW o \in Obligation, NEW st \in WorkStatus, MarkStatus(o, st)
        PROVE  Trust!Next
    BY <2>3, MarkStatusDecides
  <2>4. ASSUME NEW O \in SUBSET Obligation, RecordVerifyFailure(O)
        PROVE  UNCHANGED Trust!vars
    BY <2>4 DEF RecordVerifyFailure, claimVars, Trust!vars, TypeOK
  <2>5. CASE (\E s \in Rebuilt : Backfill(s)) \/ UNCHANGED vars
    BY <2>5 DEF Backfill, vars, claimVars, Trust!vars
  <2>. QED
    BY <2>1, <2>2, <2>3, <2>4, <2>5 DEF Next, Hook, Agent
<1>. QED
  BY <1>1, <1>2, TypeCorrect, SessionsStayApart, PTL DEF Spec, TrustSpec, Trust!Spec

-----------------------------------------------------------------------------
(***************************************************************************)
(* runtime_mode legacy: neither the reverse index nor shadow mode.         *)
(***************************************************************************)
LegacyMode == \A cfg \in Configs : ~cfg.shadow /\ ~cfg.reverseIndex

LEMMA LegacyToolCall ==
    ASSUME LegacyMode, NEW s \in Session, NEW e \in Evidence, NEW call \in ToolCall,
           NEW cfg \in Configs, PostToolUse(s, e, call, cfg)
    PROVE  /\ Stored(s, e, call)
           /\ Quarantine(ScanEffect(stored', row', s, call.changed), s)
           /\ touched' = touched \cup
                ScanStaleEvidence(stored', row', s, call.changed) \X {txn + 1}
           /\ UNCHANGED <<claims, claim>>
<1>1. InvalidateByScan(s, e, call, cfg)
  BY DEF LegacyMode, PostToolUse, InvalidateByIndex, ShadowAgrees, ShadowDiffers
<1>. QED
  BY <1>1 DEF InvalidateByScan, Reported, Touched, ScanStaleEvidence

LEMMA NoTouchOtherwise ==
    (Agent \/ (\E s \in Rebuilt : Backfill(s)) \/ UNCHANGED vars)
        => UNCHANGED <<touched, tickets>>
BY DEF Agent, UpsertClaim, MarkStatus, RecordVerifyFailure, Backfill, vars, historyVars

(***************************************************************************)
(* Theorem.  Under the scan, every change of a file that stored evidence   *)
(* is about leaves a live ticket of that tool call.                        *)
(***************************************************************************)
THEOREM ScanTicketsEveryTouch ==
    ASSUME LegacyMode
    PROVE  Spec => []EveryTouchIsTicketed
<1>1. Init => EveryTouchIsTicketed
  BY DEF Init, EveryTouchIsTicketed
<1>2. EveryTouchIsTicketed /\ [Next]_vars => EveryTouchIsTicketed'
  <2>. SUFFICES ASSUME EveryTouchIsTicketed, [Next]_vars PROVE EveryTouchIsTicketed'
    OBVIOUS
  <2>1. ASSUME NEW s \in Session, NEW e \in Evidence, NEW call \in ToolCall,
               NEW cfg \in Configs, PostToolUse(s, e, call, cfg)
        PROVE  EveryTouchIsTicketed'
    <3>. DEFINE E == ScanStaleEvidence(stored', row', s, call.changed)
                x == ScanEffect(stored', row', s, call.changed)
    <3>1. touched' = touched \cup E \X {txn + 1} /\ Quarantine(x, s)
      BY <2>1, LegacyToolCall
    <3>2. tickets' = tickets \cup NewTickets(x, s, txn + 1)
      BY <3>1 DEF Quarantine
    <3>3. \A d \in E : \E t \in NewTickets(x, s, txn + 1) :
                          IdOf(t) = <<"evidence", d, txn + 1>>
      <4>. SUFFICES ASSUME NEW d \in E
                    PROVE  \E t \in NewTickets(x, s, txn + 1) :
                              IdOf(t) = <<"evidence", d, txn + 1>>
        OBVIOUS
      <4>. DEFINE t == [kind |-> "evidence", subject |-> d, txn |-> txn + 1,
                        session |-> s, cause |-> NoTicket]
      <4>1. t \in NewTickets(x, s, txn + 1)
        BY DEF NewTickets, EvidenceTickets, ScanEffect
      <4>2. IdOf(t) = <<"evidence", d, txn + 1>>
        BY DEF IdOf
      <4>. HIDE DEF t
      <4>. QED
        BY <4>1, <4>2
    <3>. HIDE DEF E, x
    <3>4. ASSUME NEW p \in touched'
          PROVE  \E t \in tickets' : IdOf(t) = <<"evidence", p[1], p[2]>>
      <4>1. CASE p \in touched
        BY <3>2, <4>1 DEF EveryTouchIsTicketed
      <4>2. CASE p \in E \X {txn + 1}
        BY <3>2, <3>3, <4>2
      <4>. QED
        BY <3>1, <4>1, <4>2
    <3>. QED
      BY <3>4 DEF EveryTouchIsTicketed, IdOf
  <2>2. CASE UNCHANGED <<touched, tickets>>
    BY <2>2 DEF EveryTouchIsTicketed
  <2>. QED
    BY <2>1, <2>2, NoTouchOtherwise DEF Next, Hook
<1>. QED
  BY <1>1, <1>2, PTL DEF Spec

(***************************************************************************)
(* Theorem.  Under the scan, a claim the store reports as supported rests  *)
(* on evidence whose files have not changed since it was taken.            *)
(***************************************************************************)
THEOREM SupportIsUntouched ==
    ASSUME LegacyMode
    PROVE  Spec => []SupportedRestsOnUntouched
<1>1. EveryTouchIsTicketed => SupportedRestsOnUntouched
  <2>. SUFFICES ASSUME EveryTouchIsTicketed, NEW a \in claims, SupportOf(a) = "supported"
                PROVE  \E e \in Cited(a) : \A p \in touched : p[1] # e
    BY DEF SupportedRestsOnUntouched
  <2>1. HasFreshEvidence(a)
    BY DEF SupportOf
  <2>2. PICK e \in Cited(a) : ~HasLiveTicket("evidence", e)
    BY <2>1 DEF HasFreshEvidence
  <2>3. \A p \in touched : p[1] # e
    BY <2>2 DEF EveryTouchIsTicketed, HasLiveTicket, IdOf
  <2>. QED
    BY <2>3
<1>. QED
  BY <1>1, ScanTicketsEveryTouch, PTL

(***************************************************************************)
(* Theorem.  Under the scan, a claim in force falls in the same step as    *)
(* the evidence it cites.                                                  *)
(***************************************************************************)
THEOREM ClaimsFallAtOnce ==
    ASSUME LegacyMode
    PROVE  Spec => ClaimsFallWithTheirEvidence
<1>1. TypeOK /\ SessionsApart /\ [Next]_vars => [ClaimsFall]_vars
  <2>. SUFFICES ASSUME TypeOK, SessionsApart, Next PROVE ClaimsFall
    OBVIOUS
  <2>1. ASSUME NEW s \in Session, NEW e \in Evidence, NEW call \in ToolCall,
               NEW cfg \in Configs, PostToolUse(s, e, call, cfg)
        PROVE  ClaimsFall
    <3>. DEFINE x == ScanEffect(stored', row', s, call.changed)
    <3>. SUFFICES ASSUME NEW p \in touched' \ touched, NEW a \in claims, p[1] \in Cited(a)
                  PROVE  status'[a] = "stale"
      BY DEF ClaimsFall
    <3>1. Stored(s, e, call) /\ Quarantine(x, s)
      BY <2>1, LegacyToolCall
    <3>2. p[1] \in ScanStaleEvidence(stored', row', s, call.changed)
      BY <2>1, LegacyToolCall
    <3>3. SessionOf[a] = s
      <4>1. p[1] \in stored /\ row[p[1]].session = SessionOf[a]
        BY DEF SessionsApart, ClaimsApart
      <4>2. row'[p[1]] = row[p[1]]
        BY <3>1, <4>1, StoredKeepsRows
      <4>. QED
        BY <3>2, <4>1, <4>2 DEF ScanStaleEvidence
    <3>4. a \in Assertion
      BY DEF TypeOK
    <3>5. status[a] # "stale" => a \in x.assertions
      BY <3>2, <3>3 DEF ScanEffect, ScanStaleClaims
    <3>. HIDE DEF x
    <3>. QED
      BY <3>1, <3>4, <3>5 DEF Quarantine
  <2>2. CASE UNCHANGED <<touched, tickets>>
    BY <2>2 DEF ClaimsFall
  <2>. QED
    BY <2>1, <2>2, NoTouchOtherwise DEF Next, Hook
<1>. QED
  BY <1>1, TypeCorrect, SessionsStayApart, PTL DEF Spec, ClaimsFallWithTheirEvidence

-----------------------------------------------------------------------------
(***************************************************************************)
(* Why the reverse index is exact in a session whose projections are       *)
(* complete: every evidence row about a file is indexed, every claim under *)
(* its scope and linked to just the evidence it cites.                     *)
(***************************************************************************)
EvidenceIndexed(s) ==
    \A e \in stored : row[e].session = s /\ row[e].files # {} => e \in indexed

ClaimProjected(a) ==
    /\ scopeIndex[a] = claim[a].scope
    /\ \A e : <<a, e>> \in links <=> e \in Cited(a)

Complete(s) ==
    /\ EvidenceIndexed(s)
    /\ \A a \in claims : SessionOf[a] = s => ClaimProjected(a)

SyncedComplete == \A s \in synced : Complete(s)

LEMMA CompleteIsExact ==
    ASSUME TypeOK, SessionsApart, NEW s, Complete(s)
    PROVE  SameEffect(s)
<1>. SUFFICES ASSUME NEW F \in SUBSET File
              PROVE  IndexEffect(row, s, F) = ScanEffect(stored, row, s, F)
  BY DEF SameEffect
<1>1. IndexStaleEvidence(row, s, F) = ScanStaleEvidence(stored, row, s, F)
  BY DEF IndexStaleEvidence, ScanStaleEvidence, Complete, EvidenceIndexed,
         SessionsApart, RowsPresent
<1>2. ASSUME NEW a \in claims
      PROVE  a \in IndexStaleClaims(row, s, F) <=> a \in ScanStaleClaims(stored, row, s, F)
  <2>. DEFINE E == ScanStaleEvidence(stored, row, s, F)
  <2>1. \A e \in E : <<a, e>> \in links => SessionOf[a] = s
    BY DEF ScanStaleEvidence, SessionsApart, LinksApart
  <2>2. SessionOf[a] = s =>
          /\ scopeIndex[a] \in F <=> claim[a].scope \in F
          /\ (\E e \in E : <<a, e>> \in links) <=> Cited(a) \cap E # {}
    BY DEF Complete, ClaimProjected
  <2>. HIDE DEF E
  <2>. QED
    BY <1>1, <2>1, <2>2 DEF IndexStaleClaims, ScanStaleClaims, E
<1>3. IndexStaleClaims(row, s, F) = ScanStaleClaims(stored, row, s, F)
  BY <1>2 DEF IndexStaleClaims, ScanStaleClaims
<1>. QED
  BY <1>1, <1>3 DEF IndexEffect, ScanEffect

LEMMA ToolCallKeepsComplete ==
    ASSUME TypeOK, SessionsApart, SyncedComplete, NEW s \in Session, NEW e \in Evidence,
           NEW call \in ToolCall, NEW cfg \in Configs, PostToolUse(s, e, call, cfg)
    PROVE  SyncedComplete'
<1>1. KeepsRows
  BY PostToolUseEffect
<1>2. \A a \in claims : ClaimProjected(a) => ClaimProjected(a)'
  BY <1>1 DEF KeepsRows, ClaimProjected, Cited
<1>3. CASE Stored(s, e, call)
  <2>1. /\ stored' = stored \cup {e}
        /\ row'[e].session = s /\ row'[e].files = call.files
        /\ synced' = IF call.files = {} THEN synced ELSE synced \ {s}
    BY <1>3 DEF Stored, TypeOK
  <2>2. \A r \in synced' : EvidenceIndexed(r)'
    BY <1>1, <2>1 DEF KeepsRows, SyncedComplete, Complete, EvidenceIndexed
  <2>3. synced' \subseteq synced /\ claims' = claims
    BY <1>1, <2>1 DEF KeepsRows
  <2>. QED
    BY <1>2, <2>2, <2>3 DEF SyncedComplete, Complete
<1>4. CASE UNCHANGED <<stored, row, synced>>
  BY <1>1, <1>2, <1>4 DEF KeepsRows, SyncedComplete, Complete, EvidenceIndexed
<1>. QED
  BY <1>3, <1>4 DEF PostToolUse, InvalidateByScan, InvalidateByIndex, ShadowAgrees,
                    ShadowDiffers, evidenceVars

LEMMA UpsertKeepsComplete ==
    ASSUME TypeOK, SyncedComplete, NEW a \in Assertion, NEW st \in ActiveStatus,
           NEW dual \in DualWrites, NEW shape \in ClaimShapes[a],
           NEW cites \in CiteLists(a), UpsertClaim(a, shape, cites, st, dual)
    PROVE  SyncedComplete'
<1>1. /\ claims' = claims \cup {a}
      /\ claim'[a] = [obligation |-> shape.obligation, scope |-> shape.scope, cites |-> cites]
      /\ \A b \in claims \ {a} : claim'[b] = claim[b]
      /\ UNCHANGED <<stored, row, indexed>>
  BY DEF UpsertClaim, TypeOK, evidenceVars
<1>2. \A r \in synced : EvidenceIndexed(r)'
  BY <1>1 DEF SyncedComplete, Complete, EvidenceIndexed
<1>3. CASE dual
  <2>1. /\ links' = Relinked(a, cites)
        /\ scopeIndex' = [scopeIndex EXCEPT ![a] = shape.scope]
        /\ synced' = synced
    BY <1>3 DEF UpsertClaim
  <2>2. ClaimProjected(a)'
    <3>1. \A d : <<a, d>> \in Relinked(a, cites) <=> \E i \in DOMAIN cites : d = cites[i]
      BY DEF Relinked
    <3>2. \A d : d \in Cited(a)' <=> \E i \in DOMAIN cites : d = cites[i]
      BY <1>1 DEF Cited
    <3>3. scopeIndex'[a] = claim'[a].scope
      BY <1>1, <2>1 DEF TypeOK
    <3>. QED
      BY <2>1, <3>1, <3>2, <3>3 DEF ClaimProjected
  <2>3. \A b \in claims \ {a} : ClaimProjected(b) => ClaimProjected(b)'
    BY <1>1, <2>1 DEF ClaimProjected, Cited, Relinked, TypeOK
  <2>. QED
    BY <1>1, <1>2, <2>1, <2>2, <2>3 DEF SyncedComplete, Complete
<1>4. CASE ~dual
  <2>1. synced' = synced \ {SessionOf[a]} /\ UNCHANGED <<links, scopeIndex>>
    BY <1>4 DEF UpsertClaim
  <2>2. \A b \in claims \ {a} : ClaimProjected(b) => ClaimProjected(b)'
    BY <1>1, <2>1 DEF ClaimProjected, Cited
  <2>. QED
    BY <1>1, <1>2, <2>1, <2>2 DEF SyncedComplete, Complete
<1>. QED
  BY <1>3, <1>4

LEMMA BackfillCompletes ==
    ASSUME TypeOK, SessionsApart, SyncedComplete, NEW s \in Session, Backfill(s)
    PROVE  SyncedComplete'
<1>1. /\ synced' = synced \cup {s}
      /\ UNCHANGED <<stored, row, claims, claim>>
  BY DEF Backfill, evidenceVars, claimVars
<1>2. \A r \in synced' : EvidenceIndexed(r)'
  BY <1>1 DEF Backfill, SyncedComplete, Complete, EvidenceIndexed
<1>3. ASSUME NEW a \in claims, SessionOf[a] = s
      PROVE  ClaimProjected(a)'
  <2>1. \A d \in Cited(a) : d \in stored
    BY DEF SessionsApart, ClaimsApart
  <2>2. \A d : <<a, d>> \in links' <=> d \in Cited(a)
    BY <1>3, <2>1 DEF Backfill
  <2>3. scopeIndex'[a] = claim[a].scope
    BY <1>3 DEF Backfill, TypeOK
  <2>. QED
    BY <1>1, <2>2, <2>3 DEF ClaimProjected, Cited
<1>4. ASSUME NEW a \in claims, SessionOf[a] # s, ClaimProjected(a)
      PROVE  ClaimProjected(a)'
  <2>1. \A d : <<a, d>> \in links' <=> <<a, d>> \in links
    BY <1>4 DEF Backfill
  <2>2. scopeIndex'[a] = scopeIndex[a]
    BY <1>4 DEF Backfill, TypeOK
  <2>. QED
    BY <1>1, <1>4, <2>1, <2>2 DEF ClaimProjected, Cited
<1>. QED
  BY <1>1, <1>2, <1>3, <1>4 DEF SyncedComplete, Complete

LEMMA SyncedStayComplete == Spec => []SyncedComplete
<1>1. Init => SyncedComplete
  BY DEF Init, SyncedComplete, Complete, EvidenceIndexed
<1>2. TypeOK /\ SessionsApart /\ SyncedComplete /\ [Next]_vars => SyncedComplete'
  <2>. SUFFICES ASSUME TypeOK, SessionsApart, SyncedComplete, [Next]_vars
                PROVE  SyncedComplete'
    OBVIOUS
  <2>1. ASSUME NEW s \in Session, NEW e \in Evidence, NEW call \in ToolCall,
               NEW cfg \in Configs, PostToolUse(s, e, call, cfg)
        PROVE  SyncedComplete'
    BY <2>1, ToolCallKeepsComplete
  <2>2. ASSUME NEW a \in Assertion, NEW st \in ActiveStatus, NEW dual \in DualWrites,
               NEW shape \in ClaimShapes[a], NEW cites \in CiteLists(a),
               UpsertClaim(a, shape, cites, st, dual)
        PROVE  SyncedComplete'
    BY <2>2, UpsertKeepsComplete
  <2>3. ASSUME NEW s \in Rebuilt, Backfill(s)
        PROVE  SyncedComplete'
    BY <2>3, BackfillCompletes, StoreAssumption
  <2>4. CASE WorkOnly
    BY <2>4 DEF WorkOnly, evidenceVars, claimVars, projectionVars, historyVars,
                SyncedComplete, Complete, EvidenceIndexed, ClaimProjected, Cited
  <2>. QED
    BY <2>1, <2>2, <2>3, <2>4, WorkOnlySteps DEF Next, Hook, Agent
<1>. QED
  BY <1>1, <1>2, TypeCorrect, SessionsStayApart, PTL DEF Spec

(***************************************************************************)
(* Theorem.  While a session's projections are complete (a backfill, and   *)
(* only dual writes since), the reverse index invalidates exactly what the *)
(* scan would.                                                             *)
(***************************************************************************)
THEOREM BackfilledIndexIsExact == Spec => []ReverseIndexMatchesScan
<1>1. TypeOK /\ SessionsApart /\ SyncedComplete => ReverseIndexMatchesScan
  BY CompleteIsExact DEF SyncedComplete, ReverseIndexMatchesScan
<1>. QED
  BY <1>1, TypeCorrect, SessionsStayApart, SyncedStayComplete, PTL

-----------------------------------------------------------------------------
(***************************************************************************)
(* Every write of a claim also calls the projection sync.                  *)
(***************************************************************************)
DualWriteMode == DualWrites \subseteq {TRUE}

(***************************************************************************)
(* Why the reverse index never says too much: whatever is projected is     *)
(* projected of the row as it is.  A claim is under its own scope or under *)
(* none yet, and every link is a citation.                                 *)
(***************************************************************************)
ProjectedFaithfully(a) ==
    /\ scopeIndex[a] \in {claim[a].scope, NoFile}
    /\ \A e : <<a, e>> \in links => e \in Cited(a)

ProjectionsFaithful == \A a \in claims : ProjectedFaithfully(a)

NothingProjectedYet == \A a \in Assertion \ claims : scopeIndex[a] = NoFile

LEMMA FaithfulIsConservative ==
    ASSUME TypeOK, SessionsApart, ProjectionsFaithful, NEW s \in Session,
           NEW F \in SUBSET File
    PROVE  Within(IndexEffect(row, s, F), ScanEffect(stored, row, s, F))
<1>1. IndexStaleEvidence(row, s, F) \subseteq ScanStaleEvidence(stored, row, s, F)
  BY DEF IndexStaleEvidence, ScanStaleEvidence, SessionsApart, RowsPresent
<1>2. ASSUME NEW a \in IndexStaleClaims(row, s, F)
      PROVE  a \in ScanStaleClaims(stored, row, s, F)
  <2>1. a \in claims /\ status[a] # "stale" /\ ProjectedFaithfully(a)
    BY DEF IndexStaleClaims, ProjectionsFaithful
  <2>2. CASE SessionOf[a] = s /\ scopeIndex[a] \in F
    BY <2>1, <2>2, StoreAssumption DEF ProjectedFaithfully, ScanStaleClaims
  <2>3. ASSUME NEW e \in IndexStaleEvidence(row, s, F), <<a, e>> \in links
        PROVE  a \in ScanStaleClaims(stored, row, s, F)
    <3>1. e \in Cited(a) /\ e \in ScanStaleEvidence(stored, row, s, F)
      BY <1>1, <2>1, <2>3 DEF ProjectedFaithfully
    <3>2. SessionOf[a] = s
      BY <2>3, <3>1 DEF SessionsApart, LinksApart, ScanStaleEvidence
    <3>. QED
      BY <2>1, <3>1, <3>2 DEF ScanStaleClaims
  <2>. QED
    BY <2>2, <2>3 DEF IndexStaleClaims
<1>3. Reopened(s, IndexStaleClaims(row, s, F))
        \subseteq Reopened(s, ScanStaleClaims(stored, row, s, F))
  BY <1>2 DEF Reopened
<1>. QED
  BY <1>1, <1>2, <1>3 DEF Within, IndexEffect, ScanEffect

LEMMA UpsertStaysFaithful ==
    ASSUME DualWriteMode, TypeOK, ProjectionsFaithful, NothingProjectedYet,
           NEW a \in Assertion, NEW st \in ActiveStatus, NEW dual \in DualWrites,
           NEW shape \in ClaimShapes[a], NEW cites \in CiteLists(a),
           UpsertClaim(a, shape, cites, st, dual)
    PROVE  ProjectionsFaithful' /\ NothingProjectedYet'
<1>1. /\ claims' = claims \cup {a}
      /\ claim'[a] = [obligation |-> shape.obligation, scope |-> shape.scope, cites |-> cites]
      /\ \A b \in Assertion \ {a} : claim'[b] = claim[b]
      /\ links' = Relinked(a, cites)
      /\ scopeIndex' = [scopeIndex EXCEPT ![a] = shape.scope]
  BY DEF UpsertClaim, TypeOK, DualWriteMode
<1>2. ProjectedFaithfully(a)'
  <2>1. \A d : <<a, d>> \in Relinked(a, cites) => \E i \in DOMAIN cites : d = cites[i]
    BY DEF Relinked
  <2>2. \A d : d \in Cited(a)' <=> \E i \in DOMAIN cites : d = cites[i]
    BY <1>1 DEF Cited
  <2>3. scopeIndex'[a] = claim'[a].scope
    BY <1>1 DEF TypeOK
  <2>. QED
    BY <1>1, <2>1, <2>2, <2>3 DEF ProjectedFaithfully
<1>3. \A b \in Assertion \ {a} : ProjectedFaithfully(b) => ProjectedFaithfully(b)'
  BY <1>1 DEF ProjectedFaithfully, Cited, Relinked, TypeOK
<1>4. NothingProjectedYet'
  BY <1>1 DEF NothingProjectedYet, TypeOK
<1>. QED
  BY <1>1, <1>2, <1>3, <1>4 DEF ProjectionsFaithful, TypeOK

LEMMA BackfillStaysFaithful ==
    ASSUME TypeOK, SessionsApart, ProjectionsFaithful, NothingProjectedYet,
           NEW s \in Session, Backfill(s)
    PROVE  ProjectionsFaithful' /\ NothingProjectedYet'
<1>1. UNCHANGED <<claims, claim>>
  BY DEF Backfill, claimVars
<1>2. ASSUME NEW a \in claims
      PROVE  ProjectedFaithfully(a)'
  <2>1. scopeIndex'[a] \in {claim[a].scope, NoFile}
    BY DEF Backfill, TypeOK, ProjectionsFaithful, ProjectedFaithfully
  <2>2. \A e : <<a, e>> \in links' => e \in Cited(a)
    BY DEF Backfill, ProjectionsFaithful, ProjectedFaithfully
  <2>. QED
    BY <1>1, <2>1, <2>2 DEF ProjectedFaithfully, Cited
<1>3. NothingProjectedYet'
  BY <1>1 DEF Backfill, NothingProjectedYet, TypeOK
<1>. QED
  BY <1>1, <1>2, <1>3 DEF ProjectionsFaithful

(***************************************************************************)
(* Theorem.  With dual writes, and however far the projections lag behind, *)
(* the reverse index invalidates nothing the scan would not.               *)
(***************************************************************************)
THEOREM IndexIsConservative ==
    ASSUME DualWriteMode
    PROVE  Spec => []IndexNeverInvents
<1>. DEFINE Faithful == ProjectionsFaithful /\ NothingProjectedYet
<1>1. Init => Faithful
  BY DEF Init, ProjectionsFaithful, NothingProjectedYet
<1>2. TypeOK /\ SessionsApart /\ Faithful /\ [Next]_vars => Faithful'
  <2>. SUFFICES ASSUME TypeOK, SessionsApart, Faithful, [Next]_vars
                PROVE  Faithful'
    OBVIOUS
  <2>1. CASE UNCHANGED <<claims, claim, scopeIndex, links>>
    BY <2>1 DEF ProjectionsFaithful, NothingProjectedYet, ProjectedFaithfully, Cited
  <2>2. ASSUME NEW s \in Session, NEW e \in Evidence, NEW call \in ToolCall,
               NEW cfg \in Configs, PostToolUse(s, e, call, cfg)
        PROVE  Faithful'
    BY <2>1, <2>2, PostToolUseEffect DEF KeepsRows
  <2>3. ASSUME NEW a \in Assertion, NEW st \in ActiveStatus, NEW dual \in DualWrites,
               NEW shape \in ClaimShapes[a], NEW cites \in CiteLists(a),
               UpsertClaim(a, shape, cites, st, dual)
        PROVE  Faithful'
    BY <2>3, UpsertStaysFaithful
  <2>4. ASSUME NEW s \in Rebuilt, Backfill(s)
        PROVE  Faithful'
    BY <2>4, BackfillStaysFaithful, StoreAssumption
  <2>5. CASE WorkOnly
    BY <2>1, <2>5 DEF WorkOnly, claimVars, projectionVars
  <2>. QED
    BY <2>2, <2>3, <2>4, <2>5, WorkOnlySteps DEF Next, Hook, Agent
<1>3. TypeOK /\ SessionsApart /\ Faithful => IndexNeverInvents
  BY FaithfulIsConservative DEF IndexNeverInvents
<1>. QED
  BY <1>1, <1>2, <1>3, TypeCorrect, SessionsStayApart, PTL DEF Spec

-----------------------------------------------------------------------------
(***************************************************************************)
(* What a quarantine leaves of the subjects of its effect.                 *)
(***************************************************************************)
LEMMA EffectIsTold ==
    ASSUME TypeOK, NEW x, NEW s, Quarantine(x, s), NEW d \in x.evidence,
           \A a \in claims : d \in Cited(a) /\ status[a] # "stale" => a \in x.assertions
    PROVE  Told(<<d, txn + 1>>)
<1>1. \E t \in tickets' : IdOf(t) = <<"evidence", d, txn + 1>>
  <2>. DEFINE t == [kind |-> "evidence", subject |-> d, txn |-> txn + 1,
                    session |-> s, cause |-> NoTicket]
  <2>1. t \in NewTickets(x, s, txn + 1)
    BY DEF NewTickets, EvidenceTickets
  <2>2. IdOf(t) = <<"evidence", d, txn + 1>>
    BY DEF IdOf
  <2>. HIDE DEF t
  <2>. QED
    BY <2>1, <2>2 DEF Quarantine
<1>2. \A a \in claims : d \in Cited(a) => status'[a] = "stale"
  BY DEF Quarantine, TypeOK
<1>. QED
  BY <1>1, <1>2 DEF Told

LEMMA ScanTells ==
    ASSUME TypeOK, SessionsApart, NEW s \in Session, NEW E, NEW R, NEW F,
           \A d \in stored : R[d] = row[d],
           Quarantine(ScanEffect(E, R, s, F), s),
           NEW d \in ScanStaleEvidence(E, R, s, F)
    PROVE  Told(<<d, txn + 1>>)
<1>. DEFINE x == ScanEffect(E, R, s, F)
<1>1. d \in x.evidence /\ x.assertions = ScanStaleClaims(E, R, s, F)
  BY DEF ScanEffect
<1>2. \A a \in claims : d \in Cited(a) /\ status[a] # "stale" => a \in x.assertions
  <2>. SUFFICES ASSUME NEW a \in claims, d \in Cited(a), status[a] # "stale"
                PROVE  a \in ScanStaleClaims(E, R, s, F)
    BY <1>1
  <2>1. SessionOf[a] = s
    BY DEF SessionsApart, ClaimsApart, ScanStaleEvidence
  <2>. QED
    BY <2>1 DEF ScanStaleClaims
<1>. HIDE DEF x
<1>3. Quarantine(x, s)
  BY DEF x
<1>. QED
  BY <1>1, <1>2, <1>3, EffectIsTold

LEMMA IndexTells ==
    ASSUME TypeOK, SessionsApart, NEW s \in Session, Complete(s), NEW R, NEW F,
           \A d \in stored : R[d] = row[d],
           Quarantine(IndexEffect(R, s, F), s),
           NEW d \in ScanStaleEvidence(stored, R, s, F)
    PROVE  Told(<<d, txn + 1>>)
<1>. DEFINE x == IndexEffect(R, s, F)
<1>1. x.evidence = IndexStaleEvidence(R, s, F) /\ x.assertions = IndexStaleClaims(R, s, F)
  BY DEF IndexEffect
<1>2. d \in IndexStaleEvidence(R, s, F)
  BY DEF Complete, EvidenceIndexed, ScanStaleEvidence, IndexStaleEvidence
<1>3. \A a \in claims : d \in Cited(a) /\ status[a] # "stale" => a \in x.assertions
  <2>. SUFFICES ASSUME NEW a \in claims, d \in Cited(a), status[a] # "stale"
                PROVE  a \in IndexStaleClaims(R, s, F)
    BY <1>1
  <2>1. SessionOf[a] = s
    BY DEF SessionsApart, ClaimsApart, ScanStaleEvidence
  <2>2. <<a, d>> \in links
    BY <2>1 DEF Complete, ClaimProjected
  <2>. QED
    BY <1>2, <2>2 DEF IndexStaleClaims
<1>. HIDE DEF x
<1>4. Quarantine(x, s)
  BY DEF x
<1>. QED
  BY <1>1, <1>2, <1>3, <1>4, EffectIsTold

(***************************************************************************)
(* Theorem.  While a session's projections are complete, a committed call  *)
(* that is about no file invalidates all it disturbs, by the scan, by the  *)
(* reverse index and in shadow mode alike.                                 *)
(***************************************************************************)
THEOREM SyncedTouchesTold == Spec => SyncedTouchesAreTold
<1>. DEFINE Tells == txn' # txn =>
              \A p \in touched' \ touched :
                  row'[p[1]].session \in synced \cap synced' => Told(p)
<1>1. TypeOK /\ SessionsApart /\ SyncedComplete /\ [Next]_vars => Tells
  <2>. SUFFICES ASSUME TypeOK, SessionsApart, SyncedComplete, [Next]_vars, txn' # txn,
                       NEW p \in touched' \ touched,
                       row'[p[1]].session \in synced \cap synced'
                PROVE  Told(p)
    OBVIOUS
  <2>1. PICK s \in Session, e \in Evidence, call \in ToolCall, cfg \in Configs :
            PostToolUse(s, e, call, cfg)
    BY NoTouchOtherwise DEF Next, Hook
  <2>2. Stored(s, e, call) /\ Reported(s, call, cfg)
    BY <2>1 DEF PostToolUse, InvalidateByScan, InvalidateByIndex, ShadowAgrees, ShadowDiffers
  <2>. DEFINE E == ScanStaleEvidence(stored', row', s, call.changed)
  <2>3. p[1] \in E /\ p = <<p[1], txn + 1>>
    BY <2>2 DEF Reported, Touched, ScanStaleEvidence
  <2>4. s \in synced /\ s \in synced' /\ \A d \in stored : row'[d] = row[d]
    BY <2>2, <2>3, StoredKeepsRows DEF ScanStaleEvidence
  <2>5. CASE InvalidateByScan(s, e, call, cfg) \/ ShadowAgrees(s, e, call, cfg)
    <3>1. Quarantine(ScanEffect(stored', row', s, call.changed), s)
      BY <2>5 DEF InvalidateByScan, ShadowAgrees
    <3>. QED
      BY <2>3, <2>4, <3>1, ScanTells
  <2>6. CASE InvalidateByIndex(s, e, call, cfg)
    <3>1. Quarantine(IndexEffect(row', s, call.changed), s)
      BY <2>6 DEF InvalidateByIndex
    <3>2. p[1] \in ScanStaleEvidence(stored, row', s, call.changed)
      <4>1. call.files = {} /\ stored' = stored \cup {e} /\ row'[e].files = {}
        BY <2>2, <2>4 DEF Stored, TypeOK
      <4>. QED
        BY <2>3, <4>1 DEF ScanStaleEvidence
    <3>3. Complete(s)
      BY <2>4 DEF SyncedComplete
    <3>. QED
      BY <2>3, <2>4, <3>1, <3>2, <3>3, IndexTells
  <2>7. CASE ShadowDiffers(s, e, call, cfg)
    BY <2>7 DEF ShadowDiffers
  <2>. QED
    BY <2>1, <2>5, <2>6, <2>7 DEF PostToolUse
<1>. QED
  BY <1>1, TypeCorrect, SessionsStayApart, SyncedStayComplete, PTL DEF Spec, SyncedTouchesAreTold

=============================================================================
