----------------------- MODULE FileTouchInvalidation ------------------------
(***************************************************************************)
(* The task-state store and the PostToolUse hook that keeps it honest.     *)
(*                                                                         *)
(* A hook invocation is one SQLite write transaction: the first statement  *)
(* of PostToolUseService.handle is an INSERT, so everything it reads       *)
(* afterwards is read under the write lock and is atomic with its commit.  *)
(* Each invocation is therefore one action here; interleavings of hooks at *)
(* statement granularity are the subject of module HookProcesses.          *)
(*                                                                         *)
(* Row identities (uuid4 in the code) are members of the constant sets.    *)
(* Paths are already normalised: normalize_path is the identity on them.   *)
(* Tickets are only ever created live, and no operation of the runtime     *)
(* takes one out of that status, so the status column is left out.         *)
(***************************************************************************)
EXTENDS Integers, Sequences, FiniteSets

CONSTANTS
    Session,       \* session ids
    File,          \* normalised paths
    Evidence,      \* evidence ids the hooks may draw
    Assertion,     \* assertion ids: numbers, in order of (created_at, id)
    LastAssertion, \* bound: the largest assertion id
    Obligation,    \* obligation ids; their rows exist from the start
    SessionOf,     \* SessionOf[x]: the session an assertion or obligation is in
    NoFile,        \* NULL scope_ref
    NoObligation,  \* NULL obligation_id
    NoTicket,      \* NULL caused_by_ticket_id
    Configs,       \* the hook configurations in force at one time or another
    ClaimShapes,   \* ClaimShapes[a]: the (obligation, scope) pairs of claim a
    ActiveStatus,  \* the statuses the agent gives its claims
    WorkStatus,    \* the statuses the agent gives its obligations
    DualWrites,    \* whether the agent's writes also call the projection sync
    Rebuilt,       \* the sessions an operator runs the backfill for
    MaxCites,      \* bound: evidence ids one claim cites
    MaxTxn         \* bound: committed tool calls

AssertionStatus == {"speculative", "supported", "confirmed", "refuted", "stale"}
ObligationStatus ==
    {"open", "localized", "addressed", "verified", "reopened", "blocked"}

(***************************************************************************)
(* A configuration as PostToolUse sees it: whether runtime_mode is         *)
(* "shadow", and the enable_reverse_index flag.                            *)
(***************************************************************************)
Config == [shadow : BOOLEAN, reverseIndex : BOOLEAN]

ASSUME StoreAssumption ==
    /\ Session # {}
    /\ Assertion \subseteq 0 .. LastAssertion
    /\ LastAssertion \in Nat
    /\ SessionOf \in [Assertion \cup Obligation -> Session]
    /\ NoFile \notin File
    /\ NoObligation \notin Obligation
    /\ Configs \subseteq Config
    /\ ClaimShapes \in
         [Assertion -> SUBSET [obligation : Obligation \cup {NoObligation},
                               scope : File \cup {NoFile}]]
    /\ ActiveStatus \subseteq AssertionStatus \ {"stale"}
    /\ WorkStatus \subseteq ObligationStatus
    /\ DualWrites \subseteq BOOLEAN
    /\ Rebuilt \subseteq Session
    /\ MaxCites \in Nat
    /\ MaxTxn \in Nat

VARIABLES
    stored,        \* evidence rows present
    row,           \* row[e]: session and files (path, scope_ref) of evidence e
    claims,        \* assertion rows present
    claim,         \* claim[a]: obligation, scope and cited evidence of assertion a
    status,        \* status[a] of an assertion row
    obStatus,      \* obStatus[o]
    tickets,       \* live rows of invalidation_tickets
    txn,           \* number of committed tool calls
    repoDirty,     \* repo_state.dirty of each session
    indexed,       \* evidence with rows in path_subject_index
    scopeIndex,    \* scopeIndex[a]: the path under which assertion a is indexed
    links,         \* assertion_evidence_links, as pairs <<assertion, evidence>>
    frontier,      \* obligation_frontier row of each obligation
    touched,       \* history: <<e, n>>, call n changed a file evidence e is about
    synced         \* history: sessions with every row projected since a backfill

evidenceVars == <<stored, row>>
claimVars == <<claims, claim, status>>
projectionVars == <<indexed, scopeIndex, links, frontier>>
historyVars == <<touched, synced>>
vars == <<stored, row, claims, claim, status, obStatus, tickets, txn, repoDirty,
          indexed, scopeIndex, links, frontier, touched, synced>>

EvidenceRow == [session : Session, files : SUBSET File]
ClaimRow == [obligation : Obligation \cup {NoObligation},
             scope : File \cup {NoFile},
             cites : Seq(Evidence)]
FrontierRow == {"absent", "dirty", "clean"}
NoRow == [session |-> CHOOSE s \in Session : TRUE, files |-> {}]

(***************************************************************************)
(* A ticket's identity: its subject and the tool call that created it (a   *)
(* tool call creates at most one ticket per subject).                      *)
(***************************************************************************)
TicketKind == {"evidence", "assertion", "obligation"}
TicketId == TicketKind \X (Evidence \cup Assertion \cup Obligation) \X Nat
Ticket == [kind : TicketKind,
           subject : Evidence \cup Assertion \cup Obligation,
           txn : Nat,
           session : Session,
           cause : TicketId \cup {NoTicket}]

IdOf(t) == <<t.kind, t.subject, t.txn>>

(***************************************************************************)
(* A claim's evidence_ids as a set.                                        *)
(***************************************************************************)
Cited(a) == {claim[a].cites[i] : i \in DOMAIN claim[a].cites}

-----------------------------------------------------------------------------
(***************************************************************************)
(* What a tool call reports: the files its evidence row is about and the   *)
(* files it changed.  A Read is about one file and changes nothing; an     *)
(* Edit, Write or unrecognised tool with a file_path is about the file it  *)
(* changes; a Bash command or a Diff over several files changes files its  *)
(* evidence row does not name.                                             *)
(***************************************************************************)
ToolCall ==
    {[files |-> {f}, changed |-> {}] : f \in File} \cup
    {[files |-> {f}, changed |-> {f}] : f \in File} \cup
    {[files |-> {}, changed |-> F] : F \in SUBSET File}

(***************************************************************************)
(* The subjects one tool call invalidates: an effect.                      *)
(*                                                                         *)
(* ScanEffect is _apply_legacy: a scan of the session's rows.  It is given *)
(* the evidence table E, R because the hook has by then inserted its own   *)
(* evidence row.                                                           *)
(***************************************************************************)
ReopenedIfAllStale(s, A) ==    \* mutant: waits for the last claim in force
    {o \in Obligation : /\ SessionOf[o] = s
                        /\ obStatus[o] = "verified"
                        /\ \E a \in A : claim[a].obligation = o
                        /\ \A a \in claims \ A :
                             claim[a].obligation = o => status[a] = "stale"}

Reopened(s, A) ==
    {o \in Obligation : /\ SessionOf[o] = s
                        /\ obStatus[o] = "verified"
                        /\ \E a \in A : claim[a].obligation = o}

UnticketedEvidence(E, R, s, F) ==    \* mutant: one live ticket is enough
    {e \in E : /\ R[e].session = s /\ R[e].files \cap F # {}
               /\ \A t \in tickets : ~(t.kind = "evidence" /\ t.subject = e)}

ScanStaleEvidence(E, R, s, F) ==
    {e \in E : R[e].session = s /\ R[e].files \cap F # {}}

ScopedClaims(E, R, s, F) ==    \* mutant: the evidence a claim cites is ignored
    {a \in claims : SessionOf[a] = s /\ status[a] # "stale" /\ claim[a].scope \in F}

ScanStaleClaims(E, R, s, F) ==
    {a \in claims : /\ SessionOf[a] = s
                    /\ status[a] # "stale"
                    /\ \/ claim[a].scope \in F
                       \/ Cited(a) \cap ScanStaleEvidence(E, R, s, F) # {}}

ScanEffect(E, R, s, F) ==
    [evidence |-> ScanStaleEvidence(E, R, s, F),
     assertions |-> ScanStaleClaims(E, R, s, F),
     obligations |-> Reopened(s, ScanStaleClaims(E, R, s, F))]

(***************************************************************************)
(* IndexEffect is _apply_reverse_index: the same subjects, found through   *)
(* path_subject_index and assertion_evidence_links.  The link lookup has   *)
(* no session filter.                                                      *)
(***************************************************************************)
EvidenceOfAnySession(R, s, F) ==    \* mutant: the lookup forgets the session
    {e \in indexed : R[e].files \cap F # {}}

IndexStaleEvidence(R, s, F) ==
    {e \in indexed : R[e].session = s /\ R[e].files \cap F # {}}

IndexScopedClaims(R, s, F) ==    \* mutant: the links are not looked up
    {a \in claims : SessionOf[a] = s /\ status[a] # "stale" /\ scopeIndex[a] \in F}

IndexStaleClaims(R, s, F) ==
    {a \in claims : /\ status[a] # "stale"
                    /\ \/ SessionOf[a] = s /\ scopeIndex[a] \in F
                       \/ \E e \in IndexStaleEvidence(R, s, F) : <<a, e>> \in links}

IndexEffect(R, s, F) ==
    [evidence |-> IndexStaleEvidence(R, s, F),
     assertions |-> IndexStaleClaims(R, s, F),
     obligations |-> Reopened(s, IndexStaleClaims(R, s, F))]

EffectSize(x) ==
    Cardinality(x.evidence) + Cardinality(x.assertions) + Cardinality(x.obligations)

(***************************************************************************)
(* caused_by of an assertion ticket: the ticket of the first evidence id   *)
(* the claim cites that this call invalidated, if there is one.            *)
(***************************************************************************)
FirstStaleCite(a, E) ==
    CHOOSE i \in DOMAIN claim[a].cites :
        /\ claim[a].cites[i] \in E
        /\ \A j \in DOMAIN claim[a].cites : claim[a].cites[j] \in E => i <= j

ScopeAsCause(a, E, n) ==    \* mutant: trigger_ref in the place of caused_by
    IF Cited(a) \cap E # {}
    THEN <<"evidence", claim[a].cites[FirstStaleCite(a, E)], n>>
    ELSE claim[a].scope

CauseOfAssertion(a, E, n) ==
    IF Cited(a) \cap E # {}
    THEN <<"evidence", claim[a].cites[FirstStaleCite(a, E)], n>>
    ELSE NoTicket

(***************************************************************************)
(* caused_by of an obligation ticket: the ticket of the last claim under   *)
(* it, in creation order, that this call invalidated.                      *)
(***************************************************************************)
AnyStaleClaim(o, A) ==    \* mutant: the claim need not be under the obligation
    CHOOSE a \in A : \A b \in A : b <= a

LastStaleClaim(o, A) ==
    CHOOSE a \in A : /\ claim[a].obligation = o
                     /\ \A b \in A : claim[b].obligation = o => b <= a

EvidenceTickets(x, s, n) ==
    {[kind |-> "evidence", subject |-> e, txn |-> n, session |-> s,
      cause |-> NoTicket] : e \in x.evidence}

AssertionTickets(x, s, n) ==
    {[kind |-> "assertion", subject |-> a, txn |-> n, session |-> s,
      cause |-> CauseOfAssertion(a, x.evidence, n)] : a \in x.assertions}

ObligationTickets(x, s, n) ==
    {[kind |-> "obligation", subject |-> o, txn |-> n, session |-> s,
      cause |-> <<"assertion", LastStaleClaim(o, x.assertions), n>>]
        : o \in x.obligations}

NewTickets(x, s, n) ==
    EvidenceTickets(x, s, n) \cup AssertionTickets(x, s, n)
        \cup ObligationTickets(x, s, n)

-----------------------------------------------------------------------------
Init ==
    /\ stored = {}
    /\ row = [e \in Evidence |-> NoRow]
    /\ claims = {}
    /\ claim = [a \in Assertion |->
                  [obligation |-> NoObligation, scope |-> NoFile, cites |-> <<>>]]
    /\ status = [a \in Assertion |-> "speculative"]
    /\ obStatus = [o \in Obligation |-> "open"]
    /\ tickets = {}
    /\ txn = 0
    /\ repoDirty = [s \in Session |-> FALSE]
    /\ indexed = {}
    /\ scopeIndex = [a \in Assertion |-> NoFile]
    /\ links = {}
    /\ frontier = [o \in Obligation |-> "absent"]
    /\ touched = {}
    /\ synced = Session

(***************************************************************************)
(* Effects on the rows.                                                    *)
(***************************************************************************)
QuarantineByHalves(x, s) ==    \* mutant: the third axis is left to a later call
    /\ tickets' = tickets \cup NewTickets(x, s, txn + 1)
    /\ status' = [a \in Assertion |->
                    IF a \in x.assertions THEN "stale" ELSE status[a]]
    /\ UNCHANGED obStatus

Quarantine(x, s) ==
    /\ tickets' = tickets \cup NewTickets(x, s, txn + 1)
    /\ status' = [a \in Assertion |->
                    IF a \in x.assertions THEN "stale" ELSE status[a]]
    /\ obStatus' = [o \in Obligation |->
                      IF o \in x.obligations THEN "reopened" ELSE obStatus[o]]

MarkDirty(O) ==
    [o \in Obligation |->
        IF o \in O /\ frontier[o] # "absent" THEN "dirty" ELSE frontier[o]]

ObligationsUnder(A) == {claim[a].obligation : a \in A} \cap Obligation

Touched(s, E, R, F) ==
    {e \in E : R[e].session = s /\ R[e].files \cap F # {}} \X {txn + 1}

(***************************************************************************)
(* PostToolUseService.handle: the evidence row, the invalidation the       *)
(* configuration selects, then (with the reverse index on) the repo_state. *)
(* In shadow mode the reverse index runs first inside a savepoint that is  *)
(* rolled back, so both effects are computed from the same rows.           *)
(***************************************************************************)
Stored(s, e, call) ==
    /\ txn < MaxTxn
    /\ e \notin stored
    /\ stored' = stored \cup {e}
    /\ row' = [row EXCEPT ![e] = [session |-> s, files |-> call.files]]
    /\ txn' = txn + 1
    /\ synced' = IF call.files = {} THEN synced ELSE synced \ {s}

Reported(s, call, cfg) ==
    /\ repoDirty' = [repoDirty EXCEPT
                       ![s] = @ \/ (cfg.reverseIndex /\ call.changed # {})]
    /\ touched' = touched \cup Touched(s, stored', row', call.changed)

InvalidateByScan(s, e, call, cfg) ==
    /\ ~cfg.reverseIndex /\ (cfg.shadow => call.changed = {})
    /\ Stored(s, e, call)
    /\ Quarantine(ScanEffect(stored', row', s, call.changed), s)
    /\ Reported(s, call, cfg)
    /\ UNCHANGED <<claims, claim, projectionVars>>

InvalidateByIndex(s, e, call, cfg) ==
    /\ cfg.reverseIndex /\ (cfg.shadow => call.changed = {})
    /\ Stored(s, e, call)
    /\ Quarantine(IndexEffect(row', s, call.changed), s)
    /\ frontier' =
         MarkDirty(ObligationsUnder(IndexStaleClaims(row', s, call.changed)))
    /\ Reported(s, call, cfg)
    /\ UNCHANGED <<claims, claim, indexed, scopeIndex, links>>

(***************************************************************************)
(* Shadow mode: _diff compares the numbers of tickets and, when they       *)
(* differ, appends to a field ShadowInvalidationResult does not have.  The *)
(* AttributeError leaves handle before its commit: everything is rolled    *)
(* back.                                                                   *)
(***************************************************************************)
SameSize(s, e, call) ==
    LET R == [row EXCEPT ![e] = [session |-> s, files |-> call.files]]
    IN  EffectSize(ScanEffect(stored \cup {e}, R, s, call.changed))
          = EffectSize(IndexEffect(R, s, call.changed))

ShadowAgrees(s, e, call, cfg) ==
    /\ cfg.shadow /\ call.changed # {}
    /\ SameSize(s, e, call)
    /\ Stored(s, e, call)
    /\ Quarantine(ScanEffect(stored', row', s, call.changed), s)
    /\ Reported(s, call, cfg)
    /\ UNCHANGED <<claims, claim, projectionVars>>

ShadowDiffers(s, e, call, cfg) ==
    /\ cfg.shadow /\ call.changed # {}
    /\ txn < MaxTxn
    /\ e \notin stored
    /\ ~SameSize(s, e, call)
    /\ touched' = touched \cup Touched(s, stored, row, call.changed)
    /\ UNCHANGED <<evidenceVars, claimVars, obStatus, tickets, txn, repoDirty,
                   projectionVars, synced>>

PostToolUse(s, e, call, cfg) ==
    \/ InvalidateByScan(s, e, call, cfg)
    \/ InvalidateByIndex(s, e, call, cfg)
    \/ ShadowAgrees(s, e, call, cfg)
    \/ ShadowDiffers(s, e, call, cfg)

-----------------------------------------------------------------------------
(***************************************************************************)
(* The agent's writes, through the repositories (seed_db and the tests are *)
(* the callers in this repository).  Assumed of the agent: a claim cites   *)
(* evidence of its own session that exists, and stands under an obligation *)
(* of its own session; an obligation is marked verified only while no      *)
(* claim under it is stale.                                                *)
(***************************************************************************)
CiteLists(a) ==
    UNION {[1 .. k -> {e \in stored : row[e].session = SessionOf[a]}]
             : k \in 0 .. MaxCites}

LinksAdded(a, cites) ==    \* mutant: the links of the claim's last version stay
    links \cup {<<a, cites[i]>> : i \in DOMAIN cites}

Relinked(a, cites) ==
    {l \in links : l[1] # a} \cup {<<a, cites[i]>> : i \in DOMAIN cites}

UpsertClaim(a, shape, cites, st, dual) ==
    /\ shape.obligation # NoObligation => SessionOf[shape.obligation] = SessionOf[a]
    /\ claims' = claims \cup {a}
    /\ claim' = [claim EXCEPT ![a] = [obligation |-> shape.obligation,
                                      scope |-> shape.scope,
                                      cites |-> cites]]
    /\ status' = [status EXCEPT ![a] = st]
    /\ IF dual
       THEN /\ links' = Relinked(a, cites)
            /\ scopeIndex' = [scopeIndex EXCEPT ![a] = shape.scope]
            /\ frontier' = MarkDirty({shape.obligation})
            /\ UNCHANGED synced
       ELSE /\ synced' = synced \ {SessionOf[a]}
            /\ UNCHANGED <<links, scopeIndex, frontier>>
    /\ UNCHANGED <<evidenceVars, obStatus, tickets, txn, repoDirty, indexed, touched>>

MarkStatus(o, st) ==
    /\ st = "verified" =>
         \A a \in claims : claim[a].obligation = o => status[a] # "stale"
    /\ obStatus' = [obStatus EXCEPT ![o] = st]
    /\ UNCHANGED <<evidenceVars, claimVars, tickets, txn, repoDirty,
                   projectionVars, historyVars>>

(***************************************************************************)
(* VerifyResultsRecorder.record with a failing outcome (with a passing one *)
(* it changes no status).                                                  *)
(***************************************************************************)
RecordVerifyFailure(O) ==
    /\ obStatus' = [o \in Obligation |->
                      IF o \in O /\ obStatus[o] \in {"addressed", "localized"}
                      THEN "reopened" ELSE obStatus[o]]
    /\ UNCHANGED <<evidenceVars, claimVars, tickets, txn, repoDirty,
                   projectionVars, historyVars>>

(***************************************************************************)
(* rebuild_session_projections: the rows of the session's projections are  *)
(* deleted and inserted again from the canonical tables.                   *)
(***************************************************************************)
Backfill(s) ==
    /\ indexed' = {e \in indexed : row[e].session # s}
                    \cup {e \in stored : row[e].session = s}
    /\ scopeIndex' = [a \in Assertion |->
                        IF a \in claims /\ SessionOf[a] = s
                        THEN claim[a].scope ELSE scopeIndex[a]]
    /\ links' = {l \in links : SessionOf[l[1]] # s}
                  \cup {l \in claims \X stored :
                            SessionOf[l[1]] = s /\ l[2] \in Cited(l[1])}
    /\ frontier' = [o \in Obligation |->
                      IF SessionOf[o] = s THEN "dirty" ELSE frontier[o]]
    /\ synced' = synced \cup {s}
    /\ UNCHANGED <<evidenceVars, claimVars, obStatus, tickets, txn, repoDirty, touched>>

-----------------------------------------------------------------------------
Hook ==
    \E s \in Session, e \in Evidence, call \in ToolCall, cfg \in Configs :
        PostToolUse(s, e, call, cfg)

Agent ==
    \/ \E a \in Assertion, st \in ActiveStatus, dual \in DualWrites :
          \E shape \in ClaimShapes[a], cites \in CiteLists(a) : UpsertClaim(a, shape, cites, st, dual)
    \/ \E o \in Obligation, st \in WorkStatus : MarkStatus(o, st)
    \/ \E O \in SUBSET Obligation : RecordVerifyFailure(O)

Next == Hook \/ Agent \/ \E s \in Rebuilt : Backfill(s)

Spec == Init /\ [][Next]_vars

-----------------------------------------------------------------------------
(***************************************************************************)
(* Every variable holds what the schema's columns can hold.                *)
(***************************************************************************)
TypeOK ==
    /\ stored \subseteq Evidence
    /\ row \in [Evidence -> EvidenceRow]
    /\ claims \subseteq Assertion
    /\ claim \in [Assertion -> ClaimRow]
    /\ status \in [Assertion -> AssertionStatus]
    /\ obStatus \in [Obligation -> ObligationStatus]
    /\ tickets \subseteq Ticket
    /\ txn \in 0 .. MaxTxn
    /\ repoDirty \in [Session -> BOOLEAN]
    /\ indexed \subseteq Evidence
    /\ scopeIndex \in [Assertion -> File \cup {NoFile}]
    /\ links \subseteq Assertion \X Evidence
    /\ frontier \in [Obligation -> FrontierRow]
    /\ touched \subseteq Evidence \X Nat
    /\ synced \subseteq Session

(***************************************************************************)
(* The two functions of evaluate_assertion_support and its caller's        *)
(* arguments: what the store says of a claim.                              *)
(***************************************************************************)
HasLiveTicket(k, x) == \E t \in tickets : t.kind = k /\ t.subject = x

HasFreshEvidence(a) == \E e \in Cited(a) \cap stored : ~HasLiveTicket("evidence", e)

SupportOf(a) ==
    CASE \/ status[a] = "stale" \/ HasLiveTicket("assertion", a)
         \/ Cited(a) # {} /\ ~HasFreshEvidence(a)             -> "stale"
      [] OTHER ->
           IF claim[a].obligation # NoObligation /\ obStatus[claim[a].obligation] # "verified"
           THEN "blocked"
           ELSE IF HasFreshEvidence(a) /\ status[a] \in {"supported", "confirmed"}
                THEN "supported" ELSE "unsupported"

(***************************************************************************)
(* The lineage of every ticket is whole: the ticket named as its cause     *)
(* exists, is one axis up (evidence, assertion, obligation), belongs to    *)
(* the same session and the same tool call; an obligation is never         *)
(* reopened without a claim as the cause; and a ticket is in the session   *)
(* of its subject, where the gate looks for it.                            *)
(***************************************************************************)
CausedBy(t, k) ==
    \E u \in tickets : /\ IdOf(u) = t.cause
                       /\ u.kind = k
                       /\ u.txn = t.txn
                       /\ u.session = t.session

InOwnSession(t) ==
    t.session = IF t.kind = "evidence" THEN row[t.subject].session
                                       ELSE SessionOf[t.subject]

LineageSound ==
    \A t \in tickets :
        /\ InOwnSession(t)
        /\ t.kind = "evidence" => t.cause = NoTicket
        /\ t.kind = "assertion" => t.cause = NoTicket \/ CausedBy(t, "evidence")
        /\ t.kind = "obligation" => CausedBy(t, "assertion")

(***************************************************************************)
(* A cause explains its effect: a new assertion ticket is caused by        *)
(* evidence the claim cites whenever the same call invalidated any, and a  *)
(* new obligation ticket by a claim under it that this call made stale.    *)
(***************************************************************************)
ExplainsClaim(t, u) ==
    u.kind = "evidence" /\ u.subject \in Cited(t.subject) /\ IdOf(u) = t.cause

ExplainsWork(t, u) ==
    /\ u.kind = "assertion" /\ IdOf(u) = t.cause
    /\ claim[u.subject].obligation = t.subject
    /\ status[u.subject] # "stale" /\ status'[u.subject] = "stale"

NewTicketsAreExplained ==
    \A t \in tickets' \ tickets :
        /\ t.kind = "assertion" =>
             \/ \E u \in tickets' \ tickets : ExplainsClaim(t, u)
             \/ \A u \in tickets' \ tickets :
                  u.kind = "evidence" => u.subject \notin Cited(t.subject)
        /\ t.kind = "obligation" =>
             \E u \in tickets' \ tickets : ExplainsWork(t, u)

LineageExplains == [][NewTicketsAreExplained]_vars

(***************************************************************************)
(* Work that counts as verified rests on no claim that has gone stale:     *)
(* staleness reaches the third axis in the step that creates it.           *)
(***************************************************************************)
VerifiedRestsOnNothingStale ==
    \A a \in claims :
        /\ claim[a].obligation # NoObligation
        /\ obStatus[claim[a].obligation] = "verified"
        => status[a] # "stale"

(***************************************************************************)
(* Every time a tool call changes a file that stored evidence is about,    *)
(* the evidence gets a live ticket of that call.                           *)
(***************************************************************************)
EveryTouchIsTicketed ==
    \A p \in touched : \E t \in tickets : IdOf(t) = <<"evidence", p[1], p[2]>>

(***************************************************************************)
(* A claim the store reports as supported has evidence whose file has not  *)
(* changed since the evidence was taken.                                   *)
(***************************************************************************)
SupportedRestsOnUntouched ==
    \A a \in claims :
        SupportOf(a) = "supported" =>
            \E e \in Cited(a) : \A p \in touched : p[1] # e

(***************************************************************************)
(* A claim in force goes stale with the evidence it cites, in the same     *)
(* step, every time that evidence is touched.                              *)
(***************************************************************************)
ClaimsFall ==
    \A p \in touched' \ touched : \A a \in claims :
        p[1] \in Cited(a) => status'[a] = "stale"

ClaimsFallWithTheirEvidence == [][ClaimsFall]_vars

(***************************************************************************)
(* While a session's projections hold every row (backfilled, and only dual *)
(* writes since), the bounded lookups of the reverse index would           *)
(* invalidate exactly what the session-wide scan would, for any change.    *)
(***************************************************************************)
SameEffect(s) ==
    \A F \in SUBSET File : IndexEffect(row, s, F) = ScanEffect(stored, row, s, F)

ReverseIndexMatchesScan == \A s \in synced : SameEffect(s)

(***************************************************************************)
(* A projection that lags behind (never backfilled, or a hook has stored   *)
(* evidence since) makes the reverse index miss subjects, never invent     *)
(* one: what it invalidates, reopened work included, the scan would too.   *)
(***************************************************************************)
Within(x, y) ==
    /\ x.evidence \subseteq y.evidence
    /\ x.assertions \subseteq y.assertions
    /\ x.obligations \subseteq y.obligations

IndexNeverInvents ==
    \A s \in Session, F \in SUBSET File :
        Within(IndexEffect(row, s, F), ScanEffect(stored, row, s, F))

(***************************************************************************)
(* Whichever path it takes, a tool call that commits in a session whose    *)
(* projections hold every row, and is itself about no file, leaves nothing *)
(* it disturbs standing: what it touches gets a ticket of this call, and   *)
(* the claims that cite it are stale from then on.                         *)
(***************************************************************************)
Told(p) ==
    /\ \E t \in tickets' : IdOf(t) = <<"evidence", p[1], p[2]>>
    /\ \A a \in claims : p[1] \in Cited(a) => status'[a] = "stale"

SyncedTouchesAreTold ==
    [][txn' # txn =>
          \A p \in touched' \ touched :
              row'[p[1]].session \in synced \cap synced' => Told(p)]_vars

(***************************************************************************)
(* services/projections.py promises more: that the projections are in sync *)
(* with the canonical writes at all times.                                 *)
(***************************************************************************)
ProjectionsInSync == \A s \in Session : SameEffect(s)

-----------------------------------------------------------------------------
(***************************************************************************)
(* The store implements ClaimTrust.                                        *)
(***************************************************************************)
Trust == INSTANCE ClaimTrust WITH
    trusted <- {a \in claims : status[a] # "stale"},
    basis <- [a \in Assertion |->
                IF a \in claims THEN claim[a].obligation ELSE NoObligation],
    verified <- {o \in Obligation : obStatus[o] = "verified"}

TrustSpec == Trust!Spec

=============================================================================
