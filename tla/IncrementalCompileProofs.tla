----------------------- MODULE IncrementalCompileProofs -----------------------
(***************************************************************************)
(* Proofs about IncrementalCompile, for any claims, obligations, evidence, *)
(* failures and number of writers.                                         *)
(***************************************************************************)
EXTENDS IncrementalCompile, WellFoundedInduction, TLAPS

-----------------------------------------------------------------------------
(***************************************************************************)
(* What blocks are made of.                                                *)
(***************************************************************************)
LEMMA MinOfNaturals ==
    ASSUME NEW S \in SUBSET Nat, S # {}
    PROVE  Min(S) \in S
<1>1. PICK n \in S : \A m \in S : ~ (<<m, n>> \in OpToRel(<, Nat))
  BY NatLessThanWellFounded, WFMin, Zenon
<1>2. \A m \in S : n <= m
  <2>. SUFFICES ASSUME NEW m \in S, ~ (n <= m) PROVE FALSE
    OBVIOUS
  <2>1. <<m, n>> \in OpToRel(<, Nat)
    BY DEF OpToRel
  <2>. QED
    BY <1>1, <2>1
<1>. QED
  BY <1>2 DEF Min

LEMMA OldestIsEvidence ==
    ASSUME NEW r \in Rows, NEW c \in Claim, LiveEvidence(r, c) # {}
    PROVE  Min(LiveEvidence(r, c)) \in Evidence
<1>1. LiveEvidence(r, c) \subseteq Evidence
  BY DEF LiveEvidence, Rows
<1>2. LiveEvidence(r, c) \in SUBSET Nat
  BY <1>1, PoolsAssumption
<1>. QED
  BY <1>1, <1>2, MinOfNaturals

LEMMA BlockTyped ==
    ASSUME NEW r \in Rows, NEW o \in Obligation
    PROVE  Block(r, o) \in BlockType
<1>1. Positive(r, o) \in SUBSET (Claim \X Evidence)
  BY DEF Positive
<1>2. Negative(r, o) \in SUBSET (Claim \X Evidence)
  BY DEF Negative
<1>3. Uncertain(r, o) \in SUBSET (Claim \X (Evidence \cup {Nothing}))
  <2>. SUFFICES ASSUME NEW c \in Shown(r, o)
                PROVE  <<c, IF LiveEvidence(r, c) = {} THEN Nothing ELSE Min(LiveEvidence(r, c))>>
                          \in Claim \X (Evidence \cup {Nothing})
    BY DEF Uncertain
  <2>1. c \in Claim
    BY DEF Shown, Active, Given
  <2>. QED
    BY <2>1, OldestIsEvidence
<1>4. r.failed[o] \in Nat
  BY DEF Rows
<1>5. Unread(r, o) \in BOOLEAN
  BY DEF Unread
<1>6. Pools(r, o) \in Pool
  BY <1>1, <1>2, <1>3, <1>4, <1>5 DEF Pools, Pool
<1>7. NextCheck(r, o) \in Check
  BY DEF NextCheck, Check
<1>. QED
  BY <1>6, <1>7 DEF Block, BlockType

(***************************************************************************)
(* A block depends on the claims under its obligation, on which of the     *)
(* evidence the active ones cite is there and not withdrawn, on the        *)
(* tickets of these claims and its own, and on its failures: on nothing    *)
(* else.                                                                   *)
(***************************************************************************)
AlikeClaims(r, q, o) ==
    \A c \in Claim : r.under[c] = o \/ q.under[c] = o =>
        /\ r.under[c] = q.under[c]
        /\ r.status[c] = q.status[c]
        /\ r.cites[c] = q.cites[c]

AlikeEvidence(r, q, o) ==
    \A c \in Active(q, o) : \A e \in q.cites[c] : e \in r.stored <=> e \in q.stored

AlikeTickets(r, q, o) ==
    /\ o \in r.live.obligation <=> o \in q.live.obligation
    /\ \A c \in Given(q, o) : c \in r.live.assertion <=> c \in q.live.assertion
    /\ \A c \in Active(q, o) : \A e \in q.cites[c] :
          e \in r.live.evidence <=> e \in q.live.evidence

AlikeFamilies(r, q, o) == r.failed[o] = q.failed[o]

Alike(r, q, o) ==
    /\ AlikeClaims(r, q, o)
    /\ AlikeEvidence(r, q, o)
    /\ AlikeTickets(r, q, o)
    /\ AlikeFamilies(r, q, o)

LEMMA GivenAlike ==
    ASSUME NEW r, NEW q, NEW o, AlikeClaims(r, q, o)
    PROVE  Given(r, o) = Given(q, o) /\ Active(r, o) = Active(q, o)
<1>1. Given(r, o) = Given(q, o)
  BY DEF Given, AlikeClaims
<1>. QED
  BY <1>1 DEF Given, Active, AlikeClaims

LEMMA BlockOfAlike ==
    ASSUME NEW r, NEW q, NEW o, Alike(r, q, o)
    PROVE  Block(r, o) = Block(q, o)
<1>1. AlikeClaims(r, q, o)
  BY DEF Alike
<1>2. Given(r, o) = Given(q, o) /\ Active(r, o) = Active(q, o)
  BY <1>1, GivenAlike
<1>3. \A c \in Active(r, o) : /\ c \in Given(r, o) /\ c \in Claim
                              /\ r.status[c] = q.status[c] /\ r.cites[c] = q.cites[c]
  BY <1>1 DEF Active, Given, AlikeClaims
<1>4. \A c \in Active(r, o) : LiveEvidence(r, c) = LiveEvidence(q, c)
  <2>. TAKE c \in Active(r, o)
  <2>1. r.cites[c] = q.cites[c] /\ c \in Given(q, o) /\ c \in Active(q, o)
    BY <1>2, <1>3
  <2>2. \A e \in q.cites[c] : e \in r.stored <=> e \in q.stored
    BY <2>1 DEF Alike, AlikeEvidence
  <2>3. \A e \in q.cites[c] : e \in r.live.evidence <=> e \in q.live.evidence
    BY <2>1 DEF Alike, AlikeTickets
  <2>4. c \in r.live.assertion <=> c \in q.live.assertion
    BY <2>1 DEF Alike, AlikeTickets
  <2>. QED
    BY <2>1, <2>2, <2>3, <2>4 DEF LiveEvidence
<1>5. Shown(r, o) = Shown(q, o) /\ Shown(r, o) \subseteq Active(r, o)
  BY <1>2, <1>3 DEF Shown
<1>6. Positive(r, o) = Positive(q, o)
  BY <1>3, <1>4, <1>5 DEF Positive
<1>7. Negative(r, o) = Negative(q, o)
  BY <1>3, <1>4, <1>5 DEF Negative
<1>8. Uncertain(r, o) = Uncertain(q, o)
  <2>1. {d \in Shown(r, o) : r.status[d] = "speculative"} =
        {d \in Shown(q, o) : q.status[d] = "speculative"}
    BY <1>3, <1>5
  <2>2. \A c \in {d \in Shown(r, o) : r.status[d] = "speculative"} :
            LiveEvidence(r, c) = LiveEvidence(q, c)
    BY <1>4, <1>5
  <2>. QED
    BY <2>1, <2>2 DEF Uncertain
<1>9. Unread(r, o) = Unread(q, o)
  BY <1>4, <1>5 DEF Unread
<1>10. r.failed[o] = q.failed[o]
  BY DEF Alike, AlikeFamilies
<1>11. Pools(r, o) = Pools(q, o)
  BY <1>6, <1>7, <1>8, <1>9, <1>10 DEF Pools
<1>12. Unresolved(r, o) = Unresolved(q, o)
  <2>1. Given(r, o) \cap r.live.assertion = Given(q, o) \cap q.live.assertion
    BY <1>2 DEF Alike, AlikeTickets
  <2>. QED
    BY <2>1 DEF Unresolved, Alike, AlikeTickets
<1>13. NextCheck(r, o) = NextCheck(q, o)
  BY <1>8, <1>9, <1>10, <1>12 DEF NextCheck
<1>. QED
  BY <1>11, <1>13 DEF Block

(***************************************************************************)
(* Rows read earlier stay like the source while the source stays alike.    *)
(***************************************************************************)
LEMMA StaysAlike ==
    ASSUME NEW r, NEW q, NEW p, NEW o, Alike(q, p, o)
    PROVE  /\ AlikeClaims(r, q, o) => AlikeClaims(r, p, o)
           /\ AlikeEvidence(r, q, o) => AlikeEvidence(r, p, o)
           /\ AlikeTickets(r, q, o) => AlikeTickets(r, p, o)
           /\ AlikeFamilies(r, q, o) => AlikeFamilies(r, p, o)
<1>1. AlikeClaims(q, p, o)
  BY DEF Alike
<1>2. Given(q, o) = Given(p, o) /\ Active(q, o) = Active(p, o)
  BY <1>1, GivenAlike
<1>3. \A c \in Active(p, o) : q.cites[c] = p.cites[c]
  BY <1>1 DEF Active, Given, AlikeClaims
<1>4. AlikeClaims(r, q, o) => AlikeClaims(r, p, o)
  BY <1>1 DEF AlikeClaims
<1>5. AlikeEvidence(r, q, o) => AlikeEvidence(r, p, o)
  BY <1>2, <1>3 DEF AlikeEvidence, Alike
<1>6. AlikeTickets(r, q, o) => AlikeTickets(r, p, o)
  BY <1>2, <1>3 DEF AlikeTickets, Alike
<1>7. AlikeFamilies(r, q, o) => AlikeFamilies(r, p, o)
  BY DEF AlikeFamilies, Alike
<1>. QED
  BY <1>4, <1>5, <1>6, <1>7

LEMMA UnsupportedAlike ==
    ASSUME NEW r, NEW q, NEW o, AlikeClaims(r, q, o), NEW c \in Claim, q.under[c] = o
    PROVE  c \in Unsupported(r) <=> c \in Unsupported(q)
<1>1. r.under[c] = o /\ r.status[c] = q.status[c]
  BY DEF AlikeClaims
<1>2. \A d \in Claim : r.under[d] = o <=> q.under[d] = o
  BY DEF AlikeClaims
<1>3. \A d \in Claim : r.under[d] = o => r.status[d] = q.status[d]
  BY DEF AlikeClaims
<1>. QED
  BY <1>1, <1>2, <1>3 DEF Unsupported

-----------------------------------------------------------------------------
(***************************************************************************)
(* Type correctness.                                                       *)
(***************************************************************************)
CanonicalTyped ==
    /\ status \in [Claim -> Status \cup {"none"}]
    /\ under \in [Claim -> Obligation \cup {NoObligation}]
    /\ cites \in [Claim -> SUBSET Evidence]
    /\ stored \in SUBSET Evidence
    /\ live \in Tickets
    /\ failures \in [Obligation -> [Outcome -> Nat]]

LEMMA SumTyped ==
    ASSUME NEW f \in [Outcome -> Nat]
    PROVE  f["fail"] \in Nat /\ f["other"] \in Nat /\ f["fail"] + f["other"] \in Nat
<1>1. f["fail"] \in Nat /\ f["other"] \in Nat
  BY DEF Outcome
<1>. QED
  BY <1>1

LEMMA EverythingTyped ==
    ASSUME failures \in [Obligation -> [Outcome -> Nat]]
    PROVE  everything \in Rows <=> CanonicalTyped
<1>1. [o \in Obligation |-> failures[o]["fail"] + failures[o]["other"]] \in [Obligation -> Nat]
  BY SumTyped
<1>. QED
  BY <1>1 DEF everything, Rows, CanonicalTyped

LEMMA SliceTyped ==
    ASSUME CanonicalTyped
    PROVE  slice \in Rows
<1>1. [o \in Obligation |-> IF failures[o]["fail"] > Limit THEN Limit ELSE failures[o]["fail"]]
        \in [Obligation -> Nat]
  BY SumTyped, CompileAssumption DEF CanonicalTyped
<1>2. [c \in Claim |-> IF status[c] = "stale" THEN "none" ELSE status[c]]
        \in [Claim -> Status \cup {"none"}]
  BY DEF CanonicalTyped
<1>. QED
  BY <1>1, <1>2 DEF slice, everything, Rows, CanonicalTyped

LEMMA NothingReadTyped == NothingRead \in Read
<1>1. NoTicket \in Tickets
  BY DEF NoTicket, Tickets
<1>2. NothingRead.rows \in Rows
  BY <1>1 DEF NothingRead, Rows
<1>. QED
  BY <1>2 DEF NothingRead, Read

LEMMA NewRowTyped == NewRow \in Row
BY DEF NewRow, Row

LEMMA TypeInit == Init => TypeOK
<1>. SUFFICES ASSUME Init PROVE TypeOK
  OBVIOUS
<1>1. failures \in [Obligation -> [Outcome -> Nat]]
  BY DEF Init
<1>2. CanonicalTyped
  BY <1>1 DEF Init, CanonicalTyped, NoTicket, Tickets
<1>3. frontier \in [Obligation -> Row \cup {NoRow}]
  BY NewRowTyped DEF Init
<1>4. everything \in Rows
  BY <1>1, <1>2, EverythingTyped
<1>5. writes \in 0..MaxWrites
  BY CompileAssumption DEF Init
<1>6. obligation \in [Obligation -> {"open", "verified"}]
  BY DEF Init
<1>. QED
  BY <1>1, <1>3, <1>4, <1>5, <1>6, NothingReadTyped DEF Init, TypeOK

LEMMA MarkedTyped ==
    ASSUME TypeOK, NEW O
    PROVE  Marked(O) \in [Obligation -> Row \cup {NoRow}]
<1>1. \A o \in Obligation : frontier[o] # NoRow =>
          [frontier[o] EXCEPT !.dirty = TRUE] \in Row
  BY DEF TypeOK, Row
<1>. QED
  BY <1>1 DEF TypeOK, Marked

LEMMA CachedTyped ==
    ASSUME TypeOK, NEW B, NEW clean \in BOOLEAN
    PROVE  Cached(B, clean) \in [Obligation -> Row \cup {NoRow}]
<1>1. read.rows \in Rows
  BY DEF TypeOK, Read
<1>2. ASSUME NEW o \in Obligation, frontier[o] # NoRow
      PROVE  [dirty |-> frontier[o].dirty /\ ~clean, cache |-> Block(read.rows, o)] \in Row
  <2>1. frontier[o] \in Row
    BY <1>2 DEF TypeOK
  <2>2. (frontier[o].dirty /\ ~clean) \in BOOLEAN
    OBVIOUS
  <2>. QED
    BY <1>1, <2>2, BlockTyped DEF Row
<1>. QED
  BY <1>2 DEF TypeOK, Cached

(***************************************************************************)
(* A failure recorded leaves counts of families.                           *)
(***************************************************************************)
LEMMA RecordedTyped ==
    ASSUME NEW families \in [Outcome -> Nat], NEW k \in Outcome, NEW f \in Recorded(families, k)
    PROVE  f \in [Outcome -> Nat]
<1>1. PICK g \in {families} \cup {[families EXCEPT ![j] = @ - 1] :
                                     j \in {i \in Outcome : families[i] > 0}} :
          f = [g EXCEPT ![k] = @ + 1]
  BY DEF Recorded
<1>2. g \in [Outcome -> Nat]
  <2>1. CASE g = families
    BY <2>1
  <2>2. CASE g # families
    <3>1. PICK j \in Outcome : families[j] > 0 /\ g = [families EXCEPT ![j] = @ - 1]
      BY <1>1, <2>2
    <3>2. families[j] - 1 \in Nat
      BY <3>1
    <3>. QED
      BY <3>1, <3>2
  <2>. QED
    BY <2>1, <2>2
<1>3. g[k] + 1 \in Nat
  BY <1>2
<1>. QED
  BY <1>1, <1>2, <1>3

LEMMA HistoryTyped ==
    ASSUME TypeOK, NEW O \in SUBSET (Obligation \cup {NoObligation}), NEW M, Writes(O, M)
    PROVE  /\ missed' \in SUBSET Obligation
           /\ overtaken' \in SUBSET (Obligation \cup {NoObligation})
           /\ writes' \in 0..MaxWrites
           /\ UNCHANGED <<pc, read, writing>>
<1>1. writes' \in 0..MaxWrites
  BY CompileAssumption DEF Writes, MayWrite, TypeOK
<1>. QED
  BY <1>1 DEF Writes, TypeOK

LEMMA WriteTyped ==
    ASSUME TypeOK, Write
    PROVE  TypeOK'
<1>1. CanonicalTyped
  BY EverythingTyped DEF TypeOK
<1>. SUFFICES /\ CanonicalTyped'
              /\ obligation' \in [Obligation -> {"open", "verified"}]
              /\ frontier' \in [Obligation -> Row \cup {NoRow}]
              /\ missed' \in SUBSET Obligation
              /\ overtaken' \in SUBSET (Obligation \cup {NoObligation})
              /\ writes' \in 0..MaxWrites
              /\ UNCHANGED <<pc, read, writing>>
  <2>1. ASSUME CanonicalTyped' PROVE everything' \in Rows
    <3>1. [o \in Obligation |-> failures'[o]["fail"] + failures'[o]["other"]]
             \in [Obligation -> Nat]
      BY <2>1, SumTyped DEF CanonicalTyped
    <3>. QED
      BY <2>1, <3>1 DEF everything, Rows, CanonicalTyped
  <2>. QED
    BY <2>1 DEF TypeOK, CanonicalTyped
<1>2. CASE \E c \in Claim, w \in Upserts : UpsertAssertion(c, w)
  <2>1. PICK c \in Claim, w \in Upserts : UpsertAssertion(c, w)
    BY <1>2
  <2>2. /\ w.status \in Status /\ w.cites \in SUBSET Evidence
        /\ w.under \in Obligation \cup {NoObligation}
    BY CompileAssumption
  <2>3. CanonicalTyped'
    BY <1>1, <2>1, <2>2 DEF CanonicalTyped, UpsertAssertion
  <2>4. frontier' \in [Obligation -> Row \cup {NoRow}]
    BY <2>1, MarkedTyped DEF UpsertAssertion
  <2>5. {under[c], w.under} \in SUBSET (Obligation \cup {NoObligation})
    BY <1>1, <2>2 DEF CanonicalTyped
  <2>. QED
    BY <2>1, <2>3, <2>4, <2>5, HistoryTyped DEF TypeOK, UpsertAssertion
<1>3. CASE \E o \in Obligation, s \in {"open", "verified"} : UpsertObligation(o, s)
  <2>1. PICK o \in Obligation, s \in {"open", "verified"} : UpsertObligation(o, s)
    BY <1>3
  <2>2. frontier' \in [Obligation -> Row \cup {NoRow}]
    BY <2>1, MarkedTyped, NewRowTyped DEF UpsertObligation, TypeOK
  <2>3. CanonicalTyped'
    BY <1>1, <2>1 DEF CanonicalTyped, UpsertObligation
  <2>. QED
    BY <2>1, <2>2, <2>3, HistoryTyped DEF TypeOK, UpsertObligation
<1>4. CASE \E e \in Evidence : StoreEvidence(e)
  <2>1. PICK e \in Evidence : StoreEvidence(e)
    BY <1>4
  <2>. DEFINE above == {o \in Obligation : \E c \in Active(slice, o) : e \in cites[c]}
  <2>2. Writes(above, above) /\ UNCHANGED <<obligation, frontier>>
    BY <2>1 DEF StoreEvidence
  <2>3. CanonicalTyped'
    BY <1>1, <2>1 DEF CanonicalTyped, StoreEvidence
  <2>4. above \in SUBSET (Obligation \cup {NoObligation})
    OBVIOUS
  <2>. HIDE DEF above
  <2>. QED
    BY <2>2, <2>3, <2>4, HistoryTyped DEF TypeOK
<1>5. CASE \E o \in Obligation, k \in Outcome, projected \in BOOLEAN :
              RecordFailure(o, k, projected)
  <2>1. PICK o \in Obligation, k \in Outcome, projected \in BOOLEAN :
                RecordFailure(o, k, projected)
    BY <1>5
  <2>2. frontier' \in [Obligation -> Row \cup {NoRow}]
    BY <2>1, MarkedTyped DEF RecordFailure, TypeOK
  <2>3. PICK f \in Recorded(failures[o], k) : failures' = [failures EXCEPT ![o] = f]
    BY <2>1 DEF RecordFailure
  <2>4. f \in [Outcome -> Nat]
    BY <1>1, <2>3, RecordedTyped DEF CanonicalTyped
  <2>5. CanonicalTyped'
    BY <1>1, <2>1, <2>3, <2>4 DEF CanonicalTyped, RecordFailure
  <2>. QED
    BY <2>1, <2>2, <2>5, HistoryTyped DEF TypeOK, RecordFailure
<1>6. CASE \E E \in SUBSET Evidence, C \in SUBSET Claim, indexed \in BOOLEAN :
              Touch(E, C, indexed)
  <2>1. PICK E \in SUBSET Evidence, C \in SUBSET Claim, indexed \in BOOLEAN :
                Touch(E, C, indexed)
    BY <1>6
  <2>. DEFINE hit == Impacted(E, C)
              above == {under[c] : c \in hit} \cap Obligation
              reopened == above \ Open
  <2>2. /\ live' = [evidence |-> live.evidence \cup E,
                    assertion |-> live.assertion \cup hit,
                    obligation |-> live.obligation \cup reopened]
        /\ status' = [c \in Claim |-> IF c \in hit THEN "stale" ELSE status[c]]
        /\ obligation' = [o \in Obligation |-> IF o \in reopened THEN "open" ELSE obligation[o]]
        /\ frontier' = (IF indexed THEN Marked(above) ELSE frontier)
        /\ Writes(above \cup {NoObligation}, IF indexed THEN {} ELSE above)
        /\ UNCHANGED <<under, cites, stored, failures>>
    BY <2>1 DEF Touch
  <2>3. hit \subseteq Claim /\ above \subseteq Obligation /\ reopened \subseteq Obligation
    BY DEF Impacted
  <2>. HIDE DEF hit, above, reopened
  <2>4. frontier' \in [Obligation -> Row \cup {NoRow}]
    BY <2>2, MarkedTyped DEF TypeOK
  <2>5. CanonicalTyped'
    BY <1>1, <2>2, <2>3 DEF CanonicalTyped, Tickets, Status
  <2>6. obligation' \in [Obligation -> {"open", "verified"}]
    BY <2>2 DEF TypeOK
  <2>7. above \cup {NoObligation} \in SUBSET (Obligation \cup {NoObligation})
    BY <2>3
  <2>. QED
    BY <2>2, <2>4, <2>5, <2>6, <2>7, HistoryTyped
<1>7. CASE Backfill
  <2>1. frontier' \in [Obligation -> Row \cup {NoRow}]
    BY <1>7, NewRowTyped DEF Backfill
  <2>2. writes' \in 0..MaxWrites
    BY <1>7, CompileAssumption DEF Backfill, MayWrite, TypeOK
  <2>3. CanonicalTyped' /\ obligation' = obligation
    BY <1>1, <1>7 DEF Backfill, canonical, CanonicalTyped
  <2>. QED
    BY <1>7, <2>1, <2>2, <2>3 DEF TypeOK, Backfill
<1>. QED
  BY <1>2, <1>3, <1>4, <1>5, <1>6, <1>7 DEF Write

LEMMA CompileTyped ==
    ASSUME TypeOK, Compile \/ FallBack \/ CachingFails \/ End
    PROVE  TypeOK'
<1>1. (UNCHANGED canonical /\ UNCHANGED <<overtaken, writes>>) \/ End
  BY DEF Compile, ReadOpen, FindNoneOpen, ReadDirty, ReadFrontier, ReadAssertions, ReadEvidence,
     ReadTickets, ReadFamilies, CacheBlocks, ReadLive, Assemble, ReadOpenAgain, FullCompile,
     FallBack, CachingFails, Reads, HandOver, Caches, history
<1>2. UNCHANGED canonical
  BY <1>1 DEF End
<1>3. everything' = everything /\ obligation' = obligation /\ failures' = failures
  BY <1>2 DEF canonical, everything
<1>4. CanonicalTyped
  BY EverythingTyped DEF TypeOK
<1>5. /\ read \in Read /\ read.rows \in Rows
      /\ everything \in Rows /\ slice \in Rows /\ Source \in Rows
      /\ Open \subseteq Obligation
  BY <1>4, SliceTyped DEF TypeOK, Read, Source, Open
<1>6. /\ frontier' \in [Obligation -> Row \cup {NoRow}]
      /\ missed' \in SUBSET Obligation /\ writing' \in BOOLEAN
  <2>1. CASE CacheBlocks \/ CachingFails
    <3>1. PICK B \in SUBSET ToRebuild, clean \in BOOLEAN : Caches(B, clean)
      BY <2>1 DEF CacheBlocks, CachingFails
    <3>2. B \subseteq Obligation
      BY <1>5 DEF ToRebuild, Rebuild, Read
    <3>. QED
      BY <3>1, <3>2, CachedTyped DEF Caches, TypeOK
  <2>2. CASE ~(CacheBlocks \/ CachingFails)
    BY <2>2 DEF TypeOK, Compile, ReadOpen, FindNoneOpen, ReadDirty, ReadFrontier,
       ReadAssertions, ReadEvidence, ReadTickets, ReadFamilies, ReadLive, Assemble,
       ReadOpenAgain, FullCompile, FallBack, End, Reads, HandOver, history
  <2>. QED
    BY <2>1, <2>2
<1>7. read' \in Read
  <2>1. CASE ReadOpen
    BY <1>5, <2>1 DEF ReadOpen, Reads, Read
  <2>2. CASE ReadDirty
    BY <1>5, <2>2 DEF ReadDirty, Reads, Read
  <2>3. CASE ReadFrontier
    BY <1>5, <2>3, NothingReadTyped DEF ReadFrontier, Reads, Read, TypeOK
  <2>4. CASE ReadAssertions
    <3>1. [read.rows EXCEPT !.status = Source.status, !.under = under, !.cites = cites] \in Rows
      BY <1>4, <1>5 DEF Rows, CanonicalTyped
    <3>2. read' = [read EXCEPT !.rows = [read.rows EXCEPT !.status = Source.status,
                                                          !.under = under, !.cites = cites]]
      BY <1>5, <2>4 DEF ReadAssertions, Reads, Read, Rows
    <3>. QED
      BY <1>5, <3>1, <3>2 DEF Read
  <2>5. CASE ReadEvidence
    <3>1. [read.rows EXCEPT !.stored = stored] \in Rows
      BY <1>4, <1>5 DEF Rows, CanonicalTyped
    <3>. QED
      BY <1>5, <2>5, <3>1 DEF ReadEvidence, Reads, Read
  <2>6. CASE ReadTickets
    <3>1. [read.rows EXCEPT !.live = live] \in Rows
      BY <1>4, <1>5 DEF Rows, CanonicalTyped
    <3>. QED
      BY <1>5, <2>6, <3>1 DEF ReadTickets, Reads, Read
  <2>7. CASE ReadFamilies
    <3>1. [read.rows EXCEPT !.failed = Source.failed] \in Rows
      BY <1>5 DEF Rows
    <3>. QED
      BY <1>5, <2>7, <3>1 DEF ReadFamilies, Reads, Read
  <2>8. CASE ReadLive
    BY <1>4, <1>5, <2>8 DEF ReadLive, Reads, Read, CanonicalTyped, Tickets
  <2>9. CASE ReadOpenAgain
    BY <1>5, <2>9, NothingReadTyped DEF ReadOpenAgain, Reads, Read
  <2>10. CASE FindNoneOpen \/ Assemble \/ FullCompile \/ FallBack \/ CachingFails \/ End
    BY <2>10, NothingReadTyped DEF FindNoneOpen, Assemble, FullCompile, FallBack, CachingFails,
       End, Reads, HandOver
  <2>11. CASE CacheBlocks
    BY <1>5, <2>11 DEF CacheBlocks
  <2>. QED
    BY <2>1, <2>2, <2>3, <2>4, <2>5, <2>6, <2>7, <2>8, <2>9, <2>10, <2>11 DEF Compile
<1>8. pc' \in {"idle", "dirty", "frontier", "assertions", "evidence", "tickets", "families",
                "cache", "live", "unsupported", "full", "compile", "handover"}
  BY DEF TypeOK, Compile, ReadOpen, FindNoneOpen, ReadDirty, ReadFrontier, ReadAssertions,
     ReadEvidence, ReadTickets, ReadFamilies, CacheBlocks, ReadLive, Assemble, ReadOpenAgain,
     FullCompile, FallBack, CachingFails, End, Reads, HandOver
<1>9. /\ overtaken' \in SUBSET (Obligation \cup {NoObligation})
      /\ writes' \in 0..MaxWrites
  BY <1>1 DEF TypeOK, End
<1>. QED
  BY <1>3, <1>5, <1>6, <1>7, <1>8, <1>9 DEF TypeOK

LEMMA TypeStep == TypeOK /\ [Next]_vars => TypeOK'
<1>. SUFFICES ASSUME TypeOK, [Next]_vars PROVE TypeOK'
  OBVIOUS
<1>1. CASE Next
  BY <1>1, WriteTyped, CompileTyped DEF Next
<1>2. CASE UNCHANGED vars
  <2>1. everything' = everything
    BY <1>2 DEF vars, canonical, everything
  <2>. QED
    BY <1>2, <2>1 DEF vars, canonical, history, TypeOK
<1>. QED
  BY <1>1, <1>2

(***************************************************************************)
(* Every row of the frontier, cached block and half-done read is well      *)
(* formed, whatever fails and whoever writes in between.                   *)
(***************************************************************************)
THEOREM CompileTypeCorrect == Spec => []TypeOK
BY TypeInit, TypeStep, PTL DEF Spec

-----------------------------------------------------------------------------
(***************************************************************************)
(* What a compile knows of an obligation nobody has written to since it    *)
(* began.                                                                  *)
(***************************************************************************)
HasClaims ==
    pc \in IF read.full THEN {"tickets", "families", "compile"}
           ELSE {"evidence", "tickets", "families", "cache"}

HasEvidence ==
    pc \in IF read.full THEN {"assertions", "tickets", "families", "compile"}
           ELSE {"tickets", "families", "cache"}

RowsInv(o) ==
    /\ HasClaims => AlikeClaims(read.rows, Source, o)
    /\ HasEvidence => AlikeEvidence(read.rows, Source, o)
    /\ pc \in {"families", "cache", "compile"} => AlikeTickets(read.rows, Source, o)
    /\ pc \in {"cache", "compile"} => AlikeFamilies(read.rows, Source, o)

(***************************************************************************)
(* A row that became dirty after the dirty rows were read has no cache.    *)
(***************************************************************************)
DirtyInv(o) ==
    pc = "frontier" /\ o \notin read.dirty =>
        frontier[o] = NoRow \/ ~frontier[o].dirty \/ frontier[o].cache = NoCache

(***************************************************************************)
(* The blocks taken from the cache and those built are right, and so is    *)
(* what the audit will be told.                                            *)
(***************************************************************************)
HitInv(o) ==
    /\ ~read.full
    /\ pc \in {"assertions", "evidence", "tickets", "families", "cache", "live", "unsupported"}
    /\ o \in read.open \ (ToRebuild \cup missed)
    => read.frontier[o].cache = Block(slice, o)

BuiltInv(o) ==
    pc \in {"live", "unsupported"} /\ o \in ToRebuild => Block(read.rows, o) = Block(slice, o)

Withdrawn(E, o) ==
    \A c \in Active(slice, o) : \A e \in cites[c] : e \in E <=> e \in live.evidence

ReadInv(o) ==
    /\ pc \notin {"idle", "full", "handover"} => (o \in read.open <=> o \in Open)
    /\ RowsInv(o) /\ DirtyInv(o) /\ HitInv(o) /\ BuiltInv(o)
    /\ pc = "unsupported" => Withdrawn(read.stale, o)

CapsuleInv(o) ==
    capsule # NoCapsule =>
        /\ o \in capsule.open <=> o \in Open
        /\ o \in capsule.open =>
              /\ o \notin missed => capsule.blocks[o] \in {Block(slice, o), Block(everything, o)}
              /\ Withdrawn(capsule.stale, o)
              /\ \A c \in Claim : under[c] = o =>
                    (c \in capsule.unsupported <=> c \in Unsupported(everything))

ControlInv ==
    /\ pc = "idle" => read = NothingRead
    /\ pc \in {"dirty", "frontier", "cache", "live", "unsupported"} => ~read.full
    /\ pc = "compile" => read.full
    /\ pc # "handover" => capsule = NoCapsule
    /\ capsule # NoCapsule => capsule.open \subseteq Obligation

CompileInv ==
    /\ TypeOK /\ CacheHitIsValid /\ ControlInv
    /\ \A o \in Obligation \ overtaken : ReadInv(o) /\ CapsuleInv(o)

-----------------------------------------------------------------------------
(***************************************************************************)
(* A write spares an obligation if its claims, what they cite, the tickets *)
(* for them and its failures stay as they are.                             *)
(***************************************************************************)
Spared(o) ==
    /\ o \in Open' <=> o \in Open
    /\ \A c \in Claim : under[c] = o \/ under'[c] = o =>
          under'[c] = under[c] /\ status'[c] = status[c] /\ cites'[c] = cites[c]
    /\ \A c \in Active(everything, o) : \A e \in cites[c] :
          /\ e \in stored' <=> e \in stored
          /\ e \in live'.evidence <=> e \in live.evidence
    /\ \A c \in Given(everything, o) : c \in live'.assertion <=> c \in live.assertion
    /\ o \in live'.obligation <=> o \in live.obligation
    /\ failures'[o] = failures[o]

(***************************************************************************)
(* A writer spares every obligation but those it is known to overtake, and *)
(* of these it marks what it does not miss.                                *)
(***************************************************************************)
Disturbed(o) ==
    \/ /\ Spared(o)
       /\ \/ frontier'[o] = NewRow
          \/ frontier'[o] = frontier[o] /\ (o \in missed => o \in missed')
    \/ /\ pc # "idle" => o \in overtaken'
       /\ o \in missed' \/ frontier'[o] = NoRow \/ frontier'[o].dirty

Disturbs ==
    /\ UNCHANGED <<pc, read, writing, capsule>>
    /\ pc # "idle" => overtaken \subseteq overtaken' /\ missed \subseteq missed'
    /\ \A o \in Obligation : Disturbed(o)

LEMMA RowsOfSource ==
    /\ everything.status = status /\ everything.under = under /\ everything.cites = cites
    /\ everything.stored = stored /\ everything.live = live
    /\ slice.under = under /\ slice.cites = cites /\ slice.stored = stored /\ slice.live = live
    /\ \A c \in Claim : slice.status[c] = IF status[c] = "stale" THEN "none" ELSE status[c]
    /\ \A o \in Obligation :
          /\ slice.failed[o] = IF failures[o]["fail"] > Limit THEN Limit
                               ELSE failures[o]["fail"]
          /\ everything.failed[o] = failures[o]["fail"] + failures[o]["other"]
BY DEF everything, slice

LEMMA GivenOfSlice ==
    ASSUME NEW o
    PROVE  Given(slice, o) = Active(everything, o) /\ Active(slice, o) = Active(everything, o)
<1>1. \A c \in Claim : slice.status[c] = IF status[c] = "stale" THEN "none" ELSE status[c]
  BY RowsOfSource
<1>2. slice.under = under /\ everything.under = under /\ everything.status = status
  BY RowsOfSource
<1>3. \A c \in Claim : /\ slice.status[c] # "stale"
                       /\ slice.status[c] # "none" <=> status[c] \notin {"none", "stale"}
  BY <1>1
<1>. QED
  BY <1>2, <1>3 DEF Given, Active

LEMMA SparedAlike ==
    ASSUME NEW o \in Obligation, Spared(o)
    PROVE  /\ Alike(slice, slice', o) /\ Alike(everything, everything', o)
           /\ Given(everything, o)' = Given(everything, o)
           /\ Active(slice, o)' = Active(slice, o)
<1>1. /\ everything.status = status /\ everything.under = under /\ everything.cites = cites
      /\ everything.stored = stored /\ everything.live = live
      /\ slice.under = under /\ slice.cites = cites /\ slice.stored = stored
      /\ slice.live = live
      /\ \A c \in Claim : slice.status[c] = IF status[c] = "stale" THEN "none" ELSE status[c]
  BY RowsOfSource
<1>2. /\ everything'.status = status' /\ everything'.under = under'
      /\ everything'.cites = cites' /\ everything'.stored = stored' /\ everything'.live = live'
      /\ slice'.under = under' /\ slice'.cites = cites' /\ slice'.stored = stored'
      /\ slice'.live = live'
      /\ \A c \in Claim :
            slice'.status[c] = IF status'[c] = "stale" THEN "none" ELSE status'[c]
  BY DEF everything, slice
<1>3. \A c \in Claim : under[c] = o \/ under'[c] = o =>
          under'[c] = under[c] /\ status'[c] = status[c] /\ cites'[c] = cites[c]
  BY DEF Spared
<1>4. Given(everything', o) = Given(everything, o)
  BY <1>1, <1>2, <1>3 DEF Given
<1>5. Active(everything', o) = Active(everything, o)
  BY <1>1, <1>2, <1>3, <1>4 DEF Active, Given
<1>6. \A c \in Claim : /\ slice.status[c] # "stale" /\ slice'.status[c] # "stale"
                       /\ slice.status[c] # "none" <=> status[c] \notin {"none", "stale"}
                       /\ slice'.status[c] # "none" <=> status'[c] \notin {"none", "stale"}
  BY <1>1, <1>2
<1>7. Given(slice', o) = Active(everything', o) /\ Active(slice', o) = Active(everything', o)
  BY <1>2, <1>6 DEF Given, Active
<1>8. \A c \in Active(everything, o) : cites'[c] = cites[c] /\ c \in Given(everything, o)
  BY <1>1, <1>3 DEF Active, Given
<1>9. AlikeClaims(slice, slice', o) /\ AlikeClaims(everything, everything', o)
  BY <1>1, <1>2, <1>3 DEF AlikeClaims
<1>10. AlikeEvidence(slice, slice', o) /\ AlikeEvidence(everything, everything', o)
  BY <1>1, <1>2, <1>5, <1>7, <1>8 DEF AlikeEvidence, Spared
<1>11. AlikeTickets(everything, everything', o)
  BY <1>1, <1>2, <1>4, <1>5, <1>8 DEF AlikeTickets, Spared
<1>12. AlikeTickets(slice, slice', o)
  BY <1>1, <1>2, <1>5, <1>7, <1>8 DEF AlikeTickets, Spared
<1>13. AlikeFamilies(slice, slice', o) /\ AlikeFamilies(everything, everything', o)
  BY DEF AlikeFamilies, Spared, slice, everything
<1>14. Active(slice, o) = Active(everything, o)
  BY GivenOfSlice
<1>. QED
  BY <1>4, <1>5, <1>7, <1>9, <1>10, <1>11, <1>12, <1>13, <1>14 DEF Alike

LEMMA WriteDisturbs ==
    ASSUME TypeOK, Write
    PROVE  Disturbs
<1>. USE DEF Open
<1>1. CanonicalTyped
  BY EverythingTyped DEF TypeOK
<1>2. \A o, P : \A c \in Active(everything, o) : c \in Claim /\ c \in Given(everything, o)
                                            /\ under[c] = o /\ status[c] \notin {"none", "stale"}
  BY RowsOfSource DEF Active, Given
<1>3. ASSUME NEW O, NEW M, Writes(O, M)
      PROVE  /\ UNCHANGED <<pc, read, writing, capsule>>
             /\ pc # "idle" => overtaken' = overtaken \cup O /\ missed \subseteq missed'
             /\ \A o \in Obligation : o \in missed => o \in missed'
             /\ \A o \in Obligation \cap M : o \in missed'
  BY <1>3 DEF Writes
<1>4. ASSUME NEW O
      PROVE  \A o \in Obligation : /\ o \notin O => Marked(O)[o] = frontier[o]
                                   /\ o \in O => Marked(O)[o] = NoRow \/ Marked(O)[o].dirty
  BY DEF Marked, TypeOK, Row
<1>5. ASSUME NEW c \in Claim, NEW w \in Upserts, UpsertAssertion(c, w)
      PROVE  Disturbs
  <2>1. \A d \in Claim \ {c} : /\ under'[d] = under[d] /\ status'[d] = status[d]
                               /\ cites'[d] = cites[d]
    BY <1>1, <1>5 DEF UpsertAssertion, CanonicalTyped
  <2>2. under'[c] = w.under
    BY <1>1, <1>5 DEF UpsertAssertion, CanonicalTyped
  <2>3. \A o \in Obligation \ {under[c], w.under} : Spared(o)
    BY <1>5, <2>1, <2>2 DEF Spared, UpsertAssertion
  <2>. QED
    BY <1>3, <1>4, <1>5, <2>3 DEF Disturbs, Disturbed, UpsertAssertion
<1>6. ASSUME NEW o \in Obligation, NEW s \in {"open", "verified"}, UpsertObligation(o, s)
      PROVE  Disturbs
  <2>1. \A p \in Obligation \ {o} : Spared(p) /\ frontier'[p] = frontier[p]
    BY <1>4, <1>6 DEF Spared, UpsertObligation, TypeOK
  <2>2. frontier'[o] = NoRow \/ frontier'[o].dirty
    BY <1>4, <1>6 DEF UpsertObligation, TypeOK, NewRow
  <2>. QED
    BY <1>3, <1>6, <2>1, <2>2 DEF Disturbs, Disturbed, UpsertObligation
<1>7. ASSUME NEW e \in Evidence, StoreEvidence(e)
      PROVE  Disturbs
  <2>. DEFINE above == {o \in Obligation : \E c \in Active(slice, o) : e \in cites[c]}
  <2>1. /\ stored' = stored \cup {e} /\ Writes(above, above)
        /\ UNCHANGED <<obligation, status, under, cites, live, failures, frontier>>
    BY <1>7 DEF StoreEvidence
  <2>2. \A o \in Obligation \ above : \A c \in Active(everything, o) : e \notin cites[c]
    BY GivenOfSlice
  <2>. HIDE DEF above
  <2>3. \A o \in Obligation \ above : Spared(o)
    BY <2>1, <2>2 DEF Spared
  <2>4. Disturbs
    BY <1>3, <2>1, <2>3 DEF Disturbs, Disturbed
  <2>. QED
    BY <2>4
<1>8. ASSUME NEW o \in Obligation, NEW k \in Outcome, NEW projected \in BOOLEAN,
             RecordFailure(o, k, projected)
      PROVE  Disturbs
  <2>1. PICK f : failures' = [failures EXCEPT ![o] = f]
    BY <1>8 DEF RecordFailure
  <2>2. \A p \in Obligation \ {o} : failures'[p] = failures[p]
    BY <1>1, <2>1 DEF CanonicalTyped
  <2>3. /\ Writes({o}, IF projected THEN {} ELSE {o})
        /\ UNCHANGED <<obligation, status, under, cites, stored, live>>
        /\ frontier' = (IF projected THEN Marked({o}) ELSE frontier)
    BY <1>8 DEF RecordFailure
  <2>4. \A p \in Obligation \ {o} : Spared(p)
    BY <2>2, <2>3 DEF Spared
  <2>. QED
    BY <1>3, <1>4, <2>3, <2>4 DEF Disturbs, Disturbed
<1>9. ASSUME NEW E \in SUBSET Evidence, NEW C \in SUBSET Claim, NEW indexed \in BOOLEAN,
             Touch(E, C, indexed)
      PROVE  Disturbs
  <2>. DEFINE hit == Impacted(E, C)
              above == {under[c] : c \in hit} \cap Obligation
              reopened == above \ Open
  <2>1. /\ live' = [evidence |-> live.evidence \cup E,
                    assertion |-> live.assertion \cup hit,
                    obligation |-> live.obligation \cup reopened]
        /\ status' = [c \in Claim |-> IF c \in hit THEN "stale" ELSE status[c]]
        /\ obligation' = [o \in Obligation |-> IF o \in reopened THEN "open" ELSE obligation[o]]
        /\ frontier' = (IF indexed THEN Marked(above) ELSE frontier)
        /\ Writes(above \cup {NoObligation}, IF indexed THEN {} ELSE above)
        /\ UNCHANGED <<under, cites, stored, failures>>
    BY <1>9 DEF Touch
  <2>2. \A o \in Obligation \ above : \A c \in Claim : under[c] = o => c \notin hit
    OBVIOUS
  <2>3. \A o \in Obligation \ above : \A c \in Active(everything, o) : cites[c] \cap E = {}
    BY <1>2, <2>2 DEF Impacted
  <2>4. above \subseteq Obligation /\ reopened \subseteq above
    OBVIOUS
  <2>5. \A c \in Claim : c \notin hit => status'[c] = status[c]
    BY <2>1
  <2>6. \A o \in Obligation \ above : obligation'[o] = obligation[o]
    BY <2>1, <2>4 DEF TypeOK
  <2>. HIDE DEF hit, above, reopened
  <2>7. ASSUME NEW o \in Obligation \ above PROVE Spared(o)
    <3>1. o \in Open' <=> o \in Open
      BY <2>6
    <3>2. \A c \in Claim : under[c] = o => status'[c] = status[c]
      BY <2>2, <2>5
    <3>3. \A c \in Active(everything, o) : \A e \in cites[c] :
             e \in live'.evidence <=> e \in live.evidence
      BY <2>1, <2>3
    <3>4. \A c \in Given(everything, o) : c \in Claim /\ under[c] = o
      BY RowsOfSource DEF Given
    <3>5. \A c \in Given(everything, o) : c \in live'.assertion <=> c \in live.assertion
      BY <2>1, <2>2, <3>4
    <3>6. o \in live'.obligation <=> o \in live.obligation
      BY <2>1, <2>4
    <3>. QED
      BY <2>1, <3>1, <3>2, <3>3, <3>5, <3>6 DEF Spared
  <2>8. \A o \in Obligation : o \notin above => frontier'[o] = frontier[o]
    BY <1>4, <2>1
  <2>9. \A o \in Obligation \cap above :
           o \in missed' \/ frontier'[o] = NoRow \/ frontier'[o].dirty
    <3>1. CASE indexed
      BY <1>4, <2>1, <3>1
    <3>2. CASE ~indexed
      BY <1>3, <2>1, <3>2
    <3>. QED
      BY <3>1, <3>2
  <2>10. NoObligation \notin Obligation
    BY PoolsAssumption
  <2>. QED
    BY <1>3, <2>1, <2>7, <2>8, <2>9, <2>10 DEF Disturbs, Disturbed
<1>10. ASSUME Backfill PROVE Disturbs
  <2>1. \A o \in Obligation : Spared(o)
    BY <1>10 DEF Backfill, canonical, Spared
  <2>. QED
    BY <1>10, <2>1 DEF Backfill, Disturbs, Disturbed
<1>11. CASE \E c \in Claim, w \in Upserts : UpsertAssertion(c, w)
  <2>1. PICK c \in Claim, w \in Upserts : UpsertAssertion(c, w)
    BY <1>11
  <2>. QED
    BY <1>5, <2>1
<1>12. CASE \E o \in Obligation, s \in {"open", "verified"} : UpsertObligation(o, s)
  BY <1>6, <1>12
<1>13. CASE \E e \in Evidence : StoreEvidence(e)
  BY <1>7, <1>13
<1>14. CASE \E o \in Obligation, k \in Outcome, projected \in BOOLEAN :
               RecordFailure(o, k, projected)
  <2>1. PICK o \in Obligation, k \in Outcome, projected \in BOOLEAN :
                RecordFailure(o, k, projected)
    BY <1>14
  <2>. QED
    BY <1>8, <2>1
<1>15. CASE \E E \in SUBSET Evidence, C \in SUBSET Claim, indexed \in BOOLEAN :
               Touch(E, C, indexed)
  <2>1. PICK E \in SUBSET Evidence, C \in SUBSET Claim, indexed \in BOOLEAN :
                Touch(E, C, indexed)
    BY <1>15
  <2>. QED
    BY <1>9, <2>1
<1>. QED
  BY <1>10, <1>11, <1>12, <1>13, <1>14, <1>15 DEF Write

-----------------------------------------------------------------------------
LEMMA CompileInit == Init => CompileInv
<1>. SUFFICES ASSUME Init PROVE CompileInv
  OBVIOUS
<1>1. TypeOK
  BY TypeInit
<1>2. \A o \in Obligation : frontier[o] = NoRow \/ frontier[o].dirty
  BY DEF Init, NewRow
<1>3. CacheHitIsValid
  BY <1>2 DEF CacheHitIsValid
<1>4. ControlInv
  BY DEF ControlInv, Init
<1>5. \A o : ReadInv(o) /\ CapsuleInv(o)
  BY DEF ReadInv, CapsuleInv, Init, NothingRead, RowsInv, HasClaims, HasEvidence, DirtyInv,
     HitInv, BuiltInv
<1>. QED
  BY <1>1, <1>3, <1>4, <1>5 DEF CompileInv

(***************************************************************************)
(* What was read of an obligation stays right when a write spares it.      *)
(***************************************************************************)
LEMMA SparedKeeps ==
    ASSUME NEW o \in Obligation, Spared(o), CompileInv, Disturbs, pc # "idle",
           ReadInv(o), CapsuleInv(o),
           \/ frontier'[o] = NewRow
           \/ frontier'[o] = frontier[o]
    PROVE  ReadInv(o)' /\ CapsuleInv(o)'
<1>1. /\ UNCHANGED <<pc, read, writing, capsule>>
      /\ o \in Open' <=> o \in Open
      /\ missed \subseteq missed'
  BY DEF Disturbs, Spared
<1>2. /\ Alike(slice, slice', o) /\ Alike(everything, everything', o)
      /\ Given(everything, o)' = Given(everything, o)
      /\ Active(slice, o)' = Active(slice, o)
  BY SparedAlike
<1>3. Block(slice', o) = Block(slice, o) /\ Block(everything', o) = Block(everything, o)
  BY <1>2, BlockOfAlike
<1>4. Alike(Source, Source', o)
  BY <1>1, <1>2 DEF Source
<1>5. \A c \in Active(slice, o) : /\ cites'[c] = cites[c]
                                  /\ \A e \in cites[c] : e \in live'.evidence <=> e \in live.evidence
  <2>1. Active(slice, o) = Active(everything, o)
    BY GivenOfSlice
  <2>2. \A c \in Active(everything, o) : c \in Claim /\ under[c] = o
    BY RowsOfSource DEF Active, Given
  <2>. QED
    BY <2>1, <2>2 DEF Spared
<1>6. RowsInv(o)'
  <2>1. RowsInv(o)
    BY DEF ReadInv
  <2>2. HasClaims' = HasClaims /\ HasEvidence' = HasEvidence
    BY <1>1 DEF HasClaims, HasEvidence
  <2>3. /\ AlikeClaims(read.rows, Source, o) => AlikeClaims(read.rows, Source', o)
        /\ AlikeEvidence(read.rows, Source, o) => AlikeEvidence(read.rows, Source', o)
        /\ AlikeTickets(read.rows, Source, o) => AlikeTickets(read.rows, Source', o)
        /\ AlikeFamilies(read.rows, Source, o) => AlikeFamilies(read.rows, Source', o)
    BY <1>4, StaysAlike
  <2>. QED
    BY <1>1, <2>1, <2>2, <2>3 DEF RowsInv
<1>7. DirtyInv(o)'
  BY <1>1 DEF ReadInv, DirtyInv, NewRow
<1>8. HitInv(o)'
  BY <1>1, <1>3 DEF ReadInv, HitInv, ToRebuild
<1>9. BuiltInv(o)'
  BY <1>1, <1>3 DEF ReadInv, BuiltInv, ToRebuild
<1>10. ASSUME NEW E, Withdrawn(E, o) PROVE Withdrawn(E, o)'
  BY <1>2, <1>5, <1>10 DEF Withdrawn
<1>11. ReadInv(o)'
  BY <1>1, <1>6, <1>7, <1>8, <1>9, <1>10 DEF ReadInv
<1>12. \A c \in Claim : under'[c] = o =>
          (c \in Unsupported(everything') <=> c \in Unsupported(everything)) /\ under[c] = o
  <2>1. AlikeClaims(everything, everything', o) /\ everything'.under = under'
    BY <1>2 DEF Alike, everything
  <2>2. \A c \in Claim : under'[c] = o => under[c] = o
    BY DEF Spared
  <2>. QED
    BY <2>1, <2>2, UnsupportedAlike
<1>13. CapsuleInv(o)'
  BY <1>1, <1>3, <1>10, <1>12 DEF CapsuleInv
<1>. QED
  BY <1>11, <1>13

LEMMA WriteKeeps == CompileInv /\ Write => CompileInv'
<1>. SUFFICES ASSUME CompileInv, Write PROVE CompileInv'
  OBVIOUS
<1>1. TypeOK'
  BY WriteTyped DEF CompileInv
<1>2. Disturbs
  BY WriteDisturbs DEF CompileInv
<1>3. CacheHitIsValid'
  <2>. SUFFICES ASSUME NEW o \in Obligation \ missed', frontier'[o] # NoRow,
                       ~frontier'[o].dirty
                PROVE  frontier'[o].cache = NoCache \/ frontier'[o].cache = Block(slice', o)
    BY DEF CacheHitIsValid
  <2>1. /\ Spared(o)
        /\ \/ frontier'[o] = NewRow
           \/ frontier'[o] = frontier[o] /\ (o \in missed => o \in missed')
    BY <1>2 DEF Disturbs, Disturbed
  <2>2. frontier'[o] = frontier[o] /\ o \notin missed
    BY <2>1 DEF NewRow
  <2>3. Block(slice', o) = Block(slice, o)
    BY <2>1, SparedAlike, BlockOfAlike
  <2>. QED
    BY <2>2, <2>3 DEF CompileInv, CacheHitIsValid
<1>4. ControlInv'
  BY <1>2 DEF CompileInv, ControlInv, Disturbs
<1>5. ASSUME NEW o \in Obligation \ overtaken' PROVE ReadInv(o)' /\ CapsuleInv(o)'
  <2>1. CASE pc = "idle"
    <3>1. pc' = "idle" /\ read' = NothingRead /\ capsule' = NoCapsule
      BY <1>2, <2>1 DEF CompileInv, ControlInv, Disturbs
    <3>. QED
      BY <3>1 DEF ReadInv, CapsuleInv, NothingRead, RowsInv, HasClaims, HasEvidence, DirtyInv,
         HitInv, BuiltInv
  <2>2. CASE pc # "idle"
    <3>1. o \notin overtaken /\ Spared(o) /\ (frontier'[o] = NewRow \/ frontier'[o] = frontier[o])
      BY <1>2, <2>2 DEF Disturbs, Disturbed
    <3>2. ReadInv(o) /\ CapsuleInv(o)
      BY <3>1 DEF CompileInv
    <3>. QED
      BY <1>2, <2>2, <3>1, <3>2, SparedKeeps
  <2>. QED
    BY <2>1, <2>2
<1>. QED
  BY <1>1, <1>3, <1>4, <1>5 DEF CompileInv

(***************************************************************************)
(* Steps of the compile leave the rows as they are.                        *)
(***************************************************************************)
LEMMA RowsKept ==
    ASSUME UNCHANGED canonical
    PROVE  /\ slice' = slice /\ everything' = everything /\ Open' = Open
           /\ \A o : /\ Block(slice, o)' = Block(slice, o)
                     /\ Block(everything, o)' = Block(everything, o)
                     /\ Active(slice, o)' = Active(slice, o)
           /\ \A E, o : Withdrawn(E, o)' = Withdrawn(E, o)
           /\ Unsupported(everything)' = Unsupported(everything)
<1>1. slice' = slice /\ everything' = everything /\ Open' = Open
  BY DEF canonical, slice, everything, Open
<1>2. cites' = cites /\ live' = live
  BY DEF canonical
<1>3. \A o : Active(slice, o)' = Active(slice, o)
  BY <1>1
<1>. QED
  BY <1>1, <1>2, <1>3 DEF Withdrawn

LEMMA BuiltIsRight ==
    ASSUME CompileInv, pc = "cache", NEW o \in Obligation \ overtaken
    PROVE  Block(read.rows, o) = Block(slice, o)
<1>1. ~read.full /\ RowsInv(o)
  BY DEF CompileInv, ControlInv, ReadInv
<1>2. Alike(read.rows, slice, o)
  BY <1>1 DEF RowsInv, HasClaims, HasEvidence, Source, Alike
<1>. QED
  BY <1>2, BlockOfAlike

LEMMA CachesKeep ==
    ASSUME CompileInv, pc = "cache", NEW B, NEW clean \in BOOLEAN, Caches(B, clean)
    PROVE  CacheHitIsValid'
<1>. SUFFICES ASSUME NEW o \in Obligation \ missed', frontier'[o] # NoRow, ~frontier'[o].dirty
              PROVE  frontier'[o].cache = NoCache \/ frontier'[o].cache = Block(slice', o)
  BY DEF CacheHitIsValid
<1>1. slice' = slice
  BY RowsKept DEF Caches
<1>2. CASE o \in B
  <2>1. o \notin overtaken
    BY <1>2 DEF Caches
  <2>2. frontier'[o] = IF frontier[o] # NoRow
                       THEN [dirty |-> frontier[o].dirty /\ ~clean, cache |-> Block(read.rows, o)]
                       ELSE frontier[o]
    BY <1>2 DEF Caches, Cached
  <2>3. frontier'[o].cache = Block(read.rows, o)
    BY <2>2
  <2>. QED
    BY <1>1, <2>1, <2>3, BuiltIsRight
<1>3. CASE o \notin B
  <2>1. frontier'[o] = frontier[o] /\ o \notin missed
    BY <1>3 DEF Caches, Cached
  <2>. QED
    BY <1>1, <2>1 DEF CompileInv, CacheHitIsValid
<1>. QED
  BY <1>2, <1>3

LEMMA QuietCache ==
    ASSUME CacheHitIsValid, UNCHANGED canonical, UNCHANGED <<frontier, missed>>
    PROVE  CacheHitIsValid'
BY RowsKept DEF CacheHitIsValid

(***************************************************************************)
(* Nothing is known before the open obligations are read, and nothing of   *)
(* the reads is left once the capsule is handed over.                      *)
(***************************************************************************)
LEMMA NothingToKeep ==
    ASSUME pc' \in {"idle", "full", "handover"}, NEW o
    PROVE  ReadInv(o)'
BY DEF ReadInv, RowsInv, HasClaims, HasEvidence, DirtyInv, HitInv, BuiltInv

LEMMA NoCapsuleYet ==
    ASSUME capsule' = NoCapsule, NEW o
    PROVE  CapsuleInv(o)'
BY DEF CapsuleInv

(***************************************************************************)
(* The first reads: open obligations, dirty ones, the frontier.            *)
(***************************************************************************)
LEMMA FirstReadsKeep ==
    ASSUME CompileInv, ReadOpen \/ ReadDirty \/ ReadFrontier \/ ReadOpenAgain
    PROVE  CompileInv'
<1>1. /\ TypeOK' /\ UNCHANGED canonical
      /\ UNCHANGED <<frontier, writing, capsule, missed, overtaken>>
      /\ read \in Read
  BY CompileTyped DEF CompileInv, Compile, ReadOpen, ReadDirty, ReadFrontier, ReadOpenAgain,
     Reads, history, TypeOK
<1>2. CacheHitIsValid'
  BY <1>1, QuietCache DEF CompileInv
<1>3. slice' = slice /\ Open' = Open /\ \A o : Block(slice, o)' = Block(slice, o)
  BY <1>1, RowsKept
<1>4. capsule' = NoCapsule
  BY <1>1 DEF CompileInv, ControlInv, ReadOpen, ReadDirty, ReadFrontier, ReadOpenAgain
<1>5. CASE ReadOpen
  <2>1. pc' = "dirty" /\ ~read'.full /\ read'.open = Open
    BY <1>1, <1>5 DEF ReadOpen, Reads, CompileInv, ControlInv, NothingRead, Read
  <2>2. ControlInv'
    BY <1>4, <2>1 DEF ControlInv
  <2>3. ASSUME NEW o \in Obligation \ overtaken' PROVE ReadInv(o)'
    BY <1>3, <2>1 DEF ReadInv, RowsInv, HasClaims, HasEvidence, DirtyInv, HitInv, BuiltInv
  <2>. QED
    BY <1>1, <1>2, <1>4, <2>2, <2>3, NoCapsuleYet DEF CompileInv
<1>6. CASE ReadDirty
  <2>1. /\ pc = "dirty" /\ pc' = "frontier" /\ ~read'.full /\ read'.open = read.open
        /\ read'.dirty = {o \in Obligation : frontier[o] # NoRow /\ frontier[o].dirty}
    BY <1>1, <1>6 DEF ReadDirty, Reads, CompileInv, ControlInv, Read
  <2>2. ControlInv'
    BY <1>4, <2>1 DEF ControlInv
  <2>3. ASSUME NEW o \in Obligation \ overtaken' PROVE ReadInv(o)'
    <3>1. o \in read.open <=> o \in Open
      BY <1>1, <2>1 DEF CompileInv, ReadInv
    <3>2. DirtyInv(o)'
      BY <1>1, <2>1 DEF DirtyInv
    <3>. QED
      BY <1>3, <2>1, <3>1, <3>2 DEF ReadInv, RowsInv, HasClaims, HasEvidence, HitInv, BuiltInv
  <2>. QED
    BY <1>1, <1>2, <1>4, <2>2, <2>3, NoCapsuleYet DEF CompileInv
<1>7. CASE ReadFrontier /\ \E o \in read.open : frontier[o] = NoRow
  <2>1. pc' = "full"
    BY <1>7 DEF ReadFrontier, Reads
  <2>2. ControlInv'
    BY <1>4, <2>1 DEF ControlInv
  <2>. QED
    BY <1>1, <1>2, <1>4, <2>1, <2>2, NothingToKeep, NoCapsuleYet DEF CompileInv
<1>8. CASE ReadFrontier /\ \A o \in read.open : frontier[o] # NoRow
  <2>1. /\ pc = "frontier" /\ ~read.full
        /\ read' = [read EXCEPT !.frontier = frontier]
        /\ pc' = IF Rebuild(frontier, read.dirty, read.open) = {} THEN "live" ELSE "assertions"
    BY <1>8 DEF ReadFrontier, Reads, CompileInv, ControlInv
  <2>2. /\ ~read'.full /\ read'.open = read.open /\ read'.dirty = read.dirty
        /\ read'.frontier = frontier
        /\ ToRebuild' = Rebuild(frontier, read.dirty, read.open)
    BY <1>1, <2>1 DEF Read, ToRebuild
  <2>3. ControlInv'
    BY <1>4, <2>1, <2>2 DEF ControlInv
  <2>4. ASSUME NEW o \in Obligation \ overtaken' PROVE ReadInv(o)'
    <3>1. (o \in read.open <=> o \in Open) /\ DirtyInv(o)
      BY <1>1, <2>1, <2>4 DEF CompileInv, ReadInv
    <3>2. HitInv(o)'
      <4>. SUFFICES ASSUME o \in read.open, o \notin ToRebuild', o \notin missed
                    PROVE  frontier[o].cache = Block(slice, o)
        BY <1>1, <1>3, <2>2 DEF HitInv
      <4>1. o \notin read.dirty /\ frontier[o].cache # NoCache
        BY <2>2 DEF Rebuild
      <4>2. frontier[o] # NoRow /\ ~frontier[o].dirty
        BY <1>8, <2>1, <3>1, <4>1 DEF DirtyInv
      <4>. QED
        BY <4>1, <4>2 DEF CompileInv, CacheHitIsValid
    <3>3. BuiltInv(o)'
      BY <2>1, <2>2 DEF BuiltInv
    <3>. QED
      BY <1>3, <2>1, <2>2, <3>1, <3>2, <3>3 DEF ReadInv, RowsInv, HasClaims, HasEvidence, DirtyInv
  <2>. QED
    BY <1>1, <1>2, <1>4, <2>3, <2>4, NoCapsuleYet DEF CompileInv
<1>9. CASE ReadOpenAgain
  <2>1. pc' = "evidence" /\ read' = [NothingRead EXCEPT !.full = TRUE, !.open = Open]
    BY <1>9 DEF ReadOpenAgain, Reads
  <2>2. read'.full /\ read'.open = Open
    BY <2>1 DEF NothingRead
  <2>3. ControlInv'
    BY <1>4, <2>1 DEF ControlInv
  <2>4. ASSUME NEW o \in Obligation \ overtaken' PROVE ReadInv(o)'
    BY <1>3, <2>1, <2>2 DEF ReadInv, RowsInv, HasClaims, HasEvidence, DirtyInv, HitInv, BuiltInv
  <2>. QED
    BY <1>1, <1>2, <1>4, <2>3, <2>4, NoCapsuleYet DEF CompileInv
<1>. QED
  BY <1>5, <1>6, <1>7, <1>8, <1>9

(***************************************************************************)
(* The reads blocks are built from, in either order.                       *)
(***************************************************************************)
LEMMA RowReadsKeep ==
    ASSUME CompileInv, ReadAssertions \/ ReadEvidence \/ ReadTickets \/ ReadFamilies
    PROVE  CompileInv'
<1>1. /\ TypeOK' /\ UNCHANGED canonical
      /\ UNCHANGED <<frontier, writing, capsule, missed, overtaken>>
      /\ read \in Read /\ read.rows \in Rows
  BY CompileTyped DEF CompileInv, Compile, ReadAssertions, ReadEvidence, ReadTickets,
     ReadFamilies, Reads, history, TypeOK, Read
<1>2. CacheHitIsValid'
  BY <1>1, QuietCache DEF CompileInv
<1>3. slice' = slice /\ everything' = everything /\ Open' = Open
  BY <1>1, RowsKept
<1>4. capsule' = NoCapsule
  BY <1>1 DEF CompileInv, ControlInv, ReadAssertions, ReadEvidence, ReadTickets, ReadFamilies
<1>5. /\ read'.full = read.full /\ read'.open = read.open /\ read'.dirty = read.dirty
      /\ read'.frontier = read.frontier
  BY <1>1 DEF ReadAssertions, ReadEvidence, ReadTickets, ReadFamilies, Reads, Read
<1>6. ToRebuild' = ToRebuild /\ Source' = Source
  BY <1>3, <1>5 DEF ToRebuild, Source
<1>7. /\ Source.under = under /\ Source.cites = cites /\ Source.stored = stored
      /\ Source.live = live
  BY RowsOfSource DEF Source
<1>8. /\ pc \in {"assertions", "evidence", "tickets", "families"}
      /\ pc' = CASE pc = "assertions" -> IF read.full THEN "tickets" ELSE "evidence"
                 [] pc = "evidence" -> IF read.full THEN "assertions" ELSE "tickets"
                 [] pc = "tickets" -> "families"
                 [] pc = "families" -> IF read.full THEN "compile" ELSE "cache"
  BY DEF ReadAssertions, ReadEvidence, ReadTickets, ReadFamilies, Reads
<1>9. ControlInv'
  BY <1>4, <1>5, <1>8 DEF ControlInv
<1>10. ASSUME NEW o \in Obligation \ overtaken' PROVE RowsInv(o)'
  <2>1. RowsInv(o)
    BY <1>1, <1>10 DEF CompileInv, ReadInv
  <2>2. CASE ReadAssertions
    <3>1. /\ read'.rows.status = Source.status /\ read'.rows.under = under
          /\ read'.rows.cites = cites /\ read'.rows.stored = read.rows.stored
      BY <1>1, <2>2 DEF ReadAssertions, Reads, Read, Rows
    <3>2. AlikeClaims(read'.rows, Source, o)
      BY <1>7, <3>1 DEF AlikeClaims
    <3>3. HasEvidence' => HasEvidence
      BY <1>5, <1>8, <2>2 DEF HasEvidence, ReadAssertions
    <3>4. HasEvidence' => AlikeEvidence(read'.rows, Source, o)
      BY <2>1, <3>1, <3>3 DEF RowsInv, AlikeEvidence
    <3>5. pc' \in {"tickets", "evidence"}
      BY <1>8, <2>2 DEF ReadAssertions
    <3>. QED
      BY <1>6, <3>2, <3>4, <3>5 DEF RowsInv
  <2>3. CASE ReadEvidence
    <3>1. /\ read'.rows.status = read.rows.status /\ read'.rows.under = read.rows.under
          /\ read'.rows.cites = read.rows.cites /\ read'.rows.stored = stored
      BY <1>1, <2>3 DEF ReadEvidence, Reads, Read, Rows
    <3>2. AlikeEvidence(read'.rows, Source, o)
      BY <1>7, <3>1 DEF AlikeEvidence
    <3>3. HasClaims' => HasClaims
      BY <1>5, <1>8, <2>3 DEF HasClaims, ReadEvidence
    <3>4. HasClaims' => AlikeClaims(read'.rows, Source, o)
      BY <2>1, <3>1, <3>3 DEF RowsInv, AlikeClaims
    <3>5. pc' \in {"tickets", "assertions"}
      BY <1>8, <2>3 DEF ReadEvidence
    <3>. QED
      BY <1>6, <3>2, <3>4, <3>5 DEF RowsInv
  <2>4. CASE ReadTickets
    <3>1. /\ read'.rows.status = read.rows.status /\ read'.rows.under = read.rows.under
          /\ read'.rows.cites = read.rows.cites /\ read'.rows.stored = read.rows.stored
          /\ read'.rows.live = live
      BY <1>1, <2>4 DEF ReadTickets, Reads, Read, Rows
    <3>2. pc = "tickets" /\ pc' = "families"
      BY <1>8, <2>4 DEF ReadTickets
    <3>3. HasClaims /\ HasEvidence
      BY <3>2 DEF HasClaims, HasEvidence
    <3>4. /\ AlikeClaims(read'.rows, Source, o) /\ AlikeEvidence(read'.rows, Source, o)
          /\ AlikeTickets(read'.rows, Source, o)
      BY <1>7, <2>1, <3>1, <3>3 DEF RowsInv, AlikeClaims, AlikeEvidence, AlikeTickets
    <3>. QED
      BY <1>6, <3>2, <3>4 DEF RowsInv
  <2>5. CASE ReadFamilies
    <3>1. /\ read'.rows.status = read.rows.status /\ read'.rows.under = read.rows.under
          /\ read'.rows.cites = read.rows.cites /\ read'.rows.stored = read.rows.stored
          /\ read'.rows.live = read.rows.live /\ read'.rows.failed = Source.failed
      BY <1>1, <2>5 DEF ReadFamilies, Reads, Read, Rows
    <3>2. pc = "families" /\ HasClaims /\ HasEvidence
      BY <2>5 DEF ReadFamilies, HasClaims, HasEvidence
    <3>3. AlikeClaims(read'.rows, Source, o)
      BY <2>1, <3>1, <3>2 DEF RowsInv, AlikeClaims
    <3>4. AlikeEvidence(read'.rows, Source, o)
      BY <2>1, <3>1, <3>2 DEF RowsInv, AlikeEvidence
    <3>5. AlikeTickets(read'.rows, Source, o)
      BY <2>1, <3>1, <3>2 DEF RowsInv, AlikeTickets
    <3>6. AlikeFamilies(read'.rows, Source, o)
      BY <3>1 DEF AlikeFamilies
    <3>. QED
      BY <1>6, <3>3, <3>4, <3>5, <3>6 DEF RowsInv
  <2>. QED
    BY <2>2, <2>3, <2>4, <2>5
<1>11. ASSUME NEW o \in Obligation \ overtaken' PROVE ReadInv(o)'
  <2>1. ReadInv(o)
    BY <1>1, <1>11 DEF CompileInv
  <2>2. HitInv(o)'
    BY <1>1, <1>3, <1>5, <1>6, <1>8, <2>1 DEF ReadInv, HitInv
  <2>3. pc' \notin {"frontier", "live", "unsupported", "idle", "full", "handover"}
    BY <1>8
  <2>4. o \in read'.open <=> o \in Open'
    BY <1>3, <1>5, <1>8, <2>1 DEF ReadInv
  <2>. QED
    BY <1>10, <1>11, <2>2, <2>3, <2>4 DEF ReadInv, DirtyInv, BuiltInv
<1>. QED
  BY <1>1, <1>2, <1>4, <1>9, <1>11, NoCapsuleYet DEF CompileInv

(***************************************************************************)
(* Blocks are cached and the tickets read for the audit.                   *)
(***************************************************************************)
LEMMA CacheBlocksKeeps == CompileInv /\ CacheBlocks => CompileInv'
<1>. SUFFICES ASSUME CompileInv, CacheBlocks PROVE CompileInv'
  OBVIOUS
<1>1. /\ TypeOK' /\ UNCHANGED canonical /\ UNCHANGED <<read, capsule, overtaken>>
      /\ pc = "cache" /\ pc' = "live" /\ Caches(ToRebuild, TRUE)
      /\ missed' = (missed \ ToRebuild) \cup (ToRebuild \cap overtaken)
  BY CompileTyped DEF CompileInv, Compile, CacheBlocks, Caches
<1>2. CacheHitIsValid'
  BY <1>1, CachesKeep
<1>3. slice' = slice /\ Open' = Open /\ \A o : Block(slice, o)' = Block(slice, o)
  BY <1>1, RowsKept
<1>4. ToRebuild' = ToRebuild /\ ~read.full
  BY <1>1 DEF ToRebuild, CompileInv, ControlInv
<1>5. capsule' = NoCapsule
  BY <1>1 DEF CompileInv, ControlInv
<1>6. ControlInv'
  BY <1>1, <1>4, <1>5 DEF ControlInv
<1>7. ASSUME NEW o \in Obligation \ overtaken' PROVE ReadInv(o)'
  <2>1. ReadInv(o)
    BY <1>1, <1>7 DEF CompileInv
  <2>2. HitInv(o)'
    BY <1>1, <1>3, <1>4, <2>1 DEF ReadInv, HitInv
  <2>3. BuiltInv(o)'
    BY <1>1, <1>3, <1>7, BuiltIsRight DEF BuiltInv
  <2>4. o \in read'.open <=> o \in Open'
    BY <1>1, <1>3, <2>1 DEF ReadInv
  <2>. QED
    BY <1>1, <1>4, <2>2, <2>3, <2>4 DEF ReadInv, RowsInv, HasClaims, HasEvidence, DirtyInv
<1>. QED
  BY <1>1, <1>2, <1>5, <1>6, <1>7, NoCapsuleYet DEF CompileInv

LEMMA ReadLiveKeeps == CompileInv /\ ReadLive => CompileInv'
<1>. SUFFICES ASSUME CompileInv, ReadLive PROVE CompileInv'
  OBVIOUS
<1>1. /\ TypeOK' /\ UNCHANGED canonical /\ UNCHANGED <<frontier, missed, capsule, overtaken>>
      /\ pc = "live" /\ pc' = "unsupported" /\ read' = [read EXCEPT !.stale = live.evidence]
      /\ read \in Read
  BY CompileTyped DEF CompileInv, Compile, ReadLive, Reads, history, TypeOK
<1>2. CacheHitIsValid'
  BY <1>1, QuietCache DEF CompileInv
<1>3. /\ slice' = slice /\ Open' = Open /\ live' = live
      /\ \A o : Block(slice, o)' = Block(slice, o)
      /\ \A E, o : Withdrawn(E, o)' = Withdrawn(E, o)
  BY <1>1, RowsKept DEF canonical
<1>4. /\ read'.full = read.full /\ read'.open = read.open /\ read'.dirty = read.dirty
      /\ read'.frontier = read.frontier /\ read'.rows = read.rows /\ read'.stale = live.evidence
      /\ ToRebuild' = ToRebuild /\ ~read.full
  BY <1>1 DEF Read, ToRebuild, CompileInv, ControlInv
<1>5. capsule' = NoCapsule
  BY <1>1 DEF CompileInv, ControlInv
<1>6. ControlInv'
  BY <1>1, <1>4, <1>5 DEF ControlInv
<1>7. ASSUME NEW o \in Obligation \ overtaken' PROVE ReadInv(o)'
  <2>1. ReadInv(o)
    BY <1>1, <1>7 DEF CompileInv
  <2>2. HitInv(o)' /\ BuiltInv(o)'
    BY <1>1, <1>3, <1>4, <2>1 DEF ReadInv, HitInv, BuiltInv
  <2>3. o \in read'.open <=> o \in Open'
    BY <1>1, <1>3, <1>4, <2>1 DEF ReadInv
  <2>4. \A c \in Active(slice, o)' : \A e \in cites'[c] :
            e \in read'.stale <=> e \in live'.evidence
    BY <1>3, <1>4
  <2>. QED
    BY <1>1, <1>4, <2>2, <2>3, <2>4 DEF ReadInv, RowsInv, HasClaims, HasEvidence, DirtyInv,
       Withdrawn
<1>. QED
  BY <1>1, <1>2, <1>5, <1>6, <1>7, NoCapsuleYet DEF CompileInv

(***************************************************************************)
(* A capsule is handed over: empty, incremental or full.                   *)
(***************************************************************************)
LEMMA HandOverKeeps ==
    ASSUME CompileInv, NEW c, HandOver(c), FindNoneOpen \/ Assemble \/ FullCompile,
           c.open \subseteq Obligation,
           \A o \in Obligation \ overtaken :
              /\ o \in c.open <=> o \in Open
              /\ o \in c.open =>
                    /\ o \notin missed => c.blocks[o] \in {Block(slice, o), Block(everything, o)}
                    /\ Withdrawn(c.stale, o)
                    /\ \A d \in Claim : under[d] = o =>
                          (d \in c.unsupported <=> d \in Unsupported(everything))
    PROVE  CompileInv'
<1>1. /\ TypeOK' /\ UNCHANGED canonical /\ UNCHANGED <<frontier, missed, overtaken>>
      /\ pc' = "handover" /\ read' = NothingRead /\ capsule' = c
  BY CompileTyped DEF CompileInv, Compile, HandOver, history
<1>2. CacheHitIsValid'
  BY <1>1, QuietCache DEF CompileInv
<1>3. ControlInv'
  BY <1>1 DEF ControlInv
<1>4. ASSUME NEW o \in Obligation \ overtaken' PROVE CapsuleInv(o)'
  <2>1. /\ Open' = Open /\ Block(slice, o)' = Block(slice, o)
        /\ Block(everything, o)' = Block(everything, o)
        /\ Withdrawn(c.stale, o)' = Withdrawn(c.stale, o)
        /\ Unsupported(everything)' = Unsupported(everything) /\ under' = under
    BY <1>1, RowsKept DEF canonical
  <2>. QED
    BY <1>1, <1>4, <2>1 DEF CapsuleInv, Withdrawn
<1>. QED
  BY <1>1, <1>2, <1>3, <1>4, NothingToKeep DEF CompileInv

LEMMA FindNoneOpenKeeps == CompileInv /\ FindNoneOpen => CompileInv'
BY HandOverKeeps DEF FindNoneOpen, Empty

LEMMA AssembleKeeps == CompileInv /\ Assemble => CompileInv'
<1>. SUFFICES ASSUME CompileInv, Assemble PROVE CompileInv'
  OBVIOUS
<1>1. pc = "unsupported" /\ HandOver(Assembled) /\ ~read.full /\ read.open \subseteq Obligation
  BY DEF Assemble, CompileInv, ControlInv, TypeOK, Read
<1>2. ASSUME NEW o \in Obligation \ overtaken
      PROVE  /\ o \in Assembled.open <=> o \in Open
             /\ o \in Assembled.open =>
                   /\ o \notin missed => Assembled.blocks[o] = Block(slice, o)
                   /\ Withdrawn(Assembled.stale, o)
                   /\ Assembled.unsupported = Unsupported(everything)
  <2>1. ReadInv(o)
    BY <1>2 DEF CompileInv
  <2>2. (o \in read.open <=> o \in Open) /\ HitInv(o) /\ BuiltInv(o) /\ Withdrawn(read.stale, o)
    BY <1>1, <2>1 DEF ReadInv
  <2>3. /\ Assembled.open = read.open /\ Assembled.stale = read.stale
        /\ Assembled.unsupported = Unsupported(everything)
        /\ o \in read.open => Assembled.blocks[o] = IF o \in ToRebuild THEN Block(read.rows, o)
                                                    ELSE read.frontier[o].cache
    BY DEF Assembled
  <2>. QED
    BY <1>1, <2>2, <2>3 DEF HitInv, BuiltInv
<1>3. Assembled.open \subseteq Obligation
  BY <1>1 DEF Assembled
<1>. QED
  BY <1>1, <1>2, <1>3, HandOverKeeps

LEMMA FullCompileKeeps == CompileInv /\ FullCompile => CompileInv'
<1>. SUFFICES ASSUME CompileInv, FullCompile PROVE CompileInv'
  OBVIOUS
<1>. DEFINE c == Full(read.rows, read.open)
<1>1. pc = "compile" /\ HandOver(c) /\ read.full /\ read.open \subseteq Obligation
  BY DEF FullCompile, CompileInv, ControlInv, TypeOK, Read
<1>2. /\ c.open = read.open /\ c.stale = read.rows.live.evidence
      /\ c.unsupported = Unsupported(read.rows)
      /\ \A o \in read.open : c.blocks[o] = Block(read.rows, o)
  BY DEF Full
<1>. HIDE DEF c
<1>3. ASSUME NEW o \in Obligation \ overtaken
      PROVE  /\ o \in c.open <=> o \in Open
             /\ o \in c.open =>
                   /\ c.blocks[o] = Block(everything, o)
                   /\ Withdrawn(c.stale, o)
                   /\ \A d \in Claim : under[d] = o =>
                          (d \in c.unsupported <=> d \in Unsupported(everything))
  <2>1. ReadInv(o)
    BY <1>3 DEF CompileInv
  <2>2. o \in read.open <=> o \in Open
    BY <1>1, <2>1 DEF ReadInv
  <2>3. Alike(read.rows, everything, o)
    BY <1>1, <2>1 DEF ReadInv, RowsInv, HasClaims, HasEvidence, Source, Alike
  <2>4. Block(read.rows, o) = Block(everything, o)
    BY <2>3, BlockOfAlike
  <2>5. Withdrawn(read.rows.live.evidence, o)
    <3>1. Active(slice, o) = Active(everything, o)
      BY GivenOfSlice
    <3>2. everything.cites = cites /\ everything.live = live
      BY RowsOfSource
    <3>. QED
      BY <2>3, <3>1, <3>2 DEF Withdrawn, Alike, AlikeTickets
  <2>6. \A d \in Claim : under[d] = o =>
            (d \in Unsupported(read.rows) <=> d \in Unsupported(everything))
    <3>1. AlikeClaims(read.rows, everything, o) /\ everything.under = under
      BY <2>3, RowsOfSource DEF Alike
    <3>. QED
      BY <3>1, UnsupportedAlike
  <2>. QED
    BY <1>2, <2>2, <2>4, <2>5, <2>6
<1>. QED
  BY <1>1, <1>2, <1>3, HandOverKeeps

(***************************************************************************)
(* The compile falls back, replies or dies: what it knew is gone.          *)
(***************************************************************************)
LEMMA ForgettingKeeps == CompileInv /\ (FallBack \/ CachingFails \/ End) => CompileInv'
<1>. SUFFICES ASSUME CompileInv, FallBack \/ CachingFails \/ End PROVE CompileInv'
  OBVIOUS
<1>1. /\ TypeOK' /\ UNCHANGED canonical
      /\ pc' \in {"idle", "full"} /\ read' = NothingRead /\ capsule' = NoCapsule
  BY CompileTyped DEF CompileInv, ControlInv, FallBack, CachingFails, Caches, End, Reads
<1>2. CacheHitIsValid'
  <2>1. CASE CachingFails
    BY <2>1, CachesKeep DEF CachingFails
  <2>2. CASE FallBack \/ End
    BY <1>1, <2>2, QuietCache DEF FallBack, End, Reads, history, CompileInv
  <2>. QED
    BY <2>1, <2>2
<1>3. ControlInv'
  BY <1>1 DEF ControlInv
<1>. QED
  BY <1>1, <1>2, <1>3, NothingToKeep, NoCapsuleYet DEF CompileInv

LEMMA CompileStep == CompileInv /\ [Next]_vars => CompileInv'
<1>. SUFFICES ASSUME CompileInv, [Next]_vars PROVE CompileInv'
  OBVIOUS
<1>1. CASE UNCHANGED vars
  <2>1. UNCHANGED canonical /\ UNCHANGED <<frontier, pc, read, writing, capsule, missed, overtaken>>
    BY <1>1 DEF vars, history
  <2>2. slice' = slice /\ everything' = everything /\ Open' = Open /\ under' = under /\ TypeOK'
        /\ cites' = cites /\ live' = live
    BY <2>1, RowsKept, TypeStep DEF canonical, CompileInv
  <2>3. CacheHitIsValid' /\ ControlInv'
    BY <2>1, QuietCache DEF CompileInv, ControlInv
  <2>4. \A o : ReadInv(o)' = ReadInv(o)
    BY <2>1, <2>2 DEF ReadInv, RowsInv, HasClaims, HasEvidence, DirtyInv, HitInv, BuiltInv,
       Withdrawn, ToRebuild, Source
  <2>5. \A o : CapsuleInv(o)' = CapsuleInv(o)
    BY <2>1, <2>2 DEF CapsuleInv, Withdrawn
  <2>. QED
    BY <2>1, <2>2, <2>3, <2>4, <2>5 DEF CompileInv
<1>2. CASE Next
  BY <1>2, WriteKeeps, FirstReadsKeep, RowReadsKeep, CacheBlocksKeeps, ReadLiveKeeps,
     FindNoneOpenKeeps, AssembleKeeps, FullCompileKeeps, ForgettingKeeps DEF Next, Compile
<1>. QED
  BY <1>1, <1>2

LEMMA CompileInvariant == Spec => []CompileInv
BY CompileInit, CompileStep, PTL DEF Spec

-----------------------------------------------------------------------------
(***************************************************************************)
(* A cache hit is valid: a clean cached block of an obligation whose rows  *)
(* nobody wrote unmarked is the block a rebuild would give, with any       *)
(* number of writers between any two reads of any compile, fallen back,    *)
(* failed or killed.                                                       *)
(***************************************************************************)
THEOREM CacheStaysValid == Spec => []CacheHitIsValid
<1>1. CompileInv => CacheHitIsValid
  BY DEF CompileInv
<1>. QED
  BY <1>1, CompileInvariant, PTL

(***************************************************************************)
(* What the pools of a capsule say is in force.                            *)
(***************************************************************************)
LEMMA PoolsInForce ==
    ASSUME NEW o, NEW q, q = slice \/ q = everything,
           NEW p \in Positive(q, o) \cup Negative(q, o)
    PROVE  InForce(p, o)
<1>1. p[1] \in Shown(q, o) /\ p[2] \in LiveEvidence(q, p[1])
  BY DEF Positive, Negative
<1>2. p[1] \in Active(q, o)
  BY <1>1 DEF Shown
<1>3. Active(slice, o) = Active(everything, o)
  BY GivenOfSlice
<1>4. /\ q.under = under /\ q.cites = cites /\ q.stored = stored /\ q.live = live
      /\ everything.under = under /\ everything.status = status
  BY RowsOfSource
<1>5. status[p[1]] \notin {"none", "stale"} /\ under[p[1]] = o
  BY <1>2, <1>3, <1>4 DEF Active, Given
<1>. QED
  BY <1>1, <1>4, <1>5 DEF LiveEvidence, InForce

(***************************************************************************)
(* A capsule argues with nothing that is withdrawn, and leaves no open     *)
(* obligation out.                                                         *)
(***************************************************************************)
THEOREM CapsulesAreInForce == Spec => []ShownIsInForce
<1>1. CompileInv => ShownIsInForce
  <2>. SUFFICES ASSUME CompileInv, capsule # NoCapsule
                PROVE  /\ Open \ overtaken \subseteq capsule.open
                       /\ \A o \in capsule.open \ (missed \cup overtaken) :
                             \A p \in Argument(o) : InForce(p, o)
    BY DEF ShownIsInForce
  <2>1. capsule.open \subseteq Obligation /\ Open \subseteq Obligation
    BY DEF CompileInv, ControlInv, Open
  <2>2. \A o \in Obligation \ overtaken : CapsuleInv(o)
    BY DEF CompileInv
  <2>3. Open \ overtaken \subseteq capsule.open
    BY <2>1, <2>2 DEF CapsuleInv
  <2>4. ASSUME NEW o \in capsule.open \ (missed \cup overtaken), NEW p \in Argument(o)
        PROVE  InForce(p, o)
    <3>1. capsule.blocks[o] \in {Block(slice, o), Block(everything, o)}
      BY <2>1, <2>2, <2>4 DEF CapsuleInv
    <3>2. PICK q \in {slice, everything} : capsule.blocks[o] = Block(q, o)
      BY <3>1
    <3>3. p \in Positive(q, o) \cup Negative(q, o)
      BY <2>4, <3>2 DEF Argument, Block, Pools
    <3>. QED
      BY <3>2, <3>3, PoolsInForce
  <2>. QED
    BY <2>3, <2>4
<1>. QED
  BY <1>1, CompileInvariant, PTL

(***************************************************************************)
(* No confirmed claim is dropped in silence.                               *)
(***************************************************************************)
THEOREM ConfirmedAreAccountedFor == Spec => []ConfirmedIsAccountedFor
<1>1. CompileInv => ConfirmedIsAccountedFor
  <2>. SUFFICES ASSUME CompileInv, capsule # NoCapsule,
                       NEW o \in capsule.open \ (missed \cup overtaken), NEW c \in Claim,
                       under[c] = o, status[c] = "confirmed"
                PROVE  ShownFor(o, c) = IF c \in capsule.unsupported THEN {} ELSE PositiveFor(c)
    BY DEF ConfirmedIsAccountedFor
  <2>1. o \in Obligation /\ CapsuleInv(o)
    BY DEF CompileInv, ControlInv
  <2>2. /\ capsule.blocks[o] \in {Block(slice, o), Block(everything, o)}
        /\ c \in capsule.unsupported <=> c \in Unsupported(everything)
    BY <2>1 DEF CapsuleInv
  <2>3. PICK q \in {slice, everything} : capsule.blocks[o] = Block(q, o)
    BY <2>2
  <2>4. /\ q.under = under /\ q.cites = cites /\ q.stored = stored /\ q.live = live
        /\ everything.under = under /\ everything.status = status
        /\ everything.cites = cites /\ everything.stored = stored /\ everything.live = live
    BY RowsOfSource
  <2>5. Active(q, o) = Active(everything, o)
    BY GivenOfSlice
  <2>6. \A d \in Active(q, o) : q.status[d] = status[d]
    <3>1. \A d \in Active(everything, o) : d \in Claim /\ status[d] # "stale"
      BY <2>4 DEF Active, Given
    <3>2. \A d \in Claim : status[d] # "stale" => q.status[d] = status[d]
      BY <2>4, RowsOfSource
    <3>. QED
      BY <2>5, <3>1, <3>2
  <2>7. c \in Active(q, o)
    BY <2>4, <2>5 DEF Active, Given
  <2>8. c \in Shown(q, o) <=> c \notin Unsupported(everything)
    <3>1. o # NoObligation
      BY <2>1, PoolsAssumption
    <3>2. c \in Shown(q, o) <=> \E d \in Active(q, o) : status[d] = "supported"
      BY <2>6, <2>7 DEF Shown
    <3>3. \A d \in Claim : d \in Active(q, o) /\ status[d] = "supported" <=>
                           under[d] = o /\ status[d] = "supported"
      BY <2>4, <2>5 DEF Active, Given
    <3>4. Active(q, o) \subseteq Claim
      BY <2>4, <2>5 DEF Active, Given
    <3>5. c \in Shown(q, o) <=> \E d \in Claim : under[d] = o /\ status[d] = "supported"
      BY <3>2, <3>3, <3>4
    <3>6. c \in Unsupported(everything) <=>
             \A d \in Claim : under[d] = o => status[d] # "supported"
      BY <2>4, <3>1 DEF Unsupported
    <3>. QED
      BY <3>5, <3>6
  <2>9. LiveEvidence(q, c) = LiveEvidence(everything, c)
    BY <2>4 DEF LiveEvidence
  <2>10. ShownFor(o, c) = {e \in Evidence : <<c, e>> \in Positive(q, o)}
    BY <2>3 DEF ShownFor, Block, Pools
  <2>11. \A e \in Evidence : <<c, e>> \in Positive(q, o) <=>
             /\ c \in Shown(q, o) /\ e \in LiveEvidence(q, c) /\ Polarity[e] = "positive"
    BY <2>6, <2>7 DEF Positive
  <2>12. LiveEvidence(everything, c) \subseteq Evidence
    BY <2>4 DEF LiveEvidence, CompileInv, TypeOK, Rows
  <2>. QED
    BY <2>2, <2>8, <2>9, <2>10, <2>11, <2>12 DEF PositiveFor
<1>. QED
  BY <1>1, CompileInvariant, PTL

(***************************************************************************)
(* The audit passes no capsule with a claim that rests on evidence a live  *)
(* ticket withdraws, whichever compiler built it and whatever it was told  *)
(* by then.                                                                *)
(***************************************************************************)
THEOREM PassedRestOnNothingWithdrawn == Spec => []PassedRestsOnNothingWithdrawn
<1>1. CompileInv => PassedRestsOnNothingWithdrawn
  <2>. SUFFICES ASSUME CompileInv, capsule # NoCapsule, capsule.stale = {},
                       NEW o \in capsule.open \ overtaken, NEW c \in Active(slice, o),
                       NEW e \in cites[c], e \in live.evidence
                PROVE  FALSE
    BY DEF PassedRestsOnNothingWithdrawn, Passes
  <2>1. CapsuleInv(o)
    BY DEF CompileInv, ControlInv
  <2>. QED
    BY <2>1 DEF CapsuleInv, Withdrawn
<1>. QED
  BY <1>1, CompileInvariant, PTL
=============================================================================
