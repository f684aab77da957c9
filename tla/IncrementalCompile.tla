------------------------- MODULE IncrementalCompile -------------------------
(***************************************************************************)
(* The decision compiler of UserPromptSubmit, incremental or full, and its *)
(* cache of obligation blocks.                                             *)
(*                                                                         *)
(* obligation_frontier holds, per obligation, the block the last compile   *)
(* built and a dirty flag.  A compile rebuilds the dirty blocks and those  *)
(* never built, shows the others from the cache, and marks what it rebuilt *)
(* clean.  Who writes rows a block depends on is to mark the obligation    *)
(* dirty in the same transaction; not every writer does.                   *)
(*                                                                         *)
(* Every SELECT reads what is committed at that moment, until the compile  *)
(* writes: from then to its commit it holds SQLite's write lock.  (With a  *)
(* freshness baseline the hook has written before it compiles.  It then    *)
(* holds the lock all along, which is one of the behaviours here.)         *)
(***************************************************************************)
EXTENDS EvidencePools, FiniteSets

CONSTANTS
    Upserts,       \* what the agent may write into a claim: [status, under, cites]
    Limit,         \* failed families the incremental compiler reads: 5 in the code
    MaxFamilies,   \* bound: MaxFamilies[o], attempt families of o
    MaxWrites,     \* bound: writes of others in all
    MaxOvertaken,  \* bound: others write behind a compile that has been overtaken
                   \* in fewer obligations
    NoRow, NoCache, NoCapsule

Outcome == {"fail", "other"}

ASSUME CompileAssumption ==
    /\ Upserts \subseteq [status : Status \ {"stale"}, under : Obligation \cup {NoObligation},
                          cites : SUBSET Evidence]
    /\ Limit \in Nat /\ MaxFamilies \in [Obligation -> Nat]
    /\ MaxWrites \in Nat /\ MaxOvertaken \in Nat

VARIABLES
    obligation,   \* obligation[o]: "open" (any status but verified) or "verified"
    status, under, cites, stored, live,
    failures,     \* failures[o]: the attempt families of o, per last outcome
    frontier,     \* frontier[o]: the row of obligation_frontier
    pc,           \* the compile's next step
    read,         \* what the compile has read
    writing,      \* the compile has written, and so holds the write lock
    capsule,      \* the capsule compiled, until the hook has replied
    missed,       \* history: obligations with rows written and not marked since
                  \* their block was built
    overtaken,    \* history: obligations with rows written since the compile began
    writes        \* history: writes of others so far, for the bound

canonical == <<obligation, status, under, cites, stored, live, failures>>
history == <<missed, overtaken, writes>>
vars == <<canonical, frontier, pc, read, writing, capsule, history>>

Open == {o \in Obligation : obligation[o] = "open"}

(***************************************************************************)
(* The rows the full compiler reads, and the slice the incremental one     *)
(* does: active claims, and of the families that last said exactly 'fail'  *)
(* the Limit latest.  (The full one takes a family for failed if its count *)
(* is not zero, and none is.)                                              *)
(***************************************************************************)
everything ==
    [status |-> status, under |-> under, cites |-> cites, stored |-> stored, live |-> live,
     failed |-> [o \in Obligation |-> failures[o]["fail"] + failures[o]["other"]]]

slice ==
    [everything EXCEPT
        !.status = [c \in Claim |-> IF status[c] = "stale" THEN "none" ELSE status[c]],
        !.failed = [o \in Obligation |-> IF failures[o]["fail"] > Limit THEN Limit
                                          ELSE failures[o]["fail"]]]

Row == [dirty : BOOLEAN, cache : BlockType \cup {NoCache}]
Read == [full : BOOLEAN, open : SUBSET Obligation, dirty : SUBSET Obligation,
         frontier : [Obligation -> Row \cup {NoRow}], rows : Rows, stale : SUBSET Evidence]

Empty == [open |-> {}, blocks |-> [o \in {} |-> {}], stale |-> {}, staleClaims |-> {},
          unsupported |-> {}]

NoTicket == [evidence |-> {}, assertion |-> {}, obligation |-> {}]
NothingRead ==
    [full |-> FALSE, open |-> {}, dirty |-> {}, frontier |-> [o \in Obligation |-> NoRow],
     rows |-> [status |-> [c \in Claim |-> "none"], under |-> [c \in Claim |-> NoObligation],
               cites |-> [c \in Claim |-> {}], stored |-> {}, live |-> NoTicket,
               failed |-> [o \in Obligation |-> 0]],
     stale |-> {}]

NewRow == [dirty |-> TRUE, cache |-> NoCache]

(***************************************************************************)
(* There are obligations and maybe evidence, and no claim yet.  The        *)
(* obligations were written with their projections, or before there were   *)
(* any.                                                                    *)
(***************************************************************************)
Init ==
    /\ obligation = [o \in Obligation |-> "open"]
    /\ status = [c \in Claim |-> "none"]
    /\ under = [c \in Claim |-> NoObligation]
    /\ cites = [c \in Claim |-> {}]
    /\ stored \in SUBSET Evidence
    /\ live = NoTicket
    /\ failures = [o \in Obligation |-> [k \in Outcome |-> 0]]
    /\ frontier \in {[o \in Obligation |-> NoRow], [o \in Obligation |-> NewRow]}
    /\ pc = "idle" /\ read = NothingRead /\ writing = FALSE
    /\ capsule = NoCapsule
    /\ missed = {} /\ overtaken = {} /\ writes = 0

-----------------------------------------------------------------------------
(***************************************************************************)
(* The other writers.  Each is one transaction, and so waits while the     *)
(* compile holds the write lock.  It writes rows of the obligations O,     *)
(* NoObligation standing for the rows under none; the block of those in M  *)
(* it changes without marking it.                                          *)
(***************************************************************************)
MayWrite ==
    /\ ~writing
    /\ writes < MaxWrites /\ writes' = writes + 1
    /\ pc # "idle" => Cardinality(overtaken) < MaxOvertaken

Writes(O, M) ==
    /\ MayWrite
    /\ missed' = missed \cup (M \cap Obligation)
    /\ overtaken' = IF pc = "idle" THEN {} ELSE overtaken \cup O
    /\ UNCHANGED <<pc, read, writing, capsule>>

(***************************************************************************)
(* mark_obligation_frontier_dirty: only an existing row is marked.         *)
(***************************************************************************)
Marked(O) ==
    [o \in Obligation |-> IF o \in O /\ frontier[o] # NoRow
                          THEN [frontier[o] EXCEPT !.dirty = TRUE] ELSE frontier[o]]

(***************************************************************************)
(* A claim is upserted with its projections.  It may come under another    *)
(* obligation: then only that one is marked.                               *)
(***************************************************************************)
UpsertAssertion(c, w) ==
    /\ status' = [status EXCEPT ![c] = w.status]
    /\ under' = [under EXCEPT ![c] = w.under]
    /\ cites' = [cites EXCEPT ![c] = w.cites]
    /\ frontier' = Marked({w.under})
    /\ Writes({under[c], w.under}, {under[c]} \ {w.under})
    /\ UNCHANGED <<obligation, stored, live, failures>>

(***************************************************************************)
(* An obligation is upserted with its projections, with a new row if it    *)
(* has none.                                                               *)
(***************************************************************************)
UpsertObligation(o, s) ==
    /\ obligation' = [obligation EXCEPT ![o] = s]
    /\ frontier' = IF frontier[o] = NoRow THEN [frontier EXCEPT ![o] = NewRow]
                   ELSE Marked({o})
    /\ Writes({o}, {})
    /\ UNCHANGED <<status, under, cites, stored, live, failures>>

(***************************************************************************)
(* Evidence is stored, maybe after a claim that cites it: nothing is       *)
(* marked.                                                                 *)
(***************************************************************************)
StoreEvidence(e) ==
    LET above == {o \in Obligation : \E c \in Active(slice, o) : e \in cites[c]}
    IN  /\ e \notin stored
        /\ stored' = stored \cup {e}
        /\ Writes(above, above)
        /\ UNCHANGED <<obligation, status, under, cites, live, failures, frontier>>

(***************************************************************************)
(* A failed attempt is recorded in a new family or in one there is:        *)
(* by AttemptFamilyService.register_failure, which marks nothing, or with  *)
(* the family's projections.                                               *)
(***************************************************************************)
Recorded(families, k) ==
    {[f EXCEPT ![k] = @ + 1] :
        f \in {families} \cup {[families EXCEPT ![j] = @ - 1] :
                                  j \in {i \in Outcome : families[i] > 0}}}

RecordFailure(o, k, projected) ==
    /\ \E f \in Recorded(failures[o], k) :
          /\ f["fail"] + f["other"] <= MaxFamilies[o]
          /\ failures' = [failures EXCEPT ![o] = f]
    /\ frontier' = IF projected THEN Marked({o}) ELSE frontier
    /\ Writes({o}, IF projected THEN {} ELSE {o})
    /\ UNCHANGED <<obligation, status, under, cites, stored, live>>

(***************************************************************************)
(* A tool call touches the files the evidence E is about and the claims C  *)
(* are scoped to.  The reverse index, which is in step with the rows here, *)
(* marks the obligations of the claims that fall; the scan marks none.     *)
(***************************************************************************)
Impacted(E, C) ==
    {c \in Claim : /\ status[c] \notin {"none", "stale"}
                   /\ c \in C \/ cites[c] \cap E # {}}

TouchMarksReopened(E, C, indexed) ==    \* mutant: only the reopened obligations are marked
    LET hit == Impacted(E, C)
        above == {under[c] : c \in hit} \cap Obligation
        reopened == above \ Open
    IN  /\ E \subseteq stored
        /\ live' = [evidence |-> live.evidence \cup E,
                    assertion |-> live.assertion \cup hit,
                    obligation |-> live.obligation \cup reopened]
        /\ status' = [c \in Claim |-> IF c \in hit THEN "stale" ELSE status[c]]
        /\ obligation' = [o \in Obligation |-> IF o \in reopened THEN "open" ELSE obligation[o]]
        /\ frontier' = IF indexed THEN Marked(reopened) ELSE frontier
        /\ Writes(above \cup {NoObligation}, IF indexed THEN {} ELSE above)
        /\ UNCHANGED <<under, cites, stored, failures>>

Touch(E, C, indexed) ==
    LET hit == Impacted(E, C)
        above == {under[c] : c \in hit} \cap Obligation
        reopened == above \ Open
    IN  /\ E \subseteq stored
        /\ live' = [evidence |-> live.evidence \cup E,
                    assertion |-> live.assertion \cup hit,
                    obligation |-> live.obligation \cup reopened]
        /\ status' = [c \in Claim |-> IF c \in hit THEN "stale" ELSE status[c]]
        /\ obligation' = [o \in Obligation |-> IF o \in reopened THEN "open" ELSE obligation[o]]
        /\ frontier' = IF indexed THEN Marked(above) ELSE frontier
        /\ Writes(above \cup {NoObligation}, IF indexed THEN {} ELSE above)
        /\ UNCHANGED <<under, cites, stored, failures>>

(***************************************************************************)
(* rebuild_session_projections: every row anew, dirty and without a cache. *)
(* A compile under way keeps the blocks it has read.                       *)
(***************************************************************************)
Backfill ==
    /\ MayWrite
    /\ frontier' = [o \in Obligation |-> NewRow]
    /\ missed' = IF pc = "idle" THEN {} ELSE missed
    /\ UNCHANGED <<canonical, pc, read, writing, capsule, overtaken>>

-----------------------------------------------------------------------------
(***************************************************************************)
(* IncrementalDecisionCompiler._try_incremental, one SELECT at a time.     *)
(***************************************************************************)
Reads(r, next) ==
    /\ read' = r
    /\ pc' = next
    /\ UNCHANGED <<canonical, frontier, writing, capsule, history>>

HandOver(c) ==
    /\ capsule' = c
    /\ pc' = "handover" /\ read' = NothingRead
    /\ UNCHANGED <<canonical, frontier, writing, history>>

ReadOpen ==
    /\ pc = "idle" /\ Open # {}
    /\ Reads([read EXCEPT !.open = Open], "dirty")

(***************************************************************************)
(* With no open obligation the capsule is empty, its audit inputs too.     *)
(***************************************************************************)
FindNoneOpen == pc = "idle" /\ Open = {} /\ HandOver(Empty)

ReadDirty ==
    /\ pc = "dirty"
    /\ Reads([read EXCEPT !.dirty =
                  {o \in Obligation : frontier[o] # NoRow /\ frontier[o].dirty}], "frontier")

(***************************************************************************)
(* The blocks to rebuild: those dirty, and those without a cache.          *)
(***************************************************************************)
RebuildUncached(f, dirty, open) ==    \* mutant: the dirty flag is not looked at
    {o \in open : f[o].cache = NoCache}

Rebuild(f, dirty, open) == {o \in open : o \in dirty \/ f[o].cache = NoCache}

ReadFrontier ==
    /\ pc = "frontier"
    /\ IF \E o \in read.open : frontier[o] = NoRow THEN Reads(NothingRead, "full")
       ELSE Reads([read EXCEPT !.frontier = frontier],
                  IF Rebuild(frontier, read.dirty, read.open) = {} THEN "live"
                  ELSE "assertions")

(***************************************************************************)
(* materialize_for_obligations, or the reads of _full_compile, which takes *)
(* the evidence before the claims that cite it.                            *)
(***************************************************************************)
Source == IF read.full THEN everything ELSE slice

ReadAssertions ==
    /\ pc = "assertions"
    /\ Reads([read EXCEPT !.rows.status = Source.status, !.rows.under = under,
                          !.rows.cites = cites],
             IF read.full THEN "tickets" ELSE "evidence")

ReadEvidence ==
    /\ pc = "evidence"
    /\ Reads([read EXCEPT !.rows.stored = stored],
             IF read.full THEN "assertions" ELSE "tickets")

ReadTickets ==
    /\ pc = "tickets"
    /\ Reads([read EXCEPT !.rows.live = live], "families")

ReadFamilies ==
    /\ pc = "families"
    /\ Reads([read EXCEPT !.rows.failed = Source.failed],
             IF read.full THEN "compile" ELSE "cache")

(***************************************************************************)
(* The rebuilt blocks go to the cache and are marked clean.  An UPDATE     *)
(* changes no row that is not there.                                       *)
(***************************************************************************)
ToRebuild == Rebuild(read.frontier, read.dirty, read.open)

Cached(B, clean) ==
    [o \in Obligation |->
        IF o \in B /\ frontier[o] # NoRow
        THEN [dirty |-> frontier[o].dirty /\ ~clean, cache |-> Block(read.rows, o)]
        ELSE frontier[o]]

(***************************************************************************)
(* The blocks B are built anew: nothing is missed in them but what has     *)
(* been written since they were read.                                      *)
(***************************************************************************)
Caches(B, clean) ==
    /\ frontier' = Cached(B, clean)
    /\ missed' = (missed \ B) \cup (B \cap overtaken)
    /\ writing' = TRUE
    /\ UNCHANGED <<canonical, capsule, overtaken, writes>>

CacheBlocks ==
    /\ pc = "cache"
    /\ Caches(ToRebuild, TRUE)
    /\ pc' = "live" /\ UNCHANGED read

(***************************************************************************)
(* The tickets are read again for the audit, and the unsupported claims.   *)
(* The audit is told of the tickets for evidence only.                     *)
(***************************************************************************)
ReadLive ==
    /\ pc = "live"
    /\ Reads([read EXCEPT !.stale = live.evidence], "unsupported")

AssembledTickets ==    \* mutant: the audit is told of the materialized tickets
    [open |-> read.open,
     blocks |-> [o \in read.open |-> IF o \in ToRebuild THEN Block(read.rows, o)
                                     ELSE read.frontier[o].cache],
     stale |-> read.rows.live.evidence, staleClaims |-> {},
     unsupported |-> Unsupported(everything)]

Assembled ==
    [open |-> read.open,
     blocks |-> [o \in read.open |-> IF o \in ToRebuild THEN Block(read.rows, o)
                                     ELSE read.frontier[o].cache],
     stale |-> read.stale, staleClaims |-> {}, unsupported |-> Unsupported(everything)]

Assemble == pc = "unsupported" /\ HandOver(Assembled)

-----------------------------------------------------------------------------
(***************************************************************************)
(* The full compiler, for missing frontier rows and after an exception.    *)
(* The audit is told of the tickets for claims as well.                    *)
(***************************************************************************)
ReadOpenAgain ==
    /\ pc = "full"
    /\ Reads([NothingRead EXCEPT !.full = TRUE, !.open = Open], "evidence")

Full(r, open) ==
    [open |-> open, blocks |-> [o \in open |-> Block(r, o)],
     stale |-> r.live.evidence, staleClaims |-> r.live.assertion,
     unsupported |-> Unsupported(r)]

FullCompile == pc = "compile" /\ HandOver(Full(read.rows, read.open))

(***************************************************************************)
(* An exception while reading.  While the blocks are cached some of them   *)
(* may be and stay, not marked clean, in the transaction the full compile  *)
(* goes on with.  (Blocks are cached in the order they are shown; any set  *)
(* of them stands for the prefix done.)                                    *)
(***************************************************************************)
FallBack ==
    /\ ~read.full /\ pc \notin {"idle", "full", "handover"}
    /\ Reads(NothingRead, "full")

CachingFails ==
    /\ pc = "cache"
    /\ \E B \in SUBSET ToRebuild \ {{}} : Caches(B, FALSE)
    /\ pc' = "full" /\ read' = NothingRead

(***************************************************************************)
(* The hook commits and replies, also if the full compiler fails, or it    *)
(* dies before.  (If it dies with blocks cached the rows are again those   *)
(* of a death before: nobody else has written since.)                      *)
(***************************************************************************)
End ==
    /\ pc # "idle"
    /\ pc' = "idle" /\ read' = NothingRead /\ writing' = FALSE
    /\ capsule' = NoCapsule /\ overtaken' = {}
    /\ UNCHANGED <<canonical, frontier, missed, writes>>

-----------------------------------------------------------------------------
Write ==
    \/ \E c \in Claim, w \in Upserts : UpsertAssertion(c, w)
    \/ \E o \in Obligation, s \in {"open", "verified"} : UpsertObligation(o, s)
    \/ \E e \in Evidence : StoreEvidence(e)
    \/ \E o \in Obligation, k \in Outcome, projected \in BOOLEAN : RecordFailure(o, k, projected)
    \/ \E E \in SUBSET Evidence, C \in SUBSET Claim, indexed \in BOOLEAN : Touch(E, C, indexed)
    \/ Backfill

Compile ==
    \/ ReadOpen \/ FindNoneOpen \/ ReadDirty \/ ReadFrontier
    \/ ReadAssertions \/ ReadEvidence \/ ReadTickets \/ ReadFamilies
    \/ CacheBlocks \/ ReadLive \/ Assemble \/ ReadOpenAgain \/ FullCompile

Next == Write \/ Compile \/ FallBack \/ CachingFails \/ End

Spec == Init /\ [][Next]_vars

-----------------------------------------------------------------------------
(***************************************************************************)
(* Rows, cached blocks and what the compile has read have their types.     *)
(***************************************************************************)
TypeOK ==
    /\ obligation \in [Obligation -> {"open", "verified"}]
    /\ everything \in Rows
    /\ failures \in [Obligation -> [Outcome -> Nat]]
    /\ frontier \in [Obligation -> Row \cup {NoRow}]
    /\ pc \in {"idle", "dirty", "frontier", "assertions", "evidence", "tickets", "families",
               "cache", "live", "unsupported", "full", "compile", "handover"}
    /\ read \in Read
    /\ writing \in BOOLEAN
    /\ missed \in SUBSET Obligation
    /\ overtaken \in SUBSET (Obligation \cup {NoObligation})
    /\ writes \in 0..MaxWrites

(***************************************************************************)
(* A cached block that is not dirty is the block a rebuild would give now: *)
(* a cache hit is valid, however compiles and writers interleaved.  It is  *)
(* only of an obligation that a claim was moved away from, that has a      *)
(* claim whose evidence was stored after it, a failure recorded by         *)
(* register_failure or an invalidation found by the scan, or that was      *)
(* written to while the block was built, that a clean block may be wrong,  *)
(* and only until it is rebuilt.                                           *)
(***************************************************************************)
CacheHitIsValid ==
    \A o \in Obligation \ missed :
        frontier[o] # NoRow => \/ frontier[o].dirty
                               \/ frontier[o].cache = NoCache
                               \/ frontier[o].cache = Block(slice, o)

(***************************************************************************)
(* A capsule leaves no open obligation out, and argues with nothing the    *)
(* rows take back: no claim that is stale, gone or under another           *)
(* obligation, no evidence that is not there or that a live ticket         *)
(* withdraws, however old the cached block it comes from.  So it is for    *)
(* every obligation nobody wrote to since the compile began.               *)
(***************************************************************************)
Argument(o) == capsule.blocks[o].pools.positive \cup capsule.blocks[o].pools.negative

InForce(p, o) ==
    /\ status[p[1]] \notin {"none", "stale"} /\ under[p[1]] = o
    /\ p[2] \in (cites[p[1]] \cap stored) \ live.evidence
    /\ p[1] \notin live.assertion

ShownIsInForce ==
    capsule # NoCapsule =>
        /\ Open \ overtaken \subseteq capsule.open
        /\ \A o \in capsule.open \ (missed \cup overtaken) : \A p \in Argument(o) : InForce(p, o)

(***************************************************************************)
(* Nor does it drop a confirmed claim in silence: of a confirmed claim of  *)
(* such an obligation the pools show all the positive evidence left to it, *)
(* or the audit is told that nothing supports it and they show none.       *)
(***************************************************************************)
ShownFor(o, c) == {e \in Evidence : <<c, e>> \in capsule.blocks[o].pools.positive}

PositiveFor(c) == {e \in LiveEvidence(everything, c) : Polarity[e] = "positive"}

ConfirmedIsAccountedFor ==
    capsule # NoCapsule =>
        \A o \in capsule.open \ (missed \cup overtaken), c \in Claim :
            under[c] = o /\ status[c] = "confirmed" =>
                ShownFor(o, c) = IF c \in capsule.unsupported THEN {} ELSE PositiveFor(c)

(***************************************************************************)
(* The audit, which refuses a capsule for what it is told of.              *)
(***************************************************************************)
Passes(c) == c.stale = {} /\ c.staleClaims = {} /\ c.unsupported = {}

(***************************************************************************)
(* A capsule that passes the audit rests on nothing withdrawn: a claim     *)
(* made again on evidence a live ticket still withdraws is active and      *)
(* marks its block, which then is cached like any other, and the audit     *)
(* hears of the ticket all the same, from either compiler and however      *)
(* little of the capsule was rebuilt.                                      *)
(***************************************************************************)
PassedRestsOnNothingWithdrawn ==
    capsule # NoCapsule /\ Passes(capsule) =>
        \A o \in capsule.open \ overtaken : \A c \in Active(slice, o) :
            cites[c] \cap live.evidence = {}

(***************************************************************************)
(* "Incremental compile must match legacy compile on critical fields": a   *)
(* capsule that shows an obligation and was compiled while nobody wrote    *)
(* passes the audit only if the full compiler's would pass.                *)
(***************************************************************************)
PassesAsFullWould ==
    capsule # NoCapsule /\ capsule.open # {} /\ overtaken = {} /\ Passes(capsule) =>
        Passes(Full(everything, Open))
=============================================================================
