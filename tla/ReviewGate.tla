----------------------------- MODULE ReviewGate -----------------------------
(***************************************************************************)
(* The gate (core/gate.py): every dispatch is classified, reviewed for a   *)
(* bounded number of rounds and released or held by code, and leaves one   *)
(* row in the audit trail before its result reaches the caller.  An append *)
(* whose commit raises leaves its row in the open transaction of the       *)
(* process's connection: the process sees it, and its next commit, of      *)
(* another append or of the progress mirror, writes it.                    *)
(*                                                                         *)
(* A dispatch d is one call of review_and_dispatch.  Calls on different    *)
(* threads interleave at the two places where they wait: the reviewer's    *)
(* model call and the append to the shared audit store.  The code between  *)
(* two waits is one action.                                                *)
(*                                                                         *)
(* The reviewer call is one step here, either an answer or "unavailable"   *)
(* (GateCalls has its threads); so is the append (AuditStore has its       *)
(* transactions and locks).                                                *)
(***************************************************************************)
EXTENDS VerdictParsing, Tiering, Sequences

CONSTANTS
    Dispatch,     \* calls of review_and_dispatch
    RoundCap,     \* Gate(round_cap=...), before max(1, ...)
    HasCheap,     \* a cheap reviewer is configured for the trivial tier
    Workspace,    \* {the workspace directive}, or {} when not configured
    Coordination, \* {the coordination directive}, or {}
    Meta,         \* the metas callers pass
    Answer,       \* the completions reviewers produce
    Faults        \* {"store"}: append may raise; {"process"}: the agent may die

ASSUME GateAssumption ==
    /\ RoundCap \in Int
    /\ Base # {} /\ Meta # {}
    /\ HasCheap \in BOOLEAN
    /\ Workspace \subseteq Directive
    /\ Coordination \subseteq Directive
    /\ Meta \subseteq DispatchMeta
    /\ Answer \subseteq RawAnswer
    /\ Faults \subseteq {"store", "process"}

VARIABLES
    phase,        \* where the call is
    req,          \* [base, meta] it was made with
    round,        \* round_count: reviewer calls begun so far
    accumulated,  \* the directives kept from earlier rounds and the seeds
    said,         \* ghost: the reviewer's verdict of every round so far
    outcome,      \* the (record, result) pair that _finish built
    stamps,       \* the calls by the ts of their record, earliest first
    audit,        \* rows of the audit store as this process sees them, in the
                  \* order they were inserted
    committed     \* how many of them are in the file; the rest are in the
                  \* transaction that a raising commit left open

gateVars == <<phase, req, round, accumulated, said, outcome, stamps, audit, committed>>

-----------------------------------------------------------------------------
(* What the configuration makes of a request.                               *)

EffectiveCap == IF RoundCap > 1 THEN RoundCap ELSE 1

TierOf(d) == Classify(req[d].meta)
Trivial(d) == SkipsFrontierReview(TierOf(d))

\* The provider of the review loop, and its number of rounds.
ProviderOf(d) == IF Trivial(d) THEN "cheap" ELSE "frontier"
Rounds(d) == IF Trivial(d) THEN 1 ELSE EffectiveCap

MutantNoWorkspaceSeed(meta) ==
    IF ~meta.readOnly /\ meta.siblings >= 2 THEN Coordination ELSE {}

SeedDirectives(meta) ==
    (IF ~meta.readOnly THEN Workspace ELSE {})
        \cup (IF ~meta.readOnly /\ meta.siblings >= 2 THEN Coordination ELSE {})

Seeds(d) == SeedDirectives(req[d].meta)

-----------------------------------------------------------------------------
(* The terminal handlers: what _finish records of a call.                   *)
(*                                                                         *)
(* One record stands for the audit row and the DispatchResult; "released"  *)
(* is a field of the result only.                                          *)

Outcome ==
    [dispatch   : Dispatch,
     tier       : Tiers,
     verdict    : {"pass", "revise", "block", "unavailable"},
     decision   : {"dispatched", "dispatched_fallback", "blocked", "escalated"},
     rounds     : Nat,
     directives : SUBSET Directive,
     prompt     : {NoPrompt} \cup (Base \X SUBSET Directive),
     reviewer   : {"frontier", "cheap", "(skipped)", "self_named"},
     released   : BOOLEAN,
     failClosed : BOOLEAN,
     dissent    : BOOLEAN,
     escalated  : BOOLEAN,
     neckbeard  : BOOLEAN]

\* A held dispatch: blocked, or escalated to a human for the risky tiers.
Hold(d, verdict, directives, reviewer) ==
    [dispatch   |-> d,
     tier       |-> TierOf(d),
     verdict    |-> verdict,
     decision   |-> IF TierOf(d) \in ESCALATING_TIERS THEN "escalated" ELSE "blocked",
     rounds     |-> round[d],
     directives |-> directives,
     prompt     |-> NoPrompt,
     reviewer   |-> reviewer,
     released   |-> FALSE,
     failClosed |-> FALSE,
     dissent    |-> FALSE,
     escalated  |-> TierOf(d) \in ESCALATING_TIERS,
     neckbeard  |-> FALSE]

MutantFailClosedUnescalated(d, directives) ==
    [Hold(d, "unavailable", directives, "frontier")
        EXCEPT !.failClosed = TRUE, !.escalated = FALSE]

\* The row names the frontier reviewer, also when the cheap one was asked.
FailClosed(d, directives) ==
    [Hold(d, "unavailable", directives, "frontier") EXCEPT !.failClosed = TRUE]

\* reviewer_model: what the answer claims, or else the provider that was asked.
ReviewerNamed(d, raw) == IF raw.model = "" THEN ProviderOf(d) ELSE raw.model

HandleBlock(d, raw) ==
    [Hold(d, "block", accumulated[d], ReviewerNamed(d, raw))
        EXCEPT !.neckbeard = raw.protected]

Release(d, verdict, directives, reviewer, decision) ==
    [Hold(d, verdict, directives, reviewer) EXCEPT
        !.decision = decision,
        !.prompt = Assemble(req[d].base, directives),
        !.released = TRUE,
        !.escalated = FALSE]

HandleTrivial(d) ==
    IF ValidTighten(req[d].base, {})
    THEN Release(d, "pass", {}, "(skipped)", "dispatched")
    ELSE FailClosed(d, {})

MutantFallbackUnlogged(d, directives, raw) ==
    IF TierOf(d) \in ESCALATING_TIERS
    THEN Hold(d, "revise", directives, ReviewerNamed(d, raw))
    ELSE Release(d, "revise", directives, ReviewerNamed(d, raw), "dispatched_fallback")

\* Every round was a valid revise: escalate, or auto-accept with the dissent logged.
ExhaustionFallback(d, directives, raw) ==
    IF TierOf(d) \in ESCALATING_TIERS
    THEN [Hold(d, "revise", directives, ReviewerNamed(d, raw)) EXCEPT !.dissent = TRUE]
    ELSE IF ValidTighten(req[d].base, directives)
         THEN [Release(d, "revise", directives, ReviewerNamed(d, raw), "dispatched_fallback")
                  EXCEPT !.dissent = TRUE]
         ELSE FailClosed(d, directives)

-----------------------------------------------------------------------------

GateInit ==
    /\ phase = [d \in Dispatch |-> "idle"]
    /\ req \in [Dispatch -> [base : Base, meta : Meta]]
    /\ round = [d \in Dispatch |-> 0]
    /\ accumulated = [d \in Dispatch |-> {}]
    /\ said = [d \in Dispatch |-> <<>>]
    /\ outcome = [d \in Dispatch |-> FailClosed(d, {})]
    /\ stamps = <<>>
    /\ audit = <<>>
    /\ committed = 0

\* The caller invokes review_and_dispatch with req[d].
Submit(d) ==
    /\ phase[d] = "idle"
    /\ phase' = [phase EXCEPT ![d] = "called"]
    /\ UNCHANGED <<req, round, accumulated, said, outcome, stamps, audit, committed>>

\* The call has its outcome, takes the time and goes on to append the record.
Conclude(d, o) ==
    /\ outcome' = [outcome EXCEPT ![d] = o]
    /\ stamps' = Append(stamps, d)
    /\ phase' = [phase EXCEPT ![d] = "writing"]
    /\ UNCHANGED <<req, audit, committed>>

SkipReview(d) ==
    /\ phase[d] = "called"
    /\ Trivial(d) /\ ~HasCheap
    /\ Conclude(d, HandleTrivial(d))
    /\ UNCHANGED <<round, accumulated, said>>

StartReview(d) ==
    /\ phase[d] = "called"
    /\ ~Trivial(d) \/ HasCheap
    /\ phase' = [phase EXCEPT ![d] = "reviewing"]
    /\ round' = [round EXCEPT ![d] = 1]
    /\ accumulated' = [accumulated EXCEPT ![d] = Seeds(d)]
    /\ UNCHANGED <<req, said, outcome, stamps, audit, committed>>

\* call_reviewer raises ReviewerUnavailable: error, timeout, quota, empty answer.
ReviewerUnavailable(d) ==
    /\ phase[d] = "reviewing"
    /\ Conclude(d, FailClosed(d, accumulated[d]))
    /\ UNCHANGED <<round, accumulated, said>>

Unparseable(d, raw) ==
    /\ phase[d] = "reviewing"
    /\ ParseError(raw)
    /\ Conclude(d, FailClosed(d, accumulated[d]))
    /\ UNCHANGED <<round, accumulated, said>>

\* The exception is no VerdictParseError: it leaves the gate, and no row is written.
ParserRaises(d, raw) ==
    /\ phase[d] = "reviewing"
    /\ ParseCrashes(raw)
    /\ phase' = [phase EXCEPT ![d] = "raised"]
    /\ UNCHANGED <<req, round, accumulated, said, outcome, stamps, audit, committed>>

\* The reviewer's verdict of this round is on the record (ghost).
Hear(d, raw) ==
    said' = [said EXCEPT ![d] =
                Append(@, [verdict |-> raw.verdict, directives |-> raw.directives])]

Verdict(d, raw, verdict) ==
    /\ phase[d] = "reviewing"
    /\ ParsesToVerdict(raw)
    /\ raw.verdict = verdict
    /\ Hear(d, raw)

ReviewerBlocks(d, raw) ==
    /\ Verdict(d, raw, "block")
    /\ Conclude(d, HandleBlock(d, raw))
    /\ UNCHANGED <<round, accumulated>>

\* A pass or a revise whose directives, merged, break the tighten contract.
TightenViolated(d, raw) ==
    /\ \E v \in {"pass", "revise"} : Verdict(d, raw, v)
    /\ ~ValidTighten(req[d].base, Merge(accumulated[d], raw.directives))
    /\ Conclude(d, FailClosed(d, accumulated[d]))
    /\ UNCHANGED <<round, accumulated>>

ReviewerPasses(d, raw) ==
    LET merged == Merge(accumulated[d], raw.directives) IN
    /\ Verdict(d, raw, "pass")
    /\ ValidTighten(req[d].base, merged)
    /\ Conclude(d, Release(d, "pass", merged, ReviewerNamed(d, raw), "dispatched"))
    /\ UNCHANGED <<round, accumulated>>

\* A valid revise with a round left: keep the directives and ask again.
ReviewerRevises(d, raw) ==
    LET merged == Merge(accumulated[d], raw.directives) IN
    /\ Verdict(d, raw, "revise")
    /\ ValidTighten(req[d].base, merged)
    /\ round[d] < Rounds(d)
    /\ round' = [round EXCEPT ![d] = @ + 1]
    /\ accumulated' = [accumulated EXCEPT ![d] = merged]
    /\ UNCHANGED <<phase, req, outcome, stamps, audit, committed>>

\* A valid revise in the last round.
RoundsExhausted(d, raw) ==
    LET merged == Merge(accumulated[d], raw.directives) IN
    /\ Verdict(d, raw, "revise")
    /\ ValidTighten(req[d].base, merged)
    /\ round[d] = Rounds(d)
    /\ accumulated' = [accumulated EXCEPT ![d] = merged]
    /\ Conclude(d, ExhaustionFallback(d, merged, raw))
    /\ UNCHANGED round

MutantCommitDropped(d) ==
    /\ phase[d] = "writing"
    /\ audit' = Append(audit, outcome[d])
    /\ phase' = [phase EXCEPT ![d] = "logged"]
    /\ UNCHANGED <<req, round, accumulated, said, outcome, stamps, committed>>

\* store.append(record), the single append site: its commit takes with it what
\* earlier appends left in the transaction.
AppendRow(d) ==
    /\ phase[d] = "writing"
    /\ audit' = Append(audit, outcome[d])
    /\ committed' = Len(audit')
    /\ phase' = [phase EXCEPT ![d] = "logged"]
    /\ UNCHANGED <<req, round, accumulated, said, outcome, stamps>>

MutantAppendFaultSwallowed(d) ==
    /\ "store" \in Faults
    /\ phase[d] = "writing"
    /\ phase' = [phase EXCEPT ![d] = "logged"]
    /\ audit' \in {audit, Append(audit, outcome[d])}
    /\ UNCHANGED <<req, round, accumulated, said, outcome, stamps, committed>>

\* store.append raises, in the INSERT and there is no row, or in the commit and the
\* row stays in the transaction: the exception reaches the caller either way.
AppendRaises(d) ==
    /\ "store" \in Faults
    /\ phase[d] = "writing"
    /\ phase' = [phase EXCEPT ![d] = "raised"]
    /\ audit' \in {audit, Append(audit, outcome[d])}
    /\ UNCHANGED <<req, round, accumulated, said, outcome, stamps, committed>>

Return(d) ==
    /\ phase[d] = "logged"
    /\ phase' = [phase EXCEPT ![d] = "returned"]
    /\ UNCHANGED <<req, round, accumulated, said, outcome, stamps, audit, committed>>

InFlight == {"called", "reviewing", "writing", "logged"}

\* put_progress_snapshot commits on the same connection, and with its own row all
\* that appends left behind.
MirrorCommits ==
    /\ committed < Len(audit)
    /\ committed' = Len(audit)
    /\ UNCHANGED <<phase, req, round, accumulated, said, outcome, stamps, audit>>

\* The agent process dies: every call in flight is gone, and so are the rows that
\* were not committed.
ProcessDies ==
    /\ "process" \in Faults
    /\ committed < Len(audit) \/ \E d \in Dispatch : phase[d] \in InFlight
    /\ phase' = [d \in Dispatch |-> IF phase[d] \in InFlight THEN "lost" ELSE phase[d]]
    /\ audit' = SubSeq(audit, 1, committed)
    /\ UNCHANGED <<req, round, accumulated, said, outcome, stamps, committed>>

ReviewStep(d) ==
    \/ ReviewerUnavailable(d)
    \/ \E raw \in Answer :
          \/ Unparseable(d, raw)
          \/ ParserRaises(d, raw)
          \/ ReviewerBlocks(d, raw)
          \/ TightenViolated(d, raw)
          \/ ReviewerPasses(d, raw)
          \/ ReviewerRevises(d, raw)
          \/ RoundsExhausted(d, raw)

\* The steps a call takes once it was made.
CallStep(d) ==
    \/ SkipReview(d)
    \/ StartReview(d)
    \/ ReviewStep(d)
    \/ AppendRow(d)
    \/ AppendRaises(d)
    \/ Return(d)

GateNext ==
    \/ \E d \in Dispatch : Submit(d) \/ CallStep(d)
    \/ MirrorCommits
    \/ ProcessDies

GateSpec == GateInit /\ [][GateNext]_gateVars

-----------------------------------------------------------------------------
(* Properties.                                                              *)

Phases == {"idle", "called", "reviewing", "writing", "logged",
           "returned", "raised", "lost"}

Said == [verdict : {"pass", "revise", "block"}, directives : SUBSET Directive]

\* The variables have their types: every verdict heard is one of the three, and
\* every row names a tier, a decision and the model that was asked (_finish).
TypeOK ==
    /\ phase \in [Dispatch -> Phases]
    /\ req \in [Dispatch -> [base : Base, meta : Meta]]
    /\ round \in [Dispatch -> Nat]
    /\ accumulated \in [Dispatch -> SUBSET Directive]
    /\ said \in [Dispatch -> Seq(Said)]
    /\ outcome \in [Dispatch -> Outcome]
    /\ stamps \in Seq(Dispatch)
    /\ audit \in Seq(Outcome)
    /\ committed \in 0..Len(audit)

Concluded == {"writing", "logged", "returned"}

Released(d) == phase[d] \in Concluded /\ outcome[d].released

\* Every verdict of the sequence heard, up to the n-th, is a revise.
AllRevise(heard, n) == \A i \in 1..n : heard[i].verdict = "revise"

\* Policy exempts the trivial tier from review when there is no cheap reviewer.
Exempt(d) == Trivial(d) /\ ~HasCheap /\ said[d] = <<>>

\* The reviewer passed it, after nothing but revises.
Approved(d) ==
    /\ Len(said[d]) \in 1..Rounds(d)
    /\ AllRevise(said[d], Len(said[d]) - 1)
    /\ said[d][Len(said[d])].verdict = "pass"

\* It used up every round with valid revises, in a tier that does not escalate.
Outlasted(d) ==
    /\ TierOf(d) \notin ESCALATING_TIERS
    /\ Len(said[d]) = Rounds(d)
    /\ AllRevise(said[d], Rounds(d))

\* The decision and the dissent flag tell the fallback from a proper release.
Justified(d) ==
    \/ /\ Exempt(d) \/ Approved(d)
       /\ outcome[d].decision = "dispatched" /\ ~outcome[d].dissent
    \/ /\ Outlasted(d)
       /\ outcome[d].decision = "dispatched_fallback" /\ outcome[d].dissent

\* A dispatch is released only by a pass of its reviewer, by the exemption of the
\* trivial tier, or by the fallback, and only the fallback says dissent and is told
\* apart in the decision: silence, errors and blocks never release, whatever the
\* rounds before them said (review_and_dispatch as a whole).
ReleaseJustified == \A d \in Dispatch : Released(d) => Justified(d)

\* The directives ds come from the seeds and the verdicts heard, and miss none.
Gathered(seeds, heard, ds) ==
    /\ heard # <<>> => seeds \subseteq ds
    /\ \A i \in 1..Len(heard) : heard[i].directives \subseteq ds
    /\ \A x \in ds : x \in seeds \/ \E i \in 1..Len(heard) : x \in heard[i].directives

Tightened(d) ==
    /\ outcome[d].prompt = Assemble(req[d].base, outcome[d].directives)
    /\ req[d].base \notin BlankBase
    /\ outcome[d].directives \cap Forbidden = {}
    /\ Cardinality(outcome[d].directives) <= MaxDirectives
    /\ Gathered(Seeds(d), said[d], outcome[d].directives)

\* What is dispatched is the base that was submitted plus directives that are
\* grant-free and within the cap; nothing a round added is lost in a later one,
\* no seed is, and nothing comes from anywhere else (_merge_directives and
\* validate_tighten over the rounds).
TightenOnly == \A d \in Dispatch : Released(d) => Tightened(d)

\* The rows of a dispatch in the audit trail.
RowsOf(d) == {i \in 1..Len(audit) : audit[i].dispatch = d}

Unlogged == {"idle", "called", "reviewing", "writing"}

RowMatches(d) ==
    /\ \A i, j \in RowsOf(d) : i = j /\ audit[i] = outcome[d]
    /\ phase[d] \in Unlogged => RowsOf(d) = {}
    /\ phase[d] \in {"logged", "returned"} => RowsOf(d) # {}
    /\ phase[d] # "raised" => \A i \in RowsOf(d) : i <= committed

\* No result without its row, and no row that contradicts the call: when the caller
\* learns the outcome its row is in the file, whatever becomes of the process; and a
\* call that raised or was lost, whose row may be missing, there, or on its way with
\* a later commit, never has a second row nor one that says something else than what
\* the gate decided (review_and_dispatch, append and the transaction it may leave).
RowBeforeResult == \A d \in Dispatch : RowMatches(d)

\* What holds of a call besides, and makes the three properties above inductive:
\* nothing is heard before the loop, in the loop the rounds so far were all valid
\* revises and accumulated holds what they said, and an outcome is its own call's.
LoopInv(d) ==
    /\ phase[d] \in {"idle", "called"} => said[d] = <<>>
    /\ phase[d] = "reviewing" =>
          /\ ~Trivial(d) \/ HasCheap
          /\ round[d] \in 1..Rounds(d)
          /\ Len(said[d]) = round[d] - 1
          /\ AllRevise(said[d], Len(said[d]))
          /\ Seeds(d) \subseteq accumulated[d]
          /\ Gathered(Seeds(d), said[d], accumulated[d])
    /\ outcome[d].dispatch = d

GateInv ==
    /\ TypeOK
    /\ ReleaseJustified
    /\ TightenOnly
    /\ RowBeforeResult
    /\ \A d \in Dispatch : LoopInv(d)

\* Every released dispatch that may write files carries the workspace directive,
\* when it was derived from toolsets by the adapter: the tiers that skip the seeds
\* never hold such a dispatch (_seed_directives, classify and _meta_from together).
WorkspaceDeclared ==
    \A d \in Dispatch :
        Released(d) /\ ~req[d].meta.readOnly => Workspace \subseteq outcome[d].directives

\* Every call that is made ends, in a result or in an exception, unless the process
\* dies: the round cap bounds the loop whatever the reviewer answers.
CallsEnd ==
    \A d \in Dispatch :
        phase[d] = "called" ~> phase[d] \in {"returned", "raised", "lost"}

\* "Always writes EXACTLY one audit row" (core/gate.py:269).
ExactlyOneRow ==
    \A d \in Dispatch : phase[d] \in {"returned", "raised"} =>
        \E i \in 1..Len(audit) : RowsOf(d) = {i}

-----------------------------------------------------------------------------
(* The promise of the gate, DispatchPromise, under this mapping.            *)

StageOf(d) ==
    CASE phase[d] = "idle" -> "idle"
      [] phase[d] \in InFlight -> "open"
      [] phase[d] = "returned" -> IF outcome[d].released THEN "released" ELSE "held"
      [] phase[d] = "raised" -> "failed"
      [] OTHER -> "lost"

LedgerOf(d) ==
    {IF audit[i].released THEN "release" ELSE "hold" :
        i \in {j \in RowsOf(d) : j <= committed}}

Promise == INSTANCE DispatchPromise WITH
    stage  <- [d \in Dispatch |-> StageOf(d)],
    ledger <- [d \in Dispatch |-> LedgerOf(d)]

\* The gate implements the promise: an answer follows its row in the file and agrees
\* with it, a call that failed may get its row with the commit of another one, and
\* nothing that is in the file is ever taken back.
KeepsPromise == Promise!PromiseSpec

=============================================================================
