-------------------------- MODULE ReviewGateProofs --------------------------
(***************************************************************************)
(* Theorems about ReviewGate, for every set of dispatches, directives,     *)
(* metas and answers, every round cap and every fault.                     *)
(***************************************************************************)
EXTENDS ReviewGate, TLAPS

-----------------------------------------------------------------------------
(* The operators the actions are built from.                                *)

\* classify is total: every request has one of the four tiers.
LEMMA ClassifyTotal == ASSUME NEW m PROVE Classify(m) \in Tiers
  BY DEF Classify, Tiers

\* Every loop has at least one round.
LEMMA RoundsPositive ==
  ASSUME NEW d \in Dispatch
  PROVE  Rounds(d) \in Nat /\ Rounds(d) >= 1
  BY GateAssumption DEF Rounds, EffectiveCap

\* The seeds are directives.
LEMMA SeedsType ==
  ASSUME NEW d \in Dispatch
  PROVE  Seeds(d) \in SUBSET Directive
  BY GateAssumption DEF Seeds, SeedDirectives

\* A held dispatch makes a well-formed row, without a prompt.
LEMMA HoldType ==
  ASSUME NEW d \in Dispatch, round[d] \in Nat,
         NEW verdict \in {"pass", "revise", "block", "unavailable"},
         NEW ds \in SUBSET Directive,
         NEW reviewer \in {"frontier", "cheap", "(skipped)", "self_named"}
  PROVE  /\ Hold(d, verdict, ds, reviewer) \in Outcome
         /\ ~Hold(d, verdict, ds, reviewer).released
         /\ Hold(d, verdict, ds, reviewer).dispatch = d
<1>1. TierOf(d) \in Tiers
  BY ClassifyTotal DEF TierOf
<1> QED
  BY <1>1 DEF Hold, Outcome

\* Failing closed makes a well-formed row and releases nothing.
LEMMA FailClosedType ==
  ASSUME NEW d \in Dispatch, round[d] \in Nat, NEW ds \in SUBSET Directive
  PROVE  /\ FailClosed(d, ds) \in Outcome
         /\ ~FailClosed(d, ds).released
         /\ FailClosed(d, ds).dispatch = d
<1> DEFINE h == Hold(d, "unavailable", ds, "frontier")
<1>1. h \in Outcome /\ ~h.released /\ h.dispatch = d
  BY HoldType
<1>2. FailClosed(d, ds) = [h EXCEPT !.failClosed = TRUE]
  BY DEF FailClosed
<1> HIDE DEF h
<1> QED
  BY <1>1, <1>2 DEF Outcome

\* Every row names a reviewer.
LEMMA ReviewerNamedType ==
  ASSUME NEW d \in Dispatch, NEW raw \in Answer
  PROVE  ReviewerNamed(d, raw) \in {"frontier", "cheap", "(skipped)", "self_named"}
<1>1. raw.model \in {"", "self_named"}
  BY GateAssumption DEF RawAnswer
<1> QED
  BY <1>1 DEF ReviewerNamed, ProviderOf

\* A released dispatch makes a well-formed row with the base and the directives.
LEMMA ReleaseType ==
  ASSUME TypeOK, NEW d \in Dispatch,
         NEW verdict \in {"pass", "revise"},
         NEW ds \in SUBSET Directive,
         NEW reviewer \in {"frontier", "cheap", "(skipped)", "self_named"},
         NEW decision \in {"dispatched", "dispatched_fallback"}
  PROVE  LET o == Release(d, verdict, ds, reviewer, decision) IN
         /\ o \in Outcome
         /\ o.dispatch = d
         /\ o.decision = decision
         /\ ~o.dissent
         /\ o.directives = ds
         /\ o.prompt = Assemble(req[d].base, ds)
<1>1. TierOf(d) \in Tiers
  BY ClassifyTotal DEF TierOf
<1>2. round[d] \in Nat /\ req[d].base \in Base
  BY DEF TypeOK
<1>3. Assemble(req[d].base, ds) \in Base \X SUBSET Directive
  BY <1>2 DEF Assemble
<1> QED
  BY <1>1, <1>2, <1>3 DEF Release, Hold, Outcome

\* A block makes a well-formed row and releases nothing.
LEMMA HandleBlockType ==
  ASSUME TypeOK, NEW d \in Dispatch, NEW raw \in Answer
  PROVE  /\ HandleBlock(d, raw) \in Outcome
         /\ ~HandleBlock(d, raw).released
         /\ HandleBlock(d, raw).dispatch = d
<1> DEFINE h == Hold(d, "block", accumulated[d], ReviewerNamed(d, raw))
<1>1. accumulated[d] \in SUBSET Directive
  BY DEF TypeOK
<1>2. h \in Outcome /\ ~h.released /\ h.dispatch = d
  BY <1>1, HoldType, ReviewerNamedType DEF TypeOK
<1>3. HandleBlock(d, raw) = [h EXCEPT !.neckbeard = raw.protected]
  BY DEF HandleBlock
<1>4. raw.protected \in BOOLEAN
  BY GateAssumption DEF RawAnswer
<1> HIDE DEF h
<1> QED
  BY <1>2, <1>3, <1>4 DEF Outcome

\* A trivial dispatch nobody reviews is released untouched, or held.
LEMMA HandleTrivialType ==
  ASSUME TypeOK, NEW d \in Dispatch
  PROVE  LET o == HandleTrivial(d) IN
         /\ o \in Outcome
         /\ o.dispatch = d
         /\ o.released =>
              /\ o.decision = "dispatched" /\ ~o.dissent
              /\ o.directives = {}
              /\ o.prompt = Assemble(req[d].base, {})
              /\ ValidTighten(req[d].base, {})
<1>1. CASE ValidTighten(req[d].base, {})
  <2>1. HandleTrivial(d) = Release(d, "pass", {}, "(skipped)", "dispatched")
    BY <1>1 DEF HandleTrivial
  <2> QED
    BY <1>1, <2>1, ReleaseType
<1>2. CASE ~ValidTighten(req[d].base, {})
  <2>1. HandleTrivial(d) = FailClosed(d, {})
    BY <1>2 DEF HandleTrivial
  <2> QED
    BY <2>1, FailClosedType DEF TypeOK
<1> QED
  BY <1>1, <1>2

\* The fallback releases only in a tier that does not escalate, and says so.
LEMMA FallbackType ==
  ASSUME TypeOK, NEW d \in Dispatch, NEW raw \in Answer, NEW ds \in SUBSET Directive
  PROVE  LET o == ExhaustionFallback(d, ds, raw) IN
         /\ o \in Outcome
         /\ o.dispatch = d
         /\ o.released =>
              /\ TierOf(d) \notin ESCALATING_TIERS
              /\ o.decision = "dispatched_fallback" /\ o.dissent
              /\ o.directives = ds
              /\ o.prompt = Assemble(req[d].base, ds)
              /\ ValidTighten(req[d].base, ds)
<1> DEFINE who == ReviewerNamed(d, raw)
           h == Hold(d, "revise", ds, who)
           r == Release(d, "revise", ds, who, "dispatched_fallback")
<1>1. who \in {"frontier", "cheap", "(skipped)", "self_named"}
  BY ReviewerNamedType
<1>2. h \in Outcome /\ ~h.released /\ h.dispatch = d
  BY <1>1, HoldType DEF TypeOK
<1>3. /\ r \in Outcome /\ r.dispatch = d
      /\ r.decision = "dispatched_fallback"
      /\ r.directives = ds
      /\ r.prompt = Assemble(req[d].base, ds)
  BY <1>1, ReleaseType
<1>4. CASE TierOf(d) \in ESCALATING_TIERS
  <2>1. ExhaustionFallback(d, ds, raw) = [h EXCEPT !.dissent = TRUE]
    BY <1>4 DEF ExhaustionFallback
  <2> HIDE DEF h
  <2> QED
    BY <1>2, <2>1 DEF Outcome
<1>5. CASE TierOf(d) \notin ESCALATING_TIERS /\ ValidTighten(req[d].base, ds)
  <2>1. ExhaustionFallback(d, ds, raw) = [r EXCEPT !.dissent = TRUE]
    BY <1>5 DEF ExhaustionFallback
  <2> HIDE DEF r
  <2> QED
    BY <1>3, <1>5, <2>1 DEF Outcome
<1>6. CASE TierOf(d) \notin ESCALATING_TIERS /\ ~ValidTighten(req[d].base, ds)
  <2>1. ExhaustionFallback(d, ds, raw) = FailClosed(d, ds)
    BY <1>6 DEF ExhaustionFallback
  <2> QED
    BY <2>1, FailClosedType DEF TypeOK
<1> QED
  BY <1>4, <1>5, <1>6

-----------------------------------------------------------------------------
(* Types.                                                                   *)

\* A call that concludes keeps the types when its outcome is a well-formed row.
LEMMA ConcludeType ==
  ASSUME TypeOK, NEW d \in Dispatch, NEW o \in Outcome, Conclude(d, o)
  PROVE  /\ phase' \in [Dispatch -> Phases]
         /\ outcome' \in [Dispatch -> Outcome]
         /\ stamps' \in Seq(Dispatch)
         /\ req' = req /\ UNCHANGED <<audit, committed>>
  BY DEF TypeOK, Conclude, Phases

\* A parsed answer is a verdict of the schema, and its directives merge to directives.
LEMMA HearType ==
  ASSUME TypeOK, NEW d \in Dispatch, NEW raw \in Answer,
         NEW v \in {"pass", "revise", "block"}, Verdict(d, raw, v)
  PROVE  /\ said' \in [Dispatch -> Seq(Said)]
         /\ raw.directives \in SUBSET Directive
         /\ Merge(accumulated[d], raw.directives) \in SUBSET Directive
<1> DEFINE heard == [verdict |-> raw.verdict, directives |-> raw.directives]
<1>1. raw.directives \in SUBSET Directive
  BY GateAssumption DEF RawAnswer
<1>2. heard \in Said
  BY <1>1 DEF Verdict, Said
<1>3. said' = [said EXCEPT ![d] = Append(said[d], heard)]
  BY DEF Verdict, Hear
<1>4. said[d] \in Seq(Said)
  BY DEF TypeOK
<1>5. Append(said[d], heard) \in Seq(Said)
  BY <1>2, <1>4
<1>6. said' \in [Dispatch -> Seq(Said)]
  BY <1>3, <1>5 DEF TypeOK
<1>7. Merge(accumulated[d], raw.directives) \in SUBSET Directive
  BY <1>1 DEF TypeOK, Merge
<1> QED
  BY <1>1, <1>6, <1>7

\* The initial states are typed.
LEMMA InitTypeOK == GateInit => TypeOK
<1> SUFFICES ASSUME GateInit PROVE TypeOK
  OBVIOUS
<1>1. ASSUME NEW d \in Dispatch PROVE FailClosed(d, {}) \in Outcome
  BY FailClosedType DEF GateInit
<1>2. outcome \in [Dispatch -> Outcome]
  BY <1>1 DEF GateInit
<1>3. said \in [Dispatch -> Seq(Said)] /\ audit \in Seq(Outcome) /\ stamps \in Seq(Dispatch)
  BY DEF GateInit
<1>4. committed \in 0..Len(audit)
  BY DEF GateInit
<1> QED
  BY <1>2, <1>3, <1>4 DEF GateInit, TypeOK, Phases

\* Every step keeps the types.
LEMMA StepTypeOK == TypeOK /\ [GateNext]_gateVars => TypeOK'
<1> SUFFICES ASSUME TypeOK, [GateNext]_gateVars PROVE TypeOK'
  OBVIOUS
<1> USE DEF TypeOK
<1>1. ASSUME NEW d \in Dispatch, Submit(d) PROVE TypeOK'
  BY <1>1 DEF Submit, Phases
<1>2. ASSUME NEW d \in Dispatch, SkipReview(d) PROVE TypeOK'
  BY <1>2, HandleTrivialType, ConcludeType DEF SkipReview
<1>3. ASSUME NEW d \in Dispatch, StartReview(d) PROVE TypeOK'
  BY <1>3, SeedsType DEF StartReview, Phases
<1>4. ASSUME NEW d \in Dispatch, ReviewerUnavailable(d) PROVE TypeOK'
  BY <1>4, FailClosedType, ConcludeType DEF ReviewerUnavailable
<1>5. ASSUME NEW d \in Dispatch, NEW raw \in Answer, Unparseable(d, raw) PROVE TypeOK'
  BY <1>5, FailClosedType, ConcludeType DEF Unparseable
<1>6. ASSUME NEW d \in Dispatch, NEW raw \in Answer, ParserRaises(d, raw) PROVE TypeOK'
  BY <1>6 DEF ParserRaises, Phases
<1>7. ASSUME NEW d \in Dispatch, NEW raw \in Answer, ReviewerBlocks(d, raw) PROVE TypeOK'
  BY <1>7, HandleBlockType, HearType, ConcludeType DEF ReviewerBlocks
<1>8. ASSUME NEW d \in Dispatch, NEW raw \in Answer, TightenViolated(d, raw) PROVE TypeOK'
  BY <1>8, FailClosedType, HearType, ConcludeType DEF TightenViolated
<1>9. ASSUME NEW d \in Dispatch, NEW raw \in Answer, ReviewerPasses(d, raw) PROVE TypeOK'
  <2> DEFINE merged == Merge(accumulated[d], raw.directives)
             o == Release(d, "pass", merged, ReviewerNamed(d, raw), "dispatched")
  <2>1. Verdict(d, raw, "pass") /\ Conclude(d, o) /\ UNCHANGED <<round, accumulated>>
    BY <1>9 DEF ReviewerPasses
  <2>2. said' \in [Dispatch -> Seq(Said)] /\ merged \in SUBSET Directive
    BY <2>1, HearType
  <2>3. ReviewerNamed(d, raw) \in {"frontier", "cheap", "(skipped)", "self_named"}
    BY ReviewerNamedType
  <2>4. o \in Outcome
    <3> HIDE DEF merged
    <3> QED
      BY <2>2, <2>3, ReleaseType
  <2> HIDE DEF o
  <2> QED
    BY <2>1, <2>2, <2>4, ConcludeType
<1>10. ASSUME NEW d \in Dispatch, NEW raw \in Answer, ReviewerRevises(d, raw) PROVE TypeOK'
  BY <1>10, HearType DEF ReviewerRevises
<1>11. ASSUME NEW d \in Dispatch, NEW raw \in Answer, RoundsExhausted(d, raw) PROVE TypeOK'
  BY <1>11, FallbackType, HearType, ConcludeType DEF RoundsExhausted
<1>12. ASSUME NEW d \in Dispatch, AppendRow(d) PROVE TypeOK'
  BY <1>12 DEF AppendRow, Phases
<1>13. ASSUME NEW d \in Dispatch, AppendRaises(d) PROVE TypeOK'
  <2>1. audit' \in Seq(Outcome) /\ Len(audit') >= Len(audit) /\ Len(audit') \in Nat
    <3>1. CASE audit' = audit
      BY <3>1
    <3>2. CASE audit' = Append(audit, outcome[d])
      BY <3>2
    <3> QED
      BY <1>13, <3>1, <3>2 DEF AppendRaises
  <2>2. /\ phase' = [phase EXCEPT ![d] = "raised"]
        /\ UNCHANGED <<req, round, accumulated, said, outcome, stamps, committed>>
    BY <1>13 DEF AppendRaises
  <2> QED
    BY <2>1, <2>2 DEF Phases
<1>14. ASSUME NEW d \in Dispatch, Return(d) PROVE TypeOK'
  BY <1>14 DEF Return, Phases
<1>15. ASSUME ProcessDies PROVE TypeOK'
  <2>1. audit' \in Seq(Outcome) /\ committed' = committed /\ Len(audit') = committed
    BY <1>15 DEF ProcessDies
  <2> QED
    BY <1>15, <2>1 DEF ProcessDies, Phases
<1>17. ASSUME MirrorCommits PROVE TypeOK'
  BY <1>17 DEF MirrorCommits
<1>16. ASSUME UNCHANGED gateVars PROVE TypeOK'
  BY <1>16 DEF gateVars
<1> QED
  BY <1>1, <1>2, <1>3, <1>4, <1>5, <1>6, <1>7, <1>8, <1>9, <1>10, <1>11, <1>12,
     <1>13, <1>14, <1>15, <1>16, <1>17 DEF GateNext, CallStep, ReviewStep

\* Every verdict acted on is one of the schema's and every row is well formed,
\* for any number of calls, rounds, answers and faults.
THEOREM TypeCorrect == GateSpec => []TypeOK
<1>1. GateInit => TypeOK
  BY InitTypeOK
<1>2. TypeOK /\ [GateNext]_gateVars => TypeOK'
  BY StepTypeOK
<1> QED
  BY <1>1, <1>2, PTL DEF GateSpec

-----------------------------------------------------------------------------
(* The inductive invariant.                                                 *)

\* GateInv without the audit trail, for one call.
CallInv(d) ==
    /\ Released(d) => Justified(d) /\ Tightened(d)
    /\ LoopInv(d)

\* The invariant, call by call.
LEMMA GateInvParts ==
  GateInv <=> TypeOK /\ \A d \in Dispatch : CallInv(d) /\ RowMatches(d)
  BY DEF GateInv, ReleaseJustified, TightenOnly, RowBeforeResult, CallInv

\* A step that leaves a call alone, or loses it, keeps what holds of it.
LEMMA CallUntouched ==
  ASSUME NEW e \in Dispatch, CallInv(e), req' = req,
         phase'[e] = phase[e] \/ phase'[e] = "lost",
         round'[e] = round[e], accumulated'[e] = accumulated[e],
         said'[e] = said[e], outcome'[e] = outcome[e]
  PROVE  CallInv(e)'
  BY DEF CallInv, Released, Concluded, Justified, Exempt, Approved, Outlasted, AllRevise,
         Tightened, Gathered, LoopInv, Trivial, TierOf, Rounds, Seeds

\* A step that inserts no row, and takes none out of the file, keeps the rows of a
\* call that stays on its side of the append.
LEMMA RowsUntouched ==
  ASSUME TypeOK, NEW e \in Dispatch, RowMatches(e),
         audit' = audit, committed' \in Nat, committed' >= committed,
         phase'[e] \in Unlogged => phase[e] \in Unlogged,
         phase'[e] \in {"logged", "returned"} => phase[e] \in {"logged", "returned"},
         phase[e] = "raised" => phase'[e] = "raised",
         outcome'[e] = outcome[e] \/ phase[e] \in Unlogged
  PROVE  RowMatches(e)'
<1>1. RowsOf(e)' = RowsOf(e)
  BY DEF RowsOf
<1>2. \A i \in RowsOf(e) : i \in Nat
  BY DEF RowsOf, TypeOK
<1>3. committed \in Nat /\ committed' \in Nat
  BY DEF TypeOK
<1> QED
  BY <1>1, <1>2, <1>3 DEF RowMatches

\* The row of a call that is about to append is the last, and its first.
LEMMA RowAdded ==
  ASSUME GateInv, NEW d \in Dispatch, phase[d] = "writing",
         audit' = Append(audit, outcome[d])
  PROVE  /\ Len(audit') = Len(audit) + 1 /\ audit'[Len(audit) + 1] = outcome[d]
         /\ \A i \in 1..Len(audit) : audit'[i] = audit[i]
         /\ RowsOf(d) = {} /\ RowsOf(d)' = {Len(audit) + 1}
         /\ \A e \in Dispatch \ {d} : RowsOf(e)' = RowsOf(e)
<1>1. TypeOK /\ outcome[d].dispatch = d /\ RowsOf(d) = {}
  BY DEF GateInv, LoopInv, RowBeforeResult, RowMatches, Unlogged
<1>2. audit \in Seq(Outcome) /\ outcome[d] \in Outcome
  BY <1>1 DEF TypeOK
<1>3. /\ Len(audit') = Len(audit) + 1 /\ audit'[Len(audit) + 1] = outcome[d]
      /\ \A i \in 1..Len(audit) : audit'[i] = audit[i]
  BY <1>2
<1>4. RowsOf(d)' = {Len(audit) + 1}
  BY <1>1, <1>2, <1>3 DEF RowsOf
<1>5. \A e \in Dispatch \ {d} : RowsOf(e)' = RowsOf(e)
  BY <1>1, <1>2, <1>3 DEF RowsOf
<1> QED
  BY <1>1, <1>3, <1>4, <1>5

\* In the loop, a parsed verdict is the one of this round, and merging it gathers it.
LEMMA HeardInLoop ==
  ASSUME TypeOK, NEW d \in Dispatch, CallInv(d), NEW raw \in Answer,
         NEW v \in {"pass", "revise", "block"}, Verdict(d, raw, v)
  PROVE  /\ Len(said[d]) = round[d] - 1 /\ round[d] \in 1..Rounds(d)
         /\ Len(said'[d]) = round[d]
         /\ AllRevise(said'[d], round[d] - 1)
         /\ said'[d][round[d]].verdict = v
         /\ \A e \in Dispatch \ {d} : said'[e] = said[e]
         /\ Seeds(d) \subseteq Merge(accumulated[d], raw.directives)
         /\ Gathered(Seeds(d), said'[d], Merge(accumulated[d], raw.directives))
<1> DEFINE heard == [verdict |-> raw.verdict, directives |-> raw.directives]
<1>1. /\ Len(said[d]) = round[d] - 1 /\ round[d] \in 1..Rounds(d)
      /\ AllRevise(said[d], Len(said[d]))
      /\ Seeds(d) \subseteq accumulated[d]
      /\ Gathered(Seeds(d), said[d], accumulated[d])
  BY DEF CallInv, LoopInv, Verdict
<1>2. said' = [said EXCEPT ![d] = Append(said[d], heard)] /\ raw.verdict = v
  BY DEF Verdict, Hear
<1>3. said[d] \in Seq(Said) /\ said'[d] = Append(said[d], heard)
  BY <1>2 DEF TypeOK
<1>4. Rounds(d) \in Nat
  BY RoundsPositive
<1>5. heard.verdict = v /\ heard.directives = raw.directives
  BY <1>2
<1> HIDE DEF heard
<1>6. /\ Len(said'[d]) = round[d]
      /\ said'[d][round[d]] = heard
      /\ \A i \in 1..(round[d] - 1) : said'[d][i] = said[d][i]
  BY <1>1, <1>3, <1>4
<1>7. AllRevise(said'[d], round[d] - 1)
  BY <1>1, <1>6 DEF AllRevise
<1>8. \A e \in Dispatch \ {d} : said'[e] = said[e]
  BY <1>2 DEF TypeOK
<1>9. Gathered(Seeds(d), said'[d], Merge(accumulated[d], raw.directives))
  <2> DEFINE merged == Merge(accumulated[d], raw.directives)
  <2>1. Seeds(d) \subseteq merged
    BY <1>1 DEF Merge
  <2>2. ASSUME NEW i \in 1..Len(said'[d])
        PROVE  said'[d][i].directives \subseteq merged
    <3>1. CASE i = round[d]
      BY <1>5, <1>6, <3>1 DEF Merge
    <3>2. CASE i # round[d]
      <4>1. i \in 1..Len(said[d]) /\ said'[d][i] = said[d][i]
        BY <1>1, <1>4, <1>6, <3>2
      <4>2. said[d][i].directives \subseteq accumulated[d]
        BY <1>1, <4>1 DEF Gathered
      <4> QED
        BY <4>1, <4>2 DEF Merge
    <3> QED
      BY <3>1, <3>2
  <2>3. ASSUME NEW x \in merged
        PROVE  x \in Seeds(d) \/ \E i \in 1..Len(said'[d]) : x \in said'[d][i].directives
    <3>1. CASE x \in raw.directives
      BY <1>1, <1>4, <1>5, <1>6, <3>1
    <3>2. CASE x \in accumulated[d]
      <4>1. CASE x \in Seeds(d)
        BY <4>1
      <4>2. ASSUME NEW i \in 1..Len(said[d]), x \in said[d][i].directives
            PROVE  \E j \in 1..Len(said'[d]) : x \in said'[d][j].directives
        <5>1. i \in 1..Len(said'[d]) /\ said'[d][i] = said[d][i]
          BY <1>1, <1>4, <1>6
        <5> QED
          BY <4>2, <5>1
      <4> QED
        BY <1>1, <3>2, <4>1, <4>2 DEF Gathered
    <3> QED
      BY <2>3, <3>1, <3>2 DEF Merge
  <2> QED
    BY <2>1, <2>2, <2>3 DEF Gathered
<1> QED
  BY <1>1, <1>5, <1>6, <1>7, <1>8, <1>9 DEF Merge

\* A call that concludes keeps the invariant when its outcome is its own, and
\* justified and tightened if it releases.
LEMMA Concludes ==
  ASSUME GateInv, NEW d \in Dispatch, NEW o, Conclude(d, o), o.dispatch = d,
         phase[d] \in {"called", "reviewing"},
         \A e \in Dispatch \ {d} : /\ round'[e] = round[e]
                                   /\ accumulated'[e] = accumulated[e]
                                   /\ said'[e] = said[e],
         o.released => Justified(d)' /\ Tightened(d)'
  PROVE  \A e \in Dispatch : CallInv(e)' /\ RowMatches(e)'
<1>1. /\ phase' = [phase EXCEPT ![d] = "writing"] /\ phase'[d] = "writing"
      /\ outcome' = [outcome EXCEPT ![d] = o] /\ outcome'[d] = o
      /\ req' = req /\ audit' = audit /\ committed' \in Nat /\ committed' >= committed
  BY DEF Conclude, GateInv, TypeOK
<1>2. CallInv(d)'
  BY <1>1 DEF CallInv, Released, LoopInv
<1>3. RowMatches(d)'
  BY <1>1, GateInvParts, RowsUntouched DEF Unlogged
<1>4. ASSUME NEW e \in Dispatch \ {d} PROVE CallInv(e)' /\ RowMatches(e)'
  <2>1. phase'[e] = phase[e] /\ outcome'[e] = outcome[e]
    BY <1>1 DEF GateInv, TypeOK
  <2>2. CallInv(e) /\ RowMatches(e)
    BY GateInvParts
  <2>3. CallInv(e)'
    BY <1>1, <2>1, <2>2, CallUntouched
  <2>4. RowMatches(e)'
    BY <1>1, <2>1, <2>2, GateInvParts, RowsUntouched
  <2> QED
    BY <2>3, <2>4
<1> QED
  BY <1>2, <1>3, <1>4

\* A dispatch nobody reviewed is released by the exemption of its tier only.
LEMMA SkipKeeps ==
  ASSUME GateInv, NEW d \in Dispatch, SkipReview(d)
  PROVE  \A e \in Dispatch : CallInv(e)' /\ RowMatches(e)'
<1> DEFINE o == HandleTrivial(d)
<1>1. /\ phase[d] = "called" /\ Trivial(d) /\ ~HasCheap /\ Conclude(d, o)
      /\ UNCHANGED <<round, accumulated, said>>
  BY DEF SkipReview
<1>2. o.dispatch = d
  BY HandleTrivialType DEF GateInv
<1>3. outcome'[d] = o /\ req' = req
  BY <1>1 DEF Conclude, GateInv, TypeOK
<1>4. said'[d] = <<>>
  BY <1>1 DEF GateInv, LoopInv
<1>5. ASSUME o.released PROVE Justified(d)' /\ Tightened(d)'
  <2>1. /\ o.decision = "dispatched" /\ ~o.dissent /\ o.directives = {}
        /\ o.prompt = Assemble(req[d].base, {})
        /\ ValidTighten(req[d].base, {})
    BY <1>5, HandleTrivialType DEF GateInv
  <2> HIDE DEF o
  <2>2. Justified(d)'
    BY <1>1, <1>3, <1>4, <2>1 DEF Justified, Exempt, Trivial, TierOf
  <2>3. Gathered(Seeds(d)', said'[d], {})
    BY <1>4 DEF Gathered
  <2>4. Tightened(d)'
    BY <1>3, <2>1, <2>3 DEF Tightened, ValidTighten
  <2> QED
    BY <2>2, <2>4
<1> HIDE DEF o
<1> QED
  BY <1>1, <1>2, <1>5, Concludes

\* A pass releases: it was heard in a round of the loop, after revises only.
LEMMA PassKeeps ==
  ASSUME GateInv, NEW d \in Dispatch, NEW raw \in Answer, ReviewerPasses(d, raw)
  PROVE  \A e \in Dispatch : CallInv(e)' /\ RowMatches(e)'
<1> DEFINE merged == Merge(accumulated[d], raw.directives)
           o == Release(d, "pass", merged, ReviewerNamed(d, raw), "dispatched")
<1>1. /\ Verdict(d, raw, "pass") /\ Conclude(d, o)
      /\ ValidTighten(req[d].base, merged)
      /\ UNCHANGED <<round, accumulated>>
  BY DEF ReviewerPasses
<1>2. phase[d] = "reviewing" /\ CallInv(d) /\ TypeOK
  BY <1>1, GateInvParts DEF Verdict
<1>3. /\ round[d] \in 1..Rounds(d) /\ Len(said'[d]) = round[d]
      /\ AllRevise(said'[d], round[d] - 1)
      /\ said'[d][round[d]].verdict = "pass"
      /\ \A e \in Dispatch \ {d} : said'[e] = said[e]
      /\ Gathered(Seeds(d), said'[d], merged)
  BY <1>1, <1>2, HeardInLoop
<1>4. merged \in SUBSET Directive
  BY <1>1, <1>2, HearType
<1>5. ReviewerNamed(d, raw) \in {"frontier", "cheap", "(skipped)", "self_named"}
  BY ReviewerNamedType
<1> HIDE DEF merged
<1>6. /\ o.dispatch = d /\ o.decision = "dispatched" /\ ~o.dissent
      /\ o.directives = merged /\ o.prompt = Assemble(req[d].base, merged)
  BY <1>2, <1>4, <1>5, ReleaseType
<1> HIDE DEF o
<1>7. outcome'[d] = o /\ req' = req
  BY <1>1 DEF Conclude, GateInv, TypeOK
<1>8. Justified(d)'
  <2>1. Approved(d)'
    BY <1>3, <1>7 DEF Approved, Rounds, Trivial, TierOf
  <2> QED
    BY <1>6, <1>7, <2>1 DEF Justified
<1>9. Tightened(d)'
  BY <1>1, <1>3, <1>6, <1>7 DEF Tightened, ValidTighten, Seeds
<1> QED
  BY <1>1, <1>2, <1>3, <1>6, <1>8, <1>9, Concludes

\* The fallback releases only after every round was heard, and all were revises.
LEMMA ExhaustedKeeps ==
  ASSUME GateInv, NEW d \in Dispatch, NEW raw \in Answer, RoundsExhausted(d, raw)
  PROVE  \A e \in Dispatch : CallInv(e)' /\ RowMatches(e)'
<1> DEFINE merged == Merge(accumulated[d], raw.directives)
           o == ExhaustionFallback(d, merged, raw)
<1>1. /\ Verdict(d, raw, "revise") /\ Conclude(d, o)
      /\ round[d] = Rounds(d)
      /\ accumulated' = [accumulated EXCEPT ![d] = merged]
      /\ UNCHANGED round
  BY DEF RoundsExhausted
<1>2. phase[d] = "reviewing" /\ CallInv(d) /\ TypeOK
  BY <1>1, GateInvParts DEF Verdict
<1>3. /\ Len(said'[d]) = round[d]
      /\ AllRevise(said'[d], round[d] - 1)
      /\ said'[d][round[d]].verdict = "revise"
      /\ \A e \in Dispatch \ {d} : said'[e] = said[e]
      /\ Gathered(Seeds(d), said'[d], merged)
  BY <1>1, <1>2, HeardInLoop
<1>4. merged \in SUBSET Directive
  BY <1>1, <1>2, HearType
<1>5. \A e \in Dispatch \ {d} : accumulated'[e] = accumulated[e]
  BY <1>1, <1>2 DEF TypeOK
<1> HIDE DEF merged
<1>6. /\ o.dispatch = d
      /\ o.released =>
           /\ TierOf(d) \notin ESCALATING_TIERS
           /\ o.decision = "dispatched_fallback" /\ o.dissent
           /\ o.directives = merged
           /\ o.prompt = Assemble(req[d].base, merged)
           /\ ValidTighten(req[d].base, merged)
  BY <1>2, <1>4, FallbackType
<1> HIDE DEF o
<1>7. outcome'[d] = o /\ req' = req
  BY <1>1 DEF Conclude, GateInv, TypeOK
<1>8. ASSUME o.released PROVE Justified(d)' /\ Tightened(d)'
  <2>1. AllRevise(said'[d], Rounds(d))
    BY <1>1, <1>3, RoundsPositive DEF AllRevise
  <2>2. Outlasted(d)'
    BY <1>1, <1>3, <1>6, <1>7, <1>8, <2>1 DEF Outlasted, Rounds, Trivial, TierOf
  <2>3. Justified(d)'
    BY <1>6, <1>7, <1>8, <2>2 DEF Justified
  <2>4. Tightened(d)'
    BY <1>3, <1>6, <1>7, <1>8 DEF Tightened, ValidTighten, Seeds
  <2> QED
    BY <2>3, <2>4
<1> QED
  BY <1>1, <1>2, <1>3, <1>5, <1>6, <1>8, Concludes

\* Silence, an answer that does not parse, a block and a broken contract hold.
LEMMA HoldsKeep ==
  ASSUME GateInv, NEW d \in Dispatch,
         \/ ReviewerUnavailable(d)
         \/ \E raw \in Answer :
               Unparseable(d, raw) \/ ReviewerBlocks(d, raw) \/ TightenViolated(d, raw)
  PROVE  \A e \in Dispatch : CallInv(e)' /\ RowMatches(e)'
<1> DEFINE failed == FailClosed(d, accumulated[d])
<1>1. TypeOK /\ CallInv(d)
  BY GateInvParts
<1>2. ~failed.released /\ failed.dispatch = d
  BY <1>1, FailClosedType DEF TypeOK
<1> HIDE DEF failed
<1>3. CASE ReviewerUnavailable(d)
  <2>1. phase[d] = "reviewing" /\ Conclude(d, failed) /\ UNCHANGED <<round, accumulated, said>>
    BY <1>3 DEF ReviewerUnavailable, failed
  <2> QED
    BY <1>2, <2>1, Concludes
<1>4. ASSUME NEW raw \in Answer, Unparseable(d, raw)
      PROVE  \A e \in Dispatch : CallInv(e)' /\ RowMatches(e)'
  <2>1. phase[d] = "reviewing" /\ Conclude(d, failed) /\ UNCHANGED <<round, accumulated, said>>
    BY <1>4 DEF Unparseable, failed
  <2> QED
    BY <1>2, <2>1, Concludes
<1>5. ASSUME NEW raw \in Answer, ReviewerBlocks(d, raw)
      PROVE  \A e \in Dispatch : CallInv(e)' /\ RowMatches(e)'
  <2> DEFINE o == HandleBlock(d, raw)
  <2>1. /\ phase[d] = "reviewing" /\ Verdict(d, raw, "block")
        /\ Conclude(d, o) /\ UNCHANGED <<round, accumulated>>
    BY <1>5 DEF ReviewerBlocks, Verdict
  <2>2. \A e \in Dispatch \ {d} : said'[e] = said[e]
    BY <1>1, <2>1, HeardInLoop
  <2>3. ~o.released /\ o.dispatch = d
    BY <1>1, HandleBlockType
  <2> HIDE DEF o
  <2> QED
    BY <2>1, <2>2, <2>3, Concludes
<1>6. ASSUME NEW raw \in Answer, TightenViolated(d, raw)
      PROVE  \A e \in Dispatch : CallInv(e)' /\ RowMatches(e)'
  <2>1. PICK v \in {"pass", "revise"} : Verdict(d, raw, v)
    BY <1>6 DEF TightenViolated
  <2>2. phase[d] = "reviewing" /\ Conclude(d, failed) /\ UNCHANGED <<round, accumulated>>
    BY <1>6, <2>1 DEF TightenViolated, Verdict, failed
  <2>3. \A e \in Dispatch \ {d} : said'[e] = said[e]
    BY <1>1, <2>1, HeardInLoop
  <2> QED
    BY <1>2, <2>2, <2>3, Concludes
<1> QED
  BY <1>3, <1>4, <1>5, <1>6

\* Another round: accumulated gathers what was heard in the rounds so far.
LEMMA RevisionKeeps ==
  ASSUME GateInv, NEW d \in Dispatch, NEW raw \in Answer, ReviewerRevises(d, raw)
  PROVE  \A e \in Dispatch : CallInv(e)' /\ RowMatches(e)'
<1> DEFINE merged == Merge(accumulated[d], raw.directives)
<1>1. /\ Verdict(d, raw, "revise")
      /\ round[d] < Rounds(d)
      /\ round' = [round EXCEPT ![d] = @ + 1]
      /\ accumulated' = [accumulated EXCEPT ![d] = merged]
      /\ UNCHANGED <<phase, req, outcome, audit, committed>>
  BY DEF ReviewerRevises
<1>2. phase[d] = "reviewing" /\ CallInv(d) /\ TypeOK
  BY <1>1, GateInvParts DEF Verdict
<1>3. /\ round[d] \in 1..Rounds(d) /\ Len(said'[d]) = round[d]
      /\ AllRevise(said'[d], round[d] - 1)
      /\ said'[d][round[d]].verdict = "revise"
      /\ \A e \in Dispatch \ {d} : said'[e] = said[e]
      /\ Seeds(d) \subseteq merged
      /\ Gathered(Seeds(d), said'[d], merged)
  BY <1>1, <1>2, HeardInLoop
<1> HIDE DEF merged
<1>4. /\ round'[d] = round[d] + 1 /\ accumulated'[d] = merged
      /\ \A e \in Dispatch \ {d} : round'[e] = round[e] /\ accumulated'[e] = accumulated[e]
  BY <1>1, <1>2 DEF TypeOK
<1>5. round'[d] \in 1..Rounds(d)
  BY <1>1, <1>3, <1>4, RoundsPositive
<1>6. AllRevise(said'[d], Len(said'[d]))
  BY <1>3, RoundsPositive DEF AllRevise
<1>7. CallInv(d)'
  <2>1. ~Released(d)'
    BY <1>1, <1>2 DEF Released, Concluded
  <2>2. LoopInv(d)'
    BY <1>1, <1>2, <1>3, <1>4, <1>5, <1>6, RoundsPositive
       DEF CallInv, LoopInv, Rounds, Trivial, TierOf, Seeds
  <2> QED
    BY <2>1, <2>2 DEF CallInv
<1>8. ASSUME NEW e \in Dispatch \ {d} PROVE CallInv(e)'
  <2>1. CallInv(e)
    BY GateInvParts
  <2> QED
    BY <1>1, <1>3, <1>4, <2>1, CallUntouched
<1>9. ASSUME NEW e \in Dispatch PROVE RowMatches(e)'
  <2>1. RowMatches(e)
    BY GateInvParts
  <2>2. audit' = audit /\ committed' \in Nat /\ committed' >= committed /\ phase' = phase /\ outcome' = outcome
    BY <1>1, <1>2 DEF TypeOK
  <2> QED
    BY <1>2, <2>1, <2>2, RowsUntouched
<1> QED
  BY <1>7, <1>8, <1>9

\* A row that is inserted is its call's only one, whether it is committed or left.
LEMMA InsertKeeps ==
  ASSUME GateInv, NEW d \in Dispatch,
         phase[d] = "writing", audit' = Append(audit, outcome[d]),
         UNCHANGED <<req, round, accumulated, said, outcome>>,
         \/ phase' = [phase EXCEPT ![d] = "logged"] /\ committed' = Len(audit')
         \/ phase' = [phase EXCEPT ![d] = "raised"] /\ committed' = committed
  PROVE  \A e \in Dispatch : CallInv(e)' /\ RowMatches(e)'
<1>1. TypeOK /\ committed' \in Nat /\ committed' >= committed
  BY RowAdded DEF GateInv, TypeOK
<1>2. /\ \/ phase'[d] = "logged" /\ committed' = Len(audit) + 1
         \/ phase'[d] = "raised"
      /\ \A e \in Dispatch \ {d} : phase'[e] = phase[e]
  BY <1>1, RowAdded DEF TypeOK
<1>3. /\ audit'[Len(audit) + 1] = outcome[d] /\ RowsOf(d)' = {Len(audit) + 1}
      /\ \A i \in 1..Len(audit) : audit'[i] = audit[i]
      /\ \A e \in Dispatch \ {d} : RowsOf(e)' = RowsOf(e)
      /\ Len(audit) \in Nat /\ committed \in Nat /\ committed' \in Nat
  BY <1>1, RowAdded DEF TypeOK
<1>4. CallInv(d)'
  <2>1. CallInv(d)
    BY GateInvParts
  <2> QED
    BY <1>2, <2>1
       DEF CallInv, Released, Concluded, Justified, Exempt, Approved, Outlasted, AllRevise,
           Tightened, Gathered, LoopInv, Trivial, TierOf, Rounds, Seeds
<1>5. RowMatches(d)'
  BY <1>2, <1>3 DEF RowMatches, Unlogged
<1>6. ASSUME NEW e \in Dispatch \ {d} PROVE CallInv(e)' /\ RowMatches(e)'
  <2>1. CallInv(e) /\ RowMatches(e)
    BY GateInvParts
  <2>2. CallInv(e)'
    BY <1>2, <2>1, CallUntouched
  <2>3. \A i \in RowsOf(e) : i \in Nat /\ audit'[i] = audit[i]
    BY <1>3 DEF RowsOf
  <2>4. /\ RowsOf(e)' = RowsOf(e) /\ outcome'[e] = outcome[e] /\ phase'[e] = phase[e]
        /\ committed \in Nat /\ committed' \in Nat /\ committed' >= committed
    BY <1>1, <1>2, <1>3
  <2>5. RowMatches(e)'
    <3>1. \A i, j \in RowsOf(e)' : i = j /\ audit'[i] = outcome'[e]
      BY <2>1, <2>3, <2>4 DEF RowMatches
    <3>2. /\ phase'[e] \in Unlogged => RowsOf(e)' = {}
          /\ phase'[e] \in {"logged", "returned"} => RowsOf(e)' # {}
      BY <2>1, <2>4 DEF RowMatches
    <3>3. phase'[e] # "raised" => \A i \in RowsOf(e)' : i <= committed'
      BY <2>1, <2>3, <2>4 DEF RowMatches
    <3> QED
      BY <3>1, <3>2, <3>3 DEF RowMatches
  <2> QED
    BY <2>2, <2>5
<1> QED
  BY <1>4, <1>5, <1>6

\* The append gives the call its row, and every other call keeps its own.
LEMMA AppendKeeps ==
  ASSUME GateInv, NEW d \in Dispatch, AppendRow(d)
  PROVE  \A e \in Dispatch : CallInv(e)' /\ RowMatches(e)'
  BY InsertKeeps DEF AppendRow

\* The loop starts with the seeds, and before anything was heard.
LEMMA StartKeeps ==
  ASSUME GateInv, NEW d \in Dispatch, StartReview(d)
  PROVE  \A e \in Dispatch : CallInv(e)' /\ RowMatches(e)'
<1>1. /\ phase[d] = "called"
      /\ ~Trivial(d) \/ HasCheap
      /\ phase' = [phase EXCEPT ![d] = "reviewing"]
      /\ round' = [round EXCEPT ![d] = 1]
      /\ accumulated' = [accumulated EXCEPT ![d] = Seeds(d)]
      /\ UNCHANGED <<req, said, outcome, audit, committed>>
  BY DEF StartReview
<1>2. TypeOK /\ LoopInv(d)
  BY DEF GateInv
<1>3. /\ phase'[d] = "reviewing" /\ round'[d] = 1 /\ accumulated'[d] = Seeds(d)
      /\ \A e \in Dispatch \ {d} : /\ phase'[e] = phase[e] /\ round'[e] = round[e]
                                   /\ accumulated'[e] = accumulated[e]
  BY <1>1, <1>2 DEF TypeOK
<1>4. said'[d] = <<>>
  <2>1. phase[d] = "called" /\ said' = said
    BY <1>1
  <2> QED
    BY <1>2, <2>1 DEF LoopInv
<1>5. /\ Len(said'[d]) = 0
      /\ AllRevise(said'[d], Len(said'[d]))
      /\ Gathered(Seeds(d), said'[d], Seeds(d))
  <2>1. Len(<<>>) = 0
    OBVIOUS
  <2>2. AllRevise(<<>>, Len(<<>>))
    BY <2>1 DEF AllRevise
  <2>3. Gathered(Seeds(d), <<>>, Seeds(d))
    BY <2>1 DEF Gathered
  <2> QED
    BY <1>4, <2>1, <2>2, <2>3
<1>6. CallInv(d)'
  BY <1>1, <1>2, <1>3, <1>4, <1>5, RoundsPositive
     DEF CallInv, Released, Concluded, LoopInv, Rounds, Trivial, TierOf, Seeds
<1>7. ASSUME NEW e \in Dispatch \ {d} PROVE CallInv(e)'
  BY <1>1, <1>3, GateInvParts, CallUntouched
<1>8. ASSUME NEW e \in Dispatch PROVE RowMatches(e)'
  <2>1. RowMatches(e)
    BY GateInvParts
  <2>2. /\ phase'[e] \in Unlogged => phase[e] \in Unlogged
        /\ phase'[e] \in {"logged", "returned"} => phase[e] \in {"logged", "returned"}
        /\ phase[e] = "raised" => phase'[e] = "raised"
    BY <1>1, <1>3 DEF Unlogged
  <2>3. audit' = audit /\ committed' \in Nat /\ committed' >= committed /\ outcome'[e] = outcome[e]
    BY <1>1, <1>2 DEF TypeOK
  <2> QED
    BY <1>2, <2>1, <2>2, <2>3, RowsUntouched
<1> QED
  BY <1>6, <1>7, <1>8

\* The steps that only move the call on: made, returned, or left by an exception.
LEMMA MoveKeeps ==
  ASSUME GateInv, NEW d \in Dispatch,
         \/ phase[d] = "idle" /\ phase' = [phase EXCEPT ![d] = "called"]
         \/ phase[d] \in {"reviewing", "writing"} /\ phase' = [phase EXCEPT ![d] = "raised"]
         \/ phase[d] = "logged" /\ phase' = [phase EXCEPT ![d] = "returned"],
         UNCHANGED <<req, round, accumulated, said, outcome, audit, committed>>
  PROVE  \A e \in Dispatch : CallInv(e)' /\ RowMatches(e)'
<1>1. TypeOK /\ CallInv(d) /\ audit' = audit /\ committed' \in Nat /\ committed' >= committed
  BY GateInvParts DEF TypeOK
<1>2. /\ \/ phase[d] = "idle" /\ phase'[d] = "called"
         \/ phase[d] \in {"reviewing", "writing"} /\ phase'[d] = "raised"
         \/ phase[d] = "logged" /\ phase'[d] = "returned"
      /\ \A e \in Dispatch \ {d} : phase'[e] = phase[e]
  BY <1>1 DEF TypeOK
<1>3. CallInv(d)'
  BY <1>1, <1>2
     DEF CallInv, Released, Concluded, Justified, Exempt, Approved, Outlasted, AllRevise,
         Tightened, Gathered, LoopInv, Trivial, TierOf, Rounds, Seeds
<1>4. ASSUME NEW e \in Dispatch \ {d} PROVE CallInv(e)'
  BY <1>2, GateInvParts, CallUntouched
<1>5. ASSUME NEW e \in Dispatch PROVE RowMatches(e)'
  <2>1. RowMatches(e) /\ outcome'[e] = outcome[e]
    BY GateInvParts
  <2>2. phase'[e] \in Unlogged => phase[e] \in Unlogged
    BY <1>2 DEF Unlogged
  <2>3. /\ phase'[e] \in {"logged", "returned"} => phase[e] \in {"logged", "returned"}
        /\ phase[e] = "raised" => phase'[e] = "raised"
    BY <1>2
  <2> QED
    BY <1>1, <2>1, <2>2, <2>3, RowsUntouched
<1> QED
  BY <1>3, <1>4, <1>5

\* An append that raises has inserted the row or has not.
LEMMA RaiseKeeps ==
  ASSUME GateInv, NEW d \in Dispatch, AppendRaises(d)
  PROVE  \A e \in Dispatch : CallInv(e)' /\ RowMatches(e)'
<1>1. CASE audit' = audit
  BY <1>1, MoveKeeps DEF AppendRaises
<1>2. CASE audit' = Append(audit, outcome[d])
  BY <1>2, InsertKeeps DEF AppendRaises
<1> QED
  BY <1>1, <1>2 DEF AppendRaises

\* A commit of the mirror moves rows into the file and nothing else.
LEMMA MirrorKeeps ==
  ASSUME GateInv, MirrorCommits
  PROVE  \A e \in Dispatch : CallInv(e)' /\ RowMatches(e)'
<1> SUFFICES ASSUME NEW e \in Dispatch PROVE CallInv(e)' /\ RowMatches(e)'
  OBVIOUS
<1>1. /\ UNCHANGED <<phase, req, round, accumulated, said, outcome, audit>>
      /\ committed' \in Nat /\ committed' >= committed
  BY DEF MirrorCommits, GateInv, TypeOK
<1>2. TypeOK /\ CallInv(e) /\ RowMatches(e)
  BY GateInvParts
<1> QED
  BY <1>1, <1>2, CallUntouched, RowsUntouched

\* What the death of the process leaves in the trail is what was in the file.
LEMMA RowsAfterDeath ==
  ASSUME TypeOK, ProcessDies, NEW e \in Dispatch
  PROVE  /\ RowsOf(e)' = {i \in RowsOf(e) : i <= committed}
         /\ \A i \in RowsOf(e)' : audit'[i] = audit[i]
<1>1. /\ audit \in Seq(Outcome) /\ committed \in 0..Len(audit)
      /\ audit' = SubSeq(audit, 1, committed)
  BY DEF TypeOK, ProcessDies
<1>2. Len(audit') = committed /\ \A i \in 1..committed : audit'[i] = audit[i]
  BY <1>1
<1> QED
  BY <1>1, <1>2 DEF RowsOf

\* The death of the process undoes no row of the file and no decision.
LEMMA DeathKeeps ==
  ASSUME GateInv, ProcessDies
  PROVE  \A e \in Dispatch : CallInv(e)' /\ RowMatches(e)'
<1> SUFFICES ASSUME NEW e \in Dispatch PROVE CallInv(e)' /\ RowMatches(e)'
  OBVIOUS
<1>1. /\ phase'[e] = phase[e] \/ phase'[e] = "lost"
      /\ UNCHANGED <<req, round, accumulated, said, outcome, committed>>
  BY DEF ProcessDies
<1>2. TypeOK /\ CallInv(e) /\ RowMatches(e)
  BY GateInvParts
<1>3. CallInv(e)'
  BY <1>1, <1>2, CallUntouched
<1>4. /\ RowsOf(e)' = {i \in RowsOf(e) : i <= committed}
      /\ \A i \in RowsOf(e)' : audit'[i] = audit[i]
  BY <1>2, RowsAfterDeath
<1>5. RowMatches(e)'
  BY <1>1, <1>2, <1>4 DEF RowMatches, Unlogged
<1> QED
  BY <1>3, <1>5

\* The invariant holds before any call.
LEMMA InitGateInv == GateInit => GateInv
<1> SUFFICES ASSUME GateInit PROVE GateInv
  OBVIOUS
<1>1. TypeOK
  BY InitTypeOK
<1>2. ASSUME NEW d \in Dispatch PROVE CallInv(d) /\ RowMatches(d)
  <2>1. phase[d] = "idle" /\ said[d] = <<>> /\ Len(audit) = 0
    BY DEF GateInit
  <2>2. outcome[d].dispatch = d
    BY FailClosedType DEF GateInit
  <2>3. CallInv(d)
    BY <2>1, <2>2 DEF CallInv, Released, Concluded, LoopInv
  <2>4. RowMatches(d)
    BY <2>1 DEF RowMatches, RowsOf, Unlogged
  <2> QED
    BY <2>3, <2>4
<1> QED
  BY <1>1, <1>2, GateInvParts

\* Every step keeps the invariant.
LEMMA StepGateInv == GateInv /\ [GateNext]_gateVars => GateInv'
<1> SUFFICES ASSUME GateInv, [GateNext]_gateVars PROVE GateInv'
  OBVIOUS
<1>1. TypeOK'
  BY StepTypeOK DEF GateInv
<1>2. \A e \in Dispatch : CallInv(e)' /\ RowMatches(e)'
  <2>1. CASE \E d \in Dispatch : Submit(d) \/ CallStep(d)
    <3>1. PICK d \in Dispatch : Submit(d) \/ CallStep(d)
      BY <2>1
    <3>2. \/ SkipReview(d) \/ StartReview(d) \/ AppendRow(d)
          \/ Submit(d) \/ AppendRaises(d) \/ Return(d)
          \/ ReviewerUnavailable(d)
          \/ \E raw \in Answer :
                \/ Unparseable(d, raw) \/ ParserRaises(d, raw) \/ ReviewerBlocks(d, raw)
                \/ TightenViolated(d, raw) \/ ReviewerPasses(d, raw)
                \/ ReviewerRevises(d, raw) \/ RoundsExhausted(d, raw)
      BY <3>1 DEF CallStep, ReviewStep
    <3>3. CASE SkipReview(d)
      BY <1>1, <3>3, SkipKeeps
    <3>4. CASE StartReview(d)
      BY <1>1, <3>4, StartKeeps
    <3>5. CASE AppendRow(d)
      BY <1>1, <3>5, AppendKeeps
    <3>6. CASE Submit(d) \/ Return(d)
      BY <1>1, <3>6, MoveKeeps DEF Submit, Return
    <3>13. CASE AppendRaises(d)
      BY <1>1, <3>13, RaiseKeeps
    <3>7. CASE ReviewerUnavailable(d)
      BY <1>1, <3>7, HoldsKeep
    <3>8. ASSUME NEW raw \in Answer,
                 Unparseable(d, raw) \/ ReviewerBlocks(d, raw) \/ TightenViolated(d, raw)
          PROVE  \A e \in Dispatch : CallInv(e)' /\ RowMatches(e)'
      BY <1>1, <3>8, HoldsKeep
    <3>9. ASSUME NEW raw \in Answer, ParserRaises(d, raw)
          PROVE  \A e \in Dispatch : CallInv(e)' /\ RowMatches(e)'
      BY <1>1, <3>9, MoveKeeps DEF ParserRaises
    <3>10. ASSUME NEW raw \in Answer, ReviewerPasses(d, raw)
           PROVE  \A e \in Dispatch : CallInv(e)' /\ RowMatches(e)'
      BY <1>1, <3>10, PassKeeps
    <3>11. ASSUME NEW raw \in Answer, ReviewerRevises(d, raw)
           PROVE  \A e \in Dispatch : CallInv(e)' /\ RowMatches(e)'
      BY <1>1, <3>11, RevisionKeeps
    <3>12. ASSUME NEW raw \in Answer, RoundsExhausted(d, raw)
           PROVE  \A e \in Dispatch : CallInv(e)' /\ RowMatches(e)'
      BY <1>1, <3>12, ExhaustedKeeps
    <3> QED
      BY <3>2, <3>3, <3>4, <3>5, <3>6, <3>7, <3>8, <3>9, <3>10, <3>11, <3>12, <3>13
  <2>2. CASE ProcessDies
    BY <2>2, DeathKeeps
  <2>3. CASE UNCHANGED gateVars
    <3>1. /\ UNCHANGED <<phase, req, round, accumulated, said, outcome, stamps, audit>>
          /\ committed' \in Nat /\ committed' >= committed /\ TypeOK
      BY <2>3 DEF gateVars, GateInv, TypeOK
    <3> QED
      BY <1>1, <3>1, GateInvParts, CallUntouched, RowsUntouched
  <2>4. CASE MirrorCommits
    BY <1>1, <2>4, MirrorKeeps
  <2> QED
    BY <2>1, <2>2, <2>3, <2>4 DEF GateNext
<1>3. ReleaseJustified' /\ TightenOnly' /\ RowBeforeResult'
  BY <1>2 DEF ReleaseJustified, TightenOnly, RowBeforeResult, CallInv
<1>4. \A e \in Dispatch : LoopInv(e)'
  BY <1>2 DEF CallInv
<1> QED
  BY <1>1, <1>3, <1>4 DEF GateInv

\* The inductive invariant of the gate, for every instance.
THEOREM InvariantHolds == GateSpec => []GateInv
  BY InitGateInv, StepGateInv, PTL DEF GateSpec

\* Nothing is released that its reviewer did not pass, that policy does not exempt
\* and that did not outlast every round in a tier that does not escalate: for every
\* round cap, answer, fault and number of calls (review_and_dispatch).
THEOREM OnlyJustifiedReleases == GateSpec => []ReleaseJustified
<1>1. GateInv => ReleaseJustified
  BY DEF GateInv
<1> QED
  BY <1>1, InvariantHolds, PTL

\* What is dispatched is the submitted base plus permitted directives, all the ones
\* that were said and no others, however many rounds it took.
THEOREM OnlyTightens == GateSpec => []TightenOnly
<1>1. GateInv => TightenOnly
  BY DEF GateInv
<1> QED
  BY <1>1, InvariantHolds, PTL

\* A result has its row in the file, and whatever appends raise, commit late or lose
\* with the process, no call has two rows or one that is not what the gate decided.
THEOREM NoResultWithoutItsRow == GateSpec => []RowBeforeResult
<1>1. GateInv => RowBeforeResult
  BY DEF GateInv
<1> QED
  BY <1>1, InvariantHolds, PTL

\* A meta that the adapter derived from toolsets that may write is not trivial, as long
\* as trivial_max_files is below the two files that _meta_from declares for it.
LEMMA WritersAreNotTrivial ==
  ASSUME TrivialMaxFiles < 2, NEW ts, NEW n, NEW m, m = MetaFrom(ts, n), ~m.readOnly
  PROVE  Classify(m) # "trivial"
<1>1. m.fileCount = 2
  BY DEF MetaFrom, MetaOf
<1>2. EffectiveFileCount(m) = 2
  BY <1>1 DEF EffectiveFileCount, NoFileCount
<1> QED
  BY <1>2, TieringAssumption DEF Classify

\* A released dispatch that may write carries the workspace directive, when its meta is
\* one that the adapter derives from toolsets (_meta_from) and trivial_max_files is
\* below 2 (it is 1 by default): then it is no dispatch that skips the seeds.
THEOREM WritersDeclareTheWorkspace ==
  ASSUME TrivialMaxFiles < 2,
         \A m \in Meta : \E ts \in SUBSET ToolsetKinds, n \in Nat : m = MetaFrom(ts, n)
  PROVE  GateSpec => []WorkspaceDeclared
<1>1. GateInv => WorkspaceDeclared
  <2> SUFFICES ASSUME GateInv, NEW d \in Dispatch, Released(d), ~req[d].meta.readOnly
               PROVE  Workspace \subseteq outcome[d].directives
    BY DEF WorkspaceDeclared
  <2>1. Justified(d) /\ Tightened(d) /\ req[d].meta \in Meta
    BY DEF GateInv, TypeOK, ReleaseJustified, TightenOnly
  <2>2. ~Trivial(d)
    <3>1. PICK ts \in SUBSET ToolsetKinds, n \in Nat : req[d].meta = MetaFrom(ts, n)
      BY <2>1
    <3> QED
      BY <3>1, WritersAreNotTrivial DEF Trivial, TierOf, SkipsFrontierReview
  <2>3. Approved(d) \/ Outlasted(d)
    BY <2>1, <2>2 DEF Justified, Exempt
  <2>4. said[d] # <<>>
    <3>1. Rounds(d) \in Nat /\ Rounds(d) >= 1
      BY RoundsPositive
    <3>2. Len(said[d]) # 0
      BY <2>3, <3>1 DEF Approved, Outlasted
    <3>3. Len(<<>>) = 0
      OBVIOUS
    <3> QED
      BY <3>2, <3>3
  <2>5. Seeds(d) \subseteq outcome[d].directives
    BY <2>1, <2>4 DEF Tightened, Gathered
  <2> QED
    BY <2>5 DEF Seeds, SeedDirectives
<1> QED
  BY <1>1, InvariantHolds, PTL

-----------------------------------------------------------------------------
(* The gate implements DispatchPromise: its initial states map to initial  *)
(* states, and every step to a step or a stutter.                          *)

\* A step that keeps the stage and the rows of every call is a stutter.
LEMMA StutterMaps ==
  ASSUME \A e \in Dispatch : StageOf(e)' = StageOf(e),
         \A e \in Dispatch : LedgerOf(e)' = LedgerOf(e)
  PROVE  UNCHANGED Promise!promiseVars
  BY DEF Promise!promiseVars

\* Where the trail and the file are untouched, so is every ledger.
LEMMA SameLedger ==
  ASSUME UNCHANGED <<audit, committed>>, NEW e \in Dispatch
  PROVE  LedgerOf(e)' = LedgerOf(e)
  BY DEF LedgerOf, RowsOf

EntryOf(d) == IF outcome[d].released THEN "release" ELSE "hold"

\* The ledger of a call is empty before it is logged, what its outcome says from then
\* on, and never anything else.
LEMMA LedgerOfCall ==
  ASSUME GateInv, NEW d \in Dispatch
  PROVE  /\ phase[d] \in Unlogged => LedgerOf(d) = {}
         /\ phase[d] \in {"logged", "returned"} => LedgerOf(d) = {EntryOf(d)}
         /\ LedgerOf(d) \in {{}, {EntryOf(d)}}
<1>1. RowMatches(d)
  BY GateInvParts
<1> DEFINE kept == {j \in RowsOf(d) : j <= committed}
<1>2. LedgerOf(d) = {IF audit[i].released THEN "release" ELSE "hold" : i \in kept}
  BY DEF LedgerOf
<1>3. \A i \in kept : audit[i] = outcome[d]
  BY <1>1 DEF RowMatches
<1>4. phase[d] \in Unlogged => kept = {}
  BY <1>1 DEF RowMatches
<1>5. phase[d] \in {"logged", "returned"} => kept # {}
  BY <1>1 DEF RowMatches
<1> HIDE DEF kept
<1>6. kept = {} => LedgerOf(d) = {}
  BY <1>2
<1>7. kept # {} => LedgerOf(d) = {EntryOf(d)}
  BY <1>2, <1>3 DEF EntryOf
<1> QED
  BY <1>4, <1>5, <1>6, <1>7

\* In a single formula, for the step before and the one after.
LEMMA LedgersSayOutcomes ==
  GateInv => \A c \in Dispatch : LedgerOf(c) \in {{}, {EntryOf(c)}}
  BY LedgerOfCall

\* Before any call nothing is open and nothing is entered.
LEMMA InitMaps == GateInit => Promise!PromiseInit
<1> SUFFICES ASSUME GateInit PROVE Promise!PromiseInit
  OBVIOUS
<1>1. ASSUME NEW d \in Dispatch PROVE StageOf(d) = "idle" /\ LedgerOf(d) = {}
  <2>1. phase[d] = "idle" /\ audit = <<>> /\ Len(<<>>) = 0
    BY DEF GateInit
  <2>2. StageOf(d) = "idle"
    BY <2>1 DEF StageOf, InFlight
  <2>3. RowsOf(d) = {}
    <3>1. 1..Len(audit) = {}
      BY <2>1
    <3> QED
      BY <3>1 DEF RowsOf
  <2>4. LedgerOf(d) = {}
    BY <2>3 DEF LedgerOf
  <2> QED
    BY <2>2, <2>4
<1> QED
  BY <1>1 DEF Promise!PromiseInit

\* The steps inside a call, up to its append, are invisible.
LEMMA InnerStepMaps ==
  ASSUME GateInv, NEW d \in Dispatch, UNCHANGED <<audit, committed>>,
         phase[d] \in InFlight,
         \E q \in InFlight : phase' = [phase EXCEPT ![d] = q],
         \A e \in Dispatch \ {d} : outcome'[e] = outcome[e]
  PROVE  UNCHANGED Promise!promiseVars
<1>1. PICK q \in InFlight : phase' = [phase EXCEPT ![d] = q]
  OBVIOUS
<1>2. phase \in [Dispatch -> Phases]
  BY DEF GateInv, TypeOK
<1>3. ASSUME NEW e \in Dispatch PROVE StageOf(e)' = StageOf(e)
  <2>1. CASE e = d
    BY <1>1, <1>2, <2>1 DEF StageOf, InFlight
  <2>2. CASE e # d
    <3>1. phase'[e] = phase[e] /\ outcome'[e] = outcome[e]
      BY <1>1, <1>2, <2>2
    <3> QED
      BY <3>1 DEF StageOf
  <2> QED
    BY <2>1, <2>2
<1>4. \A e \in Dispatch : LedgerOf(e)' = LedgerOf(e)
  BY SameLedger
<1> QED
  BY <1>3, <1>4, StutterMaps

\* A row that a raising append left in the transaction is in no ledger.
LEMMA LeftRowIsNoEntry ==
  ASSUME GateInv, NEW d \in Dispatch, AppendRaises(d), NEW e \in Dispatch
  PROVE  LedgerOf(e)' = LedgerOf(e)
<1>1. CASE audit' = audit
  BY <1>1, SameLedger DEF AppendRaises
<1>2. CASE audit' = Append(audit, outcome[d])
  <2>1. /\ phase[d] = "writing" /\ committed' = committed
        /\ committed \in 0..Len(audit) /\ Len(audit) \in Nat
    BY DEF AppendRaises, GateInv, TypeOK
  <2>2. /\ \A i \in 1..Len(audit) : audit'[i] = audit[i]
        /\ RowsOf(d) = {} /\ RowsOf(d)' = {Len(audit) + 1}
        /\ \A c \in Dispatch \ {d} : RowsOf(c)' = RowsOf(c)
    BY <1>2, <2>1, RowAdded
  <2> DEFINE kept == {j \in RowsOf(e) : j <= committed}
  <2>3. kept' = kept
    BY <2>1, <2>2
  <2>4. \A i \in kept : audit'[i] = audit[i]
    BY <2>2 DEF RowsOf
  <2> QED
    BY <2>3, <2>4 DEF LedgerOf
<1> QED
  BY <1>1, <1>2 DEF AppendRaises

\* A call left by an exception has entered nothing so far: it failed.
LEMMA RaiseMaps ==
  ASSUME GateInv, NEW d \in Dispatch, UNCHANGED outcome,
         phase[d] \in {"reviewing", "writing"},
         phase' = [phase EXCEPT ![d] = "raised"],
         \A e \in Dispatch : LedgerOf(e)' = LedgerOf(e)
  PROVE  Promise!FailDispatch(d)
<1>1. phase'[d] = "raised" /\ \A e \in Dispatch \ {d} : phase'[e] = phase[e]
  BY DEF GateInv, TypeOK
<1>2. StageOf(d) = "open" /\ StageOf(d)' = "failed"
  BY <1>1 DEF StageOf, InFlight
<1>3. \A e \in Dispatch \ {d} : StageOf(e)' = StageOf(e)
  BY <1>1 DEF StageOf
<1>4. LedgerOf(d) = {}
  BY LedgerOfCall DEF Unlogged
<1> QED
  BY <1>2, <1>3, <1>4 DEF Promise!FailDispatch

\* A commit only adds entries, one per call, for calls that are open or failed.
LEMMA CommitMaps ==
  ASSUME GateInv, GateInv', UNCHANGED outcome, committed' >= committed,
         \A i \in 1..Len(audit) : audit'[i] = audit[i],
         \A e \in Dispatch : StageOf(e)' = StageOf(e),
         \A e \in Dispatch : RowsOf(e) \subseteq RowsOf(e)',
         \A e \in Dispatch : RowsOf(e)' # RowsOf(e) => phase[e] = "writing"
  PROVE  Promise!Enter
<1>1. ASSUME NEW e \in Dispatch
      PROVE  /\ LedgerOf(e)' \in {{}, {"release"}, {"hold"}}
             /\ LedgerOf(e)' # LedgerOf(e) =>
                   /\ StageOf(e) \in {"open", "failed"}
                   /\ LedgerOf(e) = {}
                   /\ LedgerOf(e)' \in {{"release"}, {"hold"}}
  <2>1. /\ LedgerOf(e) \in {{}, {EntryOf(e)}} /\ EntryOf(e) \in {"release", "hold"}
        /\ LedgerOf(e)' \in {{}, {EntryOf(e)'}} /\ EntryOf(e)' = EntryOf(e)
    <3>1. GateInv' => (\A c \in Dispatch : LedgerOf(c) \in {{}, {EntryOf(c)}})'
      BY LedgersSayOutcomes, PTL
    <3> QED
      BY <3>1, LedgersSayOutcomes DEF EntryOf
  <2>2. LedgerOf(e) \subseteq LedgerOf(e)'
    <3> DEFINE kept == {j \in RowsOf(e) : j <= committed}
    <3>1. /\ \A i \in RowsOf(e) : i \in 1..Len(audit)
          /\ committed \in Nat /\ committed' \in Nat /\ Len(audit) \in Nat
      BY DEF RowsOf, GateInv, TypeOK
    <3>2. kept \subseteq kept' /\ \A i \in kept : audit'[i] = audit[i]
      BY <3>1
    <3> QED
      BY <3>2 DEF LedgerOf
  <2>3. CASE LedgerOf(e)' = LedgerOf(e)
    BY <2>1, <2>3
  <2>4. CASE LedgerOf(e)' # LedgerOf(e)
    <3>1. LedgerOf(e) = {} /\ LedgerOf(e)' = {EntryOf(e)}
      BY <2>1, <2>2, <2>4
    <3>2. phase[e] \in {"writing", "raised"}
      <4>1. CASE RowsOf(e)' # RowsOf(e)
        BY <4>1
      <4>2. CASE RowsOf(e)' = RowsOf(e)
        <5>1. SUFFICES ASSUME phase[e] # "raised" PROVE FALSE
          OBVIOUS
        <5>2. \A i \in RowsOf(e) : i <= committed /\ i \in 1..Len(audit)
          BY <5>1, GateInvParts DEF RowMatches, RowsOf
        <5>3. committed \in Nat /\ committed' \in Nat
          BY DEF GateInv, TypeOK
        <5> DEFINE kept == {j \in RowsOf(e) : j <= committed}
        <5>4. kept' = kept /\ \A i \in kept : audit'[i] = audit[i]
          BY <4>2, <5>2, <5>3
        <5> QED
          BY <2>4, <5>4 DEF LedgerOf
      <4> QED
        BY <4>1, <4>2
    <3> QED
      BY <2>1, <3>1, <3>2 DEF StageOf, InFlight
  <2> QED
    BY <2>3, <2>4
<1> QED
  BY <1>1 DEF Promise!Enter

\* The append is the entry of its call, and of those whose rows were left.
LEMMA AppendMaps ==
  ASSUME GateInv, NEW d \in Dispatch, AppendRow(d)
  PROVE  Promise!Enter
<1>1. /\ phase[d] = "writing" /\ audit' = Append(audit, outcome[d])
      /\ committed' = Len(audit') /\ phase' = [phase EXCEPT ![d] = "logged"]
      /\ outcome' = outcome
  BY DEF AppendRow
<1>2. TypeOK /\ GateInv'
  BY StepGateInv DEF GateInv, GateNext, CallStep
<1>3. phase'[d] = "logged" /\ \A e \in Dispatch \ {d} : phase'[e] = phase[e]
  BY <1>1, <1>2 DEF TypeOK
<1>4. /\ Len(audit') = Len(audit) + 1 /\ \A i \in 1..Len(audit) : audit'[i] = audit[i]
      /\ RowsOf(d) = {} /\ \A e \in Dispatch \ {d} : RowsOf(e)' = RowsOf(e)
  BY <1>1, RowAdded
<1>5. committed' >= committed
  BY <1>1, <1>2, <1>4 DEF TypeOK
<1>6. \A e \in Dispatch : StageOf(e)' = StageOf(e)
  BY <1>1, <1>3 DEF StageOf, InFlight
<1>7. ASSUME NEW e \in Dispatch
      PROVE  /\ RowsOf(e) \subseteq RowsOf(e)'
             /\ RowsOf(e)' # RowsOf(e) => phase[e] = "writing"
  BY <1>1, <1>4
<1> QED
  BY <1>1, <1>2, <1>4, <1>5, <1>6, <1>7, CommitMaps

\* A commit of the mirror enters the rows that were left.
LEMMA MirrorMaps ==
  ASSUME GateInv, MirrorCommits
  PROVE  Promise!Enter
<1>1. GateInv'
  BY StepGateInv DEF GateNext
<1>2. UNCHANGED <<phase, outcome, audit>> /\ committed' >= committed
  BY DEF MirrorCommits, GateInv, TypeOK
<1>3. \A e \in Dispatch : StageOf(e)' = StageOf(e) /\ RowsOf(e)' = RowsOf(e)
  BY <1>2 DEF StageOf, RowsOf
<1> QED
  BY <1>1, <1>2, <1>3, CommitMaps

\* What a call returns is what the ledger says of it.
LEMMA ReturnMaps ==
  ASSUME GateInv, NEW d \in Dispatch, Return(d)
  PROVE  Promise!ReleaseDispatch(d) \/ Promise!HoldDispatch(d)
<1>1. /\ phase[d] = "logged" /\ phase' = [phase EXCEPT ![d] = "returned"]
      /\ UNCHANGED <<outcome, audit, committed>>
  BY DEF Return
<1>2. phase'[d] = "returned" /\ \A e \in Dispatch \ {d} : phase'[e] = phase[e]
  BY <1>1 DEF GateInv, TypeOK
<1>3. /\ StageOf(d) = "open"
      /\ StageOf(d)' = IF outcome[d].released THEN "released" ELSE "held"
  BY <1>1, <1>2 DEF StageOf, InFlight
<1>4. \A e \in Dispatch \ {d} : StageOf(e)' = StageOf(e)
  BY <1>1, <1>2 DEF StageOf
<1>5. LedgerOf(d) = {EntryOf(d)}
  BY <1>1, LedgerOfCall
<1>6. \A e \in Dispatch : LedgerOf(e)' = LedgerOf(e)
  BY <1>1, SameLedger
<1>7. CASE outcome[d].released
  BY <1>3, <1>4, <1>5, <1>6, <1>7 DEF Promise!ReleaseDispatch, EntryOf
<1>8. CASE ~outcome[d].released
  BY <1>3, <1>4, <1>5, <1>6, <1>8 DEF Promise!HoldDispatch, EntryOf
<1> QED
  BY <1>7, <1>8

\* The death of the process loses exactly the open dispatches.
LEMMA DeathMaps ==
  ASSUME GateInv, ProcessDies
  PROVE  Promise!LoseOpen
<1>1. /\ phase' = [d \in Dispatch |-> IF phase[d] \in InFlight THEN "lost" ELSE phase[d]]
      /\ UNCHANGED <<outcome, committed>>
  BY DEF ProcessDies
<1>2. ASSUME NEW e \in Dispatch
      PROVE  StageOf(e)' = IF StageOf(e) = "open" THEN "lost" ELSE StageOf(e)
  <2>1. phase'[e] = IF phase[e] \in InFlight THEN "lost" ELSE phase[e]
    BY <1>1
  <2>2. phase[e] \in Phases
    BY DEF GateInv, TypeOK
  <2> QED
    BY <1>1, <2>1, <2>2 DEF StageOf, InFlight, Phases
<1>3. ASSUME NEW e \in Dispatch PROVE LedgerOf(e)' = LedgerOf(e)
  <2> DEFINE kept == {j \in RowsOf(e) : j <= committed}
  <2>1. /\ RowsOf(e)' = {i \in RowsOf(e) : i <= committed}
        /\ \A i \in RowsOf(e)' : audit'[i] = audit[i]
    BY RowsAfterDeath DEF GateInv
  <2>2. kept' = kept /\ \A i \in kept : audit'[i] = audit[i]
    BY <1>1, <2>1
  <2> QED
    BY <2>2 DEF LedgerOf
<1> QED
  BY <1>2, <1>3 DEF Promise!LoseOpen

\* Every step of the gate is a step of the promise or a stutter.
LEMMA StepMaps ==
  ASSUME GateInv, [GateNext]_gateVars
  PROVE  [Promise!PromiseNext]_Promise!promiseVars
<1> USE DEF Promise!PromiseNext
<1>1. CASE UNCHANGED gateVars
  <2>1. UNCHANGED <<phase, req, round, accumulated, said, outcome, stamps, audit, committed>>
    BY <1>1 DEF gateVars
  <2>2. \A e \in Dispatch : StageOf(e)' = StageOf(e) /\ LedgerOf(e)' = LedgerOf(e)
    BY <2>1 DEF StageOf, LedgerOf, RowsOf
  <2> QED
    BY <2>2, StutterMaps
<1>2. CASE ProcessDies
  BY <1>2, DeathMaps
<1>5. CASE MirrorCommits
  BY <1>5, MirrorMaps
<1>3. ASSUME NEW d \in Dispatch, Submit(d) PROVE Promise!PromiseNext
  <2>1. /\ phase[d] = "idle" /\ phase' = [phase EXCEPT ![d] = "called"]
        /\ UNCHANGED <<outcome, audit, committed>>
    BY <1>3 DEF Submit
  <2>2. phase'[d] = "called" /\ \A e \in Dispatch \ {d} : phase'[e] = phase[e]
    BY <2>1 DEF GateInv, TypeOK
  <2>3. StageOf(d) = "idle" /\ StageOf(d)' = "open"
    BY <2>1, <2>2 DEF StageOf, InFlight
  <2>4. \A e \in Dispatch \ {d} : StageOf(e)' = StageOf(e)
    BY <2>1, <2>2 DEF StageOf
  <2>5. \A e \in Dispatch : LedgerOf(e)' = LedgerOf(e)
    BY <2>1, SameLedger
  <2> QED
    BY <2>3, <2>4, <2>5 DEF Promise!Open
<1>4. ASSUME NEW d \in Dispatch, CallStep(d)
      PROVE  Promise!PromiseNext \/ UNCHANGED Promise!promiseVars
  <2>1. CASE AppendRow(d)
    BY <2>1, AppendMaps
  <2>2. CASE Return(d)
    BY <2>2, ReturnMaps
  <2>3. CASE AppendRaises(d) \/ \E raw \in Answer : ParserRaises(d, raw)
    <3>1. /\ phase[d] \in {"reviewing", "writing"}
          /\ phase' = [phase EXCEPT ![d] = "raised"]
          /\ UNCHANGED outcome
      BY <2>3 DEF AppendRaises, ParserRaises
    <3>2. \A e \in Dispatch : LedgerOf(e)' = LedgerOf(e)
      BY <2>3, SameLedger, LeftRowIsNoEntry DEF ParserRaises
    <3> QED
      BY <3>1, <3>2, RaiseMaps
  <2>4. CASE StartReview(d) \/ \E raw \in Answer : ReviewerRevises(d, raw)
    <3>1. /\ phase[d] \in {"called", "reviewing"}
          /\ phase' = [phase EXCEPT ![d] = "reviewing"] \/ phase' = phase
          /\ UNCHANGED <<outcome, audit, committed>>
      BY <2>4 DEF StartReview, ReviewerRevises, Verdict
    <3>2. \E q \in InFlight : phase' = [phase EXCEPT ![d] = q]
      <4>1. phase \in [Dispatch -> Phases]
        BY DEF GateInv, TypeOK
      <4>2. phase = [phase EXCEPT ![d] = phase[d]]
        BY <4>1
      <4> QED
        BY <3>1, <4>2 DEF InFlight
    <3> QED
      BY <3>1, <3>2, InnerStepMaps DEF InFlight
  <2>5. ASSUME NEW o, Conclude(d, o), phase[d] \in {"called", "reviewing"}
        PROVE  UNCHANGED Promise!promiseVars
    <3>1. /\ phase' = [phase EXCEPT ![d] = "writing"] /\ UNCHANGED <<audit, committed>>
          /\ outcome' = [outcome EXCEPT ![d] = o]
      BY <2>5 DEF Conclude
    <3>2. \A e \in Dispatch \ {d} : outcome'[e] = outcome[e]
      BY <3>1 DEF GateInv, TypeOK
    <3> QED
      BY <2>5, <3>1, <3>2, InnerStepMaps DEF InFlight
  <2>6. CASE \/ SkipReview(d) \/ ReviewerUnavailable(d)
             \/ \E raw \in Answer :
                   \/ Unparseable(d, raw) \/ ReviewerBlocks(d, raw) \/ TightenViolated(d, raw)
                   \/ ReviewerPasses(d, raw) \/ RoundsExhausted(d, raw)
    <3>1. phase[d] \in {"called", "reviewing"} /\ \E o : Conclude(d, o)
      BY <2>6 DEF SkipReview, ReviewerUnavailable, Unparseable, ReviewerBlocks, TightenViolated,
                  ReviewerPasses, RoundsExhausted, Verdict
    <3> QED
      BY <3>1, <2>5
  <2> QED
    BY <1>4, <2>1, <2>2, <2>3, <2>4, <2>6 DEF CallStep, ReviewStep
<1> QED
  BY <1>1, <1>2, <1>3, <1>4, <1>5 DEF GateNext

\* The gate keeps its promise: an answer only after its entry and in agreement with
\* it, one entry per dispatch, late or missing only for a call that failed, and none
\* ever taken back: for every number of dispatches, rounds, answers and faults.
THEOREM GateKeepsItsPromise == GateSpec => KeepsPromise
<1>1. GateInit => Promise!PromiseInit
  BY InitMaps
<1>2. GateInv /\ [GateNext]_gateVars => [Promise!PromiseNext]_Promise!promiseVars
  BY StepMaps
<1> QED
  BY <1>1, <1>2, InvariantHolds, PTL DEF GateSpec, KeepsPromise, Promise!PromiseSpec

=============================================================================
