------------------------ MODULE GateEnvironmentProofs ------------------------
(***************************************************************************)
(* Theorems about what goes into the gate and what is seen of it: the      *)
(* reviewer calls (GateCalls) and the views of the audit trail             *)
(* (AuditViews), for every instance of the gate and every limit.           *)
(*                                                                         *)
(* A gate with its reviewer calls is still the gate: what is proved of     *)
(* GateSpec holds when every answer has to come from a call that returned. *)
(* The calls in turn follow the gate's loop (CallsInv): which of them are  *)
(* idle, under way or over is a function of the round a dispatch is in.    *)
(* From that: only answers are heard, late ones are dropped, threads end   *)
(* with their round, and every round is a call as ReviewerCall has it.     *)
(*                                                                         *)
(* Two things carry the views: the flags that a handler sets agree with    *)
(* the decision it records, and the rows of the trail belong to different  *)
(* calls, each of which took its time once, before its row was appended.   *)
(***************************************************************************)
EXTENDS GateCalls, AuditViews, ReviewGateProofs, FiniteSetTheorems, SequenceTheorems

-----------------------------------------------------------------------------
(* The gate with its calls.                                                 *)

\* Every step of a dispatch's thread is a step of the gate or leaves the gate alone.
LEMMA ThreadStepMaps ==
  ASSUME NEW d \in Dispatch, DispatchThread(d)
  PROVE  GateNext \/ UNCHANGED gateVars
<1>1. CASE CallReviewer(d)
  BY <1>1 DEF CallReviewer
<1>2. CASE HearNothing(d)
  <2>1. CallStep(d)
    BY <1>2 DEF HearNothing, CallStep, ReviewStep
  <2> QED
    BY <2>1 DEF GateNext
<1>3. CASE HearAnswer(d)
  <2>1. CallStep(d)
    BY <1>3 DEF HearAnswer, CallStep, ReviewStep
  <2> QED
    BY <2>1 DEF GateNext
<1>4. CASE AroundReview(d)
  <2>1. CallStep(d)
    BY <1>4 DEF AroundReview, CallStep
  <2> QED
    BY <2>1 DEF GateNext
<1> QED
  BY <1>1, <1>2, <1>3, <1>4 DEF DispatchThread

\* So is every step of the system.
LEMMA CallsStepMaps ==
  ASSUME [GateCallsNext]_allVars
  PROVE  [GateNext]_gateVars
<1>1. CASE (MirrorCommits \/ \E d \in Dispatch : Submit(d)) /\ UNCHANGED callVars
  BY <1>1 DEF GateNext
<1>2. CASE \E d \in Dispatch : DispatchThread(d)
  BY <1>2, ThreadStepMaps
<1>3. CASE \E c \in Dispatch \X Rnd : BesideCall(c)
  BY <1>3 DEF BesideCall
<1>4. CASE UNCHANGED allVars
  BY <1>4 DEF allVars
<1> QED
  BY <1>1, <1>2, <1>3, <1>4 DEF GateCallsNext

\* The gate with its calls implements the gate on its own: workers, timers and
\* providers of any number of calls add no behaviour to it.
THEOREM CallsKeepTheGate == GateCallsSpec => GateSpec
<1>1. GateCallsInit => GateInit
  BY DEF GateCallsInit
<1> QED
  BY <1>1, CallsStepMaps, PTL DEF GateCallsSpec, GateSpec

\* However calls time out and answers come late, nothing is released without a pass,
\* the trivial exemption or the marked fallback.
THEOREM CallsJustifyReleases == GateCallsSpec => []ReleaseJustified
  BY CallsKeepTheGate, OnlyJustifiedReleases, PTL

\* ... and what is released is the base and the directives that were heard.
THEOREM CallsOnlyTighten == GateCallsSpec => []TightenOnly
  BY CallsKeepTheGate, OnlyTightens, PTL

-----------------------------------------------------------------------------
(* The calls of a dispatch, round by round.                                 *)

\* How far one call has come: it decides when its wait ends, and it returns without a
\* worker that is still alive.
CallLocal(c) ==
    /\ caller[c] = "idle" => worker[c] = "none"
    /\ caller[c] \in {"idle", "waiting"} <=> decided[c] = "none"
    /\ caller[c] = "returned" => worker[c] \in {"none", "gone"}

\* The call of a round stands where the loop stands: nobody has entered it before the
\* loop reaches its round, the rounds that the loop went by had an answer, and outside
\* of the loop no call is under way.
RoundInv(d, i) ==
    /\ phase[d] \in {"idle", "called"} => caller[<<d, i>>] = "idle"
    /\ phase[d] = "reviewing" /\ i < round[d] =>
          caller[<<d, i>>] = "returned" /\ decided[<<d, i>>] = "answer"
    /\ phase[d] = "reviewing" /\ i > round[d] => caller[<<d, i>>] = "idle"
    /\ phase[d] # "reviewing" => caller[<<d, i>>] \in {"idle", "returned"}

HeardInv(d) ==
    /\ Len(said[d]) <= EffectiveCap
    /\ \A i \in 1..Len(said[d]) : decided[<<d, i>>] = "answer"
    /\ phase[d] \in Concluded /\ (\E i \in Rnd : decided[<<d, i>>] = "unavailable")
          => outcome[d].verdict = "unavailable" /\ ~outcome[d].released

CallsTypeOK ==
    /\ caller \in [Dispatch \X Rnd -> {"idle", "waiting", "leaving", "returned"}]
    /\ worker \in [Dispatch \X Rnd -> {"none", "starting", "running", "gone"}]
    /\ decided \in [Dispatch \X Rnd -> {"none", "answer", "unavailable"}]

CallsInv ==
    /\ CallsTypeOK
    /\ \A c \in Dispatch \X Rnd : CallLocal(c)
    /\ \A d \in Dispatch, i \in Rnd : RoundInv(d, i)
    /\ \A d \in Dispatch : HeardInv(d)

\* The invariant is what the two properties need.
LEMMA CallsInvSuffices ==
  ASSUME TypeOK, CallsInv
  PROVE  OnlyAnswersAreHeard /\ NoThreadOutlivesItsReview
<1>1. OnlyAnswersAreHeard
  BY DEF CallsInv, HeardInv, OnlyAnswersAreHeard
<1>2. ASSUME NEW d \in Dispatch, NEW i \in Rnd, worker[<<d, i>>] \in {"starting", "running"}
      PROVE  phase[d] = "reviewing" /\ round[d] = i
  <2>1. CallLocal(<<d, i>>) /\ RoundInv(d, i)
    BY DEF CallsInv
  <2>2. caller[<<d, i>>] \notin {"idle", "returned"}
    BY <1>2, <2>1 DEF CallLocal
  <2>3. phase[d] = "reviewing" /\ ~(i < round[d]) /\ ~(i > round[d])
    BY <2>1, <2>2 DEF RoundInv
  <2>4. i \in Nat /\ round[d] \in Nat
    BY DEF Rnd, TypeOK
  <2> QED
    BY <2>3, <2>4
<1> QED
  BY <1>1, <1>2 DEF NoThreadOutlivesItsReview

\* No loop has more rounds than the gate's cap, so the round of a review has a call.
LEMMA RoundsCapped ==
  ASSUME NEW d \in Dispatch
  PROVE  Rounds(d) <= EffectiveCap /\ EffectiveCap \in Nat
  BY GateAssumption DEF Rounds, EffectiveCap

LEMMA CurrentCall ==
  ASSUME TypeOK, NEW d \in Dispatch, LoopInv(d), phase[d] = "reviewing"
  PROVE  /\ round[d] \in Rnd
         /\ Current(d) \in Dispatch \X Rnd
         /\ Len(said[d]) = round[d] - 1
<1>1. round[d] \in 1..Rounds(d) /\ Len(said[d]) = round[d] - 1
  BY DEF LoopInv
<1>2. round[d] \in Rnd
  BY <1>1, RoundsCapped, RoundsPositive DEF Rnd
<1> QED
  BY <1>1, <1>2 DEF Current

\* A step inside the call of a round: only that call moves, and it only decides once.
LEMMA CallReviewerKeeps ==
  ASSUME GateInv, CallsInv, NEW d \in Dispatch, CallReviewer(d)
  PROVE  CallsInv'
<1>1. phase[d] = "reviewing" /\ Calls!CallerStep(Current(d)) /\ UNCHANGED gateVars
  BY DEF CallReviewer
<1>2. TypeOK /\ LoopInv(d)
  BY DEF GateInv
<1>3. PICK k \in Dispatch \X Rnd :
        /\ k = Current(d) /\ k = <<d, round[d]>>
        /\ round[d] \in Rnd /\ Len(said[d]) = round[d] - 1
  BY <1>1, <1>2, CurrentCall DEF Current
<1>4. CallsTypeOK /\ CallLocal(k)
  BY <1>3 DEF CallsInv
<1>5. /\ CallsTypeOK' /\ CallLocal(k)'
      /\ \A c \in (Dispatch \X Rnd) \ {k} :
            /\ caller'[c] = caller[c] /\ worker'[c] = worker[c] /\ decided'[c] = decided[c]
  <2> USE DEF CallsTypeOK, CallLocal
  <2>1. CASE Calls!RejectTimeout(k)
    BY <1>3, <1>4, <2>1 DEF Calls!RejectTimeout
  <2>2. CASE Calls!SubmitToPool(k)
    BY <1>3, <1>4, <2>2 DEF Calls!SubmitToPool
  <2>3. CASE Calls!CallerTakesResult(k)
    BY <1>3, <1>4, <2>3 DEF Calls!CallerTakesResult
  <2>4. CASE Calls!CallerTimesOut(k)
    BY <1>3, <1>4, <2>4 DEF Calls!CallerTimesOut
  <2>5. CASE Calls!CallerLeaves(k)
    BY <1>3, <1>4, <2>5 DEF Calls!CallerLeaves
  <2> QED
    BY <1>1, <1>3, <2>1, <2>2, <2>3, <2>4, <2>5 DEF Calls!CallerStep
<1>6. ASSUME NEW c \in Dispatch \X Rnd PROVE CallLocal(c)'
  BY <1>5 DEF CallLocal, CallsInv
<1>7. /\ phase' = phase /\ round' = round /\ said' = said /\ outcome' = outcome
  BY <1>1 DEF gateVars
<1>8. ASSUME NEW e \in Dispatch, NEW i \in Rnd PROVE RoundInv(e, i)'
  <2>1. RoundInv(e, i)
    BY DEF CallsInv
  <2>2. CASE <<e, i>> = k
    BY <1>1, <1>2, <1>3, <1>7, <2>2 DEF RoundInv, TypeOK
  <2>3. CASE <<e, i>> # k
    <3>1. caller'[<<e, i>>] = caller[<<e, i>>] /\ decided'[<<e, i>>] = decided[<<e, i>>]
      BY <1>5, <2>3
    <3> QED
      BY <1>7, <2>1, <3>1 DEF RoundInv
  <2> QED
    BY <2>2, <2>3
<1>9. ASSUME NEW e \in Dispatch PROVE HeardInv(e)'
  <2>1. HeardInv(e)
    BY DEF CallsInv
  <2>2. ASSUME NEW i \in Rnd, <<e, i>> # k PROVE decided'[<<e, i>>] = decided[<<e, i>>]
    BY <1>5, <2>2
  <2>3. \A i \in 1..Len(said[e]) : i \in Rnd
    BY <1>2, <2>1, RoundsCapped DEF HeardInv, Rnd, TypeOK
  <2>4. CASE e = d
    <3>1. \A i \in 1..Len(said[e]) : i \in Rnd /\ <<e, i>> # k
      BY <1>2, <1>3, <2>3, <2>4 DEF TypeOK
    <3>2. \A i \in 1..Len(said[e]) : decided'[<<e, i>>] = "answer"
      BY <2>1, <2>2, <3>1 DEF HeardInv
    <3>3. phase[e] \notin Concluded
      BY <1>1, <2>4 DEF Concluded
    <3> QED
      BY <1>7, <2>1, <3>2, <3>3 DEF HeardInv, Concluded
  <2>5. CASE e # d
    <3>1. \A i \in Rnd : decided'[<<e, i>>] = decided[<<e, i>>]
      BY <1>3, <2>2, <2>5
    <3> QED
      BY <1>7, <2>1, <2>3, <3>1 DEF HeardInv, Concluded
  <2> QED
    BY <2>4, <2>5
<1> QED
  BY <1>5, <1>6, <1>8, <1>9 DEF CallsInv

\* Workers, timers and providers never touch what a caller does or decides.
LEMMA BesideKeeps ==
  ASSUME CallsInv, NEW k \in Dispatch \X Rnd, BesideCall(k)
  PROVE  CallsInv'
<1>1. CallsTypeOK /\ CallLocal(k)
  BY DEF CallsInv
<1>2. UNCHANGED <<phase, round, said, outcome, caller, decided>>
  BY DEF BesideCall, gateVars, Calls!WorkerStep, Calls!WorkerRuns, Calls!WorkerSkips,
         Calls!TimerExpires, Calls!ProviderStep, Calls!ProviderEnds
<1>3. /\ worker' \in [Dispatch \X Rnd -> {"none", "starting", "running", "gone"}]
      /\ \A c \in (Dispatch \X Rnd) \ {k} : worker'[c] = worker[c]
      /\ worker[k] = "none" => worker'[k] = "none"
      /\ worker[k] = "gone" => worker'[k] = "gone"
  BY <1>1 DEF CallsTypeOK, BesideCall, Calls!WorkerStep, Calls!WorkerRuns, Calls!WorkerSkips,
              Calls!TimerExpires, Calls!ProviderStep, Calls!ProviderEnds
<1>4. CallsTypeOK'
  BY <1>1, <1>2, <1>3 DEF CallsTypeOK
<1>5. ASSUME NEW c \in Dispatch \X Rnd PROVE CallLocal(c)'
  <2>1. CallLocal(c)
    BY DEF CallsInv
  <2> QED
    BY <1>2, <1>3, <2>1 DEF CallLocal
<1>6. \A d \in Dispatch, i \in Rnd : RoundInv(d, i)'
  BY <1>2 DEF CallsInv, RoundInv
<1>7. \A d \in Dispatch : HeardInv(d)'
  BY <1>2 DEF CallsInv, HeardInv, Concluded
<1> QED
  BY <1>4, <1>5, <1>6, <1>7 DEF CallsInv

\* A step of the gate on behalf of d, while all calls stand still: CallsInv holds of d
\* afterwards if the new place of the loop agrees with the calls, and of the others.
LEMMA GateMoveKeeps ==
  ASSUME TypeOK, CallsInv, NEW d \in Dispatch, UNCHANGED callVars,
         \A e \in Dispatch \ {d} :
            /\ phase'[e] = phase[e] /\ round'[e] = round[e]
            /\ said'[e] = said[e] /\ outcome'[e] = outcome[e],
         \A i \in Rnd : RoundInv(d, i)',
         HeardInv(d)'
  PROVE  CallsInv'
<1>1. UNCHANGED <<caller, worker, decided>>
  BY DEF callVars
<1>2. ASSUME NEW e \in Dispatch \ {d} PROVE HeardInv(e)' /\ \A i \in Rnd : RoundInv(e, i)'
  <2>1. HeardInv(e) /\ \A i \in Rnd : RoundInv(e, i)
    BY DEF CallsInv
  <2> QED
    BY <1>1, <2>1 DEF HeardInv, RoundInv, Concluded
<1>3. CallsTypeOK' /\ \A c \in Dispatch \X Rnd : CallLocal(c)'
  BY <1>1 DEF CallsInv, CallsTypeOK, CallLocal
<1> QED
  BY <1>2, <1>3 DEF CallsInv

\* While a dispatch is reviewed and the call of its round has decided "answer", all of
\* its calls have decided that or nothing, and none is under way.
LEMMA AnsweredSoFar ==
  ASSUME TypeOK, CallsInv, NEW d \in Dispatch, LoopInv(d), CallEnded(d, "answer")
  PROVE  \A i \in Rnd :
            /\ caller[<<d, i>>] \in {"idle", "returned"}
            /\ i <= round[d] => caller[<<d, i>>] = "returned" /\ decided[<<d, i>>] = "answer"
            /\ i > round[d] => caller[<<d, i>>] = "idle" /\ decided[<<d, i>>] = "none"
<1> SUFFICES ASSUME NEW i \in Rnd
             PROVE  /\ caller[<<d, i>>] \in {"idle", "returned"}
                    /\ i <= round[d] =>
                          caller[<<d, i>>] = "returned" /\ decided[<<d, i>>] = "answer"
                    /\ i > round[d] =>
                          caller[<<d, i>>] = "idle" /\ decided[<<d, i>>] = "none"
  OBVIOUS
<1>1. /\ phase[d] = "reviewing"
      /\ caller[<<d, round[d]>>] = "returned" /\ decided[<<d, round[d]>>] = "answer"
  BY DEF CallEnded, Current
<1>2. RoundInv(d, i) /\ CallLocal(<<d, i>>)
  BY DEF CallsInv
<1>3. i \in Nat /\ round[d] \in Nat
  BY DEF Rnd, TypeOK
<1>4. i < round[d] \/ i = round[d] \/ i > round[d]
  BY <1>3
<1> QED
  BY <1>1, <1>2, <1>3, <1>4 DEF RoundInv, CallLocal

\* What is heard of an answer: the round goes on to the next, or the call concludes, or
\* the parser raises; and the verdict, if there is one, is this round's.
LEMMA HearEffect ==
  ASSUME TypeOK, NEW d \in Dispatch, HearAnswer(d)
  PROVE  /\ \A e \in Dispatch \ {d} :
               /\ phase'[e] = phase[e] /\ round'[e] = round[e]
               /\ said'[e] = said[e] /\ outcome'[e] = outcome[e]
         /\ Len(said'[d]) \in {Len(said[d]), Len(said[d]) + 1}
         /\ \/ phase'[d] = "reviewing" /\ round'[d] = round[d] + 1 /\ round[d] < Rounds(d)
            \/ phase'[d] \in {"writing", "raised"} /\ round'[d] = round[d]
<1>1. PICK raw \in Answer :
         \/ Unparseable(d, raw) \/ ParserRaises(d, raw)
         \/ ReviewerBlocks(d, raw) \/ TightenViolated(d, raw)
         \/ ReviewerPasses(d, raw) \/ ReviewerRevises(d, raw) \/ RoundsExhausted(d, raw)
  BY DEF HearAnswer
<1>2. phase[d] = "reviewing"
  BY DEF HearAnswer, CallEnded
<1>3. ASSUME NEW o, Conclude(d, o)
      PROVE  /\ phase'[d] = "writing"
             /\ \A e \in Dispatch \ {d} : phase'[e] = phase[e] /\ outcome'[e] = outcome[e]
  BY <1>3 DEF Conclude, TypeOK
<1>4. ASSUME Hear(d, raw)
      PROVE  /\ Len(said'[d]) = Len(said[d]) + 1
             /\ \A e \in Dispatch \ {d} : said'[e] = said[e]
  <2>1. said[d] \in Seq(Said) /\ said \in [Dispatch -> Seq(Said)]
    BY DEF TypeOK
  <2>2. Len(Append(said[d], [verdict |-> raw.verdict, directives |-> raw.directives]))
          = Len(said[d]) + 1
    BY <2>1
  <2> QED
    BY <1>4, <2>1, <2>2 DEF Hear
<1>5. CASE Unparseable(d, raw)
  BY <1>3, <1>5 DEF Unparseable
<1>6. CASE ParserRaises(d, raw)
  BY <1>6 DEF ParserRaises, TypeOK
<1>7. CASE ReviewerBlocks(d, raw)
  BY <1>3, <1>4, <1>7 DEF ReviewerBlocks, Verdict
<1>8. CASE TightenViolated(d, raw)
  BY <1>3, <1>4, <1>8 DEF TightenViolated, Verdict
<1>9. CASE ReviewerPasses(d, raw)
  BY <1>3, <1>4, <1>9 DEF ReviewerPasses, Verdict
<1>10. CASE ReviewerRevises(d, raw)
  BY <1>2, <1>4, <1>10 DEF ReviewerRevises, Verdict, TypeOK
<1>11. CASE RoundsExhausted(d, raw)
  BY <1>3, <1>4, <1>11 DEF RoundsExhausted, Verdict
<1> QED
  BY <1>1, <1>5, <1>6, <1>7, <1>8, <1>9, <1>10, <1>11

LEMMA HearAnswerKeeps ==
  ASSUME GateInv, GateInv', CallsInv, NEW d \in Dispatch, HearAnswer(d)
  PROVE  CallsInv'
<1>1. TypeOK /\ LoopInv(d) /\ LoopInv(d)' /\ TypeOK'
  BY DEF GateInv
<1>2. CallEnded(d, "answer") /\ UNCHANGED callVars /\ UNCHANGED <<caller, decided>>
  BY DEF HearAnswer, callVars
<1>3. \A i \in Rnd :
         /\ caller[<<d, i>>] \in {"idle", "returned"}
         /\ i <= round[d] => caller[<<d, i>>] = "returned" /\ decided[<<d, i>>] = "answer"
         /\ i > round[d] => caller[<<d, i>>] = "idle" /\ decided[<<d, i>>] = "none"
  BY <1>1, <1>2, AnsweredSoFar
<1>4. /\ \A e \in Dispatch \ {d} :
            /\ phase'[e] = phase[e] /\ round'[e] = round[e]
            /\ said'[e] = said[e] /\ outcome'[e] = outcome[e]
      /\ Len(said'[d]) \in {Len(said[d]), Len(said[d]) + 1}
      /\ \/ phase'[d] = "reviewing" /\ round'[d] = round[d] + 1
         \/ phase'[d] \in {"writing", "raised"} /\ round'[d] = round[d]
  BY <1>1, HearEffect
<1>5. round[d] \in Rnd /\ Len(said[d]) = round[d] - 1
  BY <1>1, <1>2, CurrentCall DEF CallEnded
<1>6. \A i \in Rnd : i \in Nat
  BY DEF Rnd
<1>7. ASSUME NEW i \in Rnd PROVE RoundInv(d, i)'
  BY <1>2, <1>3, <1>4, <1>5, <1>6 DEF RoundInv
<1>8. HeardInv(d)'
  <2>1. Len(said'[d]) \in 0..round[d]
    BY <1>4, <1>5, <1>6
  <2>2. Len(said'[d]) <= EffectiveCap /\ \A i \in 1..Len(said'[d]) : i \in Rnd /\ i <= round[d]
    BY <1>5, <2>1, RoundsCapped DEF Rnd
  <2>3. \A i \in 1..Len(said'[d]) : decided'[<<d, i>>] = "answer"
    BY <1>2, <1>3, <2>2
  <2>4. \A i \in Rnd : decided'[<<d, i>>] # "unavailable"
    BY <1>2, <1>3, <1>5, <1>6
  <2> QED
    BY <2>2, <2>3, <2>4, RoundsCapped DEF HeardInv, EffectiveCap
<1> QED
  BY <1>1, <1>2, <1>4, <1>7, <1>8, GateMoveKeeps

\* A round without an answer ends the dispatch, as unavailable and held.
LEMMA HearNothingKeeps ==
  ASSUME GateInv, CallsInv, NEW d \in Dispatch, HearNothing(d)
  PROVE  CallsInv'
<1> DEFINE o == FailClosed(d, accumulated[d])
<1>1. /\ phase[d] = "reviewing" /\ caller[<<d, round[d]>>] = "returned"
      /\ Conclude(d, o) /\ UNCHANGED <<round, said>>
      /\ UNCHANGED callVars /\ UNCHANGED <<caller, decided>>
  BY DEF HearNothing, CallEnded, Current, ReviewerUnavailable, callVars
<1>2. TypeOK /\ LoopInv(d)
  BY DEF GateInv
<1>3. o.verdict = "unavailable" /\ ~o.released
  BY DEF FailClosed, Hold
<1> HIDE DEF o
<1>4. /\ phase'[d] = "writing" /\ outcome'[d] = o
      /\ \A e \in Dispatch \ {d} : phase'[e] = phase[e] /\ outcome'[e] = outcome[e]
  BY <1>1, <1>2 DEF Conclude, TypeOK
<1>5. ASSUME NEW i \in Rnd PROVE RoundInv(d, i)'
  <2>1. RoundInv(d, i) /\ i \in Nat /\ round[d] \in Nat
    BY <1>2 DEF CallsInv, Rnd, TypeOK
  <2>2. i < round[d] \/ i = round[d] \/ i > round[d]
    BY <2>1
  <2>3. caller[<<d, i>>] \in {"idle", "returned"}
    BY <1>1, <2>1, <2>2 DEF RoundInv
  <2> QED
    BY <1>1, <1>4, <2>3 DEF RoundInv
<1>6. HeardInv(d)'
  <2>1. HeardInv(d)
    BY DEF CallsInv
  <2> QED
    BY <1>1, <1>3, <1>4, <2>1 DEF HeardInv
<1> QED
  BY <1>1, <1>2, <1>4, <1>5, <1>6, GateMoveKeeps

\* Before the loop and after it no call of the dispatch is under way.
LEMMA AroundKeeps ==
  ASSUME GateInv, CallsInv, NEW d \in Dispatch,
         AroundReview(d) \/ (Submit(d) /\ UNCHANGED callVars)
  PROVE  CallsInv'
<1>1. UNCHANGED callVars /\ UNCHANGED <<caller, decided>>
  BY DEF AroundReview, callVars
<1>2. TypeOK /\ LoopInv(d)
  BY DEF GateInv
<1>3. /\ said' = said
      /\ \A e \in Dispatch \ {d} :
            phase'[e] = phase[e] /\ round'[e] = round[e] /\ outcome'[e] = outcome[e]
      /\ \/ phase[d] = "idle" /\ phase'[d] = "called"
         \/ phase[d] = "called" /\ phase'[d] = "writing"
         \/ phase[d] = "called" /\ phase'[d] = "reviewing" /\ round'[d] = 1
         \/ /\ phase[d] \in {"writing", "logged"} /\ outcome' = outcome
            /\ phase'[d] \in {"logged", "raised", "returned"}
  <2>1. CASE Submit(d)
    BY <1>2, <2>1 DEF Submit, TypeOK
  <2>2. CASE SkipReview(d)
    BY <1>2, <2>2 DEF SkipReview, Conclude, TypeOK
  <2>3. CASE StartReview(d)
    BY <1>2, <2>3 DEF StartReview, TypeOK
  <2>4. CASE AppendRow(d) \/ AppendRaises(d) \/ Return(d)
    BY <1>2, <2>4 DEF AppendRow, AppendRaises, Return, TypeOK
  <2> QED
    BY <2>1, <2>2, <2>3, <2>4 DEF AroundReview
<1>4. ASSUME NEW i \in Rnd PROVE RoundInv(d, i)'
  <2>1. RoundInv(d, i) /\ i \in Nat /\ ~(i < 1)
    BY DEF CallsInv, Rnd
  <2> QED
    BY <1>1, <1>3, <2>1 DEF RoundInv
<1>5. HeardInv(d)'
  <2>1. HeardInv(d)
    BY DEF CallsInv
  <2>2. ASSUME phase[d] = "called", NEW i \in Rnd PROVE decided[<<d, i>>] = "none"
    BY <2>2 DEF CallsInv, RoundInv, CallLocal
  <2>3. /\ Len(said'[d]) <= EffectiveCap
        /\ \A i \in 1..Len(said'[d]) : decided'[<<d, i>>] = "answer"
    BY <1>1, <1>3, <2>1 DEF HeardInv
  <2>4. ASSUME phase'[d] \in Concluded, \E i \in Rnd : decided'[<<d, i>>] = "unavailable"
        PROVE  outcome'[d].verdict = "unavailable" /\ ~outcome'[d].released
    <3>1. phase[d] \in Concluded /\ outcome' = outcome
      BY <1>1, <1>3, <2>2, <2>4 DEF Concluded
    <3> QED
      BY <1>1, <2>1, <2>4, <3>1 DEF HeardInv
  <2> QED
    BY <2>3, <2>4 DEF HeardInv, EffectiveCap, Rnd, Concluded
<1> QED
  BY <1>1, <1>2, <1>3, <1>4, <1>5, GateMoveKeeps

LEMMA InitCallsInv == GateCallsInit => CallsInv
<1> SUFFICES ASSUME GateCallsInit PROVE CallsInv
  OBVIOUS
<1>1. /\ caller = [c \in Dispatch \X Rnd |-> "idle"]
      /\ worker = [c \in Dispatch \X Rnd |-> "none"]
      /\ decided = [c \in Dispatch \X Rnd |-> "none"]
      /\ \A d \in Dispatch : phase[d] = "idle" /\ Len(said[d]) = 0
  BY DEF GateCallsInit, GateInit, Calls!CallInit
<1>2. CallsTypeOK /\ \A c \in Dispatch \X Rnd : CallLocal(c)
  BY <1>1 DEF CallsTypeOK, CallLocal
<1>3. \A d \in Dispatch, i \in Rnd : RoundInv(d, i)
  BY <1>1 DEF RoundInv
<1>4. \A d \in Dispatch : HeardInv(d)
  BY <1>1, RoundsCapped DEF HeardInv, Concluded
<1> QED
  BY <1>2, <1>3, <1>4 DEF CallsInv

LEMMA StepCallsInv ==
  GateInv /\ GateInv' /\ CallsInv /\ [GateCallsNext]_allVars => CallsInv'
<1> SUFFICES ASSUME GateInv, GateInv', CallsInv, [GateCallsNext]_allVars PROVE CallsInv'
  OBVIOUS
<1>1. ASSUME NEW d \in Dispatch, Submit(d) /\ UNCHANGED callVars PROVE CallsInv'
  BY <1>1, AroundKeeps
<1>2. ASSUME NEW d \in Dispatch, DispatchThread(d) PROVE CallsInv'
  BY <1>2, CallReviewerKeeps, HearNothingKeeps, HearAnswerKeeps, AroundKeeps
     DEF DispatchThread
<1>3. ASSUME NEW c \in Dispatch \X Rnd, BesideCall(c) PROVE CallsInv'
  BY <1>3, BesideKeeps
<1>4. CASE UNCHANGED allVars
  BY <1>4 DEF allVars, gateVars, callVars, CallsInv, CallsTypeOK, CallLocal, RoundInv,
              HeardInv, Concluded
<1>5. CASE MirrorCommits /\ UNCHANGED callVars
  BY <1>5 DEF MirrorCommits, callVars, CallsInv, CallsTypeOK, CallLocal, RoundInv,
              HeardInv, Concluded
<1> QED
  BY <1>1, <1>2, <1>3, <1>4, <1>5 DEF GateCallsNext

\* The loop of every dispatch and the calls of its rounds agree, at every moment and for
\* every number of dispatches, rounds and late answers.
THEOREM CallsFollowTheLoop == GateCallsSpec => []CallsInv
<1>1. GateCallsInit => CallsInv
  BY InitCallsInv
<1>2. GateCallsSpec => []GateInv
  BY CallsKeepTheGate, InvariantHolds, PTL
<1>3. GateInv /\ GateInv' /\ CallsInv /\ [GateCallsNext]_allVars => CallsInv'
  BY StepCallsInv
<1> QED
  BY <1>1, <1>2, <1>3, PTL DEF GateCallsSpec

\* No verdict is heard but from a call that returned with an answer, and a call without
\* one releases nothing (call_reviewer and the loop around it).
THEOREM AnswersAreHeard == GateCallsSpec => []OnlyAnswersAreHeard
<1>1. TypeOK /\ CallsInv => OnlyAnswersAreHeard
  BY CallsInvSuffices
<1>2. GateCallsSpec => []TypeOK
  BY CallsKeepTheGate, TypeCorrect, PTL
<1> QED
  BY <1>1, <1>2, CallsFollowTheLoop, PTL

\* Reviewer threads never outlive the round that started them.
THEOREM ThreadsEndInTheirRound == GateCallsSpec => []NoThreadOutlivesItsReview
<1>1. TypeOK /\ CallsInv => NoThreadOutlivesItsReview
  BY CallsInvSuffices
<1>2. GateCallsSpec => []TypeOK
  BY CallsKeepTheGate, TypeCorrect, PTL
<1> QED
  BY <1>1, <1>2, CallsFollowTheLoop, PTL

\* A call that has decided keeps its decision: only the join of its pool is left to it.
LEMMA DecisionsStay ==
  ASSUME CallsInv, [GateCallsNext]_allVars, NEW c \in Dispatch \X Rnd, decided[c] # "none"
  PROVE  UNCHANGED decided[c]
<1>1. CallsTypeOK /\ CallLocal(c) /\ caller[c] \in {"leaving", "returned"}
  BY DEF CallsInv, CallsTypeOK, CallLocal
<1>2. ASSUME NEW d \in Dispatch, CallReviewer(d) PROVE UNCHANGED decided[c]
  <2>1. PICK k : k = Current(d) /\ Calls!CallerStep(k)
    BY <1>2 DEF CallReviewer
  <2> QED
    BY <1>1, <2>1 DEF CallsTypeOK, Calls!CallerStep, Calls!RejectTimeout, Calls!SubmitToPool,
       Calls!CallerTakesResult, Calls!CallerTimesOut, Calls!CallerLeaves
<1>3. ASSUME NEW d \in Dispatch, HearNothing(d) \/ HearAnswer(d) \/ AroundReview(d)
      PROVE  UNCHANGED decided[c]
  BY <1>3 DEF HearNothing, HearAnswer, AroundReview, callVars
<1>4. ASSUME NEW k \in Dispatch \X Rnd, BesideCall(k) PROVE UNCHANGED decided[c]
  BY <1>4 DEF BesideCall, Calls!WorkerStep, Calls!WorkerRuns, Calls!WorkerSkips,
     Calls!TimerExpires, Calls!ProviderStep, Calls!ProviderEnds
<1> QED
  BY <1>2, <1>3, <1>4 DEF GateCallsNext, DispatchThread, callVars, allVars

\* The outcome of a dispatch that is concluded is built, and stays.
LEMMA OutcomesStay ==
  ASSUME TypeOK, [GateNext]_gateVars, NEW d \in Dispatch, phase[d] \in Concluded
  PROVE  UNCHANGED outcome[d]
<1>1. ASSUME NEW e \in Dispatch, NEW o, e # d, Conclude(e, o) PROVE UNCHANGED outcome[d]
  BY <1>1 DEF Conclude, TypeOK
<1>2. ASSUME NEW e \in Dispatch, CallStep(e), e = d PROVE UNCHANGED outcome[d]
  BY <1>2 DEF Concluded, CallStep, ReviewStep, SkipReview, StartReview, ReviewerUnavailable,
     Unparseable, ParserRaises, ReviewerBlocks, TightenViolated, ReviewerPasses,
     ReviewerRevises, RoundsExhausted, Verdict, AppendRow, AppendRaises, Return
<1>3. ASSUME NEW e \in Dispatch, CallStep(e), e # d PROVE UNCHANGED outcome[d]
  BY <1>1, <1>3 DEF CallStep, ReviewStep, SkipReview, StartReview, ReviewerUnavailable,
     Unparseable, ParserRaises, ReviewerBlocks, TightenViolated, ReviewerPasses,
     ReviewerRevises, RoundsExhausted, AppendRow, AppendRaises, Return
<1>4. ASSUME NEW e \in Dispatch, Submit(e) PROVE UNCHANGED outcome[d]
  BY <1>4 DEF Submit
<1> QED
  BY <1>2, <1>3, <1>4 DEF GateNext, ProcessDies, MirrorCommits, gateVars

\* A timeout stays a timeout: no step changes what a call decided on or what a concluded
\* dispatch got out of it, whenever the provider answers (call_reviewer, _finish).
THEOREM LateAnswersAreDropped == GateCallsSpec => LateAnswerIsDropped
<1>1. TypeOK /\ CallsInv /\ [GateCallsNext]_allVars
        => [\A d \in Dispatch :
              /\ \A i \in Rnd : decided[<<d, i>>] # "none" => UNCHANGED decided[<<d, i>>]
              /\ phase[d] \in Concluded => UNCHANGED outcome[d]]_allVars
  <2> SUFFICES ASSUME TypeOK, CallsInv, [GateCallsNext]_allVars, NEW d \in Dispatch
               PROVE  /\ \A i \in Rnd :
                            decided[<<d, i>>] # "none" => UNCHANGED decided[<<d, i>>]
                      /\ phase[d] \in Concluded => UNCHANGED outcome[d]
    OBVIOUS
  <2>1. ASSUME NEW i \in Rnd, decided[<<d, i>>] # "none" PROVE UNCHANGED decided[<<d, i>>]
    BY <2>1, DecisionsStay
  <2>2. phase[d] \in Concluded => UNCHANGED outcome[d]
    BY CallsStepMaps, OutcomesStay
  <2> QED
    BY <2>1, <2>2
<1>2. GateCallsSpec => []TypeOK
  BY CallsKeepTheGate, TypeCorrect, PTL
<1> QED
  BY <1>1, <1>2, CallsFollowTheLoop, PTL DEF GateCallsSpec, LateAnswerIsDropped

\* Every round of every dispatch is one call of call_reviewer as ReviewerCall models it:
\* the gate enters calls, and waits for them, but does nothing to them.
THEOREM RoundsAreCalls == GateCallsSpec => Calls!CallSpec
<1>1. GateCallsInit => Calls!CallInit
  BY DEF GateCallsInit
<1>2. GateInv /\ [GateCallsNext]_allVars => [Calls!CallNext]_(Calls!callVars)
  <2> SUFFICES ASSUME GateInv, [GateCallsNext]_allVars
               PROVE  Calls!CallNext \/ UNCHANGED Calls!callVars
    OBVIOUS
  <2>1. ASSUME NEW d \in Dispatch, CallReviewer(d) PROVE Calls!CallNext
    <3>1. Current(d) \in Dispatch \X Rnd
      BY <2>1, CurrentCall DEF GateInv, CallReviewer
    <3> QED
      BY <2>1, <3>1 DEF CallReviewer, Calls!CallNext
  <2>2. ASSUME NEW k \in Dispatch \X Rnd, BesideCall(k) PROVE Calls!CallNext
    BY <2>2 DEF BesideCall, Calls!CallNext
  <2>3. CASE UNCHANGED callVars
    BY <2>3 DEF callVars, Calls!callVars
  <2> QED
    BY <2>1, <2>2, <2>3 DEF GateCallsNext, DispatchThread, HearNothing, HearAnswer,
       AroundReview, allVars
<1>3. GateCallsSpec => []GateInv
  BY CallsKeepTheGate, InvariantHolds, PTL
<1> QED
  BY <1>1, <1>2, <1>3, PTL DEF GateCallsSpec, Calls!CallSpec

-----------------------------------------------------------------------------
(* What the handlers record.                                                *)

Dispatched == {"dispatched", "dispatched_fallback"}

\* The flags of a record say what its verdict and decision say.
Coherent(o) ==
    /\ o.failClosed <=> o.verdict = "unavailable"
    /\ o.escalated <=> o.decision = "escalated"
    /\ o.released <=> o.decision \in Dispatched
    /\ o.failClosed => ~o.released

\* A call before its outcome.
Early == {"idle", "called", "reviewing"}

\* The calls of the trail are different, and took their times before.
TimesInv ==
    /\ IsInjective(stamps)
    /\ \A d \in ToSet(stamps) : phase[d] \notin Early
    /\ \A d \in Dispatch : phase[d] \in Concluded => d \in ToSet(stamps)
    /\ \A i \in DOMAIN audit : audit[i].dispatch \in ToSet(stamps)
    /\ \A i, j \in DOMAIN audit : audit[i].dispatch = audit[j].dispatch => i = j

ViewsInv ==
    /\ GateInv
    /\ \A d \in Dispatch : Coherent(outcome[d])
    /\ \A i \in DOMAIN audit : Coherent(audit[i])
    /\ TimesInv

LEMMA FailClosedCoherent ==
  ASSUME NEW d \in Dispatch, NEW ds
  PROVE  Coherent(FailClosed(d, ds))
  BY DEF Coherent, FailClosed, Hold, Dispatched

LEMMA HoldCoherent ==
  ASSUME NEW d \in Dispatch, NEW ds, NEW who, NEW verdict, verdict # "unavailable"
  PROVE  Coherent(Hold(d, verdict, ds, who))
  BY DEF Coherent, Hold, Dispatched

LEMMA ReleaseCoherent ==
  ASSUME NEW d \in Dispatch, NEW ds, NEW who, NEW verdict, verdict # "unavailable",
         NEW decision \in Dispatched
  PROVE  Coherent(Release(d, verdict, ds, who, decision))
  BY DEF Coherent, Release, Hold, Dispatched

LEMMA HandlersCoherent ==
  ASSUME NEW d \in Dispatch, NEW raw, NEW ds
  PROVE  /\ Coherent(HandleTrivial(d))
         /\ Coherent(HandleBlock(d, raw))
         /\ Coherent(ExhaustionFallback(d, ds, raw))
<1>1. "dispatched" \in Dispatched /\ "dispatched_fallback" \in Dispatched
  BY DEF Dispatched
<1>2. Coherent(HandleTrivial(d))
  BY <1>1, ReleaseCoherent, FailClosedCoherent DEF HandleTrivial
<1>3. Coherent(HandleBlock(d, raw))
  BY DEF Coherent, HandleBlock, Hold, Dispatched
<1>4. CASE TierOf(d) \in ESCALATING_TIERS
  BY <1>3, <1>2, <1>4 DEF Coherent, ExhaustionFallback, Hold, Dispatched
<1>5. CASE TierOf(d) \notin ESCALATING_TIERS
  BY <1>2, <1>3, <1>5, FailClosedCoherent
     DEF Coherent, ExhaustionFallback, Release, Hold, Dispatched
<1> QED
  BY <1>2, <1>3, <1>4, <1>5

-----------------------------------------------------------------------------
(* The steps, as the views see them.                                        *)

\* A step that adds nothing to a view; the end of the process may cut the trail.
Unseen ==
    /\ UNCHANGED <<outcome, stamps>>
    /\ audit' = audit \/ \E n \in 0..Len(audit) : audit' = SubSeq(audit, 1, n)
    /\ \A e \in Dispatch : /\ phase'[e] \in Concluded => phase[e] \in Concluded
                           /\ phase'[e] \in Early => phase[e] \in Early

\* The row of a call joins the trail, committed or left in the transaction.
Inserts(d) ==
    /\ phase[d] = "writing" /\ audit' = Append(audit, outcome[d])
    /\ \E q \in {"logged", "raised"} : phase' = [phase EXCEPT ![d] = q]
    /\ UNCHANGED <<outcome, stamps>>

Ending(d, o) ==
    /\ phase[d] \in {"called", "reviewing"}
    /\ Conclude(d, o)
    /\ Coherent(o)

LEMMA CallSteps ==
  ASSUME TypeOK, NEW d \in Dispatch, CallStep(d) \/ Submit(d)
  PROVE  Inserts(d) \/ Unseen \/ \E o : Ending(d, o)
<1> USE DEF TypeOK
<1>1. ASSUME Submit(d) \/ StartReview(d) \/ Return(d) PROVE Unseen
  BY <1>1 DEF Submit, StartReview, Return, Unseen, Concluded, Early
<1>9. ASSUME AppendRow(d) PROVE Inserts(d)
  BY <1>9 DEF AppendRow, Inserts
<1>10. ASSUME AppendRaises(d) PROVE Inserts(d) \/ Unseen
  <2>1. CASE audit' = audit
    BY <1>10, <2>1 DEF AppendRaises, Unseen, Concluded, Early
  <2>2. CASE audit' = Append(audit, outcome[d])
    BY <1>10, <2>2 DEF AppendRaises, Inserts
  <2> QED
    BY <1>10, <2>1, <2>2 DEF AppendRaises
<1>2. ASSUME SkipReview(d) PROVE Ending(d, HandleTrivial(d))
  BY <1>2, HandlersCoherent DEF SkipReview, Ending
<1>3. ASSUME ReviewerUnavailable(d) PROVE Ending(d, FailClosed(d, accumulated[d]))
  BY <1>3, FailClosedCoherent DEF ReviewerUnavailable, Ending
<1>4. ASSUME NEW raw \in Answer, Unparseable(d, raw) \/ TightenViolated(d, raw)
      PROVE  Ending(d, FailClosed(d, accumulated[d]))
  BY <1>4, FailClosedCoherent DEF Unparseable, TightenViolated, Verdict, Ending
<1>5. ASSUME NEW raw \in Answer, ParserRaises(d, raw) \/ ReviewerRevises(d, raw) PROVE Unseen
  BY <1>5 DEF ParserRaises, ReviewerRevises, Unseen, Concluded, Early
<1>6. ASSUME NEW raw \in Answer, ReviewerBlocks(d, raw) PROVE Ending(d, HandleBlock(d, raw))
  BY <1>6, HandlersCoherent DEF ReviewerBlocks, Verdict, Ending
<1>7. ASSUME NEW raw \in Answer, ReviewerPasses(d, raw) PROVE \E o : Ending(d, o)
  BY <1>7, ReleaseCoherent DEF ReviewerPasses, Verdict, Ending, Dispatched
<1>8. ASSUME NEW raw \in Answer, RoundsExhausted(d, raw) PROVE \E o : Ending(d, o)
  BY <1>8, HandlersCoherent DEF RoundsExhausted, Verdict, Ending
<1> QED
  BY <1>1, <1>2, <1>3, <1>4, <1>5, <1>6, <1>7, <1>8, <1>9, <1>10 DEF CallStep, ReviewStep

LEMMA ViewSteps ==
  ASSUME TypeOK, [GateNext]_gateVars
  PROVE  Unseen \/ \E d \in Dispatch : Inserts(d) \/ \E o : Ending(d, o)
<1>1. ASSUME MirrorCommits \/ UNCHANGED gateVars PROVE Unseen
  BY <1>1 DEF MirrorCommits, gateVars, Unseen
<1>2. ASSUME ProcessDies PROVE Unseen
  <2>1. committed \in 0..Len(audit)
    BY DEF TypeOK
  <2> QED
    BY <1>2, <2>1 DEF ProcessDies, Unseen, Concluded, Early, InFlight
<1> QED
  BY <1>1, <1>2, CallSteps DEF GateNext

\* A trail cut at its end is the trail.
LEMMA WholePrefix ==
  ASSUME NEW s \in Seq(Outcome), NEW n \in 0..Len(s), n = Len(s)
  PROVE  SubSeq(s, 1, n) = s
<1>1. /\ SubSeq(s, 1, n) \in Seq(Outcome) /\ Len(SubSeq(s, 1, n)) = Len(s)
      /\ \A i \in 1..Len(s) : SubSeq(s, 1, n)[i] = s[i]
  OBVIOUS
<1> QED
  BY <1>1, SeqEqual

\* Such a step leaves the rows that are still there where they were.
LEMMA UnseenRows ==
  ASSUME TypeOK, Unseen
  PROVE  /\ DOMAIN audit' \subseteq DOMAIN audit
         /\ \A i \in DOMAIN audit' : audit'[i] = audit[i]
         /\ Len(audit') \in Nat /\ (Len(audit) <= Len(audit') => audit' = audit)
<1>1. audit \in Seq(Outcome)
  BY DEF TypeOK
<1>2. CASE audit' = audit
  BY <1>1, <1>2
<1>3. ASSUME NEW n \in 0..Len(audit), audit' = SubSeq(audit, 1, n)
      PROVE  /\ DOMAIN audit' \subseteq DOMAIN audit
             /\ \A i \in DOMAIN audit' : audit'[i] = audit[i]
             /\ Len(audit') \in Nat /\ (Len(audit) <= Len(audit') => audit' = audit)
  <2>1. /\ Len(audit) \in Nat /\ n \in Nat /\ n <= Len(audit)
        /\ DOMAIN audit = 1..Len(audit) /\ DOMAIN audit' = 1..n /\ Len(audit') = n
        /\ \A i \in 1..n : audit'[i] = audit[i] /\ i \in 1..Len(audit)
        /\ audit' \in Seq(Outcome)
    BY <1>1, <1>3
  <2>2. n = Len(audit) => SubSeq(audit, 1, n) = audit
    BY <1>1, WholePrefix
  <2>3. n = Len(audit) => audit' = audit
    BY <1>3, <2>2, Zenon
  <2>4. Len(audit) <= Len(audit') => n = Len(audit)
    <3> DEFINE rows == Len(audit)
               left == Len(audit')
    <3>1. rows \in Nat /\ n \in Nat /\ n <= rows /\ left = n
      BY <2>1
    <3> HIDE DEF rows, left
    <3>2. rows <= left => n = rows
      BY <3>1
    <3> QED
      BY <3>2 DEF rows, left
  <2>5. /\ DOMAIN audit' \subseteq DOMAIN audit
        /\ \A i \in DOMAIN audit' : audit'[i] = audit[i]
        /\ Len(audit') \in Nat
    BY <2>1
  <2> QED
    BY <2>3, <2>4, <2>5, Zenon
<1> QED
  BY <1>2, <1>3 DEF Unseen

\* Nothing is recorded before the first call.
LEMMA InitViews == GateInit => ViewsInv
<1> SUFFICES ASSUME GateInit PROVE ViewsInv
  OBVIOUS
<1>1. GateInv
  BY InitGateInv
<1>2. \A d \in Dispatch : Coherent(outcome[d])
  BY FailClosedCoherent DEF GateInit
<1>3. audit = <<>> /\ stamps = <<>> /\ ToSet(stamps) = {} /\ IsInjective(stamps)
  BY DEF GateInit, ToSet, IsInjective
<1>4. \A d \in Dispatch : phase[d] \notin Concluded
  BY DEF GateInit, Concluded
<1> QED
  BY <1>1, <1>2, <1>3, <1>4 DEF ViewsInv, TimesInv

\* A call takes its time once, when it ends.
LEMMA EndingKeepsTimes ==
  ASSUME ViewsInv, NEW d \in Dispatch, NEW o, Ending(d, o)
  PROVE  TimesInv'
<1>1. /\ stamps \in Seq(Dispatch) /\ stamps' = Append(stamps, d) /\ audit' = audit
      /\ phase' = [phase EXCEPT ![d] = "writing"] /\ phase \in [Dispatch -> Phases]
  BY DEF ViewsInv, GateInv, TypeOK, Ending, Conclude
<1>2. d \notin ToSet(stamps)
  BY DEF Ending, ViewsInv, TimesInv, Early
<1>3. /\ Len(stamps') = Len(stamps) + 1 /\ stamps'[Len(stamps')] = d
      /\ \A i \in 1..Len(stamps) : stamps'[i] = stamps[i]
      /\ DOMAIN stamps = 1..Len(stamps) /\ DOMAIN stamps' = 1..Len(stamps')
      /\ Len(stamps) \in Nat
  BY <1>1
<1>4. ToSet(stamps') = ToSet(stamps) \cup {d}
  BY <1>3 DEF ToSet
<1>5. IsInjective(stamps)'
  BY <1>2, <1>3 DEF ViewsInv, TimesInv, IsInjective, ToSet
<1>6. \A e \in ToSet(stamps') : phase'[e] \notin Early
  <2>1. ToSet(stamps) \subseteq Dispatch
    BY <1>1 DEF ToSet
  <2> QED
    BY <1>1, <1>4, <2>1 DEF ViewsInv, TimesInv, Early
<1>7. \A e \in Dispatch : phase'[e] \in Concluded => e \in ToSet(stamps')
  BY <1>1, <1>4 DEF ViewsInv, TimesInv
<1>8. \A i \in DOMAIN audit' : audit'[i].dispatch \in ToSet(stamps')
  BY <1>1, <1>4 DEF ViewsInv, TimesInv
<1>9. \A i, j \in DOMAIN audit' : audit'[i].dispatch = audit'[j].dispatch => i = j
  BY <1>1 DEF ViewsInv, TimesInv
<1> QED
  BY <1>5, <1>6, <1>7, <1>8, <1>9 DEF TimesInv

\* The row that is inserted is its call's first.
LEMMA InsertKeepsViews ==
  ASSUME ViewsInv, NEW d \in Dispatch, Inserts(d)
  PROVE  /\ TimesInv'
         /\ \A i \in DOMAIN audit' : Coherent(audit'[i])
<1>1. /\ phase[d] = "writing" /\ audit' = Append(audit, outcome[d])
      /\ \E q \in {"logged", "raised"} : phase' = [phase EXCEPT ![d] = q]
      /\ stamps' = stamps
      /\ phase \in [Dispatch -> Phases] /\ audit \in Seq(Outcome) /\ outcome[d].dispatch = d
      /\ stamps \in Seq(Dispatch)
  BY DEF ViewsInv, GateInv, TypeOK, Inserts, LoopInv
<1>2. d \in ToSet(stamps) /\ RowsOf(d) = {}
  BY <1>1 DEF ViewsInv, GateInv, TimesInv, Concluded, RowBeforeResult, RowMatches, Unlogged
<1>3. /\ Len(audit) \in Nat /\ DOMAIN audit = 1..Len(audit)
      /\ DOMAIN audit' = 1..(Len(audit) + 1) /\ audit'[Len(audit) + 1] = outcome[d]
      /\ \A i \in 1..Len(audit) : audit'[i] = audit[i]
  BY <1>1
<1>4. \A i \in 1..Len(audit) : audit[i].dispatch # d
  BY <1>2 DEF RowsOf
<1>5. \A i, j \in DOMAIN audit' : audit'[i].dispatch = audit'[j].dispatch => i = j
  BY <1>1, <1>3, <1>4 DEF ViewsInv, TimesInv
<1>6. \A i \in DOMAIN audit' : audit'[i].dispatch \in ToSet(stamps)
  BY <1>1, <1>2, <1>3 DEF ViewsInv, TimesInv
<1>7. \A e \in ToSet(stamps) : phase'[e] \notin Early
  <2>1. ToSet(stamps) \subseteq Dispatch
    BY <1>1 DEF ToSet
  <2> QED
    BY <1>1, <2>1 DEF ViewsInv, TimesInv, Early
<1>8. \A e \in Dispatch : phase'[e] \in Concluded => e \in ToSet(stamps)
  BY <1>1, <1>2 DEF ViewsInv, TimesInv, Concluded
<1>9. \A i \in DOMAIN audit' : Coherent(audit'[i])
  BY <1>1, <1>3 DEF ViewsInv
<1> QED
  BY <1>1, <1>5, <1>6, <1>7, <1>8, <1>9 DEF TimesInv, ViewsInv

LEMMA StepViews == ViewsInv /\ [GateNext]_gateVars => ViewsInv'
<1> SUFFICES ASSUME ViewsInv, [GateNext]_gateVars PROVE ViewsInv'
  OBVIOUS
<1>1. GateInv'
  BY StepGateInv DEF ViewsInv
<1>2. CASE Unseen
  <2>1. ToSet(stamps) \subseteq Dispatch
    BY DEF ToSet, ViewsInv, GateInv, TypeOK
  <2>2. /\ DOMAIN audit' \subseteq DOMAIN audit
        /\ \A i \in DOMAIN audit' : audit'[i] = audit[i]
    BY <1>2, UnseenRows DEF ViewsInv, GateInv
  <2>3. TimesInv'
    BY <1>2, <2>1, <2>2 DEF Unseen, ViewsInv, TimesInv
  <2>4. /\ \A d \in Dispatch : Coherent(outcome'[d])
        /\ \A i \in DOMAIN audit' : Coherent(audit'[i])
    BY <1>2, <2>2 DEF Unseen, ViewsInv
  <2> QED
    BY <1>1, <2>3, <2>4 DEF ViewsInv
<1>3. ASSUME NEW d \in Dispatch, Inserts(d) PROVE ViewsInv'
  <2>1. outcome' = outcome
    BY <1>3 DEF Inserts
  <2> QED
    BY <1>1, <1>3, <2>1, InsertKeepsViews DEF ViewsInv
<1>4. ASSUME NEW d \in Dispatch, NEW o, Ending(d, o) PROVE ViewsInv'
  <2>1. outcome' = [outcome EXCEPT ![d] = o] /\ audit' = audit /\ Coherent(o)
    BY <1>4 DEF Ending, Conclude
  <2>2. \A e \in Dispatch : Coherent(outcome'[e])
    BY <2>1 DEF ViewsInv, GateInv, TypeOK
  <2> QED
    BY <1>1, <1>4, <2>1, <2>2, EndingKeepsTimes DEF ViewsInv
<1> QED
  BY <1>2, <1>3, <1>4, ViewSteps DEF ViewsInv, GateInv

\* The inductive invariant of the views: records agree with themselves, and no two
\* rows of the trail are one call's or have one time (_finish and append).
THEOREM ViewsInvariant == GateSpec => []ViewsInv
  BY InitViews, StepViews, PTL DEF GateSpec

-----------------------------------------------------------------------------
(* What the counters and the statuses say.                                  *)

\* Three sets without a common element count as many as their union.
LEMMA CountThree ==
  ASSUME NEW S, IsFiniteSet(S), NEW A \in SUBSET S, NEW B \in SUBSET S, NEW C \in SUBSET S,
         A \cup B \cup C = S, A \cap B = {}, (A \cup B) \cap C = {}
  PROVE  Cardinality(S) = Cardinality(A) + Cardinality(B) + Cardinality(C)
<1>1. IsFiniteSet(A) /\ IsFiniteSet(B) /\ IsFiniteSet(C)
  BY FS_Subset
<1>2. IsFiniteSet(A \cup B) /\ Cardinality(A \cup B) = Cardinality(A) + Cardinality(B)
  <2>1. Cardinality(A \cap B) = 0
    BY FS_EmptySet
  <2> QED
    BY <1>1, <2>1, FS_Union, FS_CardinalityType
<1>3. Cardinality(S) = Cardinality(A \cup B) + Cardinality(C)
  <2>1. Cardinality((A \cup B) \cap C) = 0
    BY FS_EmptySet
  <2>2. Cardinality((A \cup B) \cup C)
           = Cardinality(A \cup B) + Cardinality(C) - Cardinality((A \cup B) \cap C)
    BY <1>1, <1>2, FS_Union
  <2>3. Cardinality(A \cup B) \in Nat /\ Cardinality(C) \in Nat /\ S = (A \cup B) \cup C
    BY <1>1, <1>2, FS_CardinalityType
  <2>4. Cardinality(S) = Cardinality((A \cup B) \cup C)
    BY <2>3
  <2> QED
    BY <2>1, <2>2, <2>3, <2>4
<1> QED
  BY <1>1, <1>2, <1>3, FS_CardinalityType

\* Of coherent records, the counters add up.
LEMMA CountersAddUp == ViewsInv => MetricsAddUp
<1> SUFFICES ASSUME ViewsInv PROVE MetricsAddUp
  OBVIOUS
<1> DEFINE S == DOMAIN audit
           R == {i \in S : audit[i].decision \in {"dispatched", "dispatched_fallback"}}
           B == {i \in S : audit[i].decision = "blocked"}
           E == {i \in S : audit[i].escalated}
<1>1. audit \in Seq(Outcome) /\ S = 1..Len(audit) /\ Len(audit) \in Nat
  BY DEF ViewsInv, GateInv, TypeOK
<1>2. IsFiniteSet(S) /\ Cardinality(S) = Len(audit)
  BY <1>1, FS_Interval
<1>3. \A i \in S : Coherent(audit[i]) /\ audit[i] \in Outcome
  BY <1>1 DEF ViewsInv
<1>4. \A i \in S : audit[i].decision
                      \in {"dispatched", "dispatched_fallback", "blocked", "escalated"}
  BY <1>3 DEF Outcome
<1>5. R \cup B \cup E = S /\ R \cap B = {} /\ (R \cup B) \cap E = {}
  BY <1>3, <1>4 DEF Coherent
<1>6. Cardinality(S) = Cardinality(R) + Cardinality(B) + Cardinality(E)
  <2> HIDE DEF S
  <2>1. R \in SUBSET S /\ B \in SUBSET S /\ E \in SUBSET S
    OBVIOUS
  <2> HIDE DEF R, B, E
  <2> QED
    BY <1>2, <1>5, <2>1, CountThree
<1>7. /\ Metrics.total = Len(audit) /\ Metrics.released = Cardinality(R)
      /\ Metrics.blocked = Cardinality(B) /\ Metrics.escalated = Cardinality(E)
  BY DEF Metrics, CountRows
<1>8. Metrics.failClosed = Metrics.unavailable
  <2>1. {i \in S : audit[i].failClosed} = {i \in S : audit[i].verdict = "unavailable"}
    BY <1>3 DEF Coherent
  <2> QED
    BY <2>1 DEF Metrics, CountRows
<1> QED
  BY <1>2, <1>6, <1>7, <1>8 DEF MetricsAddUp

\* The dashboard's counters say what happened: every dispatch of the trail is counted
\* as released, blocked or escalated and as one of them only, and the fail-closed
\* counter misses none that got no usable verdict (compute_metrics).
THEOREM CountersSayWhatHappened == GateSpec => []MetricsAddUp
  BY ViewsInvariant, CountersAddUp, PTL

\* The row of a call that returned is its outcome.
LEMMA RowOfReturned ==
  ASSUME ViewsInv, NEW d \in Dispatch, phase[d] = "returned"
  PROVE  Row(d) = outcome[d]
<1>1. PICK i \in 1..Len(audit) : RowsOf(d) = {i} /\ audit[i] = outcome[d]
  <2>1. RowsOf(d) # {} /\ \A i, j \in RowsOf(d) : i = j /\ audit[i] = outcome[d]
    BY DEF ViewsInv, GateInv, RowBeforeResult, RowMatches
  <2>2. PICK i \in RowsOf(d) : TRUE
    BY <2>1
  <2>3. i \in 1..Len(audit) /\ RowsOf(d) = {i} /\ audit[i] = outcome[d]
    BY <2>1, <2>2 DEF RowsOf
  <2> QED
    BY <2>3
<1>2. DOMAIN audit = 1..Len(audit)
  BY DEF ViewsInv, GateInv, TypeOK
<1>3. audit[i] \in ToSet(audit) /\ audit[i].dispatch = d
  BY <1>1, <1>2 DEF ToSet, RowsOf
<1>4. \A r \in ToSet(audit) : r.dispatch = d => r = audit[i]
  <2> SUFFICES ASSUME NEW j \in 1..Len(audit), audit[j].dispatch = d PROVE j = i
    BY <1>2 DEF ToSet
  <2>1. j \in RowsOf(d)
    BY DEF RowsOf
  <2> QED
    BY <1>1, <2>1
<1> QED
  BY <1>1, <1>3, <1>4 DEF Row

\* The live view says of a dispatch what its caller was told: "dispatched" if and only
\* if it was released, and fail-closed if and only if there was no verdict (_status_for).
THEOREM StatusIsTheOutcome == GateSpec => []StatusTellsTheOutcome
<1>1. ViewsInv => StatusTellsTheOutcome
  <2> SUFFICES ASSUME ViewsInv, NEW d \in Dispatch, phase[d] = "returned"
               PROVE  /\ Status(outcome[d]) = "dispatched" <=> outcome[d].released
                      /\ Status(outcome[d]) = "blocked (fail-closed)"
                            <=> outcome[d].verdict = "unavailable"
    BY RowOfReturned DEF StatusTellsTheOutcome
  <2> DEFINE o == outcome[d]
  <2>1. Coherent(o)
    BY DEF ViewsInv
  <2>2. o.failClosed \in BOOLEAN /\ o.escalated \in BOOLEAN /\ o.released \in BOOLEAN
    BY DEF ViewsInv, GateInv, TypeOK, Outcome
  <2> HIDE DEF o
  <2>3. Status(o) = IF o.failClosed THEN "blocked (fail-closed)"
                    ELSE IF o.escalated THEN "escalated"
                    ELSE IF o.decision \in Dispatched THEN "dispatched" ELSE "blocked"
    BY <2>2 DEF Status, Dispatched
  <2>4. CASE o.failClosed
    BY <2>1, <2>3, <2>4 DEF Coherent, o
  <2>5. CASE ~o.failClosed /\ o.escalated
    BY <2>1, <2>3, <2>5 DEF Coherent, Dispatched, o
  <2>6. CASE ~o.failClosed /\ ~o.escalated
    BY <2>1, <2>3, <2>6 DEF Coherent, o
  <2> QED
    BY <2>2, <2>4, <2>5, <2>6
<1> QED
  BY <1>1, ViewsInvariant, PTL

-----------------------------------------------------------------------------
(* The trail by time.  The rows' ranks, the numbers of their earlier rows,  *)
(* are different numbers below the number of rows, so every number below it *)
(* is the rank of a row.                                                    *)

Rank(r) == Cardinality(Earlier(r))

LEMMA IntervalsCount ==
  ASSUME NEW n \in Nat
  PROVE  /\ IsFiniteSet(1..n) /\ Cardinality(1..n) = n
         /\ IsFiniteSet(0..(n - 1)) /\ Cardinality(0..(n - 1)) = n
<1>1. n \in Int /\ n - 1 \in Int /\ 0 \in Int /\ 1 \in Int
  OBVIOUS
<1>2. IsFiniteSet(1..n) /\ Cardinality(1..n) = IF 1 > n THEN 0 ELSE n - 1 + 1
  BY <1>1, FS_Interval
<1>3. IsFiniteSet(0..(n - 1)) /\ Cardinality(0..(n - 1)) = IF 0 > n - 1 THEN 0 ELSE (n - 1) - 0 + 1
  BY <1>1, FS_Interval
<1> QED
  BY <1>2, <1>3

LEMMA TimeOfRow ==
  ASSUME ViewsInv, NEW r \in ToSet(audit)
  PROVE  /\ Time(r) \in DOMAIN stamps /\ Time(r) \in Nat
         /\ stamps[Time(r)] = r.dispatch
<1>1. r.dispatch \in ToSet(stamps)
  BY DEF ViewsInv, TimesInv, ToSet
<1>2. \E i \in DOMAIN stamps : stamps[i] = r.dispatch
  BY <1>1 DEF ToSet
<1>3. Time(r) \in DOMAIN stamps /\ stamps[Time(r)] = r.dispatch
  BY <1>2 DEF Time
<1> QED
  BY <1>3 DEF ViewsInv, GateInv, TypeOK

LEMMA TimesDiffer ==
  ASSUME ViewsInv, NEW r \in ToSet(audit), NEW s \in ToSet(audit), Time(r) = Time(s)
  PROVE  r = s
<1>1. r.dispatch = s.dispatch
  BY TimeOfRow
<1>2. PICK i \in DOMAIN audit, j \in DOMAIN audit : r = audit[i] /\ s = audit[j]
  BY DEF ToSet
<1> QED
  BY <1>1, <1>2 DEF ViewsInv, TimesInv

LEMMA RowsCounted ==
  ASSUME ViewsInv
  PROVE  /\ Len(audit) \in Nat
         /\ IsFiniteSet(ToSet(audit)) /\ Cardinality(ToSet(audit)) = Len(audit)
<1>1. Len(audit) \in Nat /\ DOMAIN audit = 1..Len(audit) /\ audit = [i \in 1..Len(audit) |-> audit[i]]
  BY DEF ViewsInv, GateInv, TypeOK
<1>2. audit \in Surjection(1..Len(audit), ToSet(audit))
  BY <1>1 DEF Surjection, ToSet
<1>3. audit \in Injection(1..Len(audit), ToSet(audit))
  <2>1. \A i, j \in 1..Len(audit) : audit[i] = audit[j] => i = j
    BY <1>1 DEF ViewsInv, TimesInv
  <2> QED
    BY <1>2, <2>1 DEF Surjection, Injection, IsInjective
<1>4. IsFiniteSet(1..Len(audit)) /\ Cardinality(1..Len(audit)) = Len(audit)
  BY <1>1, IntervalsCount
<1> QED
  BY <1>1, <1>2, <1>3, <1>4, FS_Surjection

LEMMA RankType ==
  ASSUME ViewsInv, NEW r \in ToSet(audit)
  PROVE  IsFiniteSet(Earlier(r)) /\ Rank(r) \in Nat /\ Rank(r) < Len(audit)
<1>1. Earlier(r) \in SUBSET (ToSet(audit) \ {r})
  BY TimeOfRow DEF Earlier
<1>2. /\ IsFiniteSet(ToSet(audit) \ {r})
      /\ Cardinality(ToSet(audit) \ {r}) = Len(audit) - 1 /\ Len(audit) \in Nat
  BY RowsCounted, FS_RemoveElement
<1>3. IsFiniteSet(Earlier(r)) /\ Rank(r) <= Len(audit) - 1
  BY <1>1, <1>2, FS_Subset DEF Rank
<1> QED
  BY <1>2, <1>3, FS_CardinalityType DEF Rank

\* A later row has a higher rank.
LEMMA RanksFollowTimes ==
  ASSUME ViewsInv, NEW r \in ToSet(audit), NEW s \in ToSet(audit), Time(r) < Time(s)
  PROVE  Rank(r) < Rank(s)
<1>1. \A t \in ToSet(audit) : Time(t) \in Nat
  BY TimeOfRow
<1>2. Earlier(r) \in SUBSET Earlier(s) /\ r \in Earlier(s) /\ r \notin Earlier(r)
  BY <1>1 DEF Earlier
<1>3. Rank(r) <= Rank(s) /\ Rank(r) # Rank(s)
  BY <1>2, RankType, FS_Subset DEF Rank
<1> QED
  BY <1>3, RankType

LEMMA RanksDiffer ==
  ASSUME ViewsInv, NEW r \in ToSet(audit), NEW s \in ToSet(audit), Rank(r) = Rank(s)
  PROVE  r = s
<1>1. ~ (Time(r) < Time(s)) /\ ~ (Time(s) < Time(r))
  BY RanksFollowTimes, RankType
<1>2. Time(r) = Time(s)
  BY <1>1, TimeOfRow
<1> QED
  BY <1>2, TimesDiffer

\* Every number below the number of rows is the rank of one.
LEMMA RanksAreAll ==
  ASSUME ViewsInv, NEW k \in 0..(Len(audit) - 1)
  PROVE  \E r \in ToSet(audit) : Rank(r) = k
<1> DEFINE S == ToSet(audit)
           T == 0..(Len(audit) - 1)
           f == [r \in S |-> Rank(r)]
<1>1. f \in [S -> T]
  BY RankType, RowsCounted
<1>2. f \in Injection(S, T)
  BY <1>1, RanksDiffer DEF Injection, IsInjective
<1>3. IsFiniteSet(T) /\ Cardinality(T) = Len(audit)
  BY RowsCounted, IntervalsCount
<1>4. f \in Surjection(S, T)
  <2> HIDE DEF S, T, f
  <2> QED
    BY <1>2, <1>3, RowsCounted, FS_Injection DEF S
<1> QED
  BY <1>4 DEF Surjection

\* The trail by time has every row of the trail, each once, in the order of the ranks.
LEMMA AllByRank ==
  ASSUME ViewsInv
  PROVE  /\ All \in Seq(ToSet(audit)) /\ Len(All) = Len(audit) /\ Len(audit) \in Nat
         /\ \A i \in 1..Len(audit) : All[i] \in ToSet(audit) /\ Rank(All[i]) = i - 1
<1>1. Len(audit) \in Nat
  BY RowsCounted
<1>2. ASSUME NEW i \in 1..Len(audit)
      PROVE  All[i] \in ToSet(audit) /\ Rank(All[i]) = i - 1
  <2>1. i - 1 \in 0..(Len(audit) - 1)
    BY <1>1
  <2>2. \E r \in ToSet(audit) : Cardinality(Earlier(r)) = i - 1
    BY <2>1, RanksAreAll DEF Rank
  <2>3. All[i] = CHOOSE r \in ToSet(audit) : Cardinality(Earlier(r)) = i - 1
    BY DEF All
  <2> QED
    BY <2>2, <2>3 DEF Rank
<1>3. All \in [1..Len(audit) -> ToSet(audit)]
  <2>1. All = [i \in 1..Len(audit) |-> All[i]]
    BY DEF All
  <2> QED
    BY <1>2, <2>1
<1>4. All \in Seq(ToSet(audit)) /\ Len(All) = Len(audit)
  BY <1>1, <1>3, SeqDef, LenProperties
<1> QED
  BY <1>1, <1>2, <1>4

\* No row of the trail is later than the last of the trail by time.
LEMMA LastIsNewest ==
  ASSUME ViewsInv, NEW r \in ToSet(audit), Len(audit) > 0
  PROVE  Time(r) <= Time(All[Len(audit)])
<1> DEFINE n == Len(audit)
<1>1. n \in 1..n /\ n \in Nat
  BY RowsCounted
<1>2. All[n] \in ToSet(audit) /\ Rank(All[n]) = n - 1
  BY <1>1, AllByRank
<1>3. Rank(r) \in Nat /\ Rank(r) < n
  BY RankType
<1>4. ~ (Rank(All[n]) < Rank(r))
  BY <1>1, <1>2, <1>3
<1>5. ~ (Time(All[n]) < Time(r))
  BY <1>2, <1>4, RanksFollowTimes
<1> QED
  BY <1>2, <1>5, TimeOfRow

-----------------------------------------------------------------------------
(* What the views take of it.                                               *)

LEMMA MinOfTwo ==
  ASSUME NEW a \in Nat, NEW b \in Nat
  PROVE  Min({a, b}) = IF a <= b THEN a ELSE b
  BY DEF Min

LEMMA MaxOfTwo ==
  ASSUME NEW a \in Int, NEW b \in Int
  PROVE  Max({a, b}) = IF a >= b THEN a ELSE b
  BY DEF Max

LEMMA Reversed ==
  ASSUME NEW S, NEW s \in Seq(S)
  PROVE  /\ Len(s) = 0 => Reverse(s) = <<>>
         /\ Reverse(s) \in Seq(S) /\ Len(Reverse(s)) = Len(s)
         /\ Len(s) > 0 => Reverse(s) # <<>> /\ Reverse(s)[1] = s[Len(s)]
<1> DEFINE r == Reverse(s)
<1>1. Len(s) \in Nat /\ \A i \in 1..Len(s) : s[i] \in S
  OBVIOUS
<1>2. r = [i \in 1..Len(s) |-> s[(Len(s) - i) + 1]]
  BY DEF Reverse
<1>3. r \in [1..Len(s) -> S]
  <2>1. \A i \in 1..Len(s) : (Len(s) - i) + 1 \in 1..Len(s)
    BY <1>1
  <2> QED
    BY <1>1, <1>2, <2>1
<1>4. r \in Seq(S) /\ Len(r) = Len(s)
  BY <1>1, <1>3, SeqDef, LenProperties
<1>5. ASSUME Len(s) > 0 PROVE r # <<>> /\ r[1] = s[Len(s)]
  <2>1. 1 \in 1..Len(s) /\ (Len(s) - 1) + 1 = Len(s)
    BY <1>1, <1>5
  <2> HIDE DEF r
  <2>2. r[1] = s[Len(s)]
    BY <1>2, <2>1
  <2> QED
    BY <1>4, <1>5, <2>2
<1>6. Len(s) = 0 => r = <<>>
  BY <1>4
<1> QED
  BY <1>4, <1>5, <1>6

\* A part of the trail by time, from the k-th row to the m-th.
LEMMA PartOfTrail ==
  ASSUME ViewsInv, NEW k \in Nat, NEW m \in Nat, k >= 1, m <= Len(audit)
  PROVE  LET t == SubSeq(All, k, m) IN
         /\ t \in Seq(ToSet(audit))
         /\ Len(t) = IF k <= m THEN m - k + 1 ELSE 0
         /\ k <= m => t[1] = All[k] /\ t[Len(t)] = All[m]
<1> DEFINE t == SubSeq(All, k, m)
<1>1. All \in Seq(ToSet(audit)) /\ Len(All) = Len(audit) /\ Len(audit) \in Nat
  BY AllByRank
<1>2. /\ t \in Seq(ToSet(audit))
      /\ Len(t) = IF k <= m THEN m - k + 1 ELSE 0
  BY <1>1
<1>3. ASSUME k <= m PROVE t[1] = All[k] /\ t[m - k + 1] = All[m]
  <2>1. \A i \in 1..(m - k + 1) : t[i] = All[i + k - 1]
    BY <1>1, <1>3
  <2>2. 1 \in 1..(m - k + 1) /\ m - k + 1 \in 1..(m - k + 1)
        /\ 1 + k - 1 = k /\ (m - k + 1) + k - 1 = m
    BY <1>3
  <2> HIDE DEF t
  <2> QED
    BY <2>1, <2>2
<1> QED
  BY <1>2, <1>3

\* A query with a limit takes the earliest rows, up to the limit.
LEMMA QueryTakes ==
  ASSUME ViewsInv, NEW limit \in Nat \ {0}
  PROVE  LET q == Query(limit) IN
         /\ q \in Seq(ToSet(audit))
         /\ Len(q) = IF Len(audit) <= limit THEN Len(audit) ELSE limit
         /\ Len(audit) > 0 => /\ q[1] = All[1]
                              /\ q[Len(q)] = All[Len(q)]
<1>1. Len(All) = Len(audit) /\ Len(audit) \in Nat
  BY AllByRank
<1> DEFINE m == IF Len(audit) <= limit THEN Len(audit) ELSE limit
<1>2. Query(limit) = SubSeq(All, 1, m)
  BY <1>1, MinOfTwo DEF Query
<1>3. m \in Nat /\ m <= Len(audit) /\ (Len(audit) > 0 => 1 <= m) /\ 1 \in Nat /\ 1 >= 1
  BY <1>1
<1> HIDE DEF m
<1>4. /\ Query(limit) \in Seq(ToSet(audit))
      /\ Len(Query(limit)) = IF 1 <= m THEN m - 1 + 1 ELSE 0
      /\ 1 <= m => Query(limit)[1] = All[1] /\ Query(limit)[Len(Query(limit))] = All[m]
  BY <1>2, <1>3, PartOfTrail
<1>5. Len(Query(limit)) = m
  BY <1>3, <1>4
<1> QED
  BY <1>3, <1>4, <1>5 DEF m

\* While the trail is not longer than the limit, its reverse begins with the newest.
LEMMA ReversedQuery ==
  ASSUME ViewsInv, NEW limit \in Nat \ {0}, Len(audit) > 0, Len(audit) <= limit
  PROVE  /\ IsNewest(Reverse(Query(limit)))
         /\ Reverse(Query(limit)) \in Seq(ToSet(audit))
         /\ Len(Reverse(Query(limit))) = Len(audit)
<1> DEFINE q == Query(limit)
<1>1. q \in Seq(ToSet(audit)) /\ Len(q) = Len(audit) /\ q[Len(q)] = All[Len(q)]
  BY QueryTakes
<1>2. Len(All) = Len(audit)
  BY AllByRank
<1> HIDE DEF q
<1>3. Reverse(q) # <<>> /\ Reverse(q)[1] = q[Len(q)]
      /\ Reverse(q) \in Seq(ToSet(audit)) /\ Len(Reverse(q)) = Len(q)
  BY <1>1, Reversed
<1> QED
  BY <1>1, <1>2, <1>3 DEF IsNewest, q

\* Once it is longer, the reverse begins with an earlier row.
LEMMA OutgrownQuery ==
  ASSUME ViewsInv, NEW limit \in Nat \ {0}, Len(audit) > limit
  PROVE  /\ ~IsNewest(Reverse(Query(limit)))
         /\ Reverse(Query(limit)) \in Seq(ToSet(audit)) /\ Len(Reverse(Query(limit))) = limit
<1> DEFINE q == Query(limit)
<1>1. /\ Len(audit) \in Nat /\ Len(All) = Len(audit)
      /\ \A i \in 1..Len(audit) : Rank(All[i]) = i - 1
  BY AllByRank
<1>2. q \in Seq(ToSet(audit)) /\ Len(q) = limit /\ q[Len(q)] = All[Len(q)]
  <2>1. Len(audit) > 0 /\ ~(Len(audit) <= limit)
    BY <1>1
  <2> QED
    BY <2>1, QueryTakes
<1> HIDE DEF q
<1>3. Reverse(q) # <<>> /\ Reverse(q)[1] = q[Len(q)]
      /\ Reverse(q) \in Seq(ToSet(audit)) /\ Len(Reverse(q)) = Len(q)
  BY <1>2, Reversed
<1>4. limit \in 1..Len(audit) /\ Len(audit) \in 1..Len(audit) /\ limit # Len(audit)
  BY <1>1
<1>5. Rank(All[limit]) = limit - 1 /\ Rank(All[Len(audit)]) = Len(audit) - 1
  BY <1>1, <1>4
<1>6. limit - 1 # Len(audit) - 1
  BY <1>1, <1>4
<1>7. All[limit] # All[Len(audit)]
  BY <1>5, <1>6
<1> QED
  BY <1>1, <1>2, <1>3, <1>7 DEF IsNewest, q

LEMMA ReversedLastRows ==
  ASSUME ViewsInv, NEW limit \in Nat, Len(audit) > 0
  PROVE  IsNewest(Reverse(LastRows(limit)))
<1>1. Len(All) = Len(audit) /\ Len(audit) \in Nat
  BY AllByRank
<1> DEFINE k == IF limit = 0 THEN 1 ELSE Max({1, Len(All) - limit + 1})
           t == SubSeq(All, k, Len(All))
<1>2. k \in Nat /\ k >= 1 /\ k <= Len(audit)
  <2>1. limit # 0 => k = IF 1 >= Len(audit) - limit + 1 THEN 1 ELSE Len(audit) - limit + 1
    BY <1>1, MaxOfTwo
  <2> QED
    BY <1>1, <2>1
<1>3. /\ t \in Seq(ToSet(audit))
      /\ Len(t) = Len(audit) - k + 1
      /\ t[Len(t)] = All[Len(audit)]
  <2> HIDE DEF k
  <2> QED
    BY <1>1, <1>2, PartOfTrail
<1>4. Len(t) > 0
  BY <1>1, <1>2, <1>3
<1> HIDE DEF t
<1>5. Reverse(t) # <<>> /\ Reverse(t)[1] = t[Len(t)]
  BY <1>3, <1>4, Reversed
<1>6. LastRows(limit) = t
  BY DEF LastRows, t
<1> QED
  BY <1>1, <1>3, <1>5, <1>6 DEF IsNewest

-----------------------------------------------------------------------------
(* Newest first.                                                            *)

\* The workers of the live view begin with its first row.
LEMMA WorkersBegin ==
  ASSUME ViewsInv, Len(audit) > 0
  PROVE  Len(audit) <= LiveLimit <=> IsNewest(Workers)
<1>1. LiveLimit \in Nat \ {0} /\ WorkerLimit \in Nat \ {0} /\ Len(audit) \in Nat
  BY ViewsAssumption, AllByRank
<1>2. /\ Len(audit) <= LiveLimit <=> IsNewest(LiveRows)
      /\ LiveRows \in Seq(ToSet(audit)) /\ Len(LiveRows) \in Nat \ {0}
  <2>1. CASE Len(audit) <= LiveLimit
    BY <1>1, <2>1, ReversedQuery DEF LiveRows
  <2>2. CASE Len(audit) > LiveLimit
    BY <1>1, <2>2, OutgrownQuery DEF LiveRows
  <2> QED
    BY <1>1, <2>1, <2>2
<1> DEFINE m == Min({WorkerLimit, Len(LiveRows)})
<1>3. m \in 1..Len(LiveRows)
  BY <1>1, <1>2, MinOfTwo
<1> HIDE DEF m
<1>4. /\ SubSeq(LiveRows, 1, m) # <<>> /\ LiveRows # <<>>
      /\ SubSeq(LiveRows, 1, m)[1] = LiveRows[1]
  BY <1>2, <1>3
<1> QED
  BY <1>2, <1>4 DEF Workers, IsNewest, m

\* The first row of a trail with several is not its newest.
LEMMA FirstIsNotNewest ==
  ASSUME ViewsInv, Len(audit) > 0
  PROVE  Len(audit) <= 1 <=> IsNewest(LastGateDecision)
<1>1. /\ Len(audit) \in Nat /\ Len(All) = Len(audit)
      /\ \A i \in 1..Len(audit) : Rank(All[i]) = i - 1
  BY AllByRank
<1>2. /\ Query(1) \in Seq(ToSet(audit)) /\ Query(1)[1] = All[1]
      /\ Len(Query(1)) = IF Len(audit) <= 1 THEN Len(audit) ELSE 1
  <2>1. ASSUME NEW k \in Nat \ {0}
        PROVE  /\ Query(k) \in Seq(ToSet(audit)) /\ Query(k)[1] = All[1]
               /\ Len(Query(k)) = IF Len(audit) <= k THEN Len(audit) ELSE k
    BY QueryTakes
  <2>2. 1 \in Nat \ {0}
    OBVIOUS
  <2> QED
    BY <2>1, <2>2
<1>3. Query(1) # <<>>
  BY <1>1, <1>2
<1>4. 1 \in 1..Len(audit) /\ Len(audit) \in 1..Len(audit)
  BY <1>1
<1>5. Rank(All[1]) = 0 /\ Rank(All[Len(audit)]) = Len(audit) - 1
  BY <1>1, <1>4
<1>6. All[1] = All[Len(audit)] <=> Len(audit) = 1
  BY <1>1, <1>5
<1> QED
  BY <1>1, <1>2, <1>3, <1>6 DEF IsNewest, LastGateDecision

\* The verdict lists show the newest dispatch first, in whatever order rows arrived;
\* the queue and the live view exactly until the trail outgrows their limits, and the last
\* gate decision only while the trail has a single row.
THEOREM NewestFirst == GateSpec => []ViewsAgreeOnTheNewest
<1>1. ViewsInv => ViewsAgreeOnTheNewest
  <2> SUFFICES ASSUME ViewsInv, audit # <<>> PROVE ViewsAgreeOnTheNewest
    BY DEF ViewsAgreeOnTheNewest
  <2>1. Len(audit) > 0
    BY DEF ViewsInv, GateInv, TypeOK
  <2>2. IsNewest(Verdicts) /\ IsNewest(Reverse(RecentVerdicts))
    BY <2>1, ReversedLastRows, ViewsAssumption DEF Verdicts, RecentVerdicts
  <2>3. Len(audit) <= QueueLimit <=> IsNewest(Queue)
    <3>1. Len(audit) \in Nat /\ QueueLimit \in Nat \ {0}
      BY AllByRank, ViewsAssumption
    <3>2. CASE Len(audit) <= QueueLimit
      BY <2>1, <3>1, <3>2, ReversedQuery DEF Queue
    <3>3. CASE Len(audit) > QueueLimit
      BY <3>1, <3>3, OutgrownQuery DEF Queue
    <3> QED
      BY <3>1, <3>2, <3>3
  <2> QED
    BY <2>1, <2>2, <2>3, WorkersBegin, FirstIsNotNewest DEF ViewsAgreeOnTheNewest
<1> QED
  BY <1>1, ViewsInvariant, PTL

\* The dispatch that the live view shows as current is in the trail, and no other in
\* the trail took its time later.
CurrentIsLast ==
    Len(audit) <= LiveLimit =>
        \A d \in CurrentDispatch :
            /\ \E r \in ToSet(audit) : r.dispatch = d
            /\ \A s \in ToSet(audit) :
                  \E i, j \in DOMAIN stamps :
                      i <= j /\ stamps[i] = s.dispatch /\ stamps[j] = d

LEMMA CurrentIsNewest == ViewsInv => CurrentIsLast
<1> SUFFICES ASSUME ViewsInv, Len(audit) <= LiveLimit, NEW d \in CurrentDispatch
             PROVE  /\ \E r \in ToSet(audit) : r.dispatch = d
                    /\ \A s \in ToSet(audit) :
                          \E i, j \in DOMAIN stamps :
                              i <= j /\ stamps[i] = s.dispatch /\ stamps[j] = d
  BY DEF CurrentIsLast
<1>1. LiveRows # <<>> /\ d = LiveRows[1].dispatch
  BY DEF CurrentDispatch
<1>2. Len(audit) \in Nat /\ LiveLimit \in Nat \ {0}
  BY RowsCounted, ViewsAssumption
<1>3. Len(audit) > 0
  <2> SUFFICES ASSUME Len(audit) = 0 PROVE FALSE
    BY <1>2
  <2>1. Query(LiveLimit) \in Seq(ToSet(audit)) /\ Len(Query(LiveLimit)) = 0
    BY <1>2, QueryTakes
  <2> QED
    BY <1>1, <2>1, Reversed DEF LiveRows
<1> DEFINE r == All[Len(audit)]
<1>4. LiveRows[1] = r
  BY <1>2, <1>3, ReversedQuery, AllByRank DEF LiveRows, IsNewest
<1>5. r \in ToSet(audit) /\ r.dispatch = d
  BY <1>1, <1>2, <1>3, <1>4, AllByRank
<1>6. ASSUME NEW s \in ToSet(audit)
      PROVE  \E i, j \in DOMAIN stamps : i <= j /\ stamps[i] = s.dispatch /\ stamps[j] = d
  <2>1. Time(s) <= Time(r)
    BY <1>3, LastIsNewest
  <2>2. /\ Time(s) \in DOMAIN stamps /\ stamps[Time(s)] = s.dispatch
        /\ Time(r) \in DOMAIN stamps /\ stamps[Time(r)] = r.dispatch
    BY <1>5, TimeOfRow
  <2> QED
    BY <1>5, <2>1, <2>2
<1> QED
  BY <1>5, <1>6

\* A trail that gets no shorter keeps its rows.
LEMMA TrailGrows ==
  ASSUME ViewsInv, [GateNext]_gateVars, Len(audit) <= Len(audit')
  PROVE  ToSet(audit) \subseteq ToSet(audit')
<1>1. audit \in Seq(Outcome) /\ \A d \in Dispatch : outcome[d] \in Outcome
  BY DEF ViewsInv, GateInv, TypeOK
<1>2. audit' = audit \/ \E d \in Dispatch : audit' = Append(audit, outcome[d])
  BY ViewSteps, UnseenRows DEF ViewsInv, GateInv, Inserts, Ending, Conclude
<1>3. CASE audit' = audit
  BY <1>3
<1>4. ASSUME NEW d \in Dispatch, audit' = Append(audit, outcome[d])
      PROVE  ToSet(audit) \subseteq ToSet(audit')
  BY <1>1, <1>4 DEF ToSet
<1> QED
  BY <1>2, <1>3, <1>4

\* The dispatch shown as the current one is never replaced by an earlier one while the
\* trail is within the live view's limit and the process lives, in whatever order rows
\* arrive.
THEOREM CurrentMovesOn == GateSpec => CurrentNeverGoesBack
<1>1. ViewsInv' => CurrentIsLast'
  BY CurrentIsNewest, PTL
<1>2. ViewsInv /\ ViewsInv' /\ [GateNext]_gateVars =>
        [Len(audit) <= Len(audit') /\ Len(audit') <= LiveLimit =>
            \A d \in CurrentDispatch, e \in CurrentDispatch' :
                \E i, j \in DOMAIN stamps' :
                    i <= j /\ stamps'[i] = d /\ stamps'[j] = e]_gateVars
  <2> SUFFICES ASSUME ViewsInv, ViewsInv', [GateNext]_gateVars,
                      Len(audit) <= Len(audit'), Len(audit') <= LiveLimit,
                      NEW d \in CurrentDispatch, NEW e \in CurrentDispatch'
               PROVE  \E i, j \in DOMAIN stamps' :
                          i <= j /\ stamps'[i] = d /\ stamps'[j] = e
    OBVIOUS
  <2>1. ToSet(audit) \subseteq ToSet(audit')
    BY TrailGrows
  <2>2. Len(audit) \in Nat /\ Len(audit') \in Nat /\ LiveLimit \in Nat
    BY ViewsAssumption DEF ViewsInv, GateInv, TypeOK
  <2>3. PICK r \in ToSet(audit) : r.dispatch = d
    BY <2>1, <2>2, CurrentIsNewest DEF CurrentIsLast
  <2>4. \A s \in ToSet(audit') :
           \E i, j \in DOMAIN stamps' :
               i <= j /\ stamps'[i] = s.dispatch /\ stamps'[j] = e
    BY <1>1 DEF CurrentIsLast
  <2> QED
    BY <2>1, <2>3, <2>4
<1> QED
  BY <1>2, ViewsInvariant, PTL DEF GateSpec, CurrentNeverGoesBack

=============================================================================
