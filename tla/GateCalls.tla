------------------------------ MODULE GateCalls ------------------------------
(***************************************************************************)
(* The gate (ReviewGate) with the reviewer calls that it makes             *)
(* (ReviewerCall): each round of a dispatch is one call of call_reviewer,  *)
(* on the thread of the dispatch, with a worker, a timer and a provider    *)
(* of its own.  The gate hears what that call decided on, and only once    *)
(* it has returned.                                                        *)
(*                                                                         *)
(* Submit to Return, the actions of the gate keep the guards they have in  *)
(* ReviewGate; what is new is where an answer may come from.               *)
(***************************************************************************)
EXTENDS ReviewGate

CONSTANT Untimed  \* dispatches of a gate with reviewer_timeout_s <= 0

ASSUME GateCallsAssumption == Untimed \subseteq Dispatch

VARIABLES
    caller, worker, future, expired, \* of every round's call, as in ReviewerCall
    decided  \* what it decided on: its variable outcome

Rnd == 1..EffectiveCap

callVars == <<caller, worker, future, expired, decided>>

Calls == INSTANCE ReviewerCall WITH
    Call       <- Dispatch \X Rnd,
    BadTimeout <- Untimed \X Rnd,
    outcome    <- decided

GateCallsInit == GateInit /\ Calls!CallInit

\* The call of the round a dispatch is in.
Current(d) == <<d, round[d]>>

\* The thread of a dispatch is in call_reviewer, or about to enter it.
CallReviewer(d) ==
    /\ phase[d] = "reviewing"
    /\ Calls!CallerStep(Current(d))
    /\ UNCHANGED gateVars

CallEnded(d, result) ==
    /\ phase[d] = "reviewing"
    /\ caller[Current(d)] = "returned"
    /\ decided[Current(d)] = result

\* It raised ReviewerUnavailable.
HearNothing(d) ==
    /\ CallEnded(d, "unavailable")
    /\ ReviewerUnavailable(d)
    /\ UNCHANGED callVars

MutantHearLate(d) ==
    /\ phase[d] = "reviewing" /\ caller[Current(d)] = "returned"
    /\ future[Current(d)] = "text"
    /\ \E raw \in Answer :
          \/ Unparseable(d, raw) \/ ParserRaises(d, raw)
          \/ ReviewerBlocks(d, raw) \/ TightenViolated(d, raw)
          \/ ReviewerPasses(d, raw) \/ ReviewerRevises(d, raw) \/ RoundsExhausted(d, raw)
    /\ UNCHANGED callVars

\* It returned a completion, which is parsed and judged.
HearAnswer(d) ==
    /\ CallEnded(d, "answer")
    /\ \E raw \in Answer :
          \/ Unparseable(d, raw) \/ ParserRaises(d, raw)
          \/ ReviewerBlocks(d, raw) \/ TightenViolated(d, raw)
          \/ ReviewerPasses(d, raw) \/ ReviewerRevises(d, raw) \/ RoundsExhausted(d, raw)
    /\ UNCHANGED callVars

\* The rest of review_and_dispatch, on the dispatch's own thread.
AroundReview(d) ==
    /\ SkipReview(d) \/ StartReview(d) \/ AppendRow(d) \/ AppendRaises(d) \/ Return(d)
    /\ UNCHANGED callVars

DispatchThread(d) ==
    CallReviewer(d) \/ HearNothing(d) \/ HearAnswer(d) \/ AroundReview(d)

\* Workers, timers and providers of all the calls run beside it.
BesideCall(c) ==
    /\ Calls!WorkerStep(c) \/ Calls!TimerExpires(c) \/ Calls!ProviderStep(c)
    /\ UNCHANGED gateVars

GateCallsNext ==
    \/ (MirrorCommits \/ \E d \in Dispatch : Submit(d)) /\ UNCHANGED callVars
    \/ \E d \in Dispatch : DispatchThread(d)
    \/ \E c \in Dispatch \X Rnd : BesideCall(c)

allVars == <<gateVars, callVars>>

GateCallsSpec == GateCallsInit /\ [][GateCallsNext]_allVars

\* Threads are scheduled, the clock runs, and every provider call ends some time.
FairGateCallsSpec ==
    /\ GateCallsSpec
    /\ \A d \in Dispatch : WF_allVars(DispatchThread(d))
    /\ \A c \in Dispatch \X Rnd :
          /\ WF_allVars(Calls!WorkerStep(c) /\ UNCHANGED gateVars)
          /\ WF_allVars(Calls!TimerExpires(c) /\ UNCHANGED gateVars)
          /\ WF_allVars(Calls!ProviderStep(c) /\ UNCHANGED gateVars)

-----------------------------------------------------------------------------

\* The i-th verdict that the gate went by came from the call of round i, which had
\* returned with an answer; and no dispatch whose call gave none is released or says
\* anything but "unavailable": an answer that comes after the timeout is never used
\* (call_reviewer and the loop around it).
OnlyAnswersAreHeard ==
    \A d \in Dispatch :
        /\ \A i \in 1..Len(said[d]) : decided[<<d, i>>] = "answer"
        /\ phase[d] \in Concluded /\ (\E i \in Rnd : decided[<<d, i>>] = "unavailable")
              => outcome[d].verdict = "unavailable" /\ ~outcome[d].released

\* What a call decided on when its wait ended is what it returns, and the gate's
\* outcome does not change either once it is built: a provider that answers while the
\* pool is being joined does not turn a timeout into an answer.
LateAnswerIsDropped ==
    [][\A d \in Dispatch :
          /\ \A i \in Rnd : decided[<<d, i>>] # "none" => UNCHANGED decided[<<d, i>>]
          /\ phase[d] \in Concluded => UNCHANGED outcome[d]]_allVars

\* A worker thread lives only while its dispatch is in that very round: reviewer
\* threads never pile up across rounds and dispatches, and none is still talking to a
\* provider when the row is written (the pool's context manager in call_reviewer).
NoThreadOutlivesItsReview ==
    \A d \in Dispatch, i \in Rnd :
        worker[<<d, i>>] \in {"starting", "running"} => phase[d] = "reviewing" /\ round[d] = i

=============================================================================
