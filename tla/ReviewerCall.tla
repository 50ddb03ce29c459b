---------------------------- MODULE ReviewerCall ----------------------------
(***************************************************************************)
(* One call of the reviewer model (core/providers.py, call_reviewer).      *)
(*                                                                         *)
(* Every call makes a pool with one worker thread, submits the provider's  *)
(* complete() to it and waits for the future until a timer expires.  The   *)
(* pool is left through its context manager, which joins the worker: also  *)
(* after a timeout.  Three things race in every call, and calls of         *)
(* different dispatches overlap: the caller's wait, its timer, and the     *)
(* worker that runs the provider.                                          *)
(***************************************************************************)
EXTENDS Naturals

CONSTANTS
    Call,       \* calls of call_reviewer
    BadTimeout  \* the subset made with a timeout <= 0

VARIABLES
    caller,   \* idle, waiting, leaving (in the pool's __exit__) or returned
    worker,   \* none, starting, running or gone: the pool's thread
    future,   \* pending, running, cancelled, or how the provider ended
    expired,  \* the caller's timer has gone off
    outcome   \* none, answer or unavailable: what the caller decided on

callVars == <<caller, worker, future, expired, outcome>>

\* text: a non-blank completion; blank: None or white space; error: any exception,
\* a ProviderQuotaError, ProviderTimeout, ProviderEmptyResponse or other.
ProviderResults == {"text", "blank", "error"}

CallInit ==
    /\ caller = [c \in Call |-> "idle"]
    /\ worker = [c \in Call |-> "none"]
    /\ future = [c \in Call |-> "pending"]
    /\ expired = [c \in Call |-> FALSE]
    /\ outcome = [c \in Call |-> "none"]

RejectTimeout(c) ==
    /\ caller[c] = "idle"
    /\ c \in BadTimeout
    /\ caller' = [caller EXCEPT ![c] = "returned"]
    /\ outcome' = [outcome EXCEPT ![c] = "unavailable"]
    /\ UNCHANGED <<worker, future, expired>>

\* pool.submit(...), then future.result(timeout=...).
SubmitToPool(c) ==
    /\ caller[c] = "idle"
    /\ c \notin BadTimeout
    /\ caller' = [caller EXCEPT ![c] = "waiting"]
    /\ worker' = [worker EXCEPT ![c] = "starting"]
    /\ UNCHANGED <<future, expired, outcome>>

WorkerRuns(c) ==
    /\ worker[c] = "starting"
    /\ future[c] = "pending"
    /\ worker' = [worker EXCEPT ![c] = "running"]
    /\ future' = [future EXCEPT ![c] = "running"]
    /\ UNCHANGED <<caller, expired, outcome>>

\* The work item was cancelled before the worker took it.
WorkerSkips(c) ==
    /\ worker[c] = "starting"
    /\ future[c] = "cancelled"
    /\ worker' = [worker EXCEPT ![c] = "gone"]
    /\ UNCHANGED <<caller, future, expired, outcome>>

\* The provider ends on its own; nothing can make it.
ProviderEnds(c, r) ==
    /\ worker[c] = "running"
    /\ worker' = [worker EXCEPT ![c] = "gone"]
    /\ future' = [future EXCEPT ![c] = r]
    /\ UNCHANGED <<caller, expired, outcome>>

TimerExpires(c) ==
    /\ caller[c] = "waiting"
    /\ ~expired[c]
    /\ expired' = [expired EXCEPT ![c] = TRUE]
    /\ UNCHANGED <<caller, worker, future, outcome>>

\* The wait ends with the future done, in time or between expiry and wake-up.
CallerTakesResult(c) ==
    /\ caller[c] = "waiting"
    /\ future[c] \in ProviderResults
    /\ outcome' = [outcome EXCEPT ![c] =
                      IF future[c] = "text" THEN "answer" ELSE "unavailable"]
    /\ caller' = [caller EXCEPT ![c] = "leaving"]
    /\ UNCHANGED <<worker, future, expired>>

MutantTimeoutRetries(c) ==
    /\ caller[c] = "waiting"
    /\ expired[c]
    /\ future[c] \notin ProviderResults
    /\ future' = [future EXCEPT ![c] = IF @ = "pending" THEN "cancelled" ELSE @]
    /\ expired' = [expired EXCEPT ![c] = FALSE]
    /\ UNCHANGED <<caller, worker, outcome>>

\* FutureTimeout: cancel, which only stops a work item nobody has taken yet.
CallerTimesOut(c) ==
    /\ caller[c] = "waiting"
    /\ expired[c]
    /\ future[c] \notin ProviderResults
    /\ future' = [future EXCEPT ![c] = IF @ = "pending" THEN "cancelled" ELSE @]
    /\ outcome' = [outcome EXCEPT ![c] = "unavailable"]
    /\ caller' = [caller EXCEPT ![c] = "leaving"]
    /\ UNCHANGED <<worker, expired>>

MutantDetachedPool(c) ==
    /\ caller[c] = "leaving"
    /\ caller' = [caller EXCEPT ![c] = "returned"]
    /\ UNCHANGED <<worker, future, expired, outcome>>

MutantLateAnswer(c) ==
    /\ caller[c] = "leaving"
    /\ worker[c] = "gone"
    /\ caller' = [caller EXCEPT ![c] = "returned"]
    /\ outcome' = [outcome EXCEPT ![c] = IF future[c] = "text" THEN "answer" ELSE @]
    /\ UNCHANGED <<worker, future, expired>>

\* ThreadPoolExecutor.__exit__ is shutdown(wait=True): it joins the worker.
CallerLeaves(c) ==
    /\ caller[c] = "leaving"
    /\ worker[c] = "gone"
    /\ caller' = [caller EXCEPT ![c] = "returned"]
    /\ UNCHANGED <<worker, future, expired, outcome>>

CallerStep(c) ==
    \/ RejectTimeout(c)
    \/ SubmitToPool(c)
    \/ CallerTakesResult(c)
    \/ CallerTimesOut(c)
    \/ CallerLeaves(c)

WorkerStep(c) == WorkerRuns(c) \/ WorkerSkips(c)

ProviderStep(c) == \E r \in ProviderResults : ProviderEnds(c, r)

CallNext ==
    \E c \in Call :
        \/ CallerStep(c)
        \/ TimerExpires(c)
        \/ WorkerStep(c)
        \/ ProviderStep(c)

CallSpec == CallInit /\ [][CallNext]_callVars

\* Threads are scheduled and the clock runs; the provider may never end.
Scheduling ==
    \A c \in Call :
        /\ WF_callVars(CallerStep(c))
        /\ WF_callVars(WorkerStep(c))
        /\ WF_callVars(TimerExpires(c))

ScheduledCallSpec == CallSpec /\ Scheduling

-----------------------------------------------------------------------------

\* "Invoke the reviewer with a hard timeout" (core/providers.py:134): once the timer
\* has gone off, the call returns.
HardTimeout ==
    \A c \in Call : expired[c] ~> caller[c] = "returned"

=============================================================================
