--------------------------- MODULE DispatchPromise ---------------------------
(***************************************************************************)
(* What the gate promises about every dispatch, without its reviewer:      *)
(* a dispatch that was opened is released, held, or fails, once; it is     *)
(* released or held only after the ledger says so; the ledger takes one    *)
(* entry per dispatch and never loses it, also when the process dies; and  *)
(* only a dispatch that failed may get its entry later, or none.           *)
(***************************************************************************)
CONSTANT Dispatch

VARIABLES
    stage,   \* idle, open, released, held, failed or lost
    ledger   \* the entries made for a dispatch

promiseVars == <<stage, ledger>>

PromiseInit ==
    /\ stage = [d \in Dispatch |-> "idle"]
    /\ ledger = [d \in Dispatch |-> {}]

Open(d) ==
    /\ stage[d] = "idle"
    /\ stage' = [stage EXCEPT ![d] = "open"]
    /\ UNCHANGED ledger

\* Entries are made, one or several at once, for open and for failed dispatches.
Enter ==
    /\ ledger' \in [Dispatch -> SUBSET {"release", "hold"}]
    /\ \A d \in Dispatch : ledger'[d] # ledger[d] =>
          /\ stage[d] \in {"open", "failed"}
          /\ ledger[d] = {}
          /\ ledger'[d] \in {{"release"}, {"hold"}}
    /\ UNCHANGED stage

ReleaseDispatch(d) ==
    /\ stage[d] = "open"
    /\ ledger[d] = {"release"}
    /\ stage' = [stage EXCEPT ![d] = "released"]
    /\ UNCHANGED ledger

HoldDispatch(d) ==
    /\ stage[d] = "open"
    /\ ledger[d] = {"hold"}
    /\ stage' = [stage EXCEPT ![d] = "held"]
    /\ UNCHANGED ledger

FailDispatch(d) ==
    /\ stage[d] = "open"
    /\ ledger[d] = {}
    /\ stage' = [stage EXCEPT ![d] = "failed"]
    /\ UNCHANGED ledger

LoseOpen ==
    /\ stage' = [d \in Dispatch |-> IF stage[d] = "open" THEN "lost" ELSE stage[d]]
    /\ UNCHANGED ledger

PromiseNext ==
    \/ \E d \in Dispatch :
          Open(d) \/ ReleaseDispatch(d) \/ HoldDispatch(d) \/ FailDispatch(d)
    \/ Enter
    \/ LoseOpen

PromiseSpec == PromiseInit /\ [][PromiseNext]_promiseVars

=============================================================================
