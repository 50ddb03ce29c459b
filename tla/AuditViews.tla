------------------------------ MODULE AuditViews ------------------------------
(***************************************************************************)
(* What dashboards, the /ultracode command and the agent's query tools     *)
(* show of the gate's audit trail (server/views.py, __init__.py and        *)
(* server/mcp_server.py over query of core/store_sqlite.py) while          *)
(* dispatches go on.                                                       *)
(*                                                                         *)
(* A row carries the time at which _finish built it, and rows are appended *)
(* later, perhaps in another order.  Queries sort by that time, and take   *)
(* the first rows up to a limit.  The clock never steps back here and no   *)
(* two rows have the same time.  The views are those of the process that   *)
(* appends: they show rows that its connection has yet to commit.          *)
(***************************************************************************)
EXTENDS ReviewGate, SequencesExt, FiniteSetsExt

CONSTANTS
    LiveLimit,    \* AuditFilter(limit=...) of default_live_source
    WorkerLimit,  \* the rows it shows as workers
    QueueLimit,   \* AuditFilter(limit=...) of default_queue_source
    RecentLimit   \* rows of /ultracode verdicts, limit of gate_recent_verdicts

ASSUME ViewsAssumption ==
    /\ LiveLimit \in Nat \ {0} /\ WorkerLimit \in Nat \ {0}
    /\ QueueLimit \in Nat \ {0} /\ RecentLimit \in Nat

-----------------------------------------------------------------------------
(* The queries and the views.                                               *)

Row(d) == CHOOSE r \in ToSet(audit) : r.dispatch = d

MutantQueryByArrival(limit) == SubSeq(audit, 1, Min({limit, Len(audit)}))

\* The ts of a row, by its place among the calls that took the time.
Time(r) == CHOOSE i \in DOMAIN stamps : stamps[i] = r.dispatch

Earlier(r) == {s \in ToSet(audit) : Time(s) < Time(r)}

\* all(): the trail by time, every row behind the rows that are earlier.
All == [i \in 1..Len(audit) |-> CHOOSE r \in ToSet(audit) : Cardinality(Earlier(r)) = i - 1]

\* SELECT ... ORDER BY ts ASC LIMIT: the earliest rows of the trail; no limit for 0.
Query(limit) == SubSeq(All, 1, IF limit = 0 THEN Len(All) ELSE Min({limit, Len(All)}))

\* The live view: the queried rows, newest first; the first is current_dispatch.
LiveRows == Reverse(Query(LiveLimit))
Workers == SubSeq(LiveRows, 1, Min({WorkerLimit, Len(LiveRows)}))
CurrentDispatch == IF LiveRows = <<>> THEN {} ELSE {LiveRows[1].dispatch}

Queue == Reverse(Query(QueueLimit))

\* rows[-limit:], which is everything for 0.
LastRows(limit) ==
    SubSeq(All, IF limit = 0 THEN 1 ELSE Max({1, Len(All) - limit + 1}), Len(All))

RecentVerdicts == LastRows(RecentLimit)

MutantVerdictsQueried == Reverse(Query(RecentLimit))

\* /ultracode verdicts
Verdicts == Reverse(LastRows(RecentLimit))

\* last_gate_decision of the enriched live view: the last of query(limit=1).
LastGateDecision == Query(1)

MutantStatusEscalatedFirst(r) ==
    CASE r.escalated -> "escalated"
      [] ~r.escalated /\ r.failClosed -> "blocked (fail-closed)"
      [] OTHER -> IF r.decision \in {"dispatched", "dispatched_fallback"}
                  THEN "dispatched" ELSE "blocked"

\* _status_for
Status(r) ==
    CASE r.failClosed -> "blocked (fail-closed)"
      [] ~r.failClosed /\ r.escalated -> "escalated"
      [] OTHER -> IF r.decision \in {"dispatched", "dispatched_fallback"}
                  THEN "dispatched" ELSE "blocked"

CountRows(Test(_)) == Cardinality({i \in DOMAIN audit : Test(audit[i])})

\* compute_metrics, as far as it counts decisions.
Metrics ==
    [total      |-> Len(audit),
     released   |-> CountRows(LAMBDA r : r.decision \in {"dispatched", "dispatched_fallback"}),
     blocked    |-> CountRows(LAMBDA r : r.decision = "blocked"),
     escalated  |-> CountRows(LAMBDA r : r.escalated),
     failClosed |-> CountRows(LAMBDA r : r.failClosed),
     unavailable |-> CountRows(LAMBDA r : r.verdict = "unavailable")]

-----------------------------------------------------------------------------

\* The dashboard's counters say what happened: every dispatch of the trail is counted
\* as released, blocked or escalated and as one of them only, although the first two
\* count decisions and the third a flag; and the fail-closed counter misses none of
\* those that got no usable verdict (compute_metrics over all the handlers' rows).
MetricsAddUp ==
    /\ Metrics.total = Metrics.released + Metrics.blocked + Metrics.escalated
    /\ Metrics.failClosed = Metrics.unavailable

\* What the live view says of a dispatch is what its caller was told: "dispatched" if
\* and only if it was released, and fail-closed whenever no verdict was to be had,
\* also for the tiers that escalate (_status_for and the handlers' flags).
StatusTellsTheOutcome ==
    \A d \in Dispatch : phase[d] = "returned" =>
        LET shown == Status(Row(d)) IN
        /\ shown = "dispatched" <=> outcome[d].released
        /\ shown = "blocked (fail-closed)" <=> outcome[d].verdict = "unavailable"

IsNewest(rows) == rows # <<>> /\ rows[1] = All[Len(All)]

\* The views that promise recent dispatches show the newest one first, whatever order
\* rows arrived in: the verdicts of the command and of the agent's tool always, and
\* those that query with a limit, and so read the earliest rows, exactly until the trail
\* outgrows it.  (last_gate_decision only while the trail has a single row.)
ViewsAgreeOnTheNewest ==
    audit # <<>> =>
        /\ IsNewest(Verdicts) /\ IsNewest(Reverse(RecentVerdicts))
        /\ Len(audit) <= QueueLimit <=> IsNewest(Queue)
        /\ Len(audit) <= LiveLimit <=> IsNewest(Workers)
        /\ Len(audit) <= 1 <=> IsNewest(LastGateDecision)

\* Until the trail outgrows the live view's limit, the dispatch shown as the current
\* one is never replaced by an earlier one, although rows may arrive in another order
\* than their calls ended; only the end of the process may take a row out of the view,
\* one that it could not commit.
CurrentNeverGoesBack ==
    [][Len(audit) <= Len(audit') /\ Len(audit') <= LiveLimit =>
          \A d \in CurrentDispatch, e \in CurrentDispatch' :
              \E i, j \in DOMAIN stamps' : i <= j /\ stamps'[i] = d /\ stamps'[j] = e]_gateVars

=============================================================================
