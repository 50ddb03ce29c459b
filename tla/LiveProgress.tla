---------------------------- MODULE LiveProgress ----------------------------
(***************************************************************************)
(* The live progress of a build (server/progress.py, LiveProgress): what   *)
(* the orchestrator and its subagents do, kept in memory behind one lock.  *)
(*                                                                         *)
(* A subagent stands for the record that subagent_started makes of it; ids *)
(* and sessions are Hermes's and unique.  Every operation holds the lock   *)
(* and is one action; ProgressHooks says when Hermes calls it.             *)
(***************************************************************************)
EXTENDS Naturals, Sequences, SequencesExt, FiniteSetsExt, Functions

CONSTANTS
    Agent,  \* subagents
    Orch,   \* the orchestrator
    Item,   \* items of its plan
    MaxActive, MaxFeed, MaxDone, \* _MAX_ACTIVE, _MAX_FEED, _MAX_DONE
    ShownDone \* finished subagents in a snapshot (20)

ASSUME ProgressAssumption ==
    /\ Orch \notin Agent
    /\ MaxActive \in Nat /\ MaxFeed \in Nat /\ MaxDone \in Nat /\ ShownDone \in Nat

VARIABLES
    active,     \* _active: subagents from oldest to newest
    bySession,  \* _by_session: the subagents found by their session
    tools,      \* tool_count of every record and of the orchestrator
    feed,       \* _feed: who made a call, as booked and in truth (ghost)
    done,       \* _done: finished subagents, newest first
    plan        \* the items of the plan

progressVars == <<active, bySession, tools, feed, done, plan>>

Actor == Agent \cup {Orch}

ProgressInit ==
    /\ active = <<>>
    /\ bySession = {}
    /\ tools = [x \in Actor |-> 0]
    /\ feed = <<>>
    /\ done = <<>>
    /\ plan = {}

\* A deque with maxlen: what does not fit falls out at the other end.
Newest(s, n) == IF Len(s) > n THEN SubSeq(s, Len(s) - n + 1, Len(s)) ELSE s

Oldest(s, n) == IF Len(s) > n THEN SubSeq(s, 1, n) ELSE s

MutantEvictWithSession(a, hasSession) ==
    /\ active' = Newest(Append(active, a), MaxActive)
    /\ bySession' = ToSet(active') \cap IF hasSession THEN bySession \cup {a} ELSE bySession
    /\ UNCHANGED <<tools, feed, done, plan>>

\* The oldest record leaves the list beyond _MAX_ACTIVE, but not _by_session.
SubagentStarted(a, hasSession) ==
    /\ active' = Newest(Append(active, a), MaxActive)
    /\ bySession' = IF hasSession THEN bySession \cup {a} ELSE bySession
    /\ UNCHANGED <<tools, feed, done, plan>>

\* A call of a session that is not tracked is the orchestrator's.
Booked(x) == IF x \in bySession THEN x ELSE Orch

ToolEvent(x) ==
    /\ tools' = [tools EXCEPT ![Booked(x)] = @ + 1]
    /\ feed' = Newest(Append(feed, [who |-> Booked(x), by |-> x]), MaxFeed)
    /\ UNCHANGED <<active, bySession, done, plan>>

\* Full and partial writes of the plan add up.
SetPlan(items) == plan' = plan \cup items

\* _active.pop(id, None): the list may have lost the record before.
Unlist(a) ==
    \/ a \notin ToSet(active) /\ UNCHANGED active
    \/ \E i \in DOMAIN active : active[i] = a /\ active' = RemoveAt(active, i)

MutantStopOnlyListed(a) ==
    /\ IF a \in ToSet(active)
       THEN /\ bySession' = bySession \ {a}
            /\ Unlist(a)
            /\ done' = Oldest(<<a>> \o done, MaxDone)
       ELSE UNCHANGED <<bySession, active, done>>
    /\ UNCHANGED <<tools, feed, plan>>

\* Nothing happens for a session that is not tracked: an agent that was reported
\* without one stays in the list.
SubagentStopped(a) ==
    /\ bySession' = bySession \ {a}
    /\ IF a \in bySession
       THEN /\ Unlist(a)
            /\ done' = Oldest(<<a>> \o done, MaxDone)
       ELSE UNCHANGED <<active, done>>
    /\ UNCHANGED <<tools, feed, plan>>

\* snapshot(), as far as lifecycle and plan go: who is listed (in which order is left
\* out), the newest of the finished, and the plan.
Snapshot == [active |-> ToSet(active), done |-> Oldest(done, ShownDone), plan |-> plan]

=============================================================================
