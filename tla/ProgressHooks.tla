---------------------------- MODULE ProgressHooks ----------------------------
(***************************************************************************)
(* The observer hooks of the plugin (__init__.py, _make_progress_hooks):   *)
(* they feed LiveProgress and mirror it into the audit store's file, where *)
(* a dashboard in another process reads it.                                *)
(*                                                                         *)
(* Hermes calls the hooks of one agent one after the other, on that        *)
(* agent's thread: its start, its tool calls, its stop, unless it is       *)
(* killed.  Hooks of different agents overlap, and persist() has no lock:  *)
(* the throttle is tested and set in two steps.  The view that is stored   *)
(* is a snapshot; a step later its agents give way to those that Hermes's  *)
(* own registry lists, if it lists any, and another step later they get    *)
(* the gate decisions that the trail then shows                            *)
(* (make_progress_live_source of views.py).                                *)
(*                                                                         *)
(* An agent stands for its goal too: gate_for finds its decision by the    *)
(* start of the base prompt, which no two agents share here.  The registry *)
(* is Hermes's: an agent enters it after its release and leaves it at some *)
(* time, in no fixed order with its hooks.                                 *)
(***************************************************************************)
EXTENDS LiveProgress

CONSTANTS
    MaxCalls,   \* bound: tool calls of the agents and their entries in the registry, in all
    MaxAtOnce,  \* bound: hooks under way at the same time
    RowLimit,   \* the rows that the enrichment queries (40)
    StoreFails, \* the store may raise
    HasRegistry, \* Hermes has list_active_subagents
    HasStore    \* the hooks were given the audit store

ASSUME HooksAssumption ==
    /\ MaxCalls \in Nat /\ MaxAtOnce \in Nat /\ RowLimit \in Nat
    /\ StoreFails \in BOOLEAN /\ HasRegistry \in BOOLEAN /\ HasStore \in BOOLEAN

VARIABLES
    trail,   \* the agents whose release is in the audit trail, in the order of their ts
    registry, \* the agents that list_active_subagents() returns
    listed,  \* the agents that were in the registry so far
    life,    \* new, running, ended or killed: the subagents, in Hermes
    made,    \* ghost: tool calls an agent made
    sessionless, \* ghost: subagents that were reported without a session
    pc,      \* idle, or the step of the hook that comes next
    force,   \* persist(force=...) of the running hook
    recent,  \* last["t"] is less than a second ago
    hand,    \* the snapshot that a hook has taken
    upsert,  \* the snapshot as the store's connection has it
    mirror,  \* the snapshot in the file
    alone,   \* ghost: a lifecycle or plan hook that no other overlapped so far
    flushed, \* ghost: the last lifecycle or plan hook was alone, and nothing raised in it
    moved    \* ghost: the registry has changed since that hook began

agentVars == <<trail, registry, listed, life, made, sessionless>>
storeVars == <<upsert, mirror>>
ghostVars == <<alone, flushed, moved>>
hookVars == <<agentVars, pc, force, recent, hand, storeVars, ghostVars>>

\* The stored view: a snapshot, and the agents it links to their decision.
View(snapshot, linked) ==
    [active |-> snapshot.active, done |-> snapshot.done, plan |-> snapshot.plan, linked |-> linked]

Empty == [active |-> {}, done |-> <<>>, plan |-> {}, linked |-> {}]

HooksInit ==
    /\ ProgressInit
    /\ trail = <<>>
    /\ registry = {}
    /\ listed = {}
    /\ life = [a \in Agent |-> "new"]
    /\ made = [x \in Actor |-> 0]
    /\ sessionless = {}
    /\ pc = [x \in Actor |-> "idle"]
    /\ force = [x \in Actor |-> FALSE]
    /\ recent = FALSE
    /\ hand = [x \in Actor |-> Empty]
    /\ upsert = Empty
    /\ mirror = Empty
    /\ alone = [x \in Actor |-> FALSE]
    /\ flushed = TRUE
    /\ moved = FALSE

-----------------------------------------------------------------------------
(* The hooks: one operation of LiveProgress, then persist(force).           *)

UnderWay == {x \in Actor : pc[x] # "idle"}
HookMayBegin == Cardinality(UnderWay) < MaxAtOnce

MutantEnterUnforced(x, forced, place) ==
    /\ pc[x] = "idle" /\ HookMayBegin
    /\ pc' = [pc EXCEPT ![x] = place]
    /\ force' = [force EXCEPT ![x] = FALSE]
    /\ alone' = [y \in Actor |-> y = x /\ forced /\ \A z \in Actor \ {x} : pc[z] = "idle"]
    /\ flushed' = (flushed /\ ~forced)
    /\ moved' = (moved /\ ~forced)
    /\ UNCHANGED <<trail, registry, listed, recent, hand, storeVars>>

\* A hook begins; what it does next is at place.
Enter(x, forced, place) ==
    /\ pc[x] = "idle" /\ HookMayBegin
    /\ pc' = [pc EXCEPT ![x] = place]
    /\ force' = [force EXCEPT ![x] = forced]
    /\ alone' = [y \in Actor |-> y = x /\ forced /\ \A z \in Actor \ {x} : pc[z] = "idle"]
    /\ flushed' = (flushed /\ ~forced)
    /\ moved' = (moved /\ ~forced)
    /\ UNCHANGED <<trail, registry, listed, recent, hand, storeVars>>

\* The gate has released the agent's goal, and its row is in the trail by then
\* (RowBeforeResult of ReviewGate), at the place of its ts: rows may come late.
Released(a) ==
    /\ a \notin ToSet(trail)
    /\ \E i \in 1..(Len(trail) + 1) : trail' = InsertAt(trail, i, a)
    /\ UNCHANGED <<progressVars, registry, listed, life, made, sessionless, pc, force, recent, hand>>
    /\ UNCHANGED <<storeVars, ghostVars>>

CallsInAll == FoldFunctionOnSet(+, 0, made, Actor)
WithinCalls == CallsInAll + Cardinality(listed) < MaxCalls

RegistryMoves ==
    /\ HasRegistry
    /\ moved' = TRUE
    /\ UNCHANGED <<progressVars, trail, life, made, sessionless, pc, force, recent, hand>>
    /\ UNCHANGED <<storeVars, alone, flushed>>

\* An agent is listed once.
Registered(a) ==
    /\ a \in ToSet(trail) /\ life[a] \in {"new", "running"}
    /\ a \notin listed /\ WithinCalls
    /\ registry' = registry \cup {a}
    /\ listed' = listed \cup {a}
    /\ RegistryMoves

Unregistered(a) ==
    /\ a \in registry
    /\ registry' = registry \ {a}
    /\ UNCHANGED listed
    /\ RegistryMoves

MutantStartBeforeRow(a, hasSession) ==
    /\ life[a] = "new"
    /\ life' = [life EXCEPT ![a] = "running"]
    /\ sessionless' = IF hasSession THEN sessionless ELSE sessionless \cup {a}
    /\ SubagentStarted(a, hasSession)
    /\ Enter(a, TRUE, "test")
    /\ UNCHANGED made

OnSubagentStart(a, hasSession) ==
    /\ life[a] = "new" /\ a \in ToSet(trail)
    /\ life' = [life EXCEPT ![a] = "running"]
    /\ sessionless' = IF hasSession THEN sessionless ELSE sessionless \cup {a}
    /\ SubagentStarted(a, hasSession)
    /\ Enter(a, TRUE, "test")
    /\ UNCHANGED made

Calls(x) ==
    /\ x \in Agent => life[x] = "running"
    /\ WithinCalls
    /\ made' = [made EXCEPT ![x] = @ + 1]
    /\ ToolEvent(x)
    /\ UNCHANGED <<life, sessionless>>

OnPostToolCall(x) == Calls(x) /\ Enter(x, FALSE, "test")

\* A todo is mirrored like a lifecycle change, whoever called it and whatever it held.
OnTodo(x) == Calls(x) /\ Enter(x, TRUE, "plan")

\* The items that were found in the todo, if any, go into the plan a step later.
WritePlan(x, items) ==
    /\ pc[x] = "plan"
    /\ SetPlan(items)
    /\ pc' = [pc EXCEPT ![x] = "test"]
    /\ UNCHANGED <<active, bySession, tools, feed, done, agentVars, force, recent, hand>>
    /\ UNCHANGED <<storeVars, ghostVars>>

OnSubagentStop(a) ==
    /\ life[a] = "running"
    /\ life' = [life EXCEPT ![a] = "ended"]
    /\ SubagentStopped(a)
    /\ Enter(a, TRUE, "test")
    /\ UNCHANGED <<made, sessionless>>

\* A subagent that is killed has no stop hook.
Killed(a) ==
    /\ life[a] = "running"
    /\ pc[a] = "idle"
    /\ life' = [life EXCEPT ![a] = "killed"]
    /\ UNCHANGED <<progressVars, trail, registry, listed, made, sessionless, pc, force, recent, hand>>
    /\ UNCHANGED <<storeVars, ghostVars>>

-----------------------------------------------------------------------------
(* persist()                                                                *)

\* The hook returns; what it held is gone.
Leave(x) ==
    /\ pc' = [pc EXCEPT ![x] = "idle"]
    /\ force' = [force EXCEPT ![x] = FALSE]
    /\ hand' = [hand EXCEPT ![x] = Empty]
    /\ alone' = [alone EXCEPT ![x] = FALSE]

\* persist() goes on, with the view as it then has it.
Persisting(x, from, to, view) ==
    /\ pc[x] = from
    /\ pc' = [pc EXCEPT ![x] = to]
    /\ hand' = [hand EXCEPT ![x] = view]
    /\ UNCHANGED <<progressVars, agentVars, force, storeVars, ghostVars>>

Throttled(x) ==
    /\ pc[x] = "test"
    /\ ~HasStore \/ (~force[x] /\ recent)
    /\ Leave(x)
    /\ flushed' = (flushed \/ (HasStore /\ alone[x]))
    /\ UNCHANGED <<progressVars, agentVars, recent, storeVars, moved>>

NotThrottled(x) ==
    /\ HasStore /\ (force[x] \/ ~recent)
    /\ Persisting(x, "test", "mark", Empty)
    /\ UNCHANGED recent

MarkThrottle(x) ==
    /\ Persisting(x, "mark", "snapshot", Empty)
    /\ recent' = TRUE

TakeSnapshot(x) == Persisting(x, "snapshot", "ask", View(Snapshot, {})) /\ UNCHANGED recent

\* The agents that Hermes lists, or the tracked ones if it lists none.
AskRegistry(x) ==
    /\ Persisting(x, "ask", "link",
                  [hand[x] EXCEPT !.active = IF registry = {} THEN @ ELSE registry])
    /\ UNCHANGED recent

\* gate_for, over the earliest rows of the trail.
LinkDecisions(x) ==
    /\ Persisting(x, "link", "put",
                  View(hand[x], hand[x].active \cap ToSet(Oldest(trail, RowLimit))))
    /\ UNCHANGED recent

PutSnapshot(x) ==
    /\ pc[x] = "put"
    /\ upsert' = hand[x]
    /\ mirror' = hand[x]
    /\ flushed' = (flushed \/ alone[x])
    /\ Leave(x)
    /\ UNCHANGED <<progressVars, agentVars, recent, moved>>

\* The exception is swallowed, and the second of the throttle is spent.  A commit
\* that raises leaves the upsert in the connection's open transaction.
PersistRaises(x) ==
    /\ StoreFails
    /\ \/ pc[x] = "link" /\ UNCHANGED upsert
       \/ pc[x] = "put" /\ upsert' \in {upsert, hand[x]}
    /\ Leave(x)
    /\ UNCHANGED <<progressVars, agentVars, recent, mirror, flushed, moved>>

\* The next commit of the connection, of a row of the gate, takes the upsert along.
GateCommits ==
    /\ mirror # upsert
    /\ mirror' = upsert
    /\ UNCHANGED <<progressVars, agentVars, pc, force, recent, hand, upsert, ghostVars>>

SecondPasses ==
    /\ recent
    /\ recent' = FALSE
    /\ UNCHANGED <<progressVars, agentVars, pc, force, hand, storeVars, ghostVars>>

HooksNext ==
    \/ \E a \in Agent :
          Released(a) \/ Registered(a) \/ Unregistered(a) \/ OnSubagentStop(a) \/ Killed(a)
    \/ \E a \in Agent, hasSession \in BOOLEAN : OnSubagentStart(a, hasSession)
    \/ \E x \in Actor, items \in SUBSET Item : WritePlan(x, items)
    \/ \E x \in Actor :
          \/ OnPostToolCall(x) \/ OnTodo(x)
          \/ Throttled(x) \/ NotThrottled(x) \/ MarkThrottle(x)
          \/ TakeSnapshot(x) \/ AskRegistry(x) \/ LinkDecisions(x)
          \/ PutSnapshot(x) \/ PersistRaises(x)
    \/ GateCommits \/ SecondPasses

HooksSpec == HooksInit /\ [][HooksNext]_<<progressVars, hookVars>>

-----------------------------------------------------------------------------

\* Every tool call is booked on the agent that made it, also when that agent was
\* evicted from the list or others came and went; the calls of agents without a
\* session, and only those, go to the orchestrator (_by_session as the index of
\* records that the list of running agents no longer holds).
CallsAreBooked ==
    /\ \A a \in Agent \ sessionless : tools[a] = made[a]
    /\ tools[Orch] = FoldFunctionOnSet(+, 0, made, sessionless \cup {Orch})
    /\ \A i \in DOMAIN feed :
          feed[i].who = IF feed[i].by \in sessionless THEN Orch ELSE feed[i].by

\* Of the agents with a session, none is listed as running once its stop was reported;
\* the stop of one without a session is lost, and it never counts as finished.  None
\* that runs is listed as finished, none is listed twice, and an agent that was evicted
\* from the list is still found by its session until it stops.  No list outgrows its
\* cap, however many agents a long session starts (LiveProgress and its indexes).
ListsFollowLife ==
    /\ IsInjective(active \o done)
    /\ Len(active) <= MaxActive /\ Len(done) <= MaxDone /\ Len(feed) <= MaxFeed
    /\ \A a \in ToSet(active) : life[a] = "ended" => a \in sessionless
    /\ \A a \in ToSet(done) : life[a] = "ended" /\ a \notin sessionless
    /\ bySession = {a \in Agent \ sessionless : life[a] \in {"running", "killed"}}

\* The agents that a view taken now shows as running.
Shown == IF registry = {} THEN ToSet(active) ELSE registry

ShowsNow(view) ==
    /\ view.done = Snapshot.done /\ view.plan = plan
    /\ ~moved => view.active = Shown

\* A lifecycle change or a plan whose hook ran alone, and whose put did not raise, is
\* in the file when the hook ends and stays there: neither the throttle nor a hook
\* of a tool call that fails or comes late takes it back, nor an upsert that an earlier
\* hook left behind (persist and its force).  The agents shown are current until
\* Hermes's registry, which tells no hook, changes.
FlushedMirrorIsCurrent == flushed => ShowsNow(mirror)

\* Every running agent that the file shows is linked to the decision that shaped its
\* task, also when agents start and are released while a hook is under way (the agents
\* are listed before the trail is read, and start after their row), unless the decision
\* is not among the earliest rows, which is all the enrichment queries and from which
\* a row of an earlier ts may push it (gate_for).
MirrorLinksDecisions ==
    /\ mirror.active \cap ToSet(Oldest(trail, RowLimit)) \subseteq mirror.linked
    /\ mirror.linked \subseteq mirror.active

\* "lifecycle changes flush immediately" (__init__.py:394): when no hook is running
\* the file shows the agents and the plan as they are.
LifecycleIsFlushed == (\A x \in Actor : pc[x] = "idle") => ShowsNow(mirror)

=============================================================================
