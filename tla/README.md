# A verification of HermesUltraCode

HermesUltraCode is a plugin for Hermes Agent. It stands at the point where the
orchestrator hands a task to a subagent (`delegate_task`): the dispatch is put into a
tier by its blast radius, reviewed for a bounded number of rounds by a model of another
lab, released with appended directives or held, and recorded in an audit trail. This
directory holds TLA+ modules of the parts that decide something, TLC configurations that
check them on small instances, and theorems about them that TLAPS proves for every value
of the constants.

1. [The system](#1-the-system): its parts, their state, how they interact
2. [The modules](#2-the-modules) and how they correspond to the code
3. [The runs](#3-the-runs): bounds, fairness, results
4. [The proofs](#4-the-proofs)
5. [Disagreements between code and documentation](#5-disagreements)
6. [What is left out](#6-what-is-left-out)
7. [The plan](#7-the-plan)

To repeat the checks: `tlc -config MCAuditViews.cfg MCAuditViews.tla` (any pair of
section 3) and `tlapm ReviewGateProofs.tla`.

## 1. The system

```
 Hermes thread of a tool call                        reviewer provider (HTTP)
   |  tool_request / pre_tool_call                         ^
   v                                                       | one worker thread per call
 adapters/hermes_hook.py --review_and_dispatch--> core/gate.py --call_reviewer--> core/providers.py
   |  decision cache (no lock)                     |   |  \
   |                                               |   |   core/tiering, verdict, tighten (pure)
   |                                               |   store.append
 __init__.py: register, /ultracode, observer hooks |   v
   |                                               core/store_sqlite.py  <--- other processes:
   '--> server/progress.py --put_progress_snapshot--^   audit.db              dashboard, MCP server
```

### Components

| Component | State it keeps | Operations | Correct when |
|---|---|---|---|
| **Review gate** `core/gate.py` | per call: round count, accumulated directives, last verdict | `review_and_dispatch`, `_review_loop`, the terminal handlers, `_finish` | nothing is released without a pass, the exemption of the trivial tier, or the marked fallback; directives only accumulate; the row is in the trail before the result is out; every call ends |
| **Tiering** `core/tiering.py` | none | `classify`, `skips_frontier_review` | more risk never means less review |
| **Tighten contract** `core/tighten.py` | none | `validate_tighten`, `assemble_dispatched`, `render_directives` | released = submitted base + validated directives, nothing else |
| **Verdict parsing** `core/verdict.py` | none | `parse_verdict` | whatever is not a valid verdict becomes a `VerdictParseError` |
| **Reviewer call** `core/providers.py` | one pool, future and timer per call | `call_reviewer` | a timeout or error is never an answer; the call returns; no thread is left |
| **Audit store** `core/store.py`, `core/store_sqlite.py` | the file; per connection an open transaction and its locks | `append`, `query`/`get`, `put_progress_snapshot`, triggers | rows are never lost, changed or doubled once confirmed |
| **Hermes adapter** `adapters/hermes_hook.py` | `_cache`: the last decisions, by key | `tool_request`, `pre_tool_call`, `assert_release`, `_decide_one` | a dispatched call was released task by task, with the prompt that was released |
| **Plugin** `__init__.py` | the gate or the reason why there is none | `register`, `/ultracode` | no gate means no dispatch; a gate can write its rows; nothing is registered without the seam that blocks |
| **Live progress** `server/progress.py`, hooks in `__init__.py` | `_active`, `_by_session`, `_done`, `_feed`, plan; the throttle `last["t"]`; the mirrored snapshot | `subagent_started`, `tool_event`, `set_plan`, `subagent_stopped`, `snapshot`; `persist` | calls are booked on the agent that made them; what a dashboard reads is what was going on when the last lifecycle hook ran alone |
| **Router, catalog, local probe** `core/router.py`, `catalog.py`, `local_probe.py` | the probe's cached answer and its age | `choose_worker`, `LocalProbe.alive` | risk overrides cost; a local model is named only if it answered lately; the savings add up |
| **Configuration** `core/config.py` | none after loading | `load_config`, `ensure_session_token` | its values are the constants of the modules; no server without a token |
| **Neckbeard rule set** `core/neckbeard.py`, **redaction** `core/redact.py` | none | text in, text out | no state |
| **Views** `server/views.py` | none | the live view, the queue, the verdict lists, `_status_for`, `compute_metrics` over `query` | what is shown is what happened; counters count each dispatch once; views that promise the newest rows show them |
| **Dashboard** `_ensure_dashboard` and the command in `__init__.py`, `server/read_api.py` | per process `_DASH` behind a lock; the port and token of each server | `_ensure_dashboard`, `run`, `handle`, `authorize` | one per process, whoever asks; its url leads to it; data only for the token of this start |
| **Web front end** `web/`, `dashboard/` | a page's token and the view it shows | polling | a page shows the data of the process it was opened for |
| **MCP server** `server/mcp_server.py` | none | read-only requests, one after the other | input and output only |
| **Benchmarks** `bench/` | none | scripts | not part of the running system |

### How they interact, and what is hard about it

- **Threads.** Parallel sessions of Hermes run tool calls on threads of their own; they
  share the adapter's cache (an `OrderedDict` without a lock), the gate, the progress
  store (behind a lock), the throttle of `persist` (no lock) and one SQLite connection
  (behind a lock).
- **Processes.** The agent and a dashboard open the same file. SQLite's locks, the five
  second busy timeout and Python's implicit transactions decide what an exception leaves
  behind. Dashboards of several processes compete for a few ports, and a browser page goes
  on polling its port when its process is gone.
- **Two seams.** Hermes calls `tool_request`, which rewrites the goal, and then
  `pre_tool_call`, which may block. The second must find the first one's decision under
  a key computed from arguments the first has changed, and must find the original base
  in a goal that now carries a block of directives.
- **Rounds.** A dispatch may end in any round with a pass, block, error, timeout,
  unreadable answer, contract violation or exhausted rounds, each with its own
  bookkeeping by tier.
- **Failures.** The provider hangs, errs or answers too late; the store raises; the
  process dies between any two steps; a subagent is killed without its stop hook.

`PROJECT.json` lists these as hazards at their lines, each with the properties that would
notice it going wrong.

## 2. The modules

| Module | Models | Extends |
|---|---|---|
| `Tiering` | `classify`; `_meta_from` of the adapter, which turns toolsets into a `DispatchMeta` | |
| `DispatchPlanning` | the facts about a dispatch, made riskier one at a time | `Tiering` |
| `Routing` | `choose_worker`, the catalog, `LocalProbe.alive`, after planning | `DispatchPlanning` |
| `Tightening` | `validate_tighten`, `_merge_directives`, `assemble_dispatched` on sets of directives | |
| `TightenText` | the same on lists and text, with rendering and `_extract` | `Tightening` |
| `VerdictParsing` | the classes of answers `parse_verdict` tells apart | `Tightening` |
| `ReviewGate` | `review_and_dispatch`, by any number of concurrent calls | `VerdictParsing`, `Tiering` |
| `GateCalls` | the gate with the reviewer call of every round | `ReviewGate`, instance of `ReviewerCall` |
| `AuditViews` | `query` by time, the live view, the queue, the verdict lists and the metrics over the gate's trail | `ReviewGate` |
| `DispatchPromise` | abstract: a dispatch is released or held once, and only after its ledger entry | |
| `ReviewerCall` | `call_reviewer`: caller, timer, pool worker, provider | |
| `AuditStore` | `append`, `put_progress_snapshot`, queries, locks, process death | |
| `PluginStart` | `register`: the file opened, created and migrated by several processes, the gate, the hooks | `AuditStore` |
| `AuditLog` | abstract: a log that only grows, without repeats | |
| `DispatchSeams` | both seams, the cache, `assert_release`, the rows that reviews leave | `Tightening` |
| `LiveProgress` | the operations of `server/progress.py` | |
| `ProgressHooks` | the observer hooks, `persist` and the enrichment of what it stores | `LiveProgress` |
| `ReadApi` | `handle` and `authorize` as functions of configuration and request | |
| `Dashboards` | `_ensure_dashboard`, the dashboard command, ports, pages | `ReadApi` |
| `MC...` | instances for TLC | |
| `RoutingProofs`, `ReviewGateProofs`, `GateEnvironmentProofs` (calls and views), `TightenTextProofs`, `PluginStartProofs` (store and start), `DispatchSeamsProofs`, `ProgressHooksProofs`, `DashboardsProofs` | theorems (section 4) | |

Definitions named `Mutant...` are wrong versions of the definition that follows them, of
the kind a plausible bug would be (a dropped guard, a missing reset). No specification
uses them; `PROJECT.json` says which property notices each one.

### ReviewGate

`phase[d]` is where call `d` stands. The code between two waits is one action, and there
are two places where a call waits: the reviewer's answer and the append.

| Action | Code |
|---|---|
| `Submit` | the caller invokes `review_and_dispatch` |
| `SkipReview` | trivial tier, no cheap reviewer: `_handle_trivial` |
| `StartReview` | `_review_loop` up to the first `call_reviewer`, with `_seed_directives` |
| `ReviewerUnavailable`, `Unparseable` | the `except` branches, `_fail_closed` |
| `ParserRaises` | an exception of `parse_verdict` that is no `VerdictParseError`: no handler, no row |
| `ReviewerBlocks`, `ReviewerPasses`, `TightenViolated`, `ReviewerRevises`, `RoundsExhausted` | the branches on the verdict, each with the merge and the validation before it |
| `AppendRow`, `AppendRaises`, `Return` | `_finish`: the single append, and what the caller gets |
| `MirrorCommits` | `put_progress_snapshot` on the same connection commits what appends left behind |
| `ProcessDies` | the agent process ends; committed rows stay |

`outcome[d]` is the pair of row and `DispatchResult` that `_finish` builds; `audit` is the
sequence of rows as the connection has them, of which the first `committed` are in the file. An
append may raise in its `INSERT`, and there is no row, or in its commit, and the row stays in
the open transaction until another commit of the connection writes it or the process dies (the
locks that make it so are in `AuditStore`). `said` is a ghost: what the reviewer said in each round, so that
properties can compare the decision with the whole conversation. Directives and bases are
model values; which texts the grant patterns match is the constant `Forbidden`, which
bases are blank is `BlankBase`. The reviewer is any answer of the constant `Answer`, at
any time. `TightenText` justifies that the gate may work with sets of directives where the
code has ordered lists: its invariant `SetViewIsExact` compares the two.

### AuditViews

A record takes its time when `_finish` builds it and is appended later, so that of two
calls the later one's row may arrive first; the gate's `stamps` lists the calls by that
time. `Query(limit)` is the code's `ORDER BY ts ASC LIMIT`, in which 0 is no limit; the views are those of the process that appends, and show its uncommitted rows too;
`Workers` and `CurrentDispatch` are the live view, `Queue` the queue, `Verdicts` and
`RecentVerdicts` the lists of the command and of the agent's tool, `LastGateDecision` a field
of the enriched live view, and `Status` and `Metrics` are `_status_for` and the counting part
of `compute_metrics`. `All`, the trail by time, puts every row behind as many rows as are earlier. The views are read-only, so they are operators
over the trail rather than actions: whenever a dashboard asks, it sees the current state.
The clock is taken to be monotone, and two rows never to have the same time.

### DispatchPlanning and Routing

`DispatchPlanning` starts with a meta that the adapter or a caller of the gate declares, and
each action makes it riskier by one fact (a file, a toolset, a flag, a cost). `Routing` goes
on from there: `ReleasePlanned` ends the planning, and the gate asks the router for advice
on the tier that the plan finally has.

| Action | Code |
|---|---|
| `RouteWithoutProbe` | no local endpoint is configured: `choose_worker` with `local_live=False` |
| `RouteOnCachedAnswer` | `LocalProbe.alive` within its time to live |
| `StartProbe`, `EndProbe` | the time of the check is set before the request, its answer after |
| `BoxChanges`, `Tick` | environment: the endpoint comes and goes, time passes |

A catalog entry is what the choice reads: declared capability, local or not, whether the
default token estimate fits, real and effective cost. `Garbled` are entries with a
capability that is no number: `choose_worker` raises, `gate._annotate_route` swallows it and the row
stays unrouted (other fields that cannot be read do the same and have no class of their own). `seen`
and the `evidence` of a route are ghosts: how long ago the endpoint last answered.

### ReviewerCall

One record of pool, future, timer and worker per call. `CallerLeaves` needs the worker to
be gone: `ThreadPoolExecutor.__exit__` joins it. A future that is done wins over an expired
timer when both are seen, and a work item that no worker has taken can be cancelled.

### GateCalls

Each round of each dispatch has a `ReviewerCall` of its own (an instance whose calls are the
pairs of dispatch and round), and the gate's actions on an answer need that call to have
returned.

| Action | Code |
|---|---|
| `CallReviewer` | the dispatch's thread inside `call_reviewer` |
| `HearNothing` | `except ReviewerUnavailable` of `_review_loop` |
| `HearAnswer` | the rest of the loop's body, on the completion |
| `AroundReview` | the gate's steps before and after the loop |
| `BesideCall` | pool worker, timer and provider of a call |

### AuditStore

Each connection has the lock it holds (`none`, `shared`, `reserved`, `pending`), whether a
transaction is open, and the rows in it. SQLite is external and modelled from how the code
uses it, in its default rollback-journal mode: an `INSERT` that meets a write lock raises
after the busy timeout but has already opened the transaction; a commit that meets readers
raises and keeps the lock; the next commit on the connection writes all of it. The code
never rolls back. `attempts` and `puts` are bounds.

### PluginStart

A process goes from `off` through opening the store (`script`, `inspect`, `migrate`), building
the gate and registering its hooks to `up`, or to `broken` when a registration of a seam raises.
`made` and `columns` are what the file has; every `CREATE` and every `ALTER TABLE` is an action,
for Python's `executescript` and DDL run outside a transaction, each in one of its own, and meets
the locks of `AuditStore`.

| Action | Code |
|---|---|
| `Launch`, `Create`, `EndScript` | `SqliteAuditStore.__init__`, the statements of `_SCHEMA` |
| `Inspect`, `AddColumn` | `_migrate_add_columns` |
| `OpenRaises` | a lock or a column that another process added since: `register` goes on without a store |
| `BuildGate`, `NoGate` | `_build_gate`, and every reason for which there is none |
| `RegisterBlockSeam`, `RegisterRewriteSeam`, `RegisterObservers`, `RegisterRaises` | the registrations, in their order |
| `Use` | the store's operations, by the hooks that call them |
| `Ends` | the process ends at any point, and may start again |

A process that loses the migration's race comes up without a gate and blocks every dispatch
until it is restarted, although the file is complete by then; this is the safe side, and
`GatesCanWrite` says that the other side is never taken.

### DispatchSeams

A step is one dictionary operation of `_decide_one` (get, `move_to_end`, assignment, the
test of the eviction loop, `popitem`) or one review; threads interleave at all of them.
Reviews are the gate's promise: release with some directives or hold, with a row in the
trail, or raise, which `_synthetic_block` turns into a hold: the row may then be missing, or there, or
written by a later commit, and may say anything, also that the task was dispatched. `rows` keeps what
the reviews of a task left, now or later, and `erred` the tasks of which a review raised. Without a gate
(`configured`) the command's call is blocked as well, under the same steps. A row is the prompt itself;
that the store redacts what it writes is left out. The key is the tool call id, or a hash of the
arguments, with the index in a batch. A task that is not a dict is reviewed but never
rewritten. `/ultracode` first calls `assert_release` and dispatches with what it returns,
unless `dispatch_tool` fails (`CommandFails`). `rewriting` is false in a process whose
`register` raised before the seam that rewrites: calls are reviewed and blocked there, and
goals are left as they are. Hermes is taken to give every call an id of its own, or none
(`SeamAssumption`).

`CacheRaises` is the `KeyError` of a dictionary operation: of `move_to_end` on an entry that
another thread evicted, and of `popitem` on a cache that several threads, each after its own
test of the size, have emptied. The latter takes at least four storing threads over a cache of two,
more than the run `seams` has; the theorems about the seams are proved with it. `robbed` is a ghost: the
calls that stood between two of their operations on the cache when another thread evicted an entry.

### LiveProgress and ProgressHooks

Every operation of `LiveProgress` holds its lock and is one action. A hook is one such
operation followed by `persist(force)` in steps.

| Action | Code |
|---|---|
| `OnSubagentStart`, `OnPostToolCall`, `OnSubagentStop` | the hooks, up to `persist` |
| `OnTodo`, `WritePlan` | `on_post_tool_call` of a `todo`, by whichever session: the tool call, and then the items, if any |
| `Throttled`, `NotThrottled`, `MarkThrottle` | the early returns of `persist`, and the mark |
| `TakeSnapshot`, `AskRegistry`, `LinkDecisions` | `make_progress_live_source`: the snapshot with its first finished agents, the agents of Hermes's registry instead of the tracked ones if it lists any, the query that links them |
| `PutSnapshot`, `PersistRaises` | `put_progress_snapshot`; a commit that raises leaves the upsert in the open transaction |
| `GateCommits` | the next append on the connection commits that upsert |
| `Released`, `Registered`, `Unregistered`, `Killed`, `SecondPasses` | environment: the trail's rows, Hermes's registry, agents that end without a stop hook, time |

An agent starts after the row of its release is in the trail; rows arrive at any place of the trail,
which is sorted by time. `registry` is Hermes's and external: released agents enter it, once, and leave it without
a hook; `listed` are those that entered it so far. Hooks of one agent follow one another (Hermes runs them on that agent's thread), those of
different agents overlap. Time is `recent`: the last mirror is less than a second old. `upsert` is the
snapshot as the connection has it, `mirror` as the file does. `made`, `sessionless`, `alone`, `flushed`
and `moved` are ghosts.

### ReadApi and Dashboards

`Handle(cfg, req)` is the status that `handle` answers, in the order of its tests: host
header, method, token, route. Paths are the kinds that `_route` tells apart.

| Action | Code |
|---|---|
| `Ensure`, `Acquire`, `BeginStart`, `Answer` | `_ensure_dashboard`: a caller, the lock and the test of `started`, the guard, the return |
| `BindPort`, `PortInUse`, `StartRaises` | the loop over the ports and the two `except` branches |
| `RecordDash`, `ThreadRaises` | the thread and `_DASH.update`; the thread cannot be started and the socket is closed again |
| `CliStarts`, `CliFails` | `hermes ultracode-dashboard` (without `--token`): `run` and its one port |
| `OpenPage`, `Refresh` | `web/app.js`: the token in the url, the polling |
| `HermesStarts`, `Ends`, `OtherTakes`, `OtherFrees` | environment: processes, and programs that take ports |

A token stands for the run of the process that made it. A port has one listener, as on
Linux. A command with a fixed `--token` serves every page that knows it, in every run: that is
what the option is for, and `PageSeesItsOwnProcess` is about tokens that a start made.

## 3. The runs

States are distinct states; every passing run ends in seconds to about two minutes with
two workers. `CHECK_DEADLOCK FALSE` appears where the system may come to rest because all
its calls are over or a bound is used up.

| Run | Checks | Instance | Result |
|---|---|---|---|
| `planning` (`MCRouting`) | `RiskierIsNeverReviewedLess`, `WriteCapableIsReviewed`, `LocalWasSeenAlive`, `RiskOverridesCost`, `SavingsAddUp` | two paths, one protected; thresholds that are crossed one step at a time; five models, four catalogs, a probe's answer kept for two ticks | pass |
| `gate_calls` | `OnlyAnswersAreHeard`, `NoThreadOutlivesItsReview`, `LateAnswerIsDropped`, `ReleaseJustified`, `TightenOnly`, `CallsEnd` | two dispatches, cheap reviewer, 3 rounds, a call per round, every class of answer; one gate whose timeout is not positive | pass |
| `gate_two` (`MCAuditViews`) | `RowBeforeResult`, `WorkspaceDeclared`, `MetricsAddUp`, `StatusTellsTheOutcome`, `ViewsAgreeOnTheNewest`, `CurrentNeverGoesBack`, `KeepsPromise` | two dispatches, 2 rounds, no cheap reviewer, store failures and process death | pass |
| `gate_onerow` | `ExactlyOneRow` | one dispatch | **violated** |
| `reviewer_timeout` | `HardTimeout` | one call, a provider that may hang | **violated** |
| `store` (`MCPluginStart`) | `OneRowPerId`, `GatesCanWrite`, `NothingWithoutTheBlockSeam`, `ImplementsLog` | two processes that start and end over a new or an old file, two ids, two attempts each, one snapshot, two routing columns | pass |
| `store_idempotent` (`MCAuditStore`) | `AckedIsInTheFile` | the same with processes that are up | **violated** |
| `seams` | `DispatchedOnItsOwnRelease`, `TrailTellsWhatRan`, `RunsTheReleasedPrompt`, `GateRunsOncePerTask`, `CacheIsBounded`, `SeamsNeverRaise`, `OnlyOverlapRaises` | a batch of a dict and a string with an id, a single call of an agent with an id or of the command, with and without the gate and the rewriting seam, a cache of two | pass |
| `text` | `SetViewIsExact`, `BaseIsRecovered`, `RoundsOnlyAppend` | six directives, one quoting the header, one forbidden, one blank; seven lists; three passes through a seam | pass |
| `progress` | `CallsAreBooked`, `ListsFollowLife`, `FlushedMirrorIsCurrent`, `MirrorLinksDecisions` | two subagents and the orchestrator, a store that may raise, Hermes's registry; one running agent fits and one finished one is shown; one tool call or entry in the registry, two hooks at once, one row queried | pass |
| `progress_flush` | `LifecycleIsFlushed` | the same without failures, tool calls and the registry, with room for both agents and three hooks at once | **violated** |
| `dashboards` | `OneDashboard`, `PageSeesItsOwnProcess`, `CallersGetAnAnswer` | a Hermes process with two threads of two calls each, the command, two ports, two runs of each process, one page | pass |

### Why the bounds are enough

- `gate_calls`: three rounds make a first, a middle and a last one; `MaxDirectives` is 3
  while two seeds and two reviewer directives exist, so the cap is crossed by an
  accumulation over rounds. The answers hold one of every class that `parse_verdict`
  distinguishes, and passes and revises with no, one, two and with forbidden directives.
  The metas are one of each tier. A dispatch has one call at a time, so two of them show
  calls of a round and of the next, and of another thread, beside each other; one
  dispatch's timeout is not positive and takes the other path of every round. The process
  dies in `gate_two` only.
- `gate_two`: calls share only the trail, so two of them show every interaction; each has
  one of four metas, one per tier and per exemption, and six answers. `LiveLimit` is 2, so
  that the trail fills the live view and does not outgrow it (`CurrentNeverGoesBack`
  says nothing of a longer trail, where it would be false, section 5); `QueueLimit` is 1, so that
  it does outgrow the queue, and one verdict is asked for.
- `planning`: one local and four cloud models. The local one declares a capability of 3 and
  is trusted with it (`LocalTrustedTier` is 3), so that the rule against local models in
  escalating tiers decides and the trust ceiling does not hide it. Of the cloud models one
  has too small a context, one is the default worker, one the only one fit for a risky plan,
  and one is garbled; the four catalogs make the choice local, cloud, fallback or an
  exception. A time to live of two ticks lets the endpoint die and come back while the
  cached answer is in use.
- `store`: a lost or doubled row takes two writers; a reader that makes a commit fail and
  a retry that finds its own uncommitted row take one connection each. Two attempts per id
  allow the retry from the same and from the other process. Two columns let a migration end
  half way; the names of the schema are both tables and both triggers, for the indexes decide
  nothing.
- `seams`: three keys compete for two places, so entries are evicted between any two
  operations; the base of the command is also a base of the batch, so a key that ignored
  the id or the index would serve a neighbour's decision. The batch has a task of each kind.
- `progress`: with room for one running agent the second one evicts the first, which may call a tool,
  stop or be killed afterwards. Of two hooks under way at once (`MaxAtOnce`) one may be late while the other is
  alone, or both are past the throttle. `MaxCalls` bounds tool calls and entries in the registry together, for neither
  reads what the other changes: a call touches the feed, the counters and the plan, and the registry only
  the agents shown. With one row queried, one of two agents has its decision within the limit and the
  other beyond it; `ShownDone` is below `MaxDone`, so a finished agent falls out of what is shown. A feed
  that overflows, further evictions and a plugin without a store (`HasStore`) are in the theorems only. The agents
  are interchangeable, so symmetry is sound for the invariants.
- `dashboards`: two threads overlap a start; two ports let another program or the command
  have the first; two runs let a page meet the next run, and the command, on its port.
- `text`: lists with repeats and blanks, a directive with the header inside, three passes.

### Fairness

- `FairGateCallsSpec`: the thread of a dispatch that was submitted goes on (weak fairness, one
  formula per dispatch), and workers, timers and providers of its calls do. The first are
  the scheduler's and the clock's; that a provider call ends is what an HTTP client with
  a socket timeout gives, and is not a matter of course, see `reviewer_timeout`. Callers need not
  call: `Submit` is not fair.
- `ScheduledCallSpec`: caller, worker and clock of a reviewer call run; the provider may
  hang.
- `FairDashSpec`: a thread inside `_ensure_dashboard` goes on while its process lives. Its lock
  is not assumed to be fair: the number of calls is bounded, as sessions and commands are.
- `DispatchPlanning`, `Routing`, `AuditStore`, `PluginStart`, `TightenText`, `DispatchSeams` and `ProgressHooks`
  have no liveness property and no fairness.

### What the properties say

*Gate.* `ReleaseJustified` ties a release to the whole conversation: after revises only
and a final pass; or, in a tier that does not escalate, after a valid revise in every
round, and then the row says `dispatched_fallback` and dissent; or by the exemption of the
trivial tier. `TightenOnly` says that the released prompt is the submitted base with the
seeds and everything the reviewer said in any round, nothing else, nothing forbidden,
within the cap. `RowBeforeResult` says that a caller never learns a result whose row is
not in the file or differs, whatever earlier appends left behind; and that a call that raised or was
lost, whose row may be missing, there, or on its way with another commit, never gets a second one
or one that says something else than what was decided. `WorkspaceDeclared` needs
tiering, the adapter's approximation and the seeds together: the trivial exemption skips
the seeds, and must therefore never take a dispatch that can write. `KeepsPromise` is the
refinement of `DispatchPromise`, in which only a dispatch that failed may get its ledger entry late or never.

*Gate and calls.* `OnlyAnswersAreHeard` ties every verdict the gate went by to the call of that
round, which had returned with an answer, and every unavailable call to a dispatch that is
held as such: an answer that arrives after its timeout, while the pool is being joined or
while the row is written, is never used. `LateAnswerIsDropped` says the same of steps: what a
call decided on and what the gate concluded do not change. `NoThreadOutlivesItsReview`: no
worker talks to a provider once its dispatch has gone on to the next round or to its
row. `CallsEnd` needs the round cap and the end of every call together.

*Views.* `MetricsAddUp`: every dispatch of the trail is counted as released, blocked or
escalated, and as one of them only, although two of these count decisions and one counts a
flag that five handlers set. `StatusTellsTheOutcome` compares what the live view says with
what the caller was told. `CurrentNeverGoesBack`: rows that arrive in another order than
their calls ended do not make the current dispatch an earlier one, as long as no row is lost with
the process and the trail is within the view's limit. `ViewsAgreeOnTheNewest`
says which views show the newest row first always, which exactly until the trail outgrows their
limit, and that the last gate decision of the live view does so for one row only.

*Planning and routing.* A riskier dispatch is never reviewed less, and
what may write is reviewed. `RiskOverridesCost`: a model chosen for its price is trusted
with the tier of the finished plan and with the reviewer's hint, and is not local if the
plan escalates. `LocalWasSeenAlive`: a local choice rests on an answer younger than the
time to live, although the answer may have been another dispatch's. `SavingsAddUp`: cost
and savings make up the cost of the cheapest eligible cloud model.

*Store.* The file never holds an id twice, and it refines an append-only log (`ImplementsLog`): rows
only join it, and an append that wrote its row and returned has it there for good, over
all interleavings with locked statements, left-over transactions and deaths.

*Start.* `GatesCanWrite`: whichever processes create and migrate the file together, and
wherever they die, a process with a store finds every column its `INSERT` names, and the
triggers. `NothingWithoutTheBlockSeam`: no hook is there without the one that blocks, and only a
process with a gate appends.

*Seams.* A call is dispatched only on releases of its own tasks' bases, whatever other
threads stored or evicted, also when `register` stopped before the seam that rewrites.
`TrailTellsWhatRan`: of a dispatched call with an id each task has one row, the release the seams
relied on, and no review of it raised; a blocked one never has releases for all its tasks, unless the
review of one raised: its append may have left a row that says `dispatched` for a task that was
held. (A batch that one held task blocks has rows that say `dispatched` for the others, and the
property states that much and no more.) What runs is the prompt the task's row shows (dict tasks of
calls with an id); the gate runs once per task until the cache overflows; the cache outgrows its size by
at most one entry per storing thread. A `KeyError` can reach Hermes, and does not before the cache
overflows (`SeamsNeverRaise`); when it does, the thread stood between two operations on the cache and
another thread evicted an entry meanwhile (`OnlyOverlapRaises`), so that calls that do not overlap never
raise, however full the cache is.

*Progress.* Tool calls are booked on the agent that made them, also after its eviction
from the list. `ListsFollowLife`: of the agents with a session none is listed as running after
its reported stop; one without a session stays listed (the code drops its stop, section 5) and
never counts as finished. What a lone lifecycle or todo hook has flushed no throttle, no late tool
hook and no upsert of an earlier hook takes back; as to the agents this is until Hermes's registry
moves, which no hook reports. Every agent the file shows is linked to its decision if that is among the
earliest rows by time, which is what the enrichment reads, because an agent starts after its row and the
list is read before the trail; and nobody is linked who is not shown.

*Dashboards.* `OneDashboard`: all callers in a process get the same answer, also those
that wait while another thread starts the dashboard, and it is a url under which this process
alone listens, with the token and the host names that its API accepts.
`PageSeesItsOwnProcess`: whoever listens on a page's port by now, only the run the page was
opened for gives it data. `CallersGetAnAnswer`: every way out of the start frees the lock.

## 4. The proofs

TLAPS checks these for every value of the constants, under the named `ASSUME`s of the
modules (thresholds and bounds are numbers, sets are subsets of what they should be), and
TLC evaluates those assumptions in the runs.

| Theorem | States |
|---|---|
| `ReviewGateProofs!TypeCorrect` | `GateSpec => []TypeOK` |
| `ReviewGateProofs!InvariantHolds` | `GateSpec => []GateInv` |
| `ReviewGateProofs!OnlyJustifiedReleases` | `GateSpec => []ReleaseJustified` |
| `ReviewGateProofs!OnlyTightens` | `GateSpec => []TightenOnly` |
| `ReviewGateProofs!NoResultWithoutItsRow` | `GateSpec => []RowBeforeResult` |
| `ReviewGateProofs!WritersDeclareTheWorkspace` | `GateSpec => []WorkspaceDeclared`, if `TrivialMaxFiles < 2` and metas come from `MetaFrom` |
| `ReviewGateProofs!GateKeepsItsPromise` | `GateSpec => KeepsPromise` |
| `GateEnvironmentProofs!CallsKeepTheGate` | `GateCallsSpec => GateSpec` |
| `GateEnvironmentProofs!CallsJustifyReleases` | `GateCallsSpec => []ReleaseJustified` |
| `GateEnvironmentProofs!CallsOnlyTighten` | `GateCallsSpec => []TightenOnly` |
| `GateEnvironmentProofs!CallsFollowTheLoop` | `GateCallsSpec => []CallsInv` |
| `GateEnvironmentProofs!AnswersAreHeard` | `GateCallsSpec => []OnlyAnswersAreHeard` |
| `GateEnvironmentProofs!ThreadsEndInTheirRound` | `GateCallsSpec => []NoThreadOutlivesItsReview` |
| `GateEnvironmentProofs!LateAnswersAreDropped` | `GateCallsSpec => LateAnswerIsDropped` |
| `GateEnvironmentProofs!RoundsAreCalls` | `GateCallsSpec => Calls!CallSpec` |
| `GateEnvironmentProofs!ViewsInvariant` | `GateSpec => []ViewsInv` |
| `GateEnvironmentProofs!CountersSayWhatHappened` | `GateSpec => []MetricsAddUp` |
| `GateEnvironmentProofs!StatusIsTheOutcome` | `GateSpec => []StatusTellsTheOutcome` |
| `GateEnvironmentProofs!NewestFirst` | `GateSpec => []ViewsAgreeOnTheNewest` |
| `GateEnvironmentProofs!CurrentMovesOn` | `GateSpec => CurrentNeverGoesBack` |
| `TightenTextProofs!ListInvariant` | `TextSpec => []ListInv` |
| `TightenTextProofs!SetsSayItAll` | `TextSpec => []SetViewIsExact` |
| `TightenTextProofs!BlocksOnlyGrow` | `TextSpec => RoundsOnlyAppend` |
| `TightenTextProofs!BaseStays` | `TextSpec => []BaseIsRecovered`, if no submitted base has the header |
| `RoutingProofs!RiskMonotone` | `PlanSpec => RiskierIsNeverReviewedLess` |
| `RoutingProofs!WritesAreReviewed` | `PlanSpec => []WriteCapableIsReviewed`, if `TrivialMaxFiles < 2` |
| `RoutingProofs!RoutingKeepsThePlan` | `RouteSpec => PlanSpec` |
| `RoutingProofs!RiskComesFirst` | `RouteSpec => []RiskOverridesCost` |
| `RoutingProofs!LocalIsFresh` | `RouteSpec => []LocalWasSeenAlive` |
| `RoutingProofs!LedgerAddsUp` | `RouteSpec => []SavingsAddUp` |
| `PluginStartProofs!StoreInvariant` | `StoreSpec => []StoreInv` |
| `PluginStartProofs!EveryIdOnce` | `StoreSpec => []OneRowPerId` |
| `PluginStartProofs!FileImplementsLog` | `StoreSpec => ImplementsLog` |
| `PluginStartProofs!StartKeepsTheStore` | `StartSpec => StoreSpec` |
| `PluginStartProofs!StartsKeepEveryIdOnce`, `StartsImplementLog` | `StartSpec => []OneRowPerId`, `StartSpec => ImplementsLog` |
| `PluginStartProofs!GatesFindTheirColumns` | `StartSpec => []GatesCanWrite` |
| `PluginStartProofs!BlockSeamComesFirst` | `StartSpec => []NothingWithoutTheBlockSeam` |
| `DispatchSeamsProofs!SeamInvariant` | `SeamSpec => []SeamInv` |
| `DispatchSeamsProofs!DispatchedOnRelease` | `SeamSpec => []DispatchedOnItsOwnRelease` |
| `DispatchSeamsProofs!CacheBound` | `SeamSpec => []CacheIsBounded` |
| `DispatchSeamsProofs!NoRaiseBeforeEviction` | `SeamSpec => []SeamsNeverRaise` |
| `DispatchSeamsProofs!OverlapRaises` | `SeamSpec => []OnlyOverlapRaises` |
| `DispatchSeamsProofs!OneReviewPerTask` | `SeamSpec => []GateRunsOncePerTask` |
| `DispatchSeamsProofs!TrailIsTrue` | `SeamSpec => []TrailTellsWhatRan` |
| `DispatchSeamsProofs!RowShowsWhatRuns` | `SeamSpec => []RunsTheReleasedPrompt` |
| `ProgressHooksProofs!HooksInvariant` | `HooksSpec => []HooksInv` |
| `ProgressHooksProofs!ListsTellTheTruth` | `HooksSpec => []ListsFollowLife` |
| `ProgressHooksProofs!EveryCallIsBooked` | `HooksSpec => []CallsAreBooked` |
| `ProgressHooksProofs!FlushedStays` | `HooksSpec => []FlushedMirrorIsCurrent` |
| `ProgressHooksProofs!MirrorIsLinked` | `HooksSpec => []MirrorLinksDecisions` |
| `DashboardsProofs!DashInvariant` | `DashSpec => []DashInv` |
| `DashboardsProofs!DashboardIsOne` | `DashSpec => []OneDashboard` |
| `DashboardsProofs!PagesSeeTheirOwn` | `DashSpec => []PageSeesItsOwnProcess` |

**The gate.** `ReleaseJustified` and `TightenOnly` speak of the moment of release; they are
not inductive, for a release is decided from what the loop gathered before. `GateInv` adds
`LoopInv`: before the loop nothing was heard; inside it the round count is within the cap
and one more than the verdicts heard, all of which were revises, and `accumulated` holds
exactly the seeds and what they said; an outcome belongs to its own call. Its parts that are properties are
checked by TLC (`gate_calls`, `gate_two`), and it is proved inductive action by action. The lemma `HeardInLoop` says
what one more verdict does to the gathered directives, `Concludes` that an action which
builds an outcome satisfying the two properties keeps the invariant, and the lemmas
`CallUntouched` and `RowsUntouched` that the other calls are not disturbed.

`WorkspaceDeclared` needs two hypotheses, for it is the adapter that keeps it: it derives every meta
from toolsets and declares two files for whatever may write, so such a dispatch is trivial only
if two files are (`WritersAreNotTrivial`), and only a trivial one skips the seeds.

**The refinement.** A dispatch is open while it is in flight, released or held after it
returned, failed when its append raised; its ledger entry is its row in the file. `RowBeforeResult` makes
`Return` a release or a hold that agrees with the ledger; a commit, of an append or of the mirror, enters the
rows of failed dispatches that earlier appends left behind (`Enter`); `ProcessDies` loses what is open,
and nothing that was entered.

**The gate with its calls.** Each step of a dispatch's thread is a step of `ReviewGate` or leaves the
gate's variables alone (`ThreadStepMaps`), and what runs beside it does not touch
them; so whatever is proved of `GateSpec` holds of `GateCallsSpec`. What the run says of the calls needs
`CallsInv`: in a dispatch that is in round r of its loop the calls of earlier rounds have
returned with an answer, those of later rounds are untouched, and outside of the loop none is
under way (`RoundInv`); within a call, a worker is gone before its caller returns, and the caller has
decided once it waits no longer (`CallLocal`); and what was said, and an outcome without an
answer, rest on what those calls decided (`HeardInv`). `RoundsAreCalls` is the other projection: with
the gate's variables hidden, the rounds are calls of `ReviewerCall`.

**The views.** `ViewsInv` adds two things to `GateInv`. Records are coherent: fail-closed says that there
was no verdict, escalated that the decision is an escalation, released that it is a dispatch, and nothing is both
fail-closed and released (`HandlersCoherent`, one case per terminal handler). And the rows of
the trail belong to different calls, each of which took its time once and before its row was
appended (`TimesInv`). The counters then count disjoint sets. The trail by time is defined by ranks, the number of earlier
rows of each; ranks of different rows differ and are below the number of rows, so that every such number is one
row's (`RanksAreAll`), and the last row is no earlier than any other (`LastIsNewest`).

**The text.** The code's loops over directives are folds, and a fold is a function defined by an equation
on the sets of places. `FoldExists` shows that the equation has a solution, for sets of one more place at a time; `MergeLoop`,
`CleanLoop` and `LinesLoop` turn the folds into what the loop has after its n-th element, and `UpTo` is the
induction that they need, over a set of numbers instead of a formula. `ListInv`, that
nothing accumulated is blank or there twice, suffices for `SetViewIsExact` and `RoundsOnlyAppend`;
`BaseIsRecovered` needs that the text is the base, or the base with a block that begins with the header
(`Carries`), and that the base has no header of its own. Section 5 says what the code does with one that has.

**Tiering.** `ClassifyMonotone` says that of two metas of which one is at least as risky in
every fact, that one's tier has at least as much review; each step of `DispatchPlanning`
makes the meta at least as risky, also `GrantToolset`, where the meta is recomputed from the
toolsets (the invariant `PlanInv` says that it always is). `WritesAreReviewed` has the
hypothesis `TrivialMaxFiles < 2`: the adapter declares a file count of 2 for whatever may
write, and a configuration that exempts two files exempts all of it.

**Routing.** `RoutingKeepsThePlan` is a refinement: routing changes nothing of the plan and
adds no step to it, so the theorems on planning hold of `RouteSpec` too. `RiskOverridesCost`
and `LocalWasSeenAlive` speak of the route; their inductive invariant `RouteInv` adds that
there is none before the dispatch is routed, that ages are within the time to live, and
that when the probe holds that the endpoint is alive and is not just asking, the endpoint
answered no longer ago than the last check. The last conjunct is why the cached answer is good for
a time to live: without it an answer that was already old could be remembered as fresh.
`ReasonOfDecision` says what a choice with a reason other than the fallback is one of.
`SavingsAddUp` is about the least of a set of prices, which `Min` only names: that a set of naturals
which is not empty has a least element is induction, used once in `LeastOfNaturals` through the
library's theorem that `<` on the naturals is well-founded. `BaselineIsAPrice` and
`CheapestCloudIsBaseline` then say that the code's baseline is what the property compares with.

**The store.** What the `SELECT` of `append` saw may be stale when the `INSERT` runs; the argument is the
writers' lock. At most one connection has it, rows wait uncommitted in no other connection, and the
`INSERT` looks at the primary key again. `ConnInv` says of each connection that the rows of its open
transaction are under that lock, not repeated and not in the file, and that the row it is about to
confirm is among them. `EveryIdOnce` follows. For `FileImplementsLog` a commit is the step of the log,
and an append that is confirmed has its row in the file by then: one that found its row, in the
file or in its own left-over transaction, only counts as found.

**Start-up.** `StartKeepsTheStore` carries what holds of the store over to processes that start
and end. `GatesCanWrite` needs `FileInv`: what a migration takes to be there is there, what the
script has passed is there, and both only grow (`FileGrows`). `NothingWithoutTheBlockSeam` needs to
know where an append may come from; `NoNewAppend` says that `BeginAppend` alone starts one.

**The seams.** `SeamInv` has layers, each of which rests on those before it. `Placed`: where a call's thread
can be, and that nothing is collected or counted for tasks that it has not come to. `Sound`: whose
decision an entry, a hand or a collected result is; the key of an entry fixes the call and the index or,
for calls without an id, the goal, so that a hit is about the base that `_extract` finds. `OwnDecisions`: a
collected decision is one that a review gave for that task's base, also when the first seam has rewritten the
goal. `Bounded`: every thread that may have made the cache too large has yet to trim it; no key is
twice in it. `Kept`: until something is evicted, what a thread was given or has stored is still
there. `Unrobbed`: as long as no other thread evicts, it is there after evictions too, between one operation of a thread
and its next. `Traced`: until something is evicted, a task of a call with an id is unreviewed, under review, or has its one
review's decision in the hand and in the cache, and in the trail unless the review raised; then the decision is a hold. `RunsTheReleasedPrompt` and `TrailTellsWhatRan` are what
`Traced` says of a call that is over. `CacheIsBounded`, `DispatchedOnItsOwnRelease` and `OnlyOverlapRaises` hold after evictions too.
`MovedToEnd`, `CachedIff` and the lemmas that follow them say what the dictionary's operations do to the entries.

**The progress and its mirror.** `HooksInv` has four layers. `Lists`: an agent that has not started is
in no list, so a start repeats nobody; an agent leaves the list of the running ones when its stop is
reported, which is also when it may become a finished one, and `_by_session` does not depend on either list. `Bookings`:
until an agent starts it has made no call, so that whether it has a session can still be decided; the
orchestrator's count is a sum over the agents without one. `ViewsAreCurrent`: a lifecycle hook that runs
alone holds a current snapshot from the moment it takes it, and current agents from the moment it has
asked the registry; after its put, the file, the connection and what any other hook still
holds are the same, for no hook of a tool call changes what the view shows. `ViewsAreLinked`: agents that a view shows had their
row before the trail was queried, and a longer trail makes none of them one of its earliest rows that was not before
(`EarliestStay`), at whatever place rows come in. The sum is the library's fold over a set; `TotalTakesOut` and the lemmas around it
derive what it does from a smallest finite set for which it would not (`SmallestOfSets`), since
induction over sets cannot be used, and `OneFewer`, `NewestStay` and `OldestStay` say what becomes of a list.

**The dashboards.** `DashInv` follows a thread through `_ensure_dashboard`: of a process one thread is past the
lock (`OneInside`); while it looks for a port there is no url and no answer; the port it records is
the one the process listens on, with the token of its present run; and all answers are the url. A
page has the token of its link only, and `DataNeedsToken` says that `handle` gives data of a process to nobody
without that process's token. That tokens of different processes and runs differ, and that none is
the empty one, is assumed (`DashboardAssumption`), as `secrets.token_urlsafe` provides.

**Only model-checked**: liveness (`CallsEnd`, `CallersGetAnAnswer`), which needs
fairness and `ENABLED`. Every invariant and action property that a passing run checks is
a theorem. A run that ends in a violation needs no proof.

## 5. Disagreements

Four runs show that the code does not do what a comment of it says. Each is a finding
in `PROJECT.json`.

- `gate_onerow`: "Always writes EXACTLY one audit row" (`core/gate.py:269`). A verdict whose
  `round` is not a number makes `int(...)` raise (`core/verdict.py:145`); the gate catches
  only `VerdictParseError`, and the dispatch leaves no row. The adapter's
  `_synthetic_block` still holds the dispatch.
- `reviewer_timeout`: "Invoke the reviewer with a hard timeout" (`core/providers.py:134`). The
  pool is left through `with`, which joins the worker: the call returns when the provider
  does.
- `store_idempotent`: "Idempotent on id: a retried write of the same dispatch is a no-op"
  (`core/store_sqlite.py:158`). After a commit that found the file locked, the retry's
  `SELECT` sees the connection's own uncommitted row and the append returns; the row is lost
  if the process ends before another commit.
- `progress_flush`: "lifecycle changes flush immediately" (`__init__.py:394`). A hook that took
  its snapshot earlier may put it later, and the file shows the older state.

Met while reading, and without a run:

- The live view shows "real active subagents" (`server/views.py:98`), but the stop of an agent that was reported
  without a session is dropped (`server/progress.py:115`, against line 58): the list of running agents keeps it
  until it is evicted, and it is shown unless Hermes's registry lists others. `ListsFollowLife` says
  exactly whom this concerns.
- "The orchestrator's `todo` write IS its plan" (`__init__.py:423`): any session's `todo` goes into it
  (`__init__.py:426`), as `OnTodo` models.
- "so it never 'routes' a task to a box that is down or has no model loaded" (`core/local_probe.py:3`): an answer
  with an empty list of models counts as alive (line 55), and an answer is good for a time to live.
  `LocalWasSeenAlive` is about answers of either kind.
- "the orchestrator plus the most recent" dispatches (`server/views.py:62`) and "newest first" (line 197):
  `query` orders by time ascending before `LIMIT` (`core/store_sqlite.py:236`), so the live view and the queue
  show the earliest rows once the trail exceeds their limits (`ViewsAgreeOnTheNewest`).
- A trivial dispatch whose cheap reviewer answers with a valid revise ends as
  `dispatched_fallback`, which `core/store.py:24` describes as the standard tier's; the rows
  are told apart by their tier (`core/gate.py:317`).
- A call without a tool call id is reviewed by both seams, for the key is a hash of a goal
  that the first one changes (`adapters/hermes_hook.py:201`, against line 15). The second
  review may add other directives than the goal carries. `GateRunsOncePerTask` and
  `RunsTheReleasedPrompt` therefore speak of calls with an id.
- `/ultracode yolo` is reviewed twice: `assert_release` decides under a key without an id, and the
  seams of the dispatch that follows under another one. It leaves two rows, and the seam
  cuts the first review's directives off the goal before it reviews.
- A task of a batch that is a plain string is reviewed and never rewritten
  (`adapters/hermes_hook.py:113`): it runs without the directives its row shows.
- A batch that is blocked because of one task leaves rows that say `dispatched` for the others
  (`adapters/hermes_hook.py:158`), and the metrics count them as released.
- A submitted goal that itself quotes the directive header is cut off there
  (`adapters/hermes_hook.py:237`). `BaseIsRecovered` is about bases that do not.
- `last_gate_decision` queries a limit of 1 (`server/views.py:157`) and is the
  oldest row for good. A limit of 0 is no limit, in `query` and in `gate_recent_verdicts`.
- "link each active agent to the gate decision that shaped its task" (`server/views.py:134`):
  `gate_for` reads the earliest 40 rows and matches the first 60 characters, so agents of a
  long trail have no decision or an older one with the same beginning, and an agent without a
  goal gets the last row read.
- "return the response (or None for notifications)" (`server/mcp_server.py:100`): `initialize`,
  `tools/list` and `tools/call` without an id are answered, and a request that is not an
  object ends the loop with an exception.
- A dashboard that could not start is not tried again until the process ends
  (`__init__.py:584`, on purpose); the command that the message then names shows a live view of its own
  process, in which no agent runs (`__init__.py:468`).
- `plugin_api._store` and the check for an existing delegation block in Hermes's configuration are
  check-then-act without a lock (`dashboard/plugin_api.py:42`); the first may open
  one connection too many.
- `_by_session` of the live progress has no cap (`server/progress.py:59`, against "Sizes are
  capped" of line 16); `ListsFollowLife` says exactly what it holds.
- "The router maps 0 -> max tier (fail-safe-up)" (`core/verdict.py:45`): `required_tier` takes
  the larger of the tier's floor and the hint, and a hint of 0 adds nothing
  (`core/router.py:72`). `RequiredTier` is the code's.
- "NEVER raises" (`core/verdict.py:152`): a difficulty that reads as infinity (`1e999`) raises
  `OverflowError` in `int(...)`, which is not caught, with the same consequence as a bad
  round in `gate_onerow`. The class `hintOk` of `VerdictParsing` stands for it.
- A verdict nested too deeply for the JSON parser raises `RecursionError`, which is no `VerdictParseError` either, and a
  token with characters beyond ASCII makes `compare_digest` raise in the request's handler
  (`server/read_api.py:131`): no data is given. Neither has a class of its own in the models.
- An append that raises at its commit leaves its row, and the next commit writes it: a dispatch that the
  adapter held may be recorded as `dispatched` (`adapters/hermes_hook.py:223`, `core/store_sqlite.py:169`).
- For an escalating tier without a frontier entry the router's fallback may name a local
  model (`core/router.py:133`, against line 9).

## 6. What is left out

- The text of prompts, the rule set, redaction, JSON extraction from prose, the grant
  patterns: pure functions of text, represented by the classes they sort texts into.
- Token estimates and logging: nothing reads them back. The route is annotated on the row
  and decides nothing, so `Routing` models it apart from the gate, on the plan.
- The views' latencies, tokens, routing sums and filters, and the text of what they show.
- The MCP server and the routes for Hermes's own web dashboard: stateless readers of the views, one
  request after the other. Rendering, tabs and filters of the page: answers to two requests of
  one tab may be drawn in the other order (`web/app.js:151`), which only shows.
- Benchmarks: scripts that measure.
- The HTTP clients of the providers: a completion ends in text, a blank or an error, or
  does not end.
- `validate_distinct` and configuration: checked once at start-up; without a usable result
  there is no gate, which is `NoGate` of `PluginStart` and `configured` of `DispatchSeams`.
- What Hermes does with a plugin whose `register` raised is not in this repository;
  `DispatchSeams` takes it to keep the hooks that were registered, which is the harder case.
- The 60-character match of goals: an agent stands for its goal in `ProgressHooks`. Hermes's registry of
  agents is external: which agents it lists, and nothing else about them.
- Whether the seeds are the same text: workspace and coordination policy are different directives in the models,
  where the code would keep a directive twice that is configured as both.

## 7. The plan

Done, in this order: tiering and planning; tightening and verdicts; the gate and its
promise with proofs; the reviewer call; the store and its log; the seams; lists and
text; live progress; the router and its probe over planning, with proofs; the views over
the gate's trail; the start of processes and the migration of the file, with proofs; the
seams with the trail's rows; the enrichment of the mirror, with the registry; rows and upserts that a failed commit leaves behind; the gate with its calls, and its
refinement; the dashboards of a machine.

Little control is left to model: what remains is text, input and output (section 6). What is left to
prove is how components that share state keep their promises together: that the seams' reviews are
dispatches of `ReviewGate`, with its rows, and that its appends are those of `AuditStore`.
