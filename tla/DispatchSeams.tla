---------------------------- MODULE DispatchSeams ----------------------------
(***************************************************************************)
(* The Hermes adapter (adapters/hermes_hook.py): two seams around every    *)
(* delegate_task call, and a bounded cache through which the second one    *)
(* reuses the decision of the first.                                       *)
(*                                                                         *)
(* Hermes runs tool_request (which may rewrite the goals) and then         *)
(* pre_tool_call (which may block) on the thread of the tool call; calls   *)
(* of parallel sessions run on their own threads and share the cache,      *)
(* which has no lock.  A step here is one dictionary operation or test, or *)
(* one review.                                                             *)
(*                                                                         *)
(* The gate is its promise: a review releases the base with some           *)
(* directives or holds it, and has its row in the audit trail by then, or  *)
(* it raises, and no row or the row of any decision is left: an append     *)
(* whose commit raised leaves its INSERT in the transaction, and a later   *)
(* commit writes it (ReviewGate).  The trail is what this process reads,   *)
(* uncommitted rows included.  A goal is <<base, directives>>, a base      *)
(* prompt with the block of directives that was appended to it; a row      *)
(* stands for the prompt before its secrets are redacted.                  *)
(***************************************************************************)
EXTENDS Tightening, Sequences, SequencesExt

CONSTANTS
    Call,           \* delegate_task calls
    Origins,        \* where each may come from: a set of [id, command], the tool_call_id
                    \* ("" for none), and whether the /ultracode command makes it
    Tasks,          \* their tasks: a sequence of [base, dict]
    Batch,          \* the calls made with tasks=[...]
    Tightenings,    \* the directive sets a review may release a base with
    CacheSize

\* Hermes gives every tool call an id of its own, or none.
ASSUME SeamAssumption ==
    /\ Tasks \in [Call -> Seq([base : Base, dict : BOOLEAN]) \ {<<>>}]
    /\ Batch \subseteq Call
    /\ \A c \in Call \ Batch : Len(Tasks[c]) = 1 /\ Tasks[c][1].dict
    /\ Origins \in [Call -> SUBSET [id : STRING, command : BOOLEAN]]
    /\ \A c \in Batch : \A o \in Origins[c] : ~o.command
    /\ \A c, d \in Call : \A o \in Origins[c], p \in Origins[d] : o.id = p.id /\ o.id # "" => c = d
    /\ Tightenings \subseteq SUBSET Directive
    /\ CacheSize \in Nat \ {0}

VARIABLES
    configured, \* register() could build a gate
    rewriting,  \* register() came as far as the seam that rewrites
    origin,     \* where each call comes from
    seam,     \* idle, assert, request, check, dispatched, blocked, failed or raised
    step,     \* the cache operation, test or review that comes next in _decide_one
    goals,    \* the goals of each call's tasks as the tool args now hold them
    got,      \* the decisions the running seam has collected
    hand,     \* the decision in hand between two steps
    cache,    \* _cache: [key, decision] from oldest to newest
    reviews,  \* ghost: reviews begun, per call and task
    rows,     \* ghost: the audit rows that these reviews left
    evicted,  \* ghost: some decision was evicted
    erred,    \* ghost: each call's tasks whose review raised
    robbed    \* ghost: calls between two cache operations, another thread evicted since

seamVars ==
    <<configured, rewriting, origin, seam, step, goals, got, hand, cache, reviews, rows,
      evicted, erred, robbed>>

\* DispatchResult, as far as the seams read it, with the base it is about.
Held(base) == [released |-> FALSE, base |-> base, prompt |-> NoPrompt]

ReleasedWith(base, directives) ==
    [released |-> TRUE, base |-> base, prompt |-> Assemble(base, directives)]

SeamInit ==
    /\ configured \in BOOLEAN
    /\ rewriting \in BOOLEAN
    /\ origin \in {o \in [Call -> UNION {Origins[c] : c \in Call}] : \A c \in Call : o[c] \in Origins[c]}
    /\ seam = [c \in Call |-> "idle"]
    /\ step = [c \in Call |-> "lookup"]
    /\ goals = [c \in Call |-> [i \in DOMAIN Tasks[c] |-> Assemble(Tasks[c][i].base, {})]]
    /\ got = [c \in Call |-> <<>>]
    /\ hand = [c \in Call |-> Held(Tasks[c][1].base)]
    /\ cache = <<>>
    /\ reviews = [c \in Call |-> [i \in DOMAIN Tasks[c] |-> 0]]
    /\ rows = [c \in Call |-> [i \in DOMAIN Tasks[c] |-> {}]]
    /\ evicted = FALSE
    /\ erred = [c \in Call |-> {}]
    /\ robbed = {}

-----------------------------------------------------------------------------

\* The task that is being decided: its index, key and base.
Index(c) == Len(got[c]) + 1

\* assert_release passes no tool_call_id.
Id(c) == IF seam[c] = "assert" THEN "" ELSE origin[c].id

MutantKeyNoIndex(c) == <<Id(c), IF Id(c) = "" THEN goals[c][Index(c)] ELSE NoPrompt, 0>>

MutantKeyPerSeam(c) ==
    <<Id(c), IF Id(c) = "" THEN goals[c][Index(c)] ELSE <<seam[c]>>,
      IF c \in Batch THEN Index(c) ELSE 0>>

MutantKeyArgsOnly(c) ==
    <<"", goals[c][Index(c)], IF c \in Batch THEN Index(c) ELSE 0>>

\* tool_call_id, or else a hash of the args as they are now; with ":i" in a batch.
Key(c) ==
    <<Id(c),
      IF Id(c) = "" THEN goals[c][Index(c)] ELSE NoPrompt,
      IF c \in Batch THEN Index(c) ELSE 0>>

\* _extract: what stands before the directive header.
Extract(goal) == goal[1]

Cached(key) == {e \in ToSet(cache) : e.key = key}

Deciding(c) == seam[c] \in {"assert", "request", "check"} /\ Index(c) <= Len(Tasks[c])

\* _cache.get(key)
LookupHit(c) ==
    /\ Deciding(c) /\ step[c] = "lookup"
    /\ \E e \in Cached(Key(c)) : hand' = [hand EXCEPT ![c] = e.decision]
    /\ step' = [step EXCEPT ![c] = "touch"]
    /\ UNCHANGED <<configured, rewriting, origin, seam, goals, got, cache, reviews,
                   rows, evicted, erred, robbed>>

LookupMiss(c) ==
    /\ Deciding(c) /\ step[c] = "lookup"
    /\ Cached(Key(c)) = {}
    /\ step' = [step EXCEPT ![c] = "review"]
    /\ reviews' = [reviews EXCEPT ![c][Index(c)] = @ + 1]
    /\ UNCHANGED <<configured, rewriting, origin, seam, goals, got, hand, cache,
                   rows, evicted, erred, robbed>>

\* The decision in hand is the task's.
Collect(c) ==
    /\ got' = [got EXCEPT ![c] = Append(@, hand[c])]
    /\ hand' = [hand EXCEPT ![c] = Held(Tasks[c][1].base)]
    /\ step' = [step EXCEPT ![c] = "lookup"]

\* _cache.move_to_end(key)
MoveToEnd(c) ==
    \E i \in DOMAIN cache :
        cache[i].key = Key(c) /\ cache' = Append(RemoveAt(cache, i), cache[i])

\* The hit becomes the newest entry, and the decision is the cached one.
Touch(c) ==
    /\ Deciding(c) /\ step[c] = "touch"
    /\ MoveToEnd(c)
    /\ Collect(c)
    /\ robbed' = robbed \ {c}
    /\ UNCHANGED <<configured, rewriting, origin, seam, goals, reviews, rows, evicted, erred>>

\* Another thread evicted the entry since get(), or since it was stored, or threads that
\* trimmed a full cache at the same time left nothing to pop: KeyError leaves the seam,
\* and Hermes gets it.
CacheRaises(c) ==
    /\ Deciding(c)
    /\ IF step[c] = "pop" THEN cache = <<>>
       ELSE step[c] \in {"touch", "place"} /\ Cached(Key(c)) = {}
    /\ seam' = [seam EXCEPT ![c] = "raised"]
    /\ UNCHANGED <<configured, rewriting, origin, step, goals, got, hand, cache, reviews,
                   rows, evicted, erred, robbed>>

Reviewed(c, decision) ==
    /\ Deciding(c) /\ step[c] = "review"
    /\ hand' = [hand EXCEPT ![c] = decision]
    /\ step' = [step EXCEPT ![c] = "store"]
    /\ UNCHANGED <<configured, rewriting, origin, seam, goals, got,
                   cache, reviews, evicted, robbed>>

\* The row is in the trail before the result is out (RowBeforeResult of ReviewGate).
WithRow(c, decision) ==
    /\ configured
    /\ Reviewed(c, decision)
    /\ rows' = [rows EXCEPT ![c][Index(c)] = @ \cup {decision}]
    /\ UNCHANGED erred

ReviewReleases(c, directives) ==
    WithRow(c, ReleasedWith(Extract(goals[c][Index(c)]), directives))

ReviewHolds(c) == WithRow(c, Held(Extract(goals[c][Index(c)])))

\* What the gate may have decided before its append raised.
Left(base) == {Held(base)} \cup {ReleasedWith(base, directives) : directives \in Tightenings}

\* The gate raises, or there is none, and _synthetic_block stands in for its result: the
\* task is held, whatever the row says that the append may have left.
ReviewRaises(c) ==
    LET base == Extract(goals[c][Index(c)])
    IN  /\ Reviewed(c, Held(base))
        /\ erred' = [erred EXCEPT ![c] = @ \cup {Index(c)}]
        /\ \/ UNCHANGED rows
           \/ /\ configured
              /\ \E decision \in Left(base) :
                     rows' = [rows EXCEPT ![c][Index(c)] = @ \cup {decision}]

\* Only releases are cached, and move_to_end() looks for the others too.
MutantStoreReleases(c) ==
    /\ Deciding(c) /\ step[c] = "store"
    /\ LET entry == [key |-> Key(c), decision |-> hand[c]]
       IN  cache' = IF ~hand[c].released THEN cache
                    ELSE IF Cached(Key(c)) = {} THEN Append(cache, entry)
                    ELSE [i \in DOMAIN cache |-> IF cache[i].key = Key(c) THEN entry ELSE cache[i]]
    /\ step' = [step EXCEPT ![c] = "place"]
    /\ UNCHANGED <<configured, rewriting, origin, seam, goals, got, hand, reviews, rows,
                   evicted, erred, robbed>>

\* _cache[key] = result: a new key goes to the end, an old one keeps its place.
Store(c) ==
    /\ Deciding(c) /\ step[c] = "store"
    /\ LET entry == [key |-> Key(c), decision |-> hand[c]]
       IN  cache' = IF Cached(Key(c)) = {} THEN Append(cache, entry)
                    ELSE [i \in DOMAIN cache |-> IF cache[i].key = Key(c) THEN entry ELSE cache[i]]
    /\ step' = [step EXCEPT ![c] = "place"]
    /\ UNCHANGED <<configured, rewriting, origin, seam, goals, got, hand, reviews,
                   rows, evicted, erred, robbed>>

Place(c) ==
    /\ Deciding(c) /\ step[c] = "place"
    /\ MoveToEnd(c)
    /\ step' = [step EXCEPT ![c] = "trim"]
    /\ robbed' = robbed \ {c}
    /\ UNCHANGED <<configured, rewriting, origin, seam, goals, got, hand,
                   reviews, rows, evicted, erred>>

MutantEvictEarly(c) ==
    /\ Deciding(c) /\ step[c] = "trim"
    /\ Len(cache) >= CacheSize
    /\ step' = [step EXCEPT ![c] = "pop"]
    /\ evicted' = (evicted \/ Len(cache) > CacheSize)
    /\ UNCHANGED <<configured, rewriting, origin, seam, goals, got, hand, cache,
                   reviews, rows, erred, robbed>>

\* The test of the while loop, before popitem: other threads run in between.
TooMany(c) ==
    /\ Deciding(c) /\ step[c] = "trim"
    /\ Len(cache) > CacheSize
    /\ step' = [step EXCEPT ![c] = "pop"]
    /\ evicted' = TRUE
    /\ UNCHANGED <<configured, rewriting, origin, seam, goals, got, hand, cache,
                   reviews, rows, erred, robbed>>

\* The loop ends, and the decision is the one just stored.
Trimmed(c) ==
    /\ Deciding(c) /\ step[c] = "trim"
    /\ Len(cache) <= CacheSize
    /\ Collect(c)
    /\ UNCHANGED <<configured, rewriting, origin, seam, goals, cache, reviews,
                   rows, evicted, erred, robbed>>

MutantPopNothing(c) ==
    /\ Deciding(c) /\ step[c] = "pop"
    /\ Collect(c)
    /\ UNCHANGED <<configured, rewriting, origin, seam, goals, cache, reviews,
                   rows, evicted, erred, robbed>>

\* The calls whose thread is between get() and move_to_end(), between storing a decision
\* and move_to_end(), or between the size test and popitem().
Between == {c \in Call : Deciding(c) /\ step[c] \in {"touch", "place", "pop"}}

\* _cache.popitem(last=False): the oldest entry goes.
Pop(c) ==
    /\ Deciding(c) /\ step[c] = "pop"
    /\ cache # <<>>
    /\ cache' = Tail(cache)
    /\ step' = [step EXCEPT ![c] = "trim"]
    /\ robbed' = (robbed \cup Between) \ {c}
    /\ UNCHANGED <<configured, rewriting, origin, seam, goals, got, hand,
                   reviews, rows, evicted, erred>>

-----------------------------------------------------------------------------
(* The seams.                                                               *)

\* The first seam of a tool call; the middleware may not have been registered.
FirstSeam == IF rewriting THEN "request" ELSE "check"

BeginRequest(c) ==
    /\ seam[c] = "idle"
    /\ configured \/ origin[c].command
    /\ seam' = [seam EXCEPT ![c] = IF origin[c].command THEN "assert" ELSE FirstSeam]
    /\ UNCHANGED <<configured, rewriting, origin, step, goals, got, hand, cache, reviews,
                   rows, evicted, erred, robbed>>

\* Without a gate tool_request changes nothing and pre_tool_call always blocks, while
\* assert_release decides, which raises, and ends in GateBlocked.
BlockUnconfigured(c) ==
    /\ seam[c] = "idle"
    /\ ~configured /\ ~origin[c].command
    /\ seam' = [seam EXCEPT ![c] = "blocked"]
    /\ UNCHANGED <<configured, rewriting, origin, step, goals, got, hand, cache, reviews,
                   rows, evicted, erred, robbed>>

Decided(c) == Len(got[c]) = Len(Tasks[c])

AllReleased(c) == \A i \in DOMAIN got[c] : got[c][i].released

MutantNoRewrite(c) ==
    /\ seam[c] = "request"
    /\ Decided(c)
    /\ seam' = [seam EXCEPT ![c] = "check"]
    /\ got' = [got EXCEPT ![c] = <<>>]
    /\ UNCHANGED <<configured, rewriting, origin, step, goals, hand, cache, reviews,
                   rows, evicted, erred, robbed>>

\* What the goals become once the released ones are rewritten.
Rewritten(c) ==
    [i \in DOMAIN Tasks[c] |->
        IF Tasks[c][i].dict /\ got[c][i].released THEN got[c][i].prompt ELSE goals[c][i]]

\* assert_release returns the tightened goal, and the command dispatches with it.
FinishAssert(c) ==
    /\ seam[c] = "assert"
    /\ Decided(c) /\ AllReleased(c)
    /\ goals' = [goals EXCEPT ![c] = Rewritten(c)]
    /\ seam' = [seam EXCEPT ![c] = FirstSeam]
    /\ got' = [got EXCEPT ![c] = <<>>]
    /\ UNCHANGED <<configured, rewriting, origin, step, hand, cache, reviews,
                   rows, evicted, erred, robbed>>

\* dispatch_tool fails before it reaches the seams: a slash command that runs in a
\* worker process has no agent to delegate for.
CommandFails(c) ==
    /\ seam[c] = "assert"
    /\ Decided(c) /\ AllReleased(c)
    /\ seam' = [seam EXCEPT ![c] = "failed"]
    /\ got' = [got EXCEPT ![c] = <<>>]
    /\ UNCHANGED <<configured, rewriting, origin, step, goals, hand, cache, reviews,
                   rows, evicted, erred, robbed>>

\* tool_request returns: every released dict task gets its dispatched prompt.
FinishRequest(c) ==
    /\ seam[c] = "request"
    /\ Decided(c)
    /\ goals' = [goals EXCEPT ![c] = Rewritten(c)]
    /\ seam' = [seam EXCEPT ![c] = "check"]
    /\ got' = [got EXCEPT ![c] = <<>>]
    /\ UNCHANGED <<configured, rewriting, origin, step, hand, cache, reviews,
                   rows, evicted, erred, robbed>>

\* pre_tool_call returns None, and Hermes runs the tool with the goals.
AllowDispatch(c) ==
    /\ seam[c] = "check"
    /\ Decided(c) /\ AllReleased(c)
    /\ seam' = [seam EXCEPT ![c] = "dispatched"]
    /\ UNCHANGED <<configured, rewriting, origin, step, goals, got, hand, cache, reviews,
                   rows, evicted, erred, robbed>>

\* One task that was not released blocks the whole call (or raises GateBlocked).
BlockDispatch(c) ==
    /\ seam[c] \in {"assert", "check"}
    /\ Decided(c) /\ ~AllReleased(c)
    /\ seam' = [seam EXCEPT ![c] = "blocked"]
    /\ got' = [got EXCEPT ![c] = <<>>]
    /\ UNCHANGED <<configured, rewriting, origin, step, goals, hand, cache, reviews,
                   rows, evicted, erred, robbed>>

SeamStep(c) ==
    \/ BeginRequest(c) \/ BlockUnconfigured(c)
    \/ LookupHit(c) \/ LookupMiss(c)
    \/ Touch(c) \/ CacheRaises(c)
    \/ \E directives \in Tightenings : ReviewReleases(c, directives)
    \/ ReviewHolds(c) \/ ReviewRaises(c)
    \/ Store(c) \/ Place(c)
    \/ TooMany(c) \/ Pop(c) \/ Trimmed(c)
    \/ FinishAssert(c) \/ CommandFails(c) \/ FinishRequest(c)
    \/ AllowDispatch(c) \/ BlockDispatch(c)

SeamNext == \E c \in Call : SeamStep(c)

SeamSpec == SeamInit /\ [][SeamNext]_seamVars

-----------------------------------------------------------------------------
(* Properties.                                                              *)

\* A call that is dispatched was released task by task: the decision that
\* pre_tool_call relied on for a task is a release of that task's own base, whatever
\* other threads stored or evicted, whichever ids Hermes gave (the keys and _extract
\* together), and although register() may have failed before the seam that rewrites.
DispatchedOnItsOwnRelease ==
    \A c \in Call : seam[c] = "dispatched" =>
        /\ Decided(c)
        /\ \A i \in DOMAIN Tasks[c] :
               got[c][i].released /\ got[c][i].base = Tasks[c][i].base

\* A call that Hermes gave an id and whose decisions stay in the cache.
Tracked(c) == origin[c].id # "" /\ ~origin[c].command /\ ~evicted

\* What the audit trail says of a call with an id is what happened to it, until the
\* cache overflows.  Dispatched: each task has one row, the release that the seams
\* relied on, and no review of it raised.  Blocked: the rows do not say that all its
\* tasks were dispatched, unless the review of one raised, whose append may have left
\* a row that the seams know nothing of.
TrailTellsWhatRan ==
    \A c \in Call : configured /\ Tracked(c) =>
        /\ seam[c] = "dispatched" =>
               erred[c] = {} /\ \A i \in DOMAIN Tasks[c] : rows[c][i] = {got[c][i]}
        /\ seam[c] = "blocked" /\ erred[c] = {} =>
               \E i \in DOMAIN Tasks[c] : \A row \in rows[c][i] : ~row.released

\* The goal that a subagent runs is exactly the prompt its task's audit row shows, for
\* a task that is a dict of a call with an id, when register() came as far as the seam
\* that rewrites: base and directives agree across the two seams.  (A plain string
\* runs without the directives that its row shows.)
RunsTheReleasedPrompt ==
    \A c \in Call : seam[c] = "dispatched" /\ Tracked(c) /\ rewriting =>
        \A i \in DOMAIN Tasks[c] :
            Tasks[c][i].dict => \A row \in rows[c][i] : goals[c][i] = row.prompt

\* "the gate runs ONCE per dispatch" (adapters/hermes_hook.py:15): both seams of a
\* call that Hermes gave an id use one review per task, until the cache overflows.
GateRunsOncePerTask ==
    \A c \in Call : Tracked(c) => \A i \in DOMAIN Tasks[c] : reviews[c][i] <= 1

Storing == {c \in Call : step[c] \in {"place", "trim", "pop"}}

\* The cache outgrows cache_size by at most one entry per thread that is storing
\* one, although no thread locks it (nothing is added that nobody trims), and it never
\* holds a key twice.
CacheIsBounded ==
    /\ Len(cache) <= CacheSize + Cardinality(Storing)
    /\ \A i, j \in DOMAIN cache : cache[i].key = cache[j].key => i = j

\* Until the cache overflows no seam raises into Hermes: an entry that get() found is
\* still there for move_to_end(), whatever other threads store.
SeamsNeverRaise == \A c \in Call : seam[c] = "raised" => evicted

\* No thread raises on its own account, however full the cache is: a seam that raises
\* KeyError was between two operations on the cache, and another thread evicted an
\* entry in between.  Where Hermes runs one call at a time no seam ever raises.
OnlyOverlapRaises == \A c \in Call : seam[c] = "raised" => c \in robbed

=============================================================================
