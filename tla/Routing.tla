------------------------------- MODULE Routing -------------------------------
(***************************************************************************)
(* The advisory router (core/router.py), its catalog and the probe of the  *)
(* local endpoint (core/local_probe.py).                                   *)
(*                                                                         *)
(* A dispatch is planned (DispatchPlanning) and released; the gate then    *)
(* asks the probe whether the local endpoint is alive and lets the router  *)
(* name a model for the dispatch's tier.  The probe remembers its answer   *)
(* for a while, from one dispatch to the next, and holds its lock over the *)
(* request: other threads wait and then find the answer in the cache, so   *)
(* one dispatch over a cache that earlier ones left is enough.  The        *)
(* endpoint comes and goes as it likes.                                    *)
(***************************************************************************)
EXTENDS DispatchPlanning, FiniteSetsExt

CONSTANTS
    Model,           \* model ids
    Entry,           \* CatalogEntry of every model
    Garbled,         \* models whose capability_tier is no number
    Catalogs,        \* the catalogs the router may be configured with
    LocalTrustedTier, \* RouterConfig.local_trusted_tier
    DefaultWorker,   \* RouterConfig.default_api_worker
    Ttl              \* LocalProbe.ttl, in ticks; an age of Ttl stands for all above

CatalogEntry ==
    [tier      : Int,     \* capability_tier as declared
     local     : BOOLEAN,
     roomy     : BOOLEAN, \* ctx >= the default token estimate
     price     : Nat,     \* real_cost_usd of the default token estimate
     effective : Nat]     \* effective_cost of it

ASSUME RoutingAssumption ==
    /\ IsFiniteSet(Model)
    /\ Entry \in [Model -> CatalogEntry]
    /\ \A m \in Model : IF Entry[m].local THEN Entry[m].price = 0
                        ELSE Entry[m].effective = Entry[m].price
    /\ Garbled \subseteq Model
    /\ Catalogs \subseteq (SUBSET Model) \ {{}}
    /\ LocalTrustedTier \in Int
    /\ Ttl \in Nat \ {0}

VARIABLES
    catalog,  \* the catalog of the router
    endpoint, \* a local endpoint is configured: there is a LocalProbe
    box,      \* the endpoint would answer now
    checked,  \* the age of _checked_at; Ttl also when there is none
    alive,    \* _alive
    seen,     \* ghost: how long ago the endpoint last answered
    stage,    \* planning, asking, probing or routed
    route     \* RouteDecision, with the age of the probe's evidence (ghost)

routeVars == <<catalog, endpoint, box, checked, alive, seen, stage, route>>

NoModel == "(none)"

Unrouted == [model |-> NoModel, required |-> 0, reason |-> "unrouted",
             cost |-> 0, baseline |-> 0, savings |-> 0, evidence |-> 0]

-----------------------------------------------------------------------------
(* The choice.                                                              *)

Larger(a, b) == IF a >= b THEN a ELSE b

Smaller(a, b) == IF a <= b THEN a ELSE b

TrustedTier(m) ==
    Larger(1, Smaller(Entry[m].tier, IF Entry[m].local THEN LocalTrustedTier ELSE 3))

Floor(tier) ==
    CASE tier = "trivial" -> 1
      [] tier = "standard" -> 2
      [] OTHER -> 3

\* A hint of 0 is none, also when the reviewer's was no number.
RequiredTier(tier, hint) == Larger(Floor(tier), hint)

MutantNoRiskGate(tier, hint, live) ==
    {m \in catalog :
        /\ TrustedTier(m) >= RequiredTier(tier, hint)
        /\ Entry[m].roomy
        /\ Entry[m].local => live}

Candidates(tier, hint, live) ==
    {m \in catalog :
        /\ TrustedTier(m) >= RequiredTier(tier, hint)
        /\ Entry[m].roomy
        /\ Entry[m].local => live /\ tier \notin ESCALATING_TIERS}

Cloud(models) == {m \in models : ~Entry[m].local}

Cheapest(models) == {m \in models : \A n \in models : Entry[m].effective <= Entry[n].effective}

\* The same by real cost, as the fallback compares.
LowestPrice(models) == {m \in models : \A n \in models : Entry[m].price <= Entry[n].price}

MutantBaselineOfCatalog(models) ==
    IF Cloud(models) = {} THEN 0 ELSE Min({Entry[m].price : m \in Cloud(catalog)})

\* The cheapest eligible cloud model, or 0.
Baseline(models) ==
    IF Cloud(models) = {} THEN 0 ELSE Min({Entry[m].price : m \in Cloud(models)})

Decide(m, tier, hint, reason, baseline) ==
    [model |-> m, required |-> RequiredTier(tier, hint), reason |-> reason,
     cost |-> Entry[m].price, baseline |-> baseline,
     savings |-> Larger(0, baseline - Entry[m].price), evidence |-> 0]

\* Nothing is eligible: the default worker when the catalog has it, or else the
\* cheapest cloud model, or else the cheapest of all.
Fallbacks ==
    IF DefaultWorker \in catalog THEN {DefaultWorker}
    ELSE LowestPrice(IF Cloud(catalog) # {} THEN Cloud(catalog) ELSE catalog)

\* choose_worker: what it may return, one of several models of the same cost.
Decisions(tier, hint, live) ==
    LET eligible == Candidates(tier, hint, live) IN
    IF eligible # {}
    THEN {Decide(m, tier, hint, IF Entry[m].local THEN "local" ELSE "api_cheapest",
                 Baseline(eligible)) : m \in Cheapest(eligible)}
    ELSE {Decide(m, tier, hint, "fallback_no_candidate", 0) : m \in Fallbacks}

-----------------------------------------------------------------------------

RouteInit ==
    /\ PlanInit
    /\ catalog \in Catalogs
    /\ endpoint \in BOOLEAN
    /\ box \in BOOLEAN
    /\ checked \in 0..Ttl
    /\ alive \in BOOLEAN
    /\ seen \in 0..Ttl
    /\ ~endpoint => checked = Ttl /\ ~alive
    /\ alive => seen <= checked
    /\ stage = "planning"
    /\ route = Unrouted

\* The dispatch is planned on, until the gate releases it.
Plan ==
    /\ stage = "planning"
    /\ PlanNext
    /\ UNCHANGED routeVars

ReleasePlanned ==
    /\ stage = "planning"
    /\ stage' = "asking"
    /\ UNCHANGED <<planVars, catalog, endpoint, box, checked, alive, seen, route>>

\* choose_worker with the probe's answer.  An entry it cannot read makes it raise,
\* and the row stays as it is.
ChooseWorker(live, evidence) ==
    /\ IF catalog \cap Garbled # {}
       THEN route' = Unrouted
       ELSE \E hint \in 0..3 : \E d \in Decisions(Classify(meta), hint, live) :
                route' = [d EXCEPT !.evidence = evidence]
    /\ stage' = "routed"

RouteWithoutProbe ==
    /\ stage = "asking"
    /\ ~endpoint
    /\ ChooseWorker(FALSE, seen)
    /\ UNCHANGED <<planVars, catalog, endpoint, box, checked, alive, seen>>

MutantNoTtl ==
    /\ stage = "asking"
    /\ endpoint
    /\ ChooseWorker(alive, seen)
    /\ UNCHANGED <<planVars, catalog, endpoint, box, checked, alive, seen>>

\* alive() within the time to live of the last answer.
RouteOnCachedAnswer ==
    /\ stage = "asking"
    /\ endpoint /\ checked < Ttl
    /\ ChooseWorker(alive, seen)
    /\ UNCHANGED <<planVars, catalog, endpoint, box, checked, alive, seen>>

\* _checked_at is set before the request goes out.
StartProbe ==
    /\ stage = "asking"
    /\ endpoint /\ checked = Ttl
    /\ checked' = 0
    /\ stage' = "probing"
    /\ UNCHANGED <<planVars, catalog, endpoint, box, alive, seen, route>>

EndProbe ==
    /\ stage = "probing"
    /\ alive' = box
    /\ seen' = IF box THEN 0 ELSE seen
    /\ ChooseWorker(box, seen')
    /\ UNCHANGED <<planVars, catalog, endpoint, box, checked>>

BoxChanges ==
    /\ box' = ~box
    /\ UNCHANGED <<planVars, catalog, endpoint, checked, alive, seen, stage, route>>

Tick ==
    /\ checked' = Smaller(checked + 1, Ttl)
    /\ seen' = Smaller(seen + 1, Ttl)
    /\ UNCHANGED <<planVars, catalog, endpoint, box, alive, stage, route>>

RouteNext ==
    \/ Plan
    \/ ReleasePlanned
    \/ RouteWithoutProbe
    \/ RouteOnCachedAnswer
    \/ StartProbe
    \/ EndProbe
    \/ BoxChanges
    \/ Tick

RouteSpec == RouteInit /\ [][RouteNext]_<<planVars, routeVars>>

-----------------------------------------------------------------------------

\* What a local choice was based on: the endpoint answered less than a time to live
\* ago, although the answer may be another dispatch's and the endpoint comes and goes
\* (the cached answer of alive and the time it is remembered).
LocalWasSeenAlive == route.reason = "local" => route.evidence < Ttl

\* "Risk overrides cost": a model that was chosen for being the cheapest is trusted
\* with the tier that the released plan finally has and with the reviewer's hint, and
\* is no local one if that plan escalates, whatever the probe, the prices and the
\* declared capabilities say; only the fallback, which says so, is free of this.
RiskOverridesCost ==
    route.reason \in {"local", "api_cheapest"} =>
        /\ TrustedTier(route.model) >= route.required
        /\ route.required >= Floor(Classify(meta))
        /\ Entry[route.model].local => Classify(meta) \notin ESCALATING_TIERS

\* What the savings ledger adds up: unless the router fell back, what a dispatch costs
\* and what it saves make up what the cheapest eligible cloud model would cost, and a
\* cloud model saves nothing.
SavingsAddUp ==
    /\ route.reason = "local" => route.cost = 0 /\ route.savings = route.baseline
    /\ route.reason = "api_cheapest" => route.savings = 0 /\ route.cost = route.baseline

=============================================================================
