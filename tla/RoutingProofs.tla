---------------------------- MODULE RoutingProofs ----------------------------
(***************************************************************************)
(* Theorems about the tiers of planned dispatches and about the router and *)
(* its probe, for every set of paths and patterns, catalog, price,         *)
(* threshold of TieringConfig and time to live.                            *)
(***************************************************************************)
EXTENDS Routing, FiniteSetTheorems, WellFoundedInduction, TLAPS

-----------------------------------------------------------------------------
(* The tiers (DispatchPlanning).                                            *)

\* The facts are well formed, and follow from the toolsets when the adapter made them.
PlanInv ==
    /\ PlanTypeOK
    /\ ~declared => toolsets # {} /\ meta = MetaFrom(toolsets, 0)

\* The adapter derives well-formed facts.
LEMMA MetaFromType ==
  ASSUME NEW ts \in SUBSET ToolsetKinds
  PROVE  MetaFrom(ts, 0) \in DispatchMeta
  BY TieringAssumption DEF MetaFrom, MetaOf, DispatchMeta

\* The invariant holds of a fresh plan.
LEMMA InitPlanInv == PlanInit => PlanInv
<1> SUFFICES ASSUME PlanInit PROVE PlanInv
  OBVIOUS
<1>1. CASE /\ declared = TRUE /\ toolsets = {}
           /\ meta \in [merge : {FALSE}, paths : {{}}, fileCount : {NoFileCount, 0, 2},
                        readOnly : BOOLEAN, cost : {0}, siblings : {0}]
  <2>1. meta \in DispatchMeta
    <3>1. FALSE \in BOOLEAN /\ {} \subseteq Path /\ 0 \in Nat /\ 2 \in Nat
      OBVIOUS
    <3>2. /\ {FALSE} \subseteq BOOLEAN /\ {{}} \subseteq SUBSET Path
          /\ {NoFileCount, 0, 2} \subseteq Nat \cup {NoFileCount} /\ {0} \subseteq Nat
      BY <3>1
    <3> QED
      BY <1>1, <3>2 DEF DispatchMeta
  <2> QED
    BY <1>1, <2>1 DEF PlanInv, PlanTypeOK
<1>2. CASE /\ declared = FALSE
           /\ \E k \in ToolsetKinds : toolsets = {k}
           /\ meta = MetaFrom(toolsets, 0)
  <2>1. toolsets \in SUBSET ToolsetKinds /\ toolsets # {}
    BY <1>2
  <2>2. meta \in DispatchMeta
    BY <1>2, <2>1, MetaFromType
  <2> QED
    BY <1>2, <2>1, <2>2 DEF PlanInv, PlanTypeOK
<1> QED
  BY <1>1, <1>2 DEF PlanInit

\* Every planning step keeps the invariant.
LEMMA StepPlanInv == PlanInv /\ [PlanNext]_planVars => PlanInv'
<1> SUFFICES ASSUME PlanInv, [PlanNext]_planVars PROVE PlanInv'
  OBVIOUS
<1> USE DEF PlanInv, PlanTypeOK
<1>1. CASE DeclareMerge
  BY <1>1 DEF DeclareMerge, DispatchMeta
<1>2. ASSUME NEW p \in Path, TouchPath(p) PROVE PlanInv'
  BY <1>2 DEF TouchPath, DispatchMeta
<1>3. CASE AddFile
  BY <1>3 DEF AddFile, DispatchMeta
<1>4. CASE RaiseCost
  BY <1>4 DEF RaiseCost, DispatchMeta
<1>5. CASE AllowWrites
  BY <1>5 DEF AllowWrites, DispatchMeta
<1>6. ASSUME NEW k \in ToolsetKinds, GrantToolset(k) PROVE PlanInv'
  <2>1. toolsets' \in SUBSET ToolsetKinds /\ toolsets' # {}
    BY <1>6 DEF GrantToolset
  <2>2. MetaFrom(toolsets', 0) \in DispatchMeta
    BY <2>1, MetaFromType
  <2> QED
    BY <1>6, <2>1, <2>2 DEF GrantToolset
<1>7. CASE UNCHANGED planVars
  BY <1>7 DEF planVars
<1> QED
  BY <1>1, <1>2, <1>3, <1>4, <1>5, <1>6, <1>7 DEF PlanNext

\* The invariant of planning, for every set of paths and bounds.
THEOREM PlanInvariant == PlanSpec => []PlanInv
  BY InitPlanInv, StepPlanInv, PTL DEF PlanSpec

-----------------------------------------------------------------------------
(* Riskier facts, higher tier.                                              *)

\* The order on facts that classify respects: merge authority is the top.
AtLeastAsRisky(m, n) ==
    \/ m.merge
    \/ /\ ~n.merge
       /\ OverThreshold(n) => OverThreshold(m)
       /\ m.readOnly => n.readOnly
       /\ EffectiveFileCount(m) >= EffectiveFileCount(n)

\* The file count is a number, and the declared paths are finitely many.
LEMMA FileCountType ==
  ASSUME NEW m \in DispatchMeta
  PROVE  EffectiveFileCount(m) \in Nat /\ IsFiniteSet(m.paths)
<1>1. IsFiniteSet(m.paths)
  BY TieringAssumption, FS_Subset DEF DispatchMeta
<1>2. Cardinality(m.paths) \in Nat
  BY <1>1, FS_CardinalityType
<1> QED
  BY <1>1, <1>2 DEF EffectiveFileCount, DispatchMeta

\* classify respects it: whatever the thresholds, more risk is never less review.
LEMMA ClassifyMonotone ==
  ASSUME NEW m \in DispatchMeta, NEW n \in DispatchMeta, AtLeastAsRisky(m, n)
  PROVE  Rank(Classify(m)) >= Rank(Classify(n))
<1>1. EffectiveFileCount(m) \in Nat /\ EffectiveFileCount(n) \in Nat
  BY FileCountType
<1>2. m.merge \in BOOLEAN /\ n.merge \in BOOLEAN /\ m.readOnly \in BOOLEAN /\ n.readOnly \in BOOLEAN
  BY DEF DispatchMeta
<1>3. CASE m.merge
  BY <1>3 DEF Classify, Rank
<1>4. CASE ~m.merge /\ OverThreshold(m)
  BY <1>2, <1>4 DEF Classify, Rank, AtLeastAsRisky
<1>5. CASE ~m.merge /\ ~OverThreshold(m)
  <2>1. ~n.merge /\ ~OverThreshold(n)
    BY <1>2, <1>5 DEF AtLeastAsRisky
  <2> QED
    BY <1>1, <1>2, <1>5, <2>1, TieringAssumption DEF Classify, Rank, AtLeastAsRisky
<1> QED
  BY <1>2, <1>3, <1>4, <1>5

\* Every planning step makes the dispatch at least as risky.
LEMMA StepIsRiskier ==
  ASSUME PlanInv, PlanInv', PlanNext
  PROVE  AtLeastAsRisky(meta', meta)
<1> USE DEF PlanInv, PlanTypeOK
<1>1. meta \in DispatchMeta /\ meta' \in DispatchMeta
  OBVIOUS
<1>2. /\ EffectiveFileCount(meta) \in Nat /\ EffectiveFileCount(meta') \in Nat
      /\ IsFiniteSet(meta.paths)
  BY <1>1, FileCountType
<1>3. CASE DeclareMerge
  BY <1>1, <1>2, <1>3
     DEF DeclareMerge, AtLeastAsRisky, OverThreshold, MatchesProtected, EffectiveFileCount, DispatchMeta
<1>4. ASSUME NEW p \in Path, TouchPath(p) PROVE AtLeastAsRisky(meta', meta)
  <2>1. meta' = [meta EXCEPT !.paths = meta.paths \cup {p}]
    BY <1>4 DEF TouchPath
  <2>2. /\ meta'.merge = meta.merge /\ meta'.readOnly = meta.readOnly
        /\ meta'.fileCount = meta.fileCount /\ meta'.cost = meta.cost
        /\ meta'.paths = meta.paths \cup {p}
    BY <1>1, <2>1 DEF DispatchMeta
  <2>3. Cardinality(meta.paths \cup {p}) >= Cardinality(meta.paths)
    BY <1>2, FS_AddElement, FS_CardinalityType
  <2>4. EffectiveFileCount(meta') >= EffectiveFileCount(meta)
    BY <1>2, <2>2, <2>3 DEF EffectiveFileCount
  <2>5. MatchesProtected(meta) => MatchesProtected(meta')
    BY <2>2 DEF MatchesProtected
  <2> QED
    BY <1>2, <2>2, <2>4, <2>5, TieringAssumption DEF AtLeastAsRisky, OverThreshold
<1>5. CASE AddFile
  <2>1. /\ meta'.merge = meta.merge /\ meta'.readOnly = meta.readOnly
        /\ meta'.cost = meta.cost /\ meta'.paths = meta.paths
        /\ meta.fileCount # NoFileCount /\ meta.fileCount \in Nat
        /\ meta'.fileCount = meta.fileCount + 1
    BY <1>1, <1>5 DEF AddFile, DispatchMeta
  <2>2. EffectiveFileCount(meta') = EffectiveFileCount(meta) + 1
    BY <2>1 DEF EffectiveFileCount, NoFileCount
  <2> QED
    BY <1>2, <2>1, <2>2, TieringAssumption DEF AtLeastAsRisky, OverThreshold, MatchesProtected
<1>6. CASE RaiseCost
  <2>1. /\ meta'.merge = meta.merge /\ meta'.readOnly = meta.readOnly
        /\ meta'.fileCount = meta.fileCount /\ meta'.paths = meta.paths
        /\ meta.cost \in Nat /\ meta'.cost = meta.cost + 1
    BY <1>1, <1>6 DEF RaiseCost, DispatchMeta
  <2>2. EffectiveFileCount(meta') = EffectiveFileCount(meta)
    BY <2>1 DEF EffectiveFileCount
  <2> QED
    BY <1>2, <2>1, <2>2, TieringAssumption DEF AtLeastAsRisky, OverThreshold, MatchesProtected
<1>7. CASE AllowWrites
  BY <1>1, <1>2, <1>7
     DEF AllowWrites, AtLeastAsRisky, OverThreshold, MatchesProtected, EffectiveFileCount, DispatchMeta
<1>8. ASSUME NEW k \in ToolsetKinds, GrantToolset(k) PROVE AtLeastAsRisky(meta', meta)
  <2>1. /\ meta = MetaFrom(toolsets, 0) /\ meta' = MetaFrom(toolsets', 0)
        /\ toolsets # {} /\ toolsets' = toolsets \cup {k}
    BY <1>8 DEF GrantToolset
  <2> DEFINE R == toolsets \subseteq {"read"}
             S == toolsets' \subseteq {"read"}
  <2>2. S => R
    BY <2>1
  <2>3. /\ meta.readOnly = R /\ meta'.readOnly = S
        /\ meta.merge = ("merge" \in toolsets) /\ meta'.merge = ("merge" \in toolsets')
        /\ meta.fileCount = IF R THEN 0 ELSE 2
        /\ meta'.fileCount = IF S THEN 0 ELSE 2
        /\ meta.cost = 0 /\ meta'.cost = 0
    BY <2>1 DEF MetaFrom, MetaOf
  <2>4. ASSUME ~meta'.merge
        PROVE  /\ ~meta.merge
               /\ MatchesProtected(meta) => MatchesProtected(meta')
               /\ EffectiveFileCount(meta') >= EffectiveFileCount(meta)
    <3>1. "merge" \notin toolsets /\ "merge" \notin toolsets'
      BY <2>1, <2>3, <2>4
    <3>2. /\ meta.paths = IF "elevated" \in toolsets THEN {SyntheticPath} ELSE {}
          /\ meta'.paths = IF "elevated" \in toolsets' THEN {SyntheticPath} ELSE {}
      BY <2>1, <3>1 DEF MetaFrom, MetaOf
    <3>3. MatchesProtected(meta) => MatchesProtected(meta')
      BY <2>1, <3>2 DEF MatchesProtected
    <3>4. EffectiveFileCount(meta') >= EffectiveFileCount(meta)
      BY <2>2, <2>3 DEF EffectiveFileCount, NoFileCount
    <3> QED
      BY <2>3, <3>1, <3>3, <3>4
  <2>5. meta'.readOnly => meta.readOnly
    BY <2>2, <2>3
  <2> QED
    BY <1>2, <2>3, <2>4, <2>5, TieringAssumption DEF AtLeastAsRisky, OverThreshold
<1> QED
  BY <1>3, <1>4, <1>5, <1>6, <1>7, <1>8 DEF PlanNext

\* One more risky fact, or one more toolset, never means less review: for every
\* pattern set, file threshold, cost threshold and trivial limit (classify, _meta_from).
THEOREM RiskMonotone == PlanSpec => RiskierIsNeverReviewedLess
<1>1. PlanInv /\ PlanInv' /\ [PlanNext]_planVars
        => [Rank(Classify(meta')) >= Rank(Classify(meta))]_planVars
  <2>1. ASSUME PlanInv, PlanInv', PlanNext
        PROVE  Rank(Classify(meta')) >= Rank(Classify(meta))
    <3>1. AtLeastAsRisky(meta', meta)
      BY <2>1, StepIsRiskier
    <3>2. meta \in DispatchMeta /\ meta' \in DispatchMeta
      BY <2>1 DEF PlanInv, PlanTypeOK
    <3> QED
      BY <3>1, <3>2, ClassifyMonotone
  <2> QED
    BY <2>1
<1> QED
  BY <1>1, PlanInvariant, PTL DEF PlanSpec, RiskierIsNeverReviewedLess

\* A write-capable subagent is reviewed, provided that trivial_max_files is below
\* the two files that _meta_from declares for it (it is 1 by default).
THEOREM WritesAreReviewed ==
  ASSUME TrivialMaxFiles < 2 PROVE PlanSpec => []WriteCapableIsReviewed
<1>1. PlanInv => WriteCapableIsReviewed
  <2> SUFFICES ASSUME PlanInv, ~declared, ~(toolsets \subseteq {"read"})
               PROVE  ~SkipsFrontierReview(Classify(meta))
    BY DEF WriteCapableIsReviewed
  <2>1. meta = MetaFrom(toolsets, 0) /\ ~(toolsets # {} /\ toolsets \subseteq {"read"})
    BY DEF PlanInv
  <2>2. meta.fileCount = 2 /\ ~meta.readOnly
    BY <2>1 DEF MetaFrom, MetaOf
  <2>3. EffectiveFileCount(meta) = 2
    BY <2>2 DEF EffectiveFileCount, NoFileCount
  <2> QED
    BY <2>2, <2>3, TieringAssumption DEF Classify, SkipsFrontierReview
<1> QED
  BY <1>1, PlanInvariant, PTL

-----------------------------------------------------------------------------
(* Routing.                                                                 *)

\* Routing adds variables to planning and never touches the plan but in its own way:
\* whatever is proved of PlanSpec holds of routed dispatches.
THEOREM RoutingKeepsThePlan == RouteSpec => PlanSpec
<1>1. RouteInit => PlanInit
  BY DEF RouteInit
<1>2. [RouteNext]_<<planVars, routeVars>> => [PlanNext]_planVars
  BY DEF RouteNext, Plan, ReleasePlanned, RouteWithoutProbe, RouteOnCachedAnswer,
         StartProbe, EndProbe, BoxChanges, Tick, planVars, routeVars
<1> QED
  BY <1>1, <1>2, PTL DEF RouteSpec, PlanSpec

-----------------------------------------------------------------------------
(* The choice.                                                              *)

LEMMA ReasonOfDecision ==
  ASSUME NEW tier, NEW hint, NEW live, NEW d \in Decisions(tier, hint, live)
  PROVE  \/ d.reason = "fallback_no_candidate"
         \/ /\ d.model \in Candidates(tier, hint, live)
            /\ d.required = RequiredTier(tier, hint)
            /\ d.reason \in {"local", "api_cheapest"}
            /\ d.reason = "local" => Entry[d.model].local
<1>1. CASE Candidates(tier, hint, live) # {}
  <2>1. PICK m \in Cheapest(Candidates(tier, hint, live)) :
          d = Decide(m, tier, hint, IF Entry[m].local THEN "local" ELSE "api_cheapest",
                     Baseline(Candidates(tier, hint, live)))
    BY <1>1 DEF Decisions
  <2>2. m \in Candidates(tier, hint, live)
    BY DEF Cheapest
  <2> QED
    BY <2>1, <2>2 DEF Decide
<1>2. CASE Candidates(tier, hint, live) = {}
  BY <1>2 DEF Decisions, Decide
<1> QED
  BY <1>1, <1>2

LEMMA RequiredIsAboveFloor ==
  ASSUME NEW tier, NEW hint \in 0..3
  PROVE  RequiredTier(tier, hint) >= Floor(tier)
<1>1. Floor(tier) \in Int
  BY DEF Floor
<1> QED
  BY <1>1 DEF RequiredTier, Larger

-----------------------------------------------------------------------------
(* The invariant.                                                           *)

\* A route is there only at the end, when the plan is fixed; the last answer that the
\* cache holds as alive is no older than its time stamp, unless it is being replaced.
RouteInv ==
    /\ checked \in Nat /\ seen \in Nat /\ box \in BOOLEAN /\ alive \in BOOLEAN
    /\ stage # "routed" => route = Unrouted
    /\ alive /\ stage # "probing" => seen <= checked
    /\ RiskOverridesCost
    /\ LocalWasSeenAlive

LEMMA UnroutedIsFine ==
  ASSUME route = Unrouted
  PROVE  RiskOverridesCost /\ LocalWasSeenAlive
BY DEF Unrouted, RiskOverridesCost, LocalWasSeenAlive

\* Whatever ChooseWorker chooses, if a live answer means that the evidence is recent.
LEMMA ChooseIsSafe ==
  ASSUME NEW live \in BOOLEAN, NEW evidence \in Nat, live => evidence < Ttl,
         ChooseWorker(live, evidence), UNCHANGED planVars, UNCHANGED catalog
  PROVE  (RiskOverridesCost /\ LocalWasSeenAlive)'
<1>1. CASE catalog \cap Garbled # {}
  BY <1>1 DEF ChooseWorker, Unrouted, RiskOverridesCost, LocalWasSeenAlive
<1>2. CASE catalog \cap Garbled = {}
  <2>1. PICK hint \in 0..3 : \E d \in Decisions(Classify(meta), hint, live) :
          route' = [d EXCEPT !.evidence = evidence]
    BY <1>2 DEF ChooseWorker
  <2>2. PICK d \in Decisions(Classify(meta), hint, live) :
          route' = [d EXCEPT !.evidence = evidence]
    BY <2>1
  <2>3. /\ route'.model = d.model /\ route'.reason = d.reason
        /\ route'.required = d.required /\ route'.evidence = evidence
    BY <2>2 DEF Decisions, Decide
  <2>4. meta' = meta /\ Classify(meta)' = Classify(meta)
    BY DEF planVars, Classify, OverThreshold, MatchesProtected, EffectiveFileCount
  <2>5. CASE d.reason = "fallback_no_candidate"
    BY <2>3, <2>5 DEF RiskOverridesCost, LocalWasSeenAlive
  <2>6. CASE /\ d.model \in Candidates(Classify(meta), hint, live)
             /\ d.required = RequiredTier(Classify(meta), hint)
             /\ d.reason = "local" => Entry[d.model].local
    <3>1. /\ TrustedTier(d.model) >= d.required
          /\ Entry[d.model].local => live /\ Classify(meta) \notin ESCALATING_TIERS
      BY <2>6 DEF Candidates
    <3>2. d.required >= Floor(Classify(meta))
      BY <2>6, RequiredIsAboveFloor
    <3>3. RiskOverridesCost'
      BY <2>3, <2>4, <3>1, <3>2 DEF RiskOverridesCost, TrustedTier
    <3>4. LocalWasSeenAlive'
      BY <2>3, <2>6, <3>1 DEF LocalWasSeenAlive
    <3> QED
      BY <3>3, <3>4
  <2> QED
    BY <2>5, <2>6, ReasonOfDecision
<1> QED
  BY <1>1, <1>2

LEMMA InitRouteInv == RouteInit => RouteInv
<1> SUFFICES ASSUME RouteInit PROVE RouteInv
  OBVIOUS
<1>1. RiskOverridesCost /\ LocalWasSeenAlive
  BY UnroutedIsFine DEF RouteInit
<1> QED
  BY <1>1, RoutingAssumption DEF RouteInit, RouteInv

LEMMA StepRouteInv == RouteInv /\ [RouteNext]_<<planVars, routeVars>> => RouteInv'
<1> SUFFICES ASSUME RouteInv, [RouteNext]_<<planVars, routeVars>> PROVE RouteInv'
  OBVIOUS
<1> USE RoutingAssumption DEF RouteInv
<1>1. CASE Plan
  <2>1. route' = Unrouted
    BY <1>1 DEF Plan, routeVars
  <2>2. (RiskOverridesCost /\ LocalWasSeenAlive)'
    BY <2>1 DEF Unrouted, RiskOverridesCost, LocalWasSeenAlive
  <2> QED
    BY <1>1, <2>2 DEF Plan, routeVars
<1>2. CASE ReleasePlanned
  <2>1. (RiskOverridesCost /\ LocalWasSeenAlive)'
    BY <1>2 DEF ReleasePlanned, Unrouted, RiskOverridesCost, LocalWasSeenAlive
  <2> QED
    BY <1>2, <2>1 DEF ReleasePlanned
<1>3. CASE RouteWithoutProbe
  <2>1. (RiskOverridesCost /\ LocalWasSeenAlive)'
    BY <1>3, ChooseIsSafe DEF RouteWithoutProbe
  <2> QED
    BY <1>3, <2>1 DEF RouteWithoutProbe, ChooseWorker
<1>4. CASE RouteOnCachedAnswer
  <2>1. (RiskOverridesCost /\ LocalWasSeenAlive)'
    BY <1>4, ChooseIsSafe DEF RouteOnCachedAnswer
  <2> QED
    BY <1>4, <2>1 DEF RouteOnCachedAnswer, ChooseWorker
<1>5. CASE StartProbe
  <2>1. (RiskOverridesCost /\ LocalWasSeenAlive)'
    BY <1>5 DEF StartProbe, Unrouted, RiskOverridesCost, LocalWasSeenAlive
  <2> QED
    BY <1>5, <2>1 DEF StartProbe
<1>6. CASE EndProbe
  <2>1. seen' \in Nat /\ (box => seen' < Ttl)
    BY <1>6 DEF EndProbe
  <2>2. (RiskOverridesCost /\ LocalWasSeenAlive)'
    BY <1>6, <2>1, ChooseIsSafe DEF EndProbe
  <2> QED
    BY <1>6, <2>1, <2>2 DEF EndProbe, ChooseWorker
<1>7. CASE BoxChanges
  <2>1. (RiskOverridesCost /\ LocalWasSeenAlive)'
    BY <1>7 DEF BoxChanges, RiskOverridesCost, LocalWasSeenAlive, planVars,
                Classify, OverThreshold, MatchesProtected, EffectiveFileCount, TrustedTier
  <2> QED
    BY <1>7, <2>1 DEF BoxChanges
<1>8. CASE Tick
  <2>1. (RiskOverridesCost /\ LocalWasSeenAlive)'
    BY <1>8 DEF Tick, RiskOverridesCost, LocalWasSeenAlive, planVars,
                Classify, OverThreshold, MatchesProtected, EffectiveFileCount, TrustedTier
  <2> QED
    BY <1>8, <2>1 DEF Tick, Smaller
<1>9. CASE UNCHANGED <<planVars, routeVars>>
  <2>1. (RiskOverridesCost /\ LocalWasSeenAlive)'
    BY <1>9 DEF RiskOverridesCost, LocalWasSeenAlive, planVars, routeVars,
                Classify, OverThreshold, MatchesProtected, EffectiveFileCount, TrustedTier
  <2> QED
    BY <1>9, <2>1 DEF routeVars
<1> QED
  BY <1>1, <1>2, <1>3, <1>4, <1>5, <1>6, <1>7, <1>8, <1>9 DEF RouteNext

\* The inductive invariant: the properties, with what the cache and the stages say.
THEOREM RouteInvariant == RouteSpec => []RouteInv
<1> QED
  BY InitRouteInv, StepRouteInv, PTL DEF RouteSpec

\* The router never names a model for its price that is not trusted with the plan's
\* tier, or a local one for a plan that escalates (choose_worker).
THEOREM RiskComesFirst == RouteSpec => []RiskOverridesCost
<1>1. RouteInv => RiskOverridesCost
  BY DEF RouteInv
<1> QED
  BY <1>1, RouteInvariant, PTL

\* A local model is chosen on an answer younger than the time to live (alive).
THEOREM LocalIsFresh == RouteSpec => []LocalWasSeenAlive
<1>1. RouteInv => LocalWasSeenAlive
  BY DEF RouteInv
<1> QED
  BY <1>1, RouteInvariant, PTL

-----------------------------------------------------------------------------
(* The savings.                                                             *)

LEMMA LeastOfNaturals ==
  ASSUME NEW S \in SUBSET Nat, S # {}
  PROVE  \E x \in S : \A y \in S : x <= y
<1> DEFINE R == OpToRel(<, Nat)
<1>1. IsWellFoundedOn(R, Nat)
  BY NatLessThanWellFounded
<1>2. \A x, y \in Nat : y < x => <<y, x>> \in R
  BY DEF OpToRel
<1> HIDE DEF R
<1>3. PICK x \in S : \A y \in S : ~ (<<y, x>> \in R)
  BY <1>1, WFMin
<1>4. \A y \in S : x \in Nat /\ y \in Nat /\ ~ (y < x)
  BY <1>2, <1>3
<1>5. \A y \in S : x <= y
  BY <1>4
<1> QED
  BY <1>5

LEMMA LeastIsMin ==
  ASSUME NEW S \in SUBSET Nat, NEW x \in S, \A y \in S : x <= y
  PROVE  Min(S) = x
<1>1. Min(S) \in S /\ \A y \in S : Min(S) <= y
  BY DEF Min
<1>2. x \in Nat /\ Min(S) \in Nat
  BY <1>1
<1>3. x <= Min(S) /\ Min(S) <= x
  BY <1>1
<1> QED
  BY <1>2, <1>3

\* The prices of eligible cloud models.
Prices(models) == {Entry[m].price : m \in Cloud(models)}

LEMMA BaselineIsAPrice ==
  ASSUME NEW models \in SUBSET Model
  PROVE  /\ Prices(models) \in SUBSET Nat
         /\ Baseline(models) \in Nat
         /\ Cloud(models) # {} => Baseline(models) = Min(Prices(models))
<1>1. Prices(models) \in SUBSET Nat
  BY RoutingAssumption DEF Prices, Cloud, CatalogEntry
<1>2. CASE Cloud(models) = {}
  BY <1>1, <1>2 DEF Baseline
<1>3. CASE Cloud(models) # {}
  <2>1. Prices(models) # {} /\ Baseline(models) = Min(Prices(models))
    BY <1>3 DEF Prices, Baseline
  <2>2. Min(Prices(models)) \in Prices(models)
    BY <1>1, <2>1, LeastOfNaturals DEF Min
  <2> QED
    BY <1>1, <2>1, <2>2
<1> QED
  BY <1>2, <1>3

\* A cloud model that is the cheapest of the eligible ones has the lowest price of them.
LEMMA CheapestCloudIsBaseline ==
  ASSUME NEW models \in SUBSET Model, NEW m \in Cheapest(models), ~Entry[m].local
  PROVE  Entry[m].price = Baseline(models)
<1>1. m \in Cloud(models) /\ Entry[m].price \in Prices(models)
  BY DEF Cheapest, Cloud, Prices
<1>2. \A n \in Cloud(models) : Entry[n].effective = Entry[n].price
  BY RoutingAssumption DEF Cloud
<1>3. \A n \in Cloud(models) : Entry[m].price <= Entry[n].price
  BY <1>1, <1>2 DEF Cheapest, Cloud
<1>4. \A y \in Prices(models) : Entry[m].price <= y
  BY <1>3 DEF Prices
<1> QED
  BY <1>1, <1>4, BaselineIsAPrice, LeastIsMin

LEMMA DecisionsAddUp ==
  ASSUME catalog \in Catalogs, NEW tier, NEW hint, NEW live,
         NEW d \in Decisions(tier, hint, live)
  PROVE  /\ d.reason = "local" => d.cost = 0 /\ d.savings = d.baseline
         /\ d.reason = "api_cheapest" => d.savings = 0 /\ d.cost = d.baseline
<1> DEFINE eligible == Candidates(tier, hint, live)
<1>1. eligible \in SUBSET Model
  BY RoutingAssumption DEF Candidates
<1>2. CASE eligible # {}
  <2>1. PICK m \in Cheapest(eligible) :
          d = Decide(m, tier, hint, IF Entry[m].local THEN "local" ELSE "api_cheapest",
                     Baseline(eligible))
    BY <1>2 DEF Decisions
  <2>2. /\ d.cost = Entry[m].price /\ d.baseline = Baseline(eligible)
        /\ d.savings = Larger(0, Baseline(eligible) - Entry[m].price)
        /\ d.reason = "local" <=> Entry[m].local
        /\ d.reason = "api_cheapest" <=> ~Entry[m].local
    BY <2>1 DEF Decide
  <2>3. m \in Model
    BY <1>1 DEF Cheapest
  <2>4. Baseline(eligible) \in Nat
    BY <1>1, BaselineIsAPrice
  <2>5. CASE Entry[m].local
    <3>1. Entry[m].price = 0
      BY <2>3, <2>5, RoutingAssumption
    <3>2. Larger(0, Baseline(eligible) - 0) = Baseline(eligible)
      BY <2>4 DEF Larger
    <3> QED
      BY <2>2, <2>5, <3>1, <3>2
  <2>6. CASE ~Entry[m].local
    <3>1. Entry[m].price = Baseline(eligible)
      BY <1>1, <2>6, CheapestCloudIsBaseline
    <3>2. Larger(0, Baseline(eligible) - Baseline(eligible)) = 0
      BY <2>4 DEF Larger
    <3> QED
      BY <2>2, <2>6, <3>1, <3>2
  <2> QED
    BY <2>5, <2>6
<1>3. CASE eligible = {}
  BY <1>3 DEF Decisions, Decide
<1> QED
  BY <1>2, <1>3

LEMMA ChosenAddUp ==
  ASSUME catalog \in Catalogs, NEW live, NEW evidence, ChooseWorker(live, evidence)
  PROVE  SavingsAddUp'
<1>1. CASE catalog \cap Garbled # {}
  BY <1>1 DEF ChooseWorker, Unrouted, SavingsAddUp
<1>2. CASE catalog \cap Garbled = {}
  <2>1. PICK hint \in 0..3 : \E d \in Decisions(Classify(meta), hint, live) :
          route' = [d EXCEPT !.evidence = evidence]
    BY <1>2 DEF ChooseWorker
  <2>2. PICK d \in Decisions(Classify(meta), hint, live) :
          route' = [d EXCEPT !.evidence = evidence]
    BY <2>1
  <2>3. /\ route'.reason = d.reason /\ route'.cost = d.cost
        /\ route'.savings = d.savings /\ route'.baseline = d.baseline
    BY <2>2 DEF Decisions, Decide
  <2> QED
    BY <2>3, DecisionsAddUp DEF SavingsAddUp
<1> QED
  BY <1>1, <1>2

\* Unless the router fell back, cost and savings make up the price of the cheapest
\* eligible cloud model (choose_worker), whatever the prices and the catalog are.
THEOREM LedgerAddsUp == RouteSpec => []SavingsAddUp
<1> DEFINE Inv == catalog \in Catalogs /\ SavingsAddUp
<1>1. RouteInit => Inv
  BY DEF RouteInit, Unrouted, SavingsAddUp
<1>2. Inv /\ [RouteNext]_<<planVars, routeVars>> => Inv'
  <2> SUFFICES ASSUME Inv, [RouteNext]_<<planVars, routeVars>> PROVE Inv'
    OBVIOUS
  <2>1. CASE UNCHANGED <<route, catalog>>
    BY <2>1 DEF SavingsAddUp
  <2>2. CASE RouteWithoutProbe \/ RouteOnCachedAnswer \/ EndProbe
    <3>1. catalog' = catalog /\ \E live, evidence : ChooseWorker(live, evidence)
      BY <2>2 DEF RouteWithoutProbe, RouteOnCachedAnswer, EndProbe
    <3> QED
      BY <3>1, ChosenAddUp
  <2> QED
    BY <2>1, <2>2 DEF RouteNext, Plan, ReleasePlanned, StartProbe, BoxChanges, Tick, routeVars
<1>3. Inv => SavingsAddUp
  OBVIOUS
<1> QED
  BY <1>1, <1>2, <1>3, PTL DEF RouteSpec

=============================================================================
