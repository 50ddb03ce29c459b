-------------------------- MODULE DispatchPlanning --------------------------
(***************************************************************************)
(* A dispatch being planned: one fact about it at a time is made riskier,  *)
(* and its tier is what Tiering computes from the facts so far.            *)
(***************************************************************************)
EXTENDS Tiering

CONSTANTS MaxFiles, MaxCost  \* bounds on the facts a planned dispatch declares

ASSUME PlanningAssumption == MaxFiles \in Nat /\ MaxCost \in Nat

VARIABLES
    meta,      \* the DispatchMeta as planned so far
    toolsets,  \* the toolsets it grants, when the adapter derives meta from them
    declared   \* TRUE when a caller declares meta itself (bench, smoke, tests)

planVars == <<meta, toolsets, declared>>

PlanInit ==
    \/ /\ declared = TRUE
       /\ toolsets = {}
       /\ meta \in [merge : {FALSE}, paths : {{}}, fileCount : {NoFileCount, 0, 2},
                    readOnly : BOOLEAN, cost : {0}, siblings : {0}]
    \/ /\ declared = FALSE
       /\ \E k \in ToolsetKinds : toolsets = {k}
       /\ meta = MetaFrom(toolsets, 0)

DeclareMerge ==
    /\ declared
    /\ meta' = [meta EXCEPT !.merge = TRUE]
    /\ UNCHANGED <<toolsets, declared>>

TouchPath(p) ==
    /\ declared
    /\ meta' = [meta EXCEPT !.paths = @ \cup {p}]
    /\ UNCHANGED <<toolsets, declared>>

AddFile ==
    /\ declared
    /\ meta.fileCount # NoFileCount
    /\ meta.fileCount < MaxFiles
    /\ meta' = [meta EXCEPT !.fileCount = @ + 1]
    /\ UNCHANGED <<toolsets, declared>>

RaiseCost ==
    /\ declared
    /\ meta.cost < MaxCost
    /\ meta' = [meta EXCEPT !.cost = @ + 1]
    /\ UNCHANGED <<toolsets, declared>>

AllowWrites ==
    /\ declared
    /\ meta.readOnly
    /\ meta' = [meta EXCEPT !.readOnly = FALSE]
    /\ UNCHANGED <<toolsets, declared>>

GrantToolset(k) ==
    /\ ~declared
    /\ toolsets' = toolsets \cup {k}
    /\ meta' = MetaFrom(toolsets', 0)
    /\ UNCHANGED declared

PlanNext ==
    \/ DeclareMerge
    \/ \E p \in Path : TouchPath(p)
    \/ AddFile
    \/ RaiseCost
    \/ AllowWrites
    \/ \E k \in ToolsetKinds : GrantToolset(k)

PlanSpec == PlanInit /\ [][PlanNext]_planVars

-----------------------------------------------------------------------------

\* The facts are those of a DispatchMeta.
PlanTypeOK ==
    /\ meta \in DispatchMeta
    /\ toolsets \subseteq ToolsetKinds
    /\ declared \in BOOLEAN

\* How much review a tier gets.
Rank(tier) ==
    CASE tier = "trivial" -> 0
      [] tier = "standard" -> 1
      [] tier = "elevated" -> 2
      [] OTHER -> 3

\* Making a dispatch riskier in any one fact, or granting its subagent one more
\* toolset, never moves it to a tier with less review (the precedence of
\* classify, the two thresholds and the toolset approximation together).
RiskierIsNeverReviewedLess ==
    [][Rank(Classify(meta')) >= Rank(Classify(meta))]_planVars

\* A dispatch whose subagent can do anything but read is never in the tier that
\* skips frontier review, whatever mix of toolsets it is granted.
WriteCapableIsReviewed ==
    (~declared /\ ~(toolsets \subseteq {"read"})) => ~SkipsFrontierReview(Classify(meta))

=============================================================================
