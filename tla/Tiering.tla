------------------------------- MODULE Tiering -------------------------------
(***************************************************************************)
(* Blast-radius tiering (core/tiering.py) and the approximation of a       *)
(* dispatch's blast radius from its toolsets (adapters/hermes_hook.py).    *)
(*                                                                         *)
(* The tier of a dispatch is a function of facts the dispatcher knows      *)
(* before any model is called.                                             *)
(***************************************************************************)
EXTENDS Integers, FiniteSets

CONSTANTS
    Path,              \* the paths a dispatch may declare
    ProtectedPath,     \* those some protected pattern matches
    SyntheticPath,     \* "infra/subagent", declared for elevated toolsets
    FileThreshold,     \* TieringConfig.elevated_file_threshold
    CostThreshold,     \* TieringConfig.elevated_cost_threshold_usd
    TrivialMaxFiles    \* TieringConfig.trivial_max_files

ASSUME TieringAssumption ==
    /\ ProtectedPath \subseteq Path
    /\ SyntheticPath \in Path
    /\ IsFiniteSet(Path)
    /\ FileThreshold \in Nat
    /\ CostThreshold \in Nat
    /\ TrivialMaxFiles \in Nat

Tiers == {"trivial", "standard", "elevated", "merge_adjacent"}

\* The tiers whose fallback is a human instead of an auto-accept.
ESCALATING_TIERS == {"elevated", "merge_adjacent"}

\* file_count = None: count the declared paths instead.
NoFileCount == -1

DispatchMeta ==
    [merge     : BOOLEAN,
     paths     : SUBSET Path,
     fileCount : Nat \cup {NoFileCount},
     readOnly  : BOOLEAN,
     cost      : Nat,
     siblings  : Nat]

EffectiveFileCount(meta) ==
    IF meta.fileCount # NoFileCount THEN meta.fileCount ELSE Cardinality(meta.paths)

MatchesProtected(meta) == meta.paths \cap ProtectedPath # {}

MutantThresholdEqual(meta) ==
    \/ MatchesProtected(meta)
    \/ EffectiveFileCount(meta) = FileThreshold + 1
    \/ meta.cost > CostThreshold

OverThreshold(meta) ==
    \/ MatchesProtected(meta)
    \/ EffectiveFileCount(meta) > FileThreshold
    \/ meta.cost > CostThreshold

\* Highest blast radius wins; trivial only after everything risky is ruled out.
Classify(meta) ==
    CASE meta.merge -> "merge_adjacent"
      [] ~meta.merge /\ OverThreshold(meta) -> "elevated"
      [] OTHER -> IF meta.readOnly \/ EffectiveFileCount(meta) <= TrivialMaxFiles
                  THEN "trivial" ELSE "standard"

SkipsFrontierReview(tier) == tier = "trivial"

-----------------------------------------------------------------------------
(* The adapter's view: toolsets stand for the paths nobody knows yet.       *)

\* _READONLY_TOOLSETS, _MERGE_TOOLSETS, _ELEVATED_TOOLSETS and the rest.
ToolsetKinds == {"read", "merge", "elevated", "other"}

MetaOf(readOnly, merge, elevated, siblings) ==
    [merge     |-> merge,
     paths     |-> IF elevated /\ ~merge THEN {SyntheticPath} ELSE {},
     fileCount |-> IF readOnly THEN 0 ELSE 2,
     readOnly  |-> readOnly,
     cost      |-> 0,
     siblings  |-> siblings]

MutantReadOnlyAny(ts, siblings) ==
    MetaOf("read" \in ts, "merge" \in ts, "elevated" \in ts, siblings)

MetaFrom(ts, siblings) ==
    MetaOf(ts # {} /\ ts \subseteq {"read"}, "merge" \in ts, "elevated" \in ts, siblings)

AdapterMetas == {MetaFrom(ts, n) : ts \in SUBSET ToolsetKinds, n \in 0..2}

=============================================================================
