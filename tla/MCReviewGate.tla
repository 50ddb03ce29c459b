---------------------------- MODULE MCReviewGate ----------------------------
(***************************************************************************)
(* Instances of ReviewGate.  The directives are a workspace and a          *)
(* coordination policy, two a reviewer may add, and one that validation    *)
(* refuses; three are allowed, so that seeds and rounds can exceed the cap.*)
(***************************************************************************)
EXTENDS ReviewGate

MCDirective == {"workspace", "coordination", "check", "log", "grant"}
MCForbidden == {"grant"}
MCWorkspace == {"workspace"}
MCCoordination == {"coordination"}
MCBase == {"goal", "blank"}
MCBlankBase == {"blank"}
MCPath == {"src", "infra"}
MCProtectedPath == {"infra"}
MCSyntheticPath == "infra"

MCFewMeta ==
    {MetaFrom({"read"}, 0), MetaFrom({"other"}, 2), MetaFrom({"merge"}, 0),
     MetaFrom({"read", "elevated"}, 0)}

Clean(verdict, directives) ==
    [decodes |-> TRUE, verdict |-> verdict, listOk |-> TRUE, directives |-> directives,
     scopeOk |-> TRUE, round |-> "count", hintOk |-> TRUE, model |-> "", protected |-> FALSE]

Malformed ==
    {[Clean("pass", {}) EXCEPT !.decodes = FALSE],
     Clean("unknown", {}),
     [Clean("pass", {}) EXCEPT !.hintOk = FALSE],
     [Clean("not_a_string", {}) EXCEPT !.round = "not_a_number"],
     [Clean("pass", {}) EXCEPT !.listOk = FALSE],
     [Clean("pass", {}) EXCEPT !.scopeOk = FALSE],
     [Clean("pass", {}) EXCEPT !.round = "negative"],
     [Clean("pass", {}) EXCEPT !.round = "not_a_number"]}

MCFewAnswer ==
    {Clean("pass", {"check"}), Clean("revise", {"log"}), Clean("block", {}),
     Clean("revise", {"grant"}), [Clean("pass", {}) EXCEPT !.decodes = FALSE],
     [Clean("pass", {}) EXCEPT !.round = "not_a_number"]}

MCOneDispatch == {"d1"}
MCTwoDispatches == {"d1", "d2"}
MCNoFaults == {}
MCAllFaults == {"store", "process"}
=============================================================================
