----------------------------- MODULE MCGateCalls -----------------------------
(* Two dispatches, one through a gate whose timeout was configured as zero.  *)
EXTENDS MCReviewGate, GateCalls

MCUntimed == {"d2"}
MCCallAnswer ==
    {Clean("pass", {"check"}), Clean("revise", {}), Clean("revise", {"check", "log"}),
     Clean("pass", {"grant"}), [Clean("block", {}) EXCEPT !.protected = TRUE, !.model = "self_named"]} \cup Malformed
MCCallMeta == {MetaFrom({"read"}, 0), MetaFrom({"other"}, 2), MetaFrom({"merge"}, 0)}
=============================================================================
