----------------------------- MODULE MCAuditViews -----------------------------
(* The gate's instances, with the views; the trail never outgrows the limit.  *)
EXTENDS MCReviewGate, AuditViews
=============================================================================
