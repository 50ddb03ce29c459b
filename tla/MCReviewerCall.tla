--------------------------- MODULE MCReviewerCall ---------------------------
(* One call by itself, with a provider that may never end.                  *)
EXTENDS ReviewerCall

MCOneCall == {"c1"}
MCNone == {}
=============================================================================
