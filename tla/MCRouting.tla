------------------------------ MODULE MCRouting ------------------------------
(***************************************************************************)
(* Planning and routing on a small instance: one ordinary path, one        *)
(* protected path, the default trivial_max_files of 1 and a file threshold *)
(* of 3, so that a declared dispatch crosses every boundary of classify    *)
(* one step at a time; one local and four cloud models, one of which has   *)
(* too small a context, and one of which the catalog got wrong.            *)
(***************************************************************************)
EXTENDS Routing

MCPath == {"src", "infra"}
MCProtectedPath == {"infra"}
MCSyntheticPath == "infra"

MCModel == {"gemma", "haiku", "opus", "mini", "broken"}

EntryOf(tier, local, roomy, price, effective) ==
    [tier |-> tier, local |-> local, roomy |-> roomy, price |-> price, effective |-> effective]

\* The local model declares more than it is trusted with, and costs electricity.
MCEntry == [m \in MCModel |->
    CASE m = "gemma" -> EntryOf(3, TRUE, TRUE, 0, 1)
      [] m = "haiku" -> EntryOf(1, FALSE, TRUE, 2, 2)
      [] m = "mini" -> EntryOf(3, FALSE, FALSE, 1, 1)
      [] m = "opus" -> EntryOf(3, FALSE, TRUE, 4, 4)
      [] OTHER -> EntryOf(1, FALSE, TRUE, 1, 1)]

MCGarbled == {"broken"}
MCCatalogs ==
    {{"gemma", "haiku", "opus", "mini"}, {"gemma", "haiku"}, {"gemma"}, {"gemma", "broken"}}
=============================================================================
