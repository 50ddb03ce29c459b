----------------------------- MODULE Tightening -----------------------------
(***************************************************************************)
(* The tighten-only contract (core/tighten.py) as the gate sees it.        *)
(*                                                                         *)
(* A list of directives is abstracted to its set: blank directives and     *)
(* repeats are dropped before a list reaches the validator, and the gate   *)
(* tells apart only which directives a dispatch carries and how many.      *)
(* TightenText works on the ordered lists and on the text itself, and      *)
(* shows that they agree with the sets used here.                          *)
(***************************************************************************)
EXTENDS Naturals, FiniteSets

CONSTANTS
    Directive,      \* the directives a reviewer or a policy can append
    Forbidden,      \* those that grant a tool, tamper with the base or are too long
    MaxDirectives,  \* the count cap (max_directives)
    Base,           \* base prompts
    BlankBase       \* base prompts that are empty or only white space

ASSUME TighteningAssumption ==
    /\ IsFiniteSet(Directive)
    /\ Forbidden \subseteq Directive
    /\ MaxDirectives \in Nat
    /\ BlankBase \subseteq Base

\* dispatched = base verbatim + rendered(directives); none for a held dispatch.
Assemble(base, directives) == <<base, directives>>
NoPrompt == <<>>

MutantMergeReplaces(existing, new) == IF new = {} THEN existing ELSE new

\* _merge_directives: the new ones are added to those already accumulated.
Merge(existing, new) == existing \cup new

MutantNoGrantScan(base, directives) ==
    base \notin BlankBase /\ Cardinality(directives) <= MaxDirectives

\* validate_tighten returns instead of raising TightenError.
ValidTighten(base, directives) ==
    /\ base \notin BlankBase
    /\ Cardinality(directives) <= MaxDirectives
    /\ directives \cap Forbidden = {}

=============================================================================
