----------------------------- MODULE TightenText -----------------------------
(***************************************************************************)
(* The tighten-only contract on ordered lists and text: merging and        *)
(* validating directives (core/gate.py, core/tighten.py), rendering them   *)
(* after the base, and recovering the base from a tightened goal           *)
(* (adapters/hermes_hook.py, _extract).                                    *)
(*                                                                         *)
(* A text is a sequence of tokens; HDR stands for the directive header.  A *)
(* base is a text, so the constants Base and BlankBase of Tightening are   *)
(* sets of texts here.                                                     *)
(***************************************************************************)
EXTENDS Tightening, Sequences, SequencesExt

CONSTANTS
    Token,     \* what texts are made of
    HDR,       \* the token of _DIRECTIVE_HEADER
    Blank,     \* directives that are white space only
    Line,      \* the text a directive renders to
    Lists,     \* the directive lists of reviewers' answers and of the seeds
    MaxSeams   \* bound: how often a goal passes a seam

ASSUME TextAssumption ==
    /\ Blank \subseteq Directive
    /\ \A ds \in Lists : ds \in Seq(Directive)
    /\ HDR \in Token
    /\ Line \in [Directive -> Seq(Token)]
    /\ Base \subseteq Seq(Token) /\ BlankBase = {<<>>}
    /\ MaxSeams \in Nat

VARIABLES
    original,    \* the goal as it was submitted
    text,        \* the goal as the tool args hold it
    accumulated, \* the directives of the review that is running
    seams        \* releases so far

textVars == <<original, text, accumulated, seams>>

MutantMergeInFront(existing, new) ==
    FoldLeft(LAMBDA out, d : IF d \in Blank \/ d \in ToSet(out) THEN out ELSE <<d>> \o out,
             existing, new)

MutantMergeRepeats(existing, new) ==
    FoldLeft(LAMBDA out, d : IF d \in Blank THEN out ELSE Append(out, d), existing, new)

\* Append what is new, in order, without blanks and repeats.
MergeDirectives(existing, new) ==
    FoldLeft(LAMBDA out, d : IF d \in Blank \/ d \in ToSet(out) THEN out ELSE Append(out, d),
             existing, new)

\* [d.strip() for d in ds if d.strip()]
Cleaned(ds) ==
    FoldLeft(LAMBDA out, d : IF d \in Blank THEN out ELSE Append(out, d), <<>>, ds)

\* validate_tighten returns; the cap counts the list before blanks are dropped.
Validates(base, ds) ==
    /\ base \notin BlankBase
    /\ Len(ds) <= MaxDirectives
    /\ \A d \in ToSet(Cleaned(ds)) : d \notin Forbidden

\* No directives, no block: the base is dispatched as it is.
RenderDirectives(ds) ==
    IF Cleaned(ds) = <<>> THEN <<>>
    ELSE FoldLeft(LAMBDA out, d : out \o Line[d], <<HDR>>, Cleaned(ds))

AssembleDispatched(base, ds) == base \o RenderDirectives(ds)

MutantExtractLast(goal) ==
    LET at == {i \in DOMAIN goal : goal[i] = HDR}
    IN  IF at = {} THEN goal
        ELSE SubSeq(goal, 1, (CHOOSE i \in at : \A j \in at : j <= i) - 1)

\* raw_goal.split(_DIRECTIVE_HEADER, 1)[0]
ExtractBase(goal) ==
    LET at == {i \in DOMAIN goal : goal[i] = HDR}
    IN  IF at = {} THEN goal
        ELSE SubSeq(goal, 1, (CHOOSE i \in at : \A j \in at : i <= j) - 1)

-----------------------------------------------------------------------------

TextInit ==
    /\ original \in Base
    /\ text = original
    /\ accumulated = <<>>
    /\ seams = 0

\* A round of the review of the goal that the seam was given.
Round(new) ==
    LET merged == MergeDirectives(accumulated, new) IN
    /\ seams < MaxSeams
    /\ Validates(ExtractBase(text), merged)
    /\ accumulated' = Cleaned(merged)
    /\ UNCHANGED <<original, text, seams>>

\* The review ends in a release, and the seam rewrites the goal.
RewriteGoal ==
    /\ seams < MaxSeams
    /\ Validates(ExtractBase(text), accumulated)
    /\ text' = AssembleDispatched(ExtractBase(text), accumulated)
    /\ accumulated' = <<>>
    /\ seams' = seams + 1
    /\ UNCHANGED original

TextNext == (\E new \in Lists : Round(new)) \/ RewriteGoal

TextSpec == TextInit /\ [][TextNext]_textVars

-----------------------------------------------------------------------------

\* The sets of Tightening say all that matters about the ordered lists: whatever was
\* accumulated and whatever an answer adds, with its repeats and blanks, the merged
\* list has the merged set's elements, each once, and both validate alike.
SetViewIsExact ==
    \A new \in Lists :
        LET merged == MergeDirectives(accumulated, new)
            view   == Merge(ToSet(accumulated), ToSet(new) \ Blank)
        IN  /\ ToSet(merged) = view
            /\ IsInjective(merged)
            /\ Validates(ExtractBase(text), merged) <=> ValidTighten(ExtractBase(text), view)

\* A round only appends: what earlier rounds and seeds put into the block stays, in
\* the same order, until the dispatch is released.
RoundsOnlyAppend ==
    [][seams' = seams => IsPrefix(accumulated, accumulated')]_textVars

\* However often a goal passes a seam, with whatever block of directives, also one
\* that quotes the header, the base it is reviewed on is the one submitted: the
\* gate never tightens the tightened.
BaseIsRecovered == ExtractBase(text) = original

=============================================================================
