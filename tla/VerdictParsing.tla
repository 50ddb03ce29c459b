--------------------------- MODULE VerdictParsing ---------------------------
(***************************************************************************)
(* From the reviewer's raw completion to a verdict (core/verdict.py).      *)
(*                                                                         *)
(* A completion is abstracted to what parse_verdict distinguishes about    *)
(* it.  Parsing ends in one of three ways: a Verdict; a VerdictParseError, *)
(* which the gate turns into a block; or another exception, which it does  *)
(* not catch.  The last one is real: int(data.get("round")) is evaluated   *)
(* on whatever the reviewer put there, and int(difficulty) has a handler   *)
(* for ValueError and TypeError, but not for the OverflowError of 1e999.   *)
(***************************************************************************)
EXTENDS Tightening

RawAnswer ==
    [decodes    : BOOLEAN,   \* a non-blank string holding a JSON object
     verdict    : {"pass", "revise", "block", "unknown", "not_a_string"},
     listOk     : BOOLEAN,   \* added_directives absent, or a list of strings
     directives : SUBSET Directive,
     scopeOk    : BOOLEAN,   \* scope_assessment absent, or one of VALID_SCOPES
     round      : {"count", "negative", "not_a_number"},
     hintOk     : BOOLEAN,   \* difficulty is anything but an infinite number
     model      : {"", "self_named"},  \* reviewer_model as the answer claims it
     protected  : BOOLEAN]   \* its text hits a _PROTECTED_BLOCK_HINTS word

ParseErrorBeforeRound(raw) ==
    ~raw.decodes \/ raw.verdict = "not_a_string" \/ ~raw.listOk

\* int(...) is evaluated after the directive list is coerced and before
\* Verdict.__post_init__ looks at the enums.
ParseCrashes(raw) ==
    ~ParseErrorBeforeRound(raw) /\ (raw.round = "not_a_number" \/ ~raw.hintOk)

ParsesToVerdict(raw) ==
    /\ ~ParseErrorBeforeRound(raw)
    /\ raw.round = "count" /\ raw.hintOk
    /\ raw.verdict \in {"pass", "revise", "block"}
    /\ raw.scopeOk

ParseError(raw) == ~ParsesToVerdict(raw) /\ ~ParseCrashes(raw)

=============================================================================
