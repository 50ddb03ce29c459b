--------------------------- MODULE MCTightenText ---------------------------
(***************************************************************************)
(* Three ordinary directives, one that quotes the header, a forbidden and  *)
(* a blank one; lists with repeats and blanks; at most three directives.   *)
(***************************************************************************)
EXTENDS TightenText

MCDirective == {"a", "b", "c", "quote", "grant", "blank"}
MCForbidden == {"grant"}
MCBlank == {"blank"}
MCBlankBase == {<<>>}
MCLine == [d \in MCDirective |-> IF d = "quote" THEN <<"quote", "HDR">> ELSE <<d>>]
MCToken == MCDirective \cup {"HDR", "goal"}
MCLists == {<<"a">>, <<"a", "b">>, <<"b", "a", "b">>, <<"quote">>, <<"blank", "c">>,
            <<"grant">>, <<>>}
MCPlainBase == {<<"goal">>, <<>>}
=============================================================================
