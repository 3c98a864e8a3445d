-------------------------------- MODULE MCText --------------------------------
\* An operator with up to two operands.
EXTENDS Text

Letters == [A |-> "a", B |-> "b"]
TheDigits == <<"0", "1", "2", "3", "4", "5", "6", "7", "8", "9">>
TheKeywords == {<<"a", "b">>}
\* One becomes a keyword, one has neighbouring capitals, two differ only in
\* their last capital.
TheNames == {<<"A", "b">>, <<"A", "A", "b">>, <<"A", "b", "A">>, <<"A", "b", "B">>}
Decimals == (-128 :> <<"-", "1", "2", "8">>) @@ (0 :> <<"0">>) @@ (105 :> <<"1", "0", "5">>)
\* Plain characters, the two conversions, an open one (an empty one when "}"
\* follows) and one that is unknown.
ThePieces == {<<"x">>, <<"%">>, <<"{">>, <<"}">>, <<"%", "{", "s", "}">>, <<"%", "{", "n", "}">>,
              <<"%", "{">>, <<"%", "{", "x", "}">>}
TheParts == [plain : {TRUE}, text : {<<"x">>, <<"$">>, <<"{">>, <<"}">>}]
              \union [plain : {FALSE}, text : {StrKey, ListKey, <<"x">>, <<>>}]
=============================================================================
