------------------------------ MODULE MCParser ------------------------------
(* Values of the constants of Parser for TLC. *)
EXTENDS Parser

Arg == <<"SymbolIdent", "Colon", "Ident">>
InCombinator == <<"Combinator", "Ident", "OpenParen", "Ident", "Colon", "Ident", "CloseParen", "OpenBrace">>

MCBeginnings ==
  {<<kind>> : kind \in TokenKind}
    \union {<<"Operator", "Ident", "OpenParen">> \o Arg \o Arg,
            InCombinator,
            InCombinator \o <<"Ident", "OpenParen", "Unit", "CloseParen", "Semicolon">>,
            InCombinator \o Arg \o <<"Equals", "Lambda">>,
            InCombinator \o Arg \o <<"Equals", "Lambda", "OpenParen">> \o Arg \o Arg}
=============================================================================
