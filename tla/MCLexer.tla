------------------------------ MODULE MCLexer -------------------------------
(* Values of the constants of Lexer for TLC.  "k" is a keyword, and "x_" is *)
(* a word that has its hash.  Short texts of any characters, longer ones of *)
(* words, and longer ones with parentheses and comments.                    *)
EXTENDS Lexer, TLC

MCLetters == {"k", "x"}
MCDigits == {"1"}
MCKeywords == {<<"k">>}
MCHash(word) == IF word \in {<<"k">>, <<"x", "_">>} THEN 1 ELSE 2

OfLength(n, chars) == [1 .. n -> chars]

MCTexts ==
  LET wordChars == MCLetters \union MCDigits \union {"_", "%", "-", ">", " "}
      others == {"<", "(", "*", ")", ";", "0"}
      parens == {"(", "*", ")", "x"}
  IN UNION ({OfLength(n, wordChars \union others) : n \in 1 .. 3}
              \union {OfLength(4, wordChars)}
              \union {OfLength(n, parens) : n \in 4 .. 6})
       \union {<<"(", "*">> \o t : t \in OfLength(6, parens)}

MCBeyond == {"0", ";", "*", "x"}
=============================================================================
