------------------------------- MODULE Lexer --------------------------------
(***************************************************************************)
(* mrv_lex of tools/mirv.c: it cuts a text into tokens, which it appends   *)
(* to a stream, and skips blanks and comments.  Offsets count from 0.      *)
(*                                                                         *)
(* The text is whatever it is told the text is; behind its last character  *)
(* there is another one, which the lexer reads when the text ends with a   *)
(* blank.                                                                  *)
(***************************************************************************)
EXTENDS Integers, Sequences, FiniteSets, SequencesExt, FiniteSetsExt

CONSTANTS
  Letters, Digits,  \* characters, and the words made of them:
  Texts,            \* sequences of characters
  Beyond,           \* what may be behind a text
  Keywords,         \* words that are keywords
  Hash(_)           \* ak_hash_16

Blank == " "
NUL == "0"    \* '\0'
SingleChars == {")", "{", "}", ":", ",", ";", "="}

\* What is assumed of the characters and the texts.
CharsAreApart ==
  /\ Letters \intersect Digits = {}
  /\ (Letters \union Digits) \intersect (SingleChars \union {Blank, NUL, "%", "-", "(", "<", ">"}) = {}
  /\ \A t \in Texts : t \in Seq(STRING) /\ t # <<>>

ASSUME LexerAssumption == CharsAreApart

VARIABLES
  text, beyond,
  offset,     \* ctx.current_offset
  mode,       \* "text", "comment" (in the loop that looks for its end), "done"
  stream,     \* the tokens that were appended
  n_reported, \* calls of mrv_report_error; the first one is written out
  comments,   \* where comments were, from their "(*" to behind their "*)"
  aborted     \* the assertion of mrv_lexer_peek failed

inputVars == <<text, beyond>>
vars == <<inputVars, offset, mode, stream, n_reported, comments, aborted>>

Token(kind, from, len) == [kind |-> kind, offset |-> from, len |-> len]

Init ==
  /\ text \in Texts /\ beyond \in Beyond
  /\ offset = 0
  /\ mode = "text"
  /\ stream = <<>>
  /\ n_reported = 0
  /\ comments = {}
  /\ aborted = FALSE

CharAt(i) == IF i < Len(text) THEN text[i + 1] ELSE beyond

\* mrv_lexer_skip_whitespace: where it stops, the end of the text included.
AfterBlanks == Min({i \in offset .. Len(text) : i = Len(text) \/ CharAt(i) # Blank})

\* mrv_lexer_skip
Skipped(i) == IF i < Len(text) THEN i + 1 ELSE i

\* mrv_lexer_match_sequence.  What is at the very end of the text does not match.
Matches(i, seq) == i + Len(seq) < Len(text) /\ SubSeq(text, i + 1, i + Len(seq)) = seq

IsWordChar(c) == c \in Letters \union Digits \union {"_"}

WordEnd(i) == Min({j \in i .. Len(text) : j = Len(text) \/ ~IsWordChar(CharAt(j))})

\* The kind of a word: that of the keyword that has the same hash.
WordKind(word, kind) == IF \E k \in Keywords : Hash(k) = Hash(word) THEN "Keyword" ELSE kind

Emit(tok) == stream' = Append(stream, tok)

\* mrv_lexer_scan_ident from i, and the append of what it returns.
ScanIdent(i, kind) ==
  /\ IF WordEnd(i) = i
       THEN /\ Emit(Token("Error", 0, 0))
            /\ n_reported' = n_reported + 1
       ELSE /\ Emit(Token(WordKind(SubSeq(text, i + 1, WordEnd(i)), kind), i, WordEnd(i) - i))
            /\ UNCHANGED n_reported
  /\ offset' = WordEnd(i)

\* Mutant: the end of the text is not looked for.
ConsumeAnyChar(i) ==
  /\ Emit(Token(CharAt(i), i, 1))
  /\ offset' = i + 1
  /\ UNCHANGED n_reported

\* mrv_lexer_consume_char at i, and the append of what it returns.
ConsumeChar(i) ==
  IF i >= Len(text)
    THEN /\ Emit(Token("Error", 0, 0))
         /\ n_reported' = n_reported + 1
         /\ offset' = i
    ELSE /\ Emit(Token(CharAt(i), i, 1))
         /\ offset' = i + 1
         /\ UNCHANGED n_reported

\* Mutant: the character is read over, as are blanks.
PassOver(i) ==
  /\ offset' = Skipped(i)
  /\ UNCHANGED <<stream, n_reported>>

\* The label unexpected_char.
UnexpectedChar(i) ==
  /\ Emit(Token("Error", i, 1))
  /\ n_reported' = n_reported + 1
  /\ offset' = Skipped(i)

\* A token of two characters, or neither of them is expected.
TakePair(i, pair, kind) ==
  IF Matches(i, pair)
    THEN /\ Emit(Token(kind, i, 2))
         /\ offset' = i + 2
         /\ UNCHANGED n_reported
    ELSE UnexpectedChar(i)

-----------------------------------------------------------------------------
(* The rounds of the loop of mrv_lex: blanks are skipped, and then the     *)
(* next character, which may be the one behind the text, decides.          *)

Round(chars) ==
  /\ ~aborted /\ mode = "text" /\ offset < Len(text)
  /\ CharAt(AfterBlanks) \in chars
  /\ UNCHANGED inputVars

LexIdent ==
  /\ Round(Letters)
  /\ ScanIdent(AfterBlanks, "Ident")
  /\ UNCHANGED <<mode, comments, aborted>>

LexSymbol ==
  /\ Round({"%"})
  /\ ScanIdent(Skipped(AfterBlanks), "SymbolIdent")
  /\ UNCHANGED <<mode, comments, aborted>>

\* mrv_lexer_peek takes it for granted that the next character is not NUL.
LexArrow ==
  /\ Round({"-"})
  /\ LET i == AfterBlanks
     IN IF i < Len(text) - 1 /\ CharAt(i + 1) = NUL
          THEN /\ aborted' = TRUE
               /\ UNCHANGED <<offset, stream, n_reported>>
          ELSE /\ IF i < Len(text) - 1 /\ CharAt(i + 1) = ">"
                    THEN /\ Emit(Token("RightArrow", i, 2))
                         /\ offset' = i + 2
                         /\ UNCHANGED n_reported
                    ELSE UnexpectedChar(i)
               /\ UNCHANGED aborted
  /\ UNCHANGED <<mode, comments>>

LexAngle ==
  /\ \/ Round({"<"}) /\ TakePair(AfterBlanks, <<"<", "<">>, "BeginHostType")
     \/ Round({">"}) /\ TakePair(AfterBlanks, <<">", ">">>, "EndHostType")
  /\ UNCHANGED <<mode, comments, aborted>>

\* "()" is one token, and "(*" opens a comment.
LexParen ==
  /\ Round({"("})
  /\ ~Matches(AfterBlanks, <<"(", "*">>)
  /\ IF Matches(AfterBlanks, <<"(", ")">>)
       THEN /\ Emit(Token("Unit", AfterBlanks, 2))
            /\ offset' = AfterBlanks + 2
            /\ UNCHANGED n_reported
       ELSE ConsumeChar(AfterBlanks)
  /\ UNCHANGED <<mode, comments, aborted>>

LexSingleChar ==
  /\ Round(SingleChars)
  /\ ConsumeChar(AfterBlanks)
  /\ UNCHANGED <<mode, comments, aborted>>

LexNUL ==
  /\ Round({NUL})
  /\ offset' = Skipped(AfterBlanks)
  /\ UNCHANGED <<mode, stream, n_reported, comments, aborted>>

LexUnexpected ==
  /\ ~aborted /\ mode = "text" /\ offset < Len(text)
  /\ CharAt(AfterBlanks) \notin Letters \union SingleChars \union {"%", "-", "<", ">", "(", NUL}
  /\ UnexpectedChar(AfterBlanks)
  /\ UNCHANGED <<inputVars, mode, comments, aborted>>

\* The two characters behind "(*" are skipped unseen.
OpenComment ==
  /\ Round({"("})
  /\ Matches(AfterBlanks, <<"(", "*">>)
  /\ mode' = "comment"
  /\ offset' = Skipped(Skipped(AfterBlanks + 2))
  /\ comments' = comments \union {[from |-> AfterBlanks, to |-> Len(text)]}
  /\ UNCHANGED <<stream, n_reported, aborted>>

\* Mutant: the loop does not get on.
StayInComment ==
  /\ mode = "comment" /\ ~Matches(offset, <<"*", ")">>)
  /\ UNCHANGED vars

SkipInComment ==
  /\ mode = "comment" /\ ~Matches(offset, <<"*", ")">>)
  /\ offset' = Skipped(offset)
  /\ UNCHANGED <<inputVars, mode, stream, n_reported, comments, aborted>>

\* The character behind the comment is skipped, too.
CloseComment ==
  /\ mode = "comment" /\ Matches(offset, <<"*", ")">>)
  /\ mode' = "text"
  /\ offset' = Skipped(offset + 2)
  /\ comments' = {IF c.to = Len(text) THEN [c EXCEPT !.to = offset + 2] ELSE c : c \in comments}
  /\ UNCHANGED <<inputVars, stream, n_reported, aborted>>

EndOfFile ==
  /\ ~aborted /\ mode = "text" /\ offset >= Len(text)
  /\ Emit(Token("EOF", offset, 0))
  /\ mode' = "done"
  /\ UNCHANGED <<inputVars, offset, n_reported, comments, aborted>>

Next ==
  \/ LexIdent \/ LexSymbol \/ LexArrow \/ LexAngle \/ LexParen \/ LexSingleChar \/ LexNUL
  \/ LexUnexpected \/ OpenComment \/ SkipInComment \/ CloseComment \/ EndOfFile

\* One thread that is never interrupted.
Spec == Init /\ [][Next]_vars /\ WF_vars(Next)

-----------------------------------------------------------------------------
(* Properties.                                                             *)

TypeOK ==
  /\ offset \in 0 .. Len(text)
  /\ mode \in {"text", "comment", "done"}
  /\ n_reported \in 0 .. Len(stream)
  /\ aborted \in BOOLEAN

End(tok) == tok.offset + tok.len

\* Errors without a place, and the one about what is behind the text, are not
\* cut out of the text.
IsCut(tok) == tok.kind # "Error" \/ (tok.len > 0 /\ tok.offset < Len(text))

\* Tokens are cut out of the text, one behind the other; what is behind the
\* text is part of none.
TokensAreOfTheText ==
  \A i \in DOMAIN stream :
    IsCut(stream[i]) =>
      /\ End(stream[i]) <= Len(text)
      /\ \A k \in 1 .. i - 1 : IsCut(stream[k]) => End(stream[k]) <= stream[i].offset

\* A name or a keyword goes on for as long as the word does.
WordsAreWhole ==
  \A i \in DOMAIN stream :
    /\ stream[i].kind \in {"Ident", "SymbolIdent", "Keyword"}
    /\ End(stream[i]) < Len(text)
    => CharAt(End(stream[i])) \notin Letters \union Digits \union {"_"}

\* No character is lost: what the lexer has left behind is a blank, NUL, the
\* mark of a symbol, or belongs to a token or a comment.  The character
\* directly behind a comment is the exception: it is lost.
NothingIsLost ==
  \A i \in 0 .. offset - 1 :
    \/ CharAt(i) \in {Blank, NUL, "%"}
    \/ \E k \in DOMAIN stream : i \in stream[k].offset .. End(stream[k]) - 1
    \/ \E c \in comments : i \in c.from .. c.to

\* There is a token of kind Error for every error that is reported, and no
\* other: that token is all that is left of the error, since nobody looks at
\* ctx.err.
ErrorsLeaveATrace ==
  n_reported = Cardinality({i \in DOMAIN stream : stream[i].kind = "Error"})

\* The comment the lexer is in has no end any more that could match.
CommentIsOpen ==
  mode = "comment" /\ \A i \in offset .. Len(text) : ~Matches(i, <<"*", ")">>)

\* Every text is lexed to its end, unless a comment in it is not closed.
Terminates == <>(mode = "done" \/ aborted \/ CommentIsOpen)

\* The tokens are whole words and marks of the text, in its order, and none is
\* made of what is behind the text (mrv_lex).
TokensAreTheText == TypeOK /\ TokensAreOfTheText /\ WordsAreWhole

\* Neither a character nor an error goes without a trace in the stream
\* (mirv.c 391-457).
NothingGoesUnseen == NothingIsLost /\ ErrorsLeaveATrace
=============================================================================
