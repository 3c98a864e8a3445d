--------------------------------- MODULE Text ---------------------------------
(***************************************************************************)
(* How base.c and mirv.c make text: names into identifiers, formats into   *)
(* strings, strings into a list, and a template into what is written.      *)
(* Everything is done twice or in pieces: snake case is counted and then   *)
(* written, ak_sprintf runs ak_vprintf with a writer that counts and again *)
(* with one that copies, and ak_vprintf collects plain text until there is *)
(* something else to write.                                                *)
(*                                                                         *)
(* mrv_sg_append_fn puts them together: each operand of an operator has a  *)
(* name, which is turned to snake case, a string that is formatted with it *)
(* and a place in a list; then the operator is named and the template      *)
(* written.  A text is a sequence of characters.                           *)
(***************************************************************************)
EXTENDS Integers, Sequences, FiniteSets, SequencesExt, FiniteSetsExt

CONSTANTS
  LowerOf,        \* the lower case of every capital letter
  Digits,         \* '0' to '9'
  Keywords,       \* of C
  Names,          \* the names of operands and operators
  DecimalOf,      \* the numbers that are formatted, and how they are written
  Pieces,         \* the pieces of formats
  Parts,          \* and of templates: plain text, or the key of a field
  MaxOperands,    \* bounds: operands,
  MaxPieces       \*   and pieces of formats and templates, in all

\* The conversions "%{str}" and "%{i64}".
StrSpec == <<"s">>
NumSpec == <<"n">>

\* The keys of a template: that of a list begins with "L:".
StrKey == <<"k">>
ListKey == <<"L", ":", "l">>

Numbers == DOMAIN DecimalOf

ASSUME TextAssumption ==
  /\ \A ch \in DOMAIN LowerOf : LowerOf[ch] \notin DOMAIN LowerOf
  /\ Len(Digits) = 10 /\ IsInjective(Digits)
  /\ Numbers \subseteq Int /\ <<>> \notin Names
  /\ \A part \in Parts : part.plain \in BOOLEAN
  /\ {MaxOperands, MaxPieces} \subseteq Nat

VARIABLES
  phase,        \* "name", "format", "scan", "out", "memory", "append", "template", "done"
  size,         \* how many pieces there have been
  halted,       \* the assertion that failed, or "no"
  operands,     \* the names of operands and their snake case
  operator,     \* the operator: its name and identifier, once there is one
  pieces,       \* the format, by its pieces,
  format,       \*   and by its characters
  first,        \* the arguments: numbers from this on
  pass,         \* what is done with the format: "count" or "write"
  pos,          \* i: the next character of it
  from,         \* buf.p: where the plain text begins
  taken,        \* how many arguments va_arg gave
  error,        \* of this call of ak_vprintf
  count,        \* closure.count_len
  out,          \* closure.out
  strings,      \* the list
  output        \* what the template became

callVars == <<pass, pos, from, taken, error>>
printVars == <<pieces, format, first, callVars, count, out>>
vars == <<phase, size, halted, operands, operator, printVars, strings, output>>

Init ==
  /\ phase = "name" /\ size = 0 /\ halted = "no"
  /\ operands = <<>> /\ operator = <<>>
  /\ pieces = <<>> /\ format = <<>> /\ first = 0
  /\ pass = "count" /\ pos = 1 /\ from = 1 /\ taken = 0 /\ error = FALSE
  /\ count = 0 /\ out = <<>>
  /\ strings = <<>> /\ output = <<>>

-----------------------------------------------------------------------------
(* ak_str8_pascal_to_snake_case.                                           *)

IsCapital(ch) == ch \in DOMAIN LowerOf

\* Mutant: every capital but the first is counted for two.
CountsCapital(s, i) == i # 1 /\ IsCapital(s[i])

\* A capital behind anything else is counted for two characters,
CountsTwo(s, i) == i # 1 /\ IsCapital(s[i]) /\ ~IsCapital(s[i - 1])

CountedLen(s) == Len(s) + Cardinality({i \in DOMAIN s : CountsTwo(s, i)})

\* and written as an underscore and a letter.
WriteLetter(s, i) ==
  IF ~IsCapital(s[i]) THEN <<s[i]>>
  ELSE IF i # 1 /\ ~IsCapital(s[i - 1]) THEN <<"_", LowerOf[s[i]]>>
  ELSE <<LowerOf[s[i]]>>

WrittenUpTo(s, n) == FlattenSeq([i \in 1 .. n |-> WriteLetter(s, i)])

\* The assertion at the start of every round.
SnakeFits(s) == \A i \in DOMAIN s : Len(WrittenUpTo(s, i - 1)) < CountedLen(s)

\* What was counted and not written stays zero.
SnakeCase(s) ==
  LET written == WrittenUpTo(s, Len(s))
  IN written \o [i \in 1 .. CountedLen(s) - Len(written) |-> "NUL"]

\* ak_strcmp = 0: a longer text differs from a shorter one unless what follows
\* it is NUL.
IsEqual(a, b) ==
  IF Len(a) > Len(b) THEN a[Len(b) + 1] = "NUL"
  ELSE IF Len(b) > Len(a) THEN b[Len(a) + 1] = "NUL"
  ELSE a = b

\* mrv_sg_pascal_to_snake_escaped
Escape(s) == IF \E k \in Keywords : IsEqual(k, s) THEN s \o <<"_">> ELSE s

NameOperand(name) ==
  /\ phase = "name" /\ halted = "no" /\ Len(operands) < MaxOperands
  /\ operands' = Append(operands, [name |-> name, snake |-> SnakeCase(name)])
  /\ halted' = IF SnakeFits(name) THEN "no" ELSE "snake"
  /\ phase' = "format"
  /\ UNCHANGED <<size, operator, printVars, strings, output>>

NameOperator(name) ==
  /\ phase = "name" /\ halted = "no"
  /\ operator' = <<[name |-> name, ident |-> Escape(SnakeCase(name))]>>
  /\ halted' = IF SnakeFits(name) THEN "no" ELSE "snake"
  /\ phase' = "template"
  /\ UNCHANGED <<size, operands, printVars, strings, output>>

-----------------------------------------------------------------------------
(* ak_vprintf under ak_sprintf.                                            *)

\* The closure, and va_start when the first pass begins.
StartPrint(ps, n) ==
  /\ phase = "format" /\ halted = "no"
  /\ size' = size + Len(ps)
  /\ pieces' = ps /\ format' = FlattenSeq(ps) /\ first' = n
  /\ pass' = "count" /\ count' = 0 /\ out' = <<>>
  /\ pos' = 1 /\ from' = 1 /\ taken' = 0 /\ error' = FALSE
  /\ phase' = "scan"
  /\ UNCHANGED <<halted, operands, operator, strings, output>>

IsSpecAt(i) == i + 1 <= Len(format) /\ format[i] = "%" /\ format[i + 1] = "{"

Buf == SubSeq(format, from, pos - 1)

\* ak_sprintf_count
Count(c, txt) == c + Len(txt)

\* ak_write, with the writer of this pass.
WriteAll(txts) ==
  IF pass = "count"
    THEN count' = FoldLeft(Count, count, txts) /\ UNCHANGED out
    ELSE out' = out \o FlattenSeq(txts) /\ UNCHANGED count

\* ak_write_itoa: the digits from the last to the first, of a number that is
\* made positive without leaving its type, and the sign; then all turned around.
AbsOf(n) == IF n < 0 THEN -(n + 1) + 1 ELSE n

DigitsOf(n) ==
  LET digits[k \in Nat] ==
        <<Digits[(k % 10) + 1]>> \o (IF k < 10 THEN <<>> ELSE digits[k \div 10])
  IN digits[AbsOf(n)]

WriteItoa(n) == Reverse(DigitsOf(n) \o (IF n < 0 THEN <<"-">> ELSE <<>>))

\* The arguments after va_start are as many as the format takes: the number n
\* of them is one of the numbers in turn, or the operand where a string is due.
NumberAt(n) == SetToSeq(Numbers)[((first + n) % Cardinality(Numbers)) + 1]

Argument(spec, n) == IF spec = StrSpec THEN Last(operands).snake ELSE WriteItoa(NumberAt(n))

\* Where the plain text begins behind a conversion that ends there.
BehindSpec(end) == end + 1

\* Plain text is only remembered.
SkipText ==
  /\ phase = "scan" /\ halted = "no"
  /\ pos <= Len(format) /\ ~IsSpecAt(pos)
  /\ pos' = Min({i \in pos .. Len(format) : IsSpecAt(i)} \union {Len(format) + 1})
  /\ UNCHANGED <<phase, size, halted, operands, operator, pieces, format, first, pass, from, taken, error,
                 count, out, strings, output>>

\* An empty conversion, or one that is not in the table.
IsNoSpec(spec) == spec = <<>> \/ spec \notin {StrSpec, NumSpec}

\* The text before a conversion is written before the conversion is looked at,
\* and after an error it is still there to be written.
Convert ==
  /\ phase = "scan" /\ halted = "no" /\ IsSpecAt(pos)
  /\ LET ends == {i \in pos + 2 .. Len(format) : format[i] = "}"}
         spec == SubSeq(format, pos + 2, Min(ends) - 1)
     IN IF Len(format) <= pos + 1
          THEN /\ WriteAll(<<Buf>>)
               /\ halted' = "format"
               /\ UNCHANGED <<phase, pos, from, taken, error>>
        ELSE IF ends = {} \/ IsNoSpec(spec)
          THEN /\ WriteAll(<<Buf>>)
               /\ error' = TRUE /\ phase' = "out"
               /\ UNCHANGED <<halted, pos, from, taken>>
        ELSE /\ WriteAll(<<Buf, Argument(spec, taken)>>)
             /\ taken' = taken + 1
             /\ pos' = Min(ends) + 1 /\ from' = BehindSpec(Min(ends))
             /\ UNCHANGED <<phase, halted, error>>
  /\ UNCHANGED <<size, operands, operator, pieces, format, first, pass, strings, output>>

\* The label out.
EndPrint ==
  /\ phase = "out" \/ (phase = "scan" /\ pos > Len(format))
  /\ halted = "no"
  /\ WriteAll(IF error THEN <<Buf, <<"(error)">>>> ELSE <<Buf>>)
  /\ phase' = IF pass = "count" THEN "memory" ELSE "append"
  /\ UNCHANGED <<size, halted, operands, operator, pieces, format, first, callVars, strings, output>>

\* Mutant: the arguments go on where the first pass left them.
KeepArguments(n) == n

\* va_start
StartArguments(n) == 0

\* Between the passes ak_sprintf allocates what was counted.
AllocateString ==
  /\ phase = "memory" /\ halted = "no"
  /\ pass' = "write" /\ phase' = "scan"
  /\ pos' = 1 /\ from' = 1 /\ taken' = StartArguments(taken) /\ error' = FALSE
  /\ UNCHANGED <<size, halted, operands, operator, pieces, format, first, count, out, strings, output>>

\* ak_str8_pascal_to_snake_case or ak_sprintf found no memory: the generator
\* asserts that they do.
OutOfMemory ==
  /\ phase \in {"name", "memory"} /\ halted = "no"
  /\ halted' = "memory"
  /\ UNCHANGED <<phase, size, operands, operator, printVars, strings, output>>

-----------------------------------------------------------------------------
(* ak_strlist_append, and mrv_write_tmpl.                                  *)

\* Nobody asks whether there was memory for it.  The locals of the print end.
AppendString(ok) ==
  /\ phase = "append" /\ halted = "no"
  /\ strings' = IF ok THEN Append(strings, out) ELSE strings
  /\ phase' = "name"
  /\ pieces' = <<>> /\ format' = <<>> /\ first' = 0
  /\ pass' = "count" /\ pos' = 1 /\ from' = 1 /\ taken' = 0 /\ error' = FALSE
  /\ count' = 0 /\ out' = <<>>
  /\ UNCHANGED <<size, halted, operands, operator, output>>

\* Mutant: the second "}" of a field is not skipped.
BehindBrace(scan) == scan + 2

\* Where the template goes on behind a key whose last character is at scan.
BehindField(scan) == scan + 3

\* Mutant: one brace makes a field.
IsDollarBraceAt(t, i) == i + 1 <= Len(t) /\ SubSeq(t, i, i + 1) = <<"$", "{">>

IsFieldAt(t, i) == i + 2 <= Len(t) /\ SubSeq(t, i, i + 2) = <<"$", "{", "{">>

\* scan, for the field at i.
KeyEnd(t, i) ==
  Min({j \in i + 2 .. Len(t) + 1 : j >= Len(t) \/ t[j] = "}" \/ t[j + 1] = "}"})

IsListKey(key) == Len(key) > 2 /\ SubSeq(key, 1, 2) = <<"L", ":">>

\* The value of a key, in a table of two, or nothing.  A list is written from
\* its first string to its last.
ValueOf(key) ==
  CASE IsListKey(key) /\ IsEqual(key, ListKey) -> <<FlattenSeq(strings)>>
    [] ~IsListKey(key) /\ IsEqual(key, StrKey) -> <<operator[1].ident>>
    [] OTHER -> <<>>

\* What is written of a template, and whether a key was in no table.
WriteTemplate(t) ==
  LET fromHere[i \in 1 .. Len(t) + 4] ==
        IF i > Len(t) THEN [text |-> <<>>, unknown |-> FALSE]
        ELSE IF ~IsFieldAt(t, i) THEN [fromHere[i + 1] EXCEPT !.text = <<t[i]>> \o @]
        ELSE LET value == ValueOf(SubSeq(t, i + 3, KeyEnd(t, i)))
             IN IF value = <<>> THEN [text |-> <<>>, unknown |-> TRUE]
                ELSE [fromHere[BehindField(KeyEnd(t, i))] EXCEPT !.text = value[1] \o @]
  IN fromHere[1]

\* The characters of a part.
Spelled(part) ==
  IF part.plain THEN part.text ELSE <<"$", "{", "{">> \o part.text \o <<"}", "}">>

Generate(parts) ==
  /\ phase = "template" /\ halted = "no"
  /\ size' = size + Len(parts)
  /\ LET w == WriteTemplate(FlattenSeq([i \in DOMAIN parts |-> Spelled(parts[i])]))
     IN /\ output' = <<[parts |-> parts, text |-> w.text]>>
        /\ halted' = IF w.unknown THEN "field" ELSE "no"
  /\ phase' = "done"
  /\ UNCHANGED <<operands, operator, printVars, strings>>

\* Those that fit into what is left of the bound.
SeqsOf(set) == UNION {[1 .. k -> set] : k \in 0 .. MaxPieces - size}

Next ==
  \/ \E name \in Names : NameOperand(name) \/ NameOperator(name)
  \/ phase = "format" /\ \E ps \in SeqsOf(Pieces), n \in 0 .. Cardinality(Numbers) - 1 : StartPrint(ps, n)
  \/ SkipText \/ Convert \/ EndPrint
  \/ AllocateString \/ OutOfMemory
  \/ \E ok \in BOOLEAN : AppendString(ok)
  \/ phase = "template" /\ \E parts \in SeqsOf(Parts) : Generate(parts)

Spec == Init /\ [][Next]_vars
-----------------------------------------------------------------------------
(* Properties.                                                             *)

\* Every variable has its type: the plain text that waits begins before the next
\* character or at it, and ends before it (base.c 227, 289).
TypeOK ==
  /\ phase \in {"name", "format", "scan", "out", "memory", "append", "template", "done"}
  /\ halted \in {"no", "snake", "format", "memory", "field"}
  /\ size \in 0 .. MaxPieces
  /\ \A i \in DOMAIN operands : operands[i].name \in Names
  /\ Len(operator) <= 1
  /\ first \in 0 .. Cardinality(Numbers) /\ pass \in {"count", "write"}
  /\ pos \in 1 .. Len(format) + 1 /\ from \in 1 .. pos
  /\ taken \in 0 .. Len(pieces) /\ error \in BOOLEAN /\ count \in Nat
  /\ Len(strings) <= Len(operands) /\ Len(output) <= 1

\* The count and the writing of a snake case agree (base.c 424, 441): nothing is
\* written behind what was counted, there is no character in an identifier that
\* was not written, and so that of an operator is no keyword, though keywords
\* are compared up to such characters.
NamesAreWhole ==
  /\ \A i \in DOMAIN operands :
       /\ Len(operands[i].snake) = CountedLen(operands[i].name)
       /\ "NUL" \notin ToSet(operands[i].snake)
  /\ \A i \in DOMAIN operator :
       "NUL" \notin ToSet(operator[i].ident) /\ operator[i].ident \notin Keywords

\* A name in pascal case: it begins with a capital, and capitals are apart.
IsPascal(s) ==
  /\ IsCapital(s[1]) /\ "_" \notin ToSet(s)
  /\ \A i \in 2 .. Len(s) : ~(IsCapital(s[i]) /\ IsCapital(s[i - 1]))

\* Operands with different names in pascal case have different identifiers: the
\* two parameters and members that mrv_sg_append_fn writes for them
\* (mirv.c 3851, 3877) do not clash.
OperandsDiffer ==
  \A i, j \in DOMAIN operands :
    operands[i].name # operands[j].name /\ IsPascal(operands[i].name) /\ IsPascal(operands[j].name)
      => operands[i].snake # operands[j].snake

\* The second pass of ak_sprintf never writes behind the memory that was taken
\* for what the first one counted, and at its end has filled it (base.c 313, 320).
RoomForText ==
  /\ pass = "write" => Len(out) <= count
  /\ phase = "append" => Len(out) = count

SpecPieces == {<<"%", "{">> \o spec \o <<"}">> : spec \in {StrSpec, NumSpec}}

\* The first piece of the format at which a conversion begins that is none, or 0.
BadPiece ==
  LET Begins(i) ==
        LET text == FlattenSeq(SubSeq(pieces, i, Len(pieces)))
        IN /\ pieces[i] \notin SpecPieces
           /\ Len(text) >= 2 /\ text[1] = "%" /\ text[2] = "{"
      bad == {i \in DOMAIN pieces : Begins(i)}
  IN IF bad = {} THEN 0 ELSE Min(bad)

\* What the first n pieces of the format are to become, each by itself.
Rendered(n) ==
  LET SpecsBefore(i) == Cardinality({j \in 1 .. i - 1 : pieces[j] \in SpecPieces})
      Piece(i) ==
        IF pieces[i] \notin SpecPieces THEN pieces[i]
        ELSE IF pieces[i][3] = "s" THEN Last(operands).snake
        ELSE DecimalOf[NumberAt(SpecsBefore(i))]
  IN FlattenSeq([i \in 1 .. n |-> Piece(i)])

\* A format without a bad conversion becomes its pieces in order: plain text as it
\* is, every conversion its own argument, numbers in decimal (base.c 209-300) and
\* both passes see the same arguments.
FormatsAsWritten ==
  phase = "append" /\ BadPiece = 0 => out = Rendered(Len(pieces))

\* The last of the first n pieces that is a conversion, or 0.
LastSpec(n) == Max({0} \union {i \in 1 .. n : pieces[i] \in SpecPieces})

\* A format with a bad conversion becomes what is before it, and ends with a mark,
\* and no other format does (base.c 250, 263, 282, 296).  Of what is before it the
\* plain text that was flushed last (base.c 235), and nothing else, is there
\* twice: the buffer is not emptied before it is flushed again (base.c 294).
ErrorsAreMarked ==
  phase = "append" =>
    LET ends == out # <<>> /\ Last(out) = "(error)"
        before == BadPiece - 1
        waiting == FlattenSeq(SubSeq(pieces, LastSpec(before) + 1, before))
    IN /\ ends <=> BadPiece # 0
       /\ BadPiece # 0 => out = Rendered(before) \o waiting \o <<"(error)">>

\* Plain parts that happen to begin a field.
PlainField(parts) ==
  \E i \in 1 .. Len(parts) - 2 :
    \A j \in 0 .. 2 : parts[i + j] = [plain |-> TRUE, text |-> <<<<"$", "{", "{">>[j + 1]>>]

\* The assertions of this code fail only for what the client wrote: an open
\* conversion at the end of a format, an unknown field of a template (base.c 241,
\* mirv.c 3293, 3306); and for want of memory, never because a name is longer
\* than it was counted (base.c 439).
HaltsForAReason ==
  /\ halted # "snake"
  /\ halted = "format" => Len(format) >= 2 /\ SubSeq(format, Len(format) - 1, Len(format)) = <<"%", "{">>
  /\ halted = "field" =>
       LET parts == output[1].parts
       IN PlainField(parts) \/ \E i \in DOMAIN parts :
                                  ~parts[i].plain /\ parts[i].text \notin {StrKey, ListKey}

\* What is written of a template is its parts in order, every field replaced by its
\* value and nothing of what is around it lost, and a list is written in the
\* order of its appends (mirv.c 3254-3315, base.c 539-557).
TemplateIsFilled ==
  \A i \in DOMAIN output :
    LET parts == output[i].parts
        Filled(part) == IF part.plain THEN part.text
                        ELSE IF part.text = StrKey THEN operator[1].ident
                        ELSE FlattenSeq(strings)
    IN halted = "no" /\ ~PlainField(parts)
         => output[i].text = FlattenSeq([k \in DOMAIN parts |-> Filled(parts[k])])

\* Identifiers are whole and distinct.
NamesAreSound == TypeOK /\ NamesAreWhole /\ OperandsDiffer

\* A string is what its format says, in memory that was counted for it, and is
\* marked where the format says nothing (ak_sprintf).
PrintsAreSound == RoomForText /\ FormatsAsWritten /\ ErrorsAreMarked
=============================================================================
