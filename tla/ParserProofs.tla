---------------------------- MODULE ParserProofs ----------------------------
(***************************************************************************)
(* What the parser keeps true whatever the source: the lists that are open *)
(* own the stack of references and its memory, only an error makes the     *)
(* parser halt, and without one the tree has every name of the source.     *)
(*                                                                         *)
(* The argument is about what the C stack holds.  Under each move that is  *)
(* still to be made lies a base, the length the stack of references had    *)
(* when the move below it was reached; a loop owns what is between its     *)
(* base and the next one, and its mark is the top of the scratch arena     *)
(* when the stack of references was that long.                             *)
(*                                                                         *)
(* For the tree there is a shape before each move: which nodes and items   *)
(* lie there, in the order of the source.  What a routine leaves behind is *)
(* a number of nodes that does not depend on the way it takes, so that the *)
(* shapes are known; and the pieces that lie in a shape cut the names that *)
(* were consumed into parts, one after the other.                          *)
(***************************************************************************)
EXTENDS Parser, ChainLemmas, SequenceTheorems

-----------------------------------------------------------------------------
(* The moves the routines are made of.  No routine asks for the end of     *)
(* file, and none pushes a reference: only the loops do.                   *)

Asked == TokenKind \ {"EOF"}
ItemLists == {"DeclarationArgList", "InvocationArgList", "Block"}
LeafKinds == {"OtherIdent", "HostTypeIdent", "SymbolIdent", "Unit"}
NodeKinds ==
  {"SymbolDeclaration", "DeclarationArg", "InvocationExpression", "ExpressionStatement",
   "LambdaExpression", "AssignmentStatement", "CombinatorDeclaration", "LanguageDeclaration",
   "NonTrivialType", "TypeDeclaration", "OperatorDeclaration"}

PlainMove ==
  [move : {"expect"}, kind : Asked]
    \union [move : {"leaf"}, kind : Asked, as : LeafKinds]
    \union [move : {"make"}, kind : NodeKinds, n : Nat]
    \union [move : {"nil"}]
    \union [move : {"report"}, error : {"host type"}]
    \union [move : {"begin"}, list : ItemLists, binary : BOOLEAN]

IfOf(moves) == [move : {"if"}, kind : Asked, then : Seq(moves), else : Seq(moves)]

\* A routine that looks at a token calls others that do, at most twice in a row.
ShallowMove == PlainMove \union IfOf(PlainMove)
RoutineMove == ShallowMove \union IfOf(ShallowMove)

LoopMove ==
  [move : {"loop"}, list : ItemLists \union {"Program"}, binary : BOOLEAN, mark : Nat, n : Nat]

Move == RoutineMove \union LoopMove \union {PushRef}

LEMMA MovesOfRoutines ==
  /\ PlainMove \subseteq ShallowMove /\ ShallowMove \subseteq RoutineMove /\ RoutineMove \subseteq Move
  /\ \A m \in RoutineMove : m.move \notin {"loop", "push"} /\ Owned(m) = 0
<1>1. /\ PlainMove \subseteq ShallowMove /\ ShallowMove \subseteq RoutineMove /\ RoutineMove \subseteq Move
  BY DEF ShallowMove, RoutineMove, Move
<1>2. \A m \in RoutineMove : m.move \notin {"loop", "push"}
  BY DEF RoutineMove, ShallowMove, PlainMove, IfOf
<1>. QED BY <1>1, <1>2 DEF Owned

LEMMA SimpleMoves ==
  /\ \A kind \in Asked : Expect(kind) \in PlainMove /\ \A as \in LeafKinds : ExpectLeaf(kind, as) \in PlainMove
  /\ \A kind \in NodeKinds, n \in Nat : Make(kind, n) \in PlainMove
  /\ GiveNil \in PlainMove /\ Report("host type") \in PlainMove
  /\ \A list \in ItemLists, binary \in BOOLEAN : Begin(list, binary) \in PlainMove
<1>1. \A kind \in Asked : Expect(kind) \in PlainMove /\ \A as \in LeafKinds : ExpectLeaf(kind, as) \in PlainMove
  BY DEF PlainMove, Expect, ExpectLeaf
<1>2. \A kind \in NodeKinds, n \in Nat : Make(kind, n) \in PlainMove
  BY DEF PlainMove, Make
<1>3. GiveNil \in PlainMove /\ Report("host type") \in PlainMove
  BY DEF PlainMove, GiveNil, Report
<1>4. \A list \in ItemLists, binary \in BOOLEAN : Begin(list, binary) \in PlainMove
  BY DEF PlainMove, Begin
<1>. QED BY <1>1, <1>2, <1>3, <1>4

LEMMA AskedKinds ==
  {"Ident", "SymbolIdent", "Unit", "Colon", "Comma", "OpenParen", "CloseParen", "OpenBrace",
   "CloseBrace", "Equals", "Lambda", "Semicolon", "RightArrow", "BeginHostType", "EndHostType",
   "Combinator", "Language", "Type", "Operator"} \subseteq Asked
BY DEF Asked, TokenKind

LEMMA Sequels ==
  ASSUME NEW S
  PROVE  /\ \A a \in S : <<a>> \in Seq(S)
         /\ \A a, b \in S : <<a, b>> \in Seq(S)
         /\ \A a, b, c \in S : <<a, b, c>> \in Seq(S)
         /\ \A a, b, c, d \in S : <<a, b, c, d>> \in Seq(S)
         /\ \A p, q \in Seq(S) : p \o q \in Seq(S)
OBVIOUS

\* The moves that are written in the routines.
LEMMA WrittenMoves ==
  /\ Expect("Colon") \in PlainMove /\ Expect("Equals") \in PlainMove /\ Expect("Semicolon") \in PlainMove
  /\ Expect("OpenParen") \in PlainMove /\ Expect("OpenBrace") \in PlainMove
  /\ Expect("EndHostType") \in PlainMove
  /\ ExpectLeaf("Ident", "OtherIdent") \in PlainMove /\ ExpectLeaf("Ident", "HostTypeIdent") \in PlainMove
  /\ ExpectLeaf("SymbolIdent", "SymbolIdent") \in PlainMove /\ ExpectLeaf("Unit", "Unit") \in PlainMove
  /\ Make("SymbolDeclaration", 2) \in PlainMove /\ Make("DeclarationArg", 2) \in PlainMove
  /\ Make("InvocationExpression", 2) \in PlainMove /\ Make("ExpressionStatement", 1) \in PlainMove
  /\ Make("LambdaExpression", 2) \in PlainMove /\ Make("AssignmentStatement", 2) \in PlainMove
  /\ Make("CombinatorDeclaration", 3) \in PlainMove /\ Make("LanguageDeclaration", 1) \in PlainMove
  /\ Make("NonTrivialType", 2) \in PlainMove /\ Make("TypeDeclaration", 2) \in PlainMove
  /\ Make("OperatorDeclaration", 3) \in PlainMove
  /\ GiveNil \in PlainMove /\ Report("host type") \in PlainMove
  /\ \A binary \in BOOLEAN : Begin("DeclarationArgList", binary) \in PlainMove
  /\ Begin("InvocationArgList", FALSE) \in PlainMove /\ Begin("Block", FALSE) \in PlainMove
BY SimpleMoves, AskedKinds DEF LeafKinds, NodeKinds, ItemLists

LEMMA Branches ==
  ASSUME NEW kind \in Asked, NEW S, NEW p \in Seq(S), NEW q \in Seq(S)
  PROVE  If(kind, p, q) \in IfOf(S)
BY DEF If, IfOf

\* The routines that call no other one but to begin a list.
LEMMA PlainRoutines ==
  /\ OtherIdent \in Seq(PlainMove) /\ HostTypeIdent \in Seq(PlainMove)
  /\ SymbolIdent \in Seq(PlainMove) /\ Unit \in Seq(PlainMove)
  /\ \A binary \in BOOLEAN : DeclArgList(binary) \in Seq(PlainMove)
  /\ InvocationArgList \in Seq(PlainMove) /\ Block \in Seq(PlainMove)
  /\ LanguageDecl \in Seq(PlainMove)
  /\ SymbolDecl \in Seq(PlainMove)
  /\ InvocationExpr \in Seq(PlainMove) /\ ExprStatement \in Seq(PlainMove)
  /\ LambdaExpr \in Seq(PlainMove)
  /\ CombinatorDecl \in Seq(PlainMove)
<1>1. /\ OtherIdent \in Seq(PlainMove) /\ HostTypeIdent \in Seq(PlainMove)
      /\ SymbolIdent \in Seq(PlainMove) /\ Unit \in Seq(PlainMove)
  BY Sequels, WrittenMoves DEF OtherIdent, HostTypeIdent, SymbolIdent, Unit
<1>2. /\ \A binary \in BOOLEAN : DeclArgList(binary) \in Seq(PlainMove)
      /\ InvocationArgList \in Seq(PlainMove) /\ Block \in Seq(PlainMove)
  BY Sequels, WrittenMoves DEF DeclArgList, InvocationArgList, Block
<1>3. LanguageDecl \in Seq(PlainMove)
  BY <1>1, Sequels, WrittenMoves DEF LanguageDecl
<1>4. SymbolDecl \in Seq(PlainMove)
  BY <1>1, Sequels, WrittenMoves DEF SymbolDecl
<1>5. InvocationExpr \in Seq(PlainMove)
  BY <1>1, <1>2, Sequels, WrittenMoves DEF InvocationExpr
<1>6. ExprStatement \in Seq(PlainMove)
  BY <1>5, Sequels, WrittenMoves DEF ExprStatement
<1>7. LambdaExpr \in Seq(PlainMove)
  BY <1>2, Sequels, WrittenMoves DEF LambdaExpr
<1>8. CombinatorDecl \in Seq(PlainMove)
  BY <1>1, <1>2, Sequels, WrittenMoves DEF CombinatorDecl
<1>. QED BY <1>1, <1>2, <1>3, <1>4, <1>5, <1>6, <1>7, <1>8

LEMMA ShallowRoutines ==
  /\ \A name \in Seq(PlainMove) : DeclArg(name) \in Seq(ShallowMove)
  /\ AssignmentStatement \in Seq(ShallowMove)
  /\ OperatorDecl \in Seq(ShallowMove)
  /\ NonTrivialType \in Seq(ShallowMove)
<1>1. PlainMove \subseteq ShallowMove /\ IfOf(PlainMove) \subseteq ShallowMove
  BY DEF ShallowMove
<1>2. \A p \in Seq(PlainMove) : p \in Seq(ShallowMove)
  BY <1>1, SeqMonotonic
<1>3. If("BeginHostType", <<Report("host type"), GiveNil>>, OtherIdent) \in ShallowMove
  BY <1>1, Branches, Sequels, WrittenMoves, PlainRoutines, AskedKinds
<1>4. \A name \in Seq(PlainMove) : DeclArg(name) \in Seq(ShallowMove)
  BY <1>1, <1>2, <1>3, Sequels, WrittenMoves DEF DeclArg
<1>5. If("Lambda", LambdaExpr, InvocationExpr) \in ShallowMove
  BY <1>1, Branches, PlainRoutines, AskedKinds
<1>6. AssignmentStatement \in Seq(ShallowMove)
  BY <1>1, <1>2, <1>5, Sequels, WrittenMoves, PlainRoutines DEF AssignmentStatement
<1>7. If("RightArrow", OtherIdent, <<GiveNil>>) \in ShallowMove
  BY <1>1, Branches, Sequels, WrittenMoves, PlainRoutines, AskedKinds
<1>8. OperatorDecl \in Seq(ShallowMove)
  BY <1>1, <1>2, <1>7, Sequels, WrittenMoves, PlainRoutines DEF OperatorDecl
<1>9. HostTypeIdent \o <<GiveNil>> \in Seq(PlainMove)
      /\ OtherIdent \o <<Expect("OpenParen")>> \o InvocationArgList \in Seq(PlainMove)
  BY Sequels, WrittenMoves, PlainRoutines, AskedKinds
<1>10. If("BeginHostType", HostTypeIdent \o <<GiveNil>>,
          OtherIdent \o <<Expect("OpenParen")>> \o InvocationArgList) \in ShallowMove
  BY <1>1, <1>9, Branches, AskedKinds
<1>11. NonTrivialType \in Seq(ShallowMove)
  BY <1>1, <1>10, Sequels, WrittenMoves DEF NonTrivialType
<1>. QED BY <1>4, <1>6, <1>8, <1>11

LEMMA TypeDeclMoves == TypeDecl \in Seq(RoutineMove)
<1>1. PlainMove \subseteq RoutineMove /\ IfOf(ShallowMove) \subseteq RoutineMove /\ PlainMove \subseteq ShallowMove
  BY DEF ShallowMove, RoutineMove
<1>2. OtherIdent \in Seq(RoutineMove) /\ <<GiveNil>> \in Seq(ShallowMove)
  BY <1>1, SeqMonotonic, PlainRoutines, Sequels, WrittenMoves
<1>3. If("Equals", NonTrivialType, <<GiveNil>>) \in RoutineMove
  BY <1>1, <1>2, Branches, ShallowRoutines, AskedKinds
<1>. QED BY <1>1, <1>2, <1>3, Sequels, WrittenMoves DEF TypeDecl

\* What a loop calls for an item, and the tokens a loop looks for.
LEMMA ItemsOfLoops ==
  ASSUME NEW list \in ItemLists \union {"Program"}
  PROVE  /\ \A kind \in DOMAIN LoopOf[list].items : LoopOf[list].items[kind] \in Seq(RoutineMove)
         /\ DOMAIN LoopOf[list].items \subseteq Asked
         /\ LoopOf[list].skips \subseteq Asked
         /\ list # "Program" => LoopOf[list].end \in Asked
<1>. DEFINE Fine(l) == /\ \A kind \in DOMAIN l.items : l.items[kind] \in Seq(RoutineMove)
                       /\ DOMAIN l.items \subseteq Asked /\ l.skips \subseteq Asked
<1>1. \A p \in Seq(PlainMove) \union Seq(ShallowMove) : p \in Seq(RoutineMove)
  BY MovesOfRoutines, SeqMonotonic
<1>2. Fine(DeclArgs) /\ DeclArgs.end \in Asked
  <2>1. DeclArg(OtherIdent) \in Seq(RoutineMove) /\ DeclArg(SymbolIdent) \in Seq(RoutineMove)
    BY <1>1, ShallowRoutines, PlainRoutines
  <2>. QED BY <2>1, AskedKinds DEF DeclArgs
<1>3. Fine(InvocationArgs) /\ InvocationArgs.end \in Asked
  <2>1. OtherIdent \in Seq(RoutineMove) /\ SymbolIdent \in Seq(RoutineMove) /\ Unit \in Seq(RoutineMove)
    BY <1>1, PlainRoutines
  <2>. QED BY <2>1, AskedKinds DEF InvocationArgs
<1>4. Fine(Statements) /\ Statements.end \in Asked
  <2>1. ExprStatement \in Seq(RoutineMove) /\ AssignmentStatement \in Seq(RoutineMove)
    BY <1>1, ShallowRoutines, PlainRoutines
  <2>. QED BY <2>1, AskedKinds DEF Statements
<1>5. Fine(Declarations)
  <2>1. CombinatorDecl \in Seq(RoutineMove) /\ LanguageDecl \in Seq(RoutineMove)
        /\ OperatorDecl \in Seq(RoutineMove) /\ TypeDecl \in Seq(RoutineMove)
    BY <1>1, ShallowRoutines, PlainRoutines, TypeDeclMoves
  <2>. QED BY <2>1, AskedKinds DEF Declarations
<1>6. /\ LoopOf["Program"] = Declarations /\ LoopOf["DeclarationArgList"] = DeclArgs
      /\ LoopOf["InvocationArgList"] = InvocationArgs /\ LoopOf["Block"] = Statements
  BY DEF LoopOf
<1>. HIDE DEF Fine
<1>7. Fine(LoopOf[list]) /\ (list # "Program" => LoopOf[list].end \in Asked)
  BY <1>2, <1>3, <1>4, <1>5, <1>6 DEF ItemLists
<1>. QED BY <1>7 DEF Fine

-----------------------------------------------------------------------------
(* The stack of references under the moves of t: refs with the arena used  *)
(* up to up, after errors errs.                                            *)

IsLoop(move) == move.move = "loop"

\* No list was too long so far.
Exact(errs) == "too many" \notin errs

\* An open list finds what was there when it began, in memory below its mark.
LoopFits(base, loop, refs, up, errs) ==
  /\ base <= Len(refs)
  /\ loop.mark <= up
  /\ \A j \in 1 .. base : refs[j].at <= loop.mark
  /\ Exact(errs) => loop.mark = base

Chained(b, t, refs) ==
  /\ t # <<>>
  /\ b \in [1 .. Len(t) -> Nat]
  /\ b[Len(t)] = 0
  /\ \A i \in 1 .. Len(t) - 1 : b[i] = b[i + 1] + Owned(t[i + 1])
  /\ Len(refs) = b[1] + Owned(t[1])

LoopsFit(b, t, refs, up, errs) ==
  \A i \in 1 .. Len(t) : IsLoop(t[i]) => LoopFits(b[i], t[i], refs, up, errs)

Nested(b, t) ==
  \A i, k \in 1 .. Len(t) :
    i < k /\ IsLoop(t[i]) /\ IsLoop(t[k]) => b[k] <= b[i] /\ t[k].mark <= t[i].mark

\* The loop over declarations is the outermost, and the only one of its kind.
ProgramIsOutermost(t) ==
  /\ IsLoop(t[Len(t)]) /\ t[Len(t)].list = "Program" /\ t[Len(t)].mark = 0
  /\ \A i \in 1 .. Len(t) - 1 : IsLoop(t[i]) => t[i].list # "Program"

Stacked(b, t, refs, up, errs) ==
  /\ Chained(b, t, refs)
  /\ LoopsFit(b, t, refs, up, errs)
  /\ Nested(b, t)
  /\ ProgramIsOutermost(t)

\* What a sum over the moves comes to.
LEMMA StackedSum ==
  ASSUME NEW t \in Seq(Move), NEW b, NEW refs, Chained(b, t, refs),
         \A i \in 1 .. Len(t) : Owned(t[i]) \in Int
  PROVE  SumFunction([i \in DOMAIN t |-> Owned(t[i])]) = Len(refs)
<1>1. PICK n, f : n = Len(t) /\ f = [i \in DOMAIN t |-> Owned(t[i])]
  OBVIOUS
<1>2. n \in Nat \ {0} /\ DOMAIN f = 1 .. n /\ DOMAIN t = 1 .. n
  BY <1>1, EmptySeq, LenProperties DEF Chained
<1>3. \A i \in 1 .. n : f[i] = Owned(t[i]) /\ f[i] \in Int /\ b[i] \in Int
  BY <1>1, <1>2 DEF Chained
<1>4. \A k \in 1 .. n - 1 : b[k] = f[k + 1] + b[k + 1]
  <2>. TAKE k \in 1 .. n - 1
  <2>1. k + 1 \in 1 .. n /\ b[k] = b[k + 1] + Owned(t[k + 1])
    BY <1>1, <1>2 DEF Chained
  <2>2. f[k + 1] = Owned(t[k + 1]) /\ f[k + 1] \in Int /\ b[k + 1] \in Int
    BY <1>3, <2>1
  <2>. QED BY <2>1, <2>2
<1>5. SumsTo(b, f, n)
  BY <1>1, <1>3, <1>4 DEF Chained, SumsTo
<1>6. SumFunction(f) = f[1] + b[1]
  BY <1>2, <1>5, SumFromTheEnd
<1>7. 1 \in 1 .. n
  BY <1>2
<1>. QED BY <1>1, <1>3, <1>6, <1>7 DEF Chained

LEMMA OwnedIsInt ==
  \A m \in Move : Owned(m) \in Int /\ (IsLoop(m) <=> m \in LoopMove)
<1>1. \A m \in LoopMove : m.n \in Nat /\ m.move = "loop"
  BY DEF LoopMove
<1>2. PushRef.move = "push"
  BY DEF PushRef
<1>. QED BY <1>1, <1>2, MovesOfRoutines DEF Move, Owned, IsLoop

\* The move on top is made; the stack of references is as long as its base.
LEMMA TopGoes ==
  ASSUME NEW t \in Seq(Move), NEW b, NEW before, Chained(b, t, before), Nested(b, t),
         ProgramIsOutermost(t), Len(t) # 1,
         NEW refs, NEW up, NEW errs, Len(refs) = b[1],
         \A i \in 2 .. Len(t) : IsLoop(t[i]) => LoopFits(b[i], t[i], refs, up, errs)
  PROVE  /\ Tail(t) \in Seq(Move)
         /\ \E c : Stacked(c, Tail(t), refs, up, errs)
<1>1. PICK n, u : n = Len(t) /\ u = Tail(t)
  OBVIOUS
<1>2. t # <<>> /\ n \in Nat \ {0}
  BY <1>1, EmptySeq DEF Chained
<1>3. u \in Seq(Move) /\ Len(u) = n - 1 /\ \A i \in 1 .. n - 1 : u[i] = t[i + 1]
  BY <1>1, <1>2, HeadTailProperties
<1>5. n # 1
  BY <1>1
<1>6. PICK c : c = [i \in 1 .. n - 1 |-> b[i + 1]]
  OBVIOUS
<1>7. /\ b \in [1 .. n -> Nat] /\ b[n] = 0 /\ Len(refs) = b[1]
      /\ \A i \in 1 .. n - 1 : b[i] = b[i + 1] + Owned(t[i + 1])
  BY <1>1 DEF Chained
<1>8. n - 1 \in Nat \ {0} /\ c \in [1 .. n - 1 -> Nat] /\ \A i \in 1 .. n - 1 : c[i] = b[i + 1] /\ i + 1 \in 1 .. n
  BY <1>2, <1>5, <1>6, <1>7
<1>9. Chained(c, u, refs)
  <2>1. u # <<>>
    BY <1>3, <1>8, EmptySeq
  <2>2. c[Len(u)] = 0
    <3>1. n - 1 \in 1 .. n - 1 /\ (n - 1) + 1 = n
      BY <1>2, <1>5
    <3>. QED BY <1>3, <1>7, <1>8, <3>1
  <2>3. \A i \in 1 .. Len(u) - 1 : c[i] = c[i + 1] + Owned(u[i + 1])
    <3>. TAKE i \in 1 .. Len(u) - 1
    <3>1. i \in 1 .. n - 1 /\ i + 1 \in 1 .. n - 1
      BY <1>3, <1>8
    <3>. QED BY <1>3, <1>7, <1>8, <3>1
  <2>4. Len(refs) = c[1] + Owned(u[1])
    <3>1. 1 \in 1 .. n - 1
      BY <1>2, <1>5
    <3>. QED BY <1>3, <1>7, <1>8, <3>1
  <2>. QED BY <1>3, <1>8, <2>1, <2>2, <2>3, <2>4 DEF Chained
<1>10. LoopsFit(c, u, refs, up, errs)
  <2>. SUFFICES ASSUME NEW i \in 1 .. Len(u), IsLoop(u[i])
                PROVE  LoopFits(c[i], u[i], refs, up, errs)
    BY DEF LoopsFit
  <2>1. i \in 1 .. n - 1 /\ i + 1 \in 2 .. Len(t)
    BY <1>1, <1>2, <1>3
  <2>. QED BY <1>3, <1>8, <2>1
<1>11. Nested(c, u)
  <2>. SUFFICES ASSUME NEW i \in 1 .. n - 1, NEW k \in 1 .. n - 1, i < k, IsLoop(u[i]), IsLoop(u[k])
                PROVE  c[k] <= c[i] /\ u[k].mark <= u[i].mark
    BY <1>3 DEF Nested
  <2>1. i + 1 \in 1 .. n /\ k + 1 \in 1 .. n /\ i + 1 < k + 1
    BY <1>8
  <2>2. u[i] = t[i + 1] /\ u[k] = t[k + 1] /\ c[i] = b[i + 1] /\ c[k] = b[k + 1]
    BY <1>3, <1>8
  <2>3. b[k + 1] <= b[i + 1] /\ t[k + 1].mark <= t[i + 1].mark
    BY <1>1, <2>1, <2>2 DEF Nested
  <2>. QED BY <2>2, <2>3
<1>12. ProgramIsOutermost(u)
  <2>1. u[Len(u)] = t[n]
    <3>1. n - 1 \in 1 .. n - 1 /\ (n - 1) + 1 = n
      BY <1>2, <1>5
    <3>. QED BY <1>3, <3>1
  <2>2. \A i \in 1 .. Len(u) - 1 : u[i] = t[i + 1] /\ i + 1 \in 1 .. n - 1
    BY <1>3, <1>8
  <2>3. /\ IsLoop(t[n]) /\ t[n].list = "Program" /\ t[n].mark = 0
        /\ \A i \in 1 .. n - 1 : IsLoop(t[i]) => t[i].list # "Program"
    BY <1>1 DEF ProgramIsOutermost
  <2>4. \A i \in 1 .. Len(u) - 1 : IsLoop(u[i]) => u[i].list # "Program"
    BY <2>2, <2>3
  <2>. QED BY <2>1, <2>3, <2>4 DEF ProgramIsOutermost
<1>. QED BY <1>1, <1>3, <1>9, <1>10, <1>11, <1>12 DEF Stacked

LEMMA MoveIsMade ==
  ASSUME NEW t \in Seq(Move), NEW b, NEW refs, NEW up, NEW errs,
         Stacked(b, t, refs, up, errs), t[1] \in RoutineMove
  PROVE  /\ Tail(t) \in Seq(Move)
         /\ \E c : Stacked(c, Tail(t), refs, up, errs)
<1>1. ~IsLoop(t[1]) /\ Owned(t[1]) = 0
  BY MovesOfRoutines DEF IsLoop
<1>2. Len(t) # 1 /\ Chained(b, t, refs) /\ Nested(b, t) /\ ProgramIsOutermost(t)
  BY <1>1 DEF Stacked, ProgramIsOutermost
<1>3. b[1] \in Nat
  <2>1. Len(t) \in Nat \ {0}
    BY <1>2, EmptySeq DEF Chained
  <2>2. 1 \in 1 .. Len(t)
    BY <2>1
  <2>. QED BY <1>2, <2>2 DEF Chained
<1>4. Len(refs) = b[1]
  BY <1>1, <1>2, <1>3 DEF Chained
<1>5. \A i \in 2 .. Len(t) : IsLoop(t[i]) => LoopFits(b[i], t[i], refs, up, errs)
  <2>1. \A i \in 2 .. Len(t) : i \in 1 .. Len(t)
    OBVIOUS
  <2>. QED BY <2>1 DEF Stacked, LoopsFit
<1>. QED BY <1>2, <1>4, <1>5, TopGoes

\* The reference on top of the stack is new, and in new memory.
LEMMA RefIsPushed ==
  ASSUME NEW t \in Seq(Move), NEW b, NEW refs, NEW up \in Nat, NEW errs,
         Stacked(b, t, refs, up, errs), t[1] = PushRef,
         NEW S, refs \in Seq(S), NEW ref \in S
  PROVE  /\ Tail(t) \in Seq(Move)
         /\ \E c : Stacked(c, Tail(t), Append(refs, ref), up + 1, errs)
<1>1. ~IsLoop(t[1]) /\ Owned(t[1]) = -1
  BY DEF IsLoop, PushRef, Owned
<1>2. Len(t) # 1 /\ Chained(b, t, refs) /\ Nested(b, t) /\ ProgramIsOutermost(t)
  BY <1>1 DEF Stacked, ProgramIsOutermost
<1>3. PICK after : after = Append(refs, ref)
  OBVIOUS
<1>4. Len(after) = Len(refs) + 1 /\ Len(refs) \in Nat /\ \A j \in 1 .. Len(refs) : after[j] = refs[j]
  BY <1>3
<1>5. Len(t) \in Nat \ {0} /\ b \in [1 .. Len(t) -> Nat]
  BY <1>2, EmptySeq DEF Chained
<1>6. Len(after) = b[1]
  <2>1. 1 \in 1 .. Len(t)
    BY <1>5
  <2>2. b[1] \in Nat /\ Len(refs) = b[1] + Owned(t[1])
    BY <1>2, <1>5, <2>1 DEF Chained
  <2>. QED BY <1>1, <1>4, <2>2
<1>7. ASSUME NEW i \in 2 .. Len(t), IsLoop(t[i])
      PROVE  LoopFits(b[i], t[i], after, up + 1, errs)
  <2>1. i \in 1 .. Len(t)
    OBVIOUS
  <2>2. LoopFits(b[i], t[i], refs, up, errs) /\ b[i] \in Nat
    BY <1>5, <1>7, <2>1 DEF Stacked, LoopsFit
  <2>3. t[i].mark \in Nat
    BY <1>7, <2>1, OwnedIsInt DEF LoopMove
  <2>4. /\ b[i] <= Len(refs) /\ t[i].mark <= up /\ (Exact(errs) => t[i].mark = b[i])
        /\ \A j \in 1 .. b[i] : refs[j].at <= t[i].mark
    BY <2>2 DEF LoopFits
  <2>5. b[i] <= Len(after) /\ t[i].mark <= up + 1
    BY <1>4, <2>2, <2>3, <2>4
  <2>6. \A j \in 1 .. b[i] : after[j].at <= t[i].mark
    <3>. TAKE j \in 1 .. b[i]
    <3>1. j \in 1 .. Len(refs)
      BY <1>4, <2>2, <2>4
    <3>. QED BY <1>4, <2>4, <3>1
  <2>. QED BY <2>4, <2>5, <2>6 DEF LoopFits
<1>. QED BY <1>2, <1>3, <1>6, <1>7, TopGoes

\* What is allocated below the end of a list, and the errors after it.
GivesBack(loop, up, errs, below, still) ==
  /\ below \in {loop.mark, up}
  /\ Exact(still) => Exact(errs) /\ below = loop.mark

\* A list takes its own off the stack, and gives back what it allocated unless
\* it was too long.
LEMMA ListGoes ==
  ASSUME NEW t \in Seq(Move), NEW b, NEW refs, NEW up \in Nat, NEW errs,
         Stacked(b, t, refs, up, errs), IsLoop(t[1]), t[1].list # "Program",
         NEW S, refs \in Seq(S),
         NEW below, NEW still, GivesBack(t[1], up, errs, below, still)
  PROVE  /\ Tail(t) \in Seq(Move)
         /\ b[1] \in Nat /\ Len(refs) - t[1].n = b[1] /\ b[1] <= Len(refs)
         /\ LoopFits(b[1], t[1], refs, up, errs)
         /\ \E c : Stacked(c, Tail(t), SubSeq(refs, 1, Len(refs) - t[1].n), below, still)
<1>1. below \in {t[1].mark, up} /\ (Exact(still) => Exact(errs) /\ below = t[1].mark)
  BY DEF GivesBack
<1>2. Len(t) # 1 /\ Chained(b, t, refs) /\ Nested(b, t) /\ ProgramIsOutermost(t)
  BY DEF Stacked, ProgramIsOutermost
<1>3. Len(t) \in Nat \ {0} /\ b \in [1 .. Len(t) -> Nat]
  BY <1>2, EmptySeq DEF Chained
<1>4. 1 \in 1 .. Len(t) /\ b[1] \in Nat
  BY <1>3
<1>5. LoopFits(b[1], t[1], refs, up, errs)
  BY <1>4 DEF Stacked, LoopsFit
<1>6. t[1].n \in Nat /\ t[1].mark \in Nat /\ Owned(t[1]) = t[1].n /\ Len(refs) \in Nat
  BY <1>4, OwnedIsInt DEF LoopMove, Owned, IsLoop
<1>7. Len(refs) = b[1] + t[1].n
  BY <1>2, <1>6 DEF Chained
<1>8. Len(refs) - t[1].n = b[1] /\ b[1] <= Len(refs)
  BY <1>4, <1>6, <1>7
<1>9. PICK after : after = SubSeq(refs, 1, b[1])
  OBVIOUS
<1>10. Len(after) = b[1] /\ \A j \in 1 .. b[1] : after[j] = refs[j]
  <2>1. b[1] \in 0 .. Len(refs)
    BY <1>4, <1>6, <1>8
  <2>. QED BY <1>9, <2>1, SplitElements
<1>11. ASSUME NEW i \in 2 .. Len(t), IsLoop(t[i])
       PROVE  LoopFits(b[i], t[i], after, below, still)
  <2>1. i \in 1 .. Len(t) /\ 1 < i
    OBVIOUS
  <2>2. LoopFits(b[i], t[i], refs, up, errs) /\ b[i] \in Nat
    BY <1>3, <1>11, <2>1 DEF Stacked, LoopsFit
  <2>3. t[i].mark \in Nat
    BY <1>11, <2>1, OwnedIsInt DEF LoopMove
  <2>4. b[i] <= b[1] /\ t[i].mark <= t[1].mark
    BY <1>2, <1>4, <1>11, <2>1 DEF Nested
  <2>5. t[i].mark <= below
    BY <1>1, <1>5, <1>6, <2>3, <2>4 DEF LoopFits
  <2>6. \A j \in 1 .. b[i] : j \in 1 .. b[1]
    BY <1>4, <2>2, <2>4
  <2>. QED BY <1>1, <1>10, <2>2, <2>4, <2>5, <2>6 DEF LoopFits
<1>12. Tail(t) \in Seq(Move) /\ \E c : Stacked(c, Tail(t), after, below, still)
  BY <1>2, <1>10, <1>11, TopGoes
<1>. QED BY <1>4, <1>5, <1>8, <1>9, <1>12

\* A routine is called: what is below stays as it is.
LEMMA RoutineIsCalled ==
  ASSUME NEW t \in Seq(Move), NEW b, NEW refs, NEW up, NEW errs,
         Stacked(b, t, refs, up, errs), NEW p \in Seq(RoutineMove), Len(refs) \in Nat
  PROVE  /\ p \o t \in Seq(Move)
         /\ \E c : Stacked(c, p \o t, refs, up, errs)
<1>1. PICK n, m, u : n = Len(t) /\ m = Len(p) /\ u = p \o t
  OBVIOUS
<1>2. t # <<>> /\ n \in Nat \ {0} /\ m \in Nat
  BY <1>1, EmptySeq, LenProperties DEF Stacked, Chained
<1>3. p \in Seq(Move)
  BY MovesOfRoutines, SeqMonotonic
<1>4. u \in Seq(Move) /\ Len(u) = m + n /\ \A i \in 1 .. m + n : u[i] = IF i <= m THEN p[i] ELSE t[i - m]
  BY <1>1, <1>3, ConcatProperties
<1>5. \A i \in 1 .. m : ~IsLoop(u[i]) /\ Owned(u[i]) = 0
  <2>. TAKE i \in 1 .. m
  <2>1. p[i] \in RoutineMove
    BY <1>1, ElementOfSeq
  <2>2. u[i] = p[i]
    BY <1>2, <1>4
  <2>. QED BY <2>1, <2>2, MovesOfRoutines DEF IsLoop
<1>6. PICK c : c = [i \in 1 .. m + n |-> IF i <= m THEN Len(refs) ELSE b[i - m]]
  OBVIOUS
<1>7. /\ b \in [1 .. n -> Nat] /\ b[n] = 0 /\ Len(refs) = b[1] + Owned(t[1])
      /\ \A i \in 1 .. n - 1 : b[i] = b[i + 1] + Owned(t[i + 1])
  BY <1>1 DEF Stacked, Chained
<1>8. \A i \in 1 .. m + n : i <= m \/ (i - m \in 1 .. n /\ u[i] = t[i - m] /\ c[i] = b[i - m])
  BY <1>2, <1>4, <1>6
<1>9. c \in [1 .. m + n -> Nat] /\ m + n \in Nat \ {0}
  BY <1>2, <1>6, <1>7, <1>8
<1>10. Chained(c, u, refs)
  <2>1. u # <<>>
    BY <1>4, <1>9, EmptySeq
  <2>2. c[m + n] = 0
    <3>1. m + n \in 1 .. m + n /\ ~(m + n <= m) /\ (m + n) - m = n
      BY <1>2
    <3>. QED BY <1>7, <1>8, <3>1
  <2>3. \A i \in 1 .. m + n - 1 : c[i] = c[i + 1] + Owned(u[i + 1])
    <3>. TAKE i \in 1 .. m + n - 1
    <3>1. i \in 1 .. m + n /\ i + 1 \in 1 .. m + n
      BY <1>2
    <3>2. CASE i + 1 <= m
      <4>1. c[i] = Len(refs) /\ c[i + 1] = Len(refs) /\ Owned(u[i + 1]) = 0
        BY <1>2, <1>5, <1>6, <3>1, <3>2
      <4>. QED BY <4>1
    <3>3. CASE i = m
      <4>1. c[i] = Len(refs) /\ c[i + 1] = b[1] /\ u[i + 1] = t[1]
        BY <1>2, <1>4, <1>6, <3>1, <3>3
      <4>. QED BY <1>7, <4>1
    <3>4. CASE i > m
      <4>1. i - m \in 1 .. n - 1 /\ (i + 1) - m = (i - m) + 1
        BY <1>2, <3>1, <3>4
      <4>2. c[i] = b[i - m]
        BY <1>2, <1>8, <3>1, <3>4
      <4>3. ~(i + 1 <= m)
        BY <1>2, <3>1, <3>4
      <4>4. c[i + 1] = b[(i + 1) - m] /\ u[i + 1] = t[(i + 1) - m]
        BY <1>8, <3>1, <4>3
      <4>. QED BY <1>7, <4>1, <4>2, <4>4
    <3>. QED BY <1>2, <3>1, <3>2, <3>3, <3>4
  <2>4. Len(refs) = c[1] + Owned(u[1])
    <3>1. CASE m = 0
      <4>1. 1 \in 1 .. m + n /\ c[1] = b[1] /\ u[1] = t[1]
        BY <1>2, <1>4, <1>6, <3>1
      <4>. QED BY <1>7, <4>1
    <3>2. CASE m # 0
      <4>1. 1 \in 1 .. m /\ 1 \in 1 .. m + n
        BY <1>2, <3>2
      <4>2. c[1] = Len(refs) /\ Owned(u[1]) = 0
        BY <1>5, <1>6, <4>1
      <4>. QED BY <4>2
    <3>. QED BY <3>1, <3>2
  <2>5. Len(u) = m + n
    BY <1>4
  <2>6. c \in [1 .. Len(u) -> Nat] /\ c[Len(u)] = 0
    BY <1>9, <2>2, <2>5
  <2>7. \A i \in 1 .. Len(u) - 1 : c[i] = c[i + 1] + Owned(u[i + 1])
    <3>1. 1 .. Len(u) - 1 = 1 .. m + n - 1
      BY <1>2, <2>5
    <3>. QED BY <2>3, <3>1
  <2>. QED BY <2>1, <2>4, <2>6, <2>7 DEF Chained
<1>11. \A i \in 1 .. m + n : IsLoop(u[i]) => i - m \in 1 .. n /\ u[i] = t[i - m] /\ c[i] = b[i - m]
  <2>. TAKE i \in 1 .. m + n
  <2>1. i <= m => i \in 1 .. m
    OBVIOUS
  <2>. QED BY <1>5, <1>8, <2>1
<1>12. LoopsFit(c, u, refs, up, errs)
  BY <1>1, <1>4, <1>11 DEF Stacked, LoopsFit
<1>13. Nested(c, u)
  <2>1. \A i, k \in 1 .. m + n : i < k => i - m < k - m
    BY <1>2
  <2>2. Nested(b, t)
    BY DEF Stacked
  <2>. QED BY <1>1, <1>4, <1>11, <2>1, <2>2 DEF Nested
<1>14. ProgramIsOutermost(u)
  <2>1. u[m + n] = t[n]
    <3>1. m + n \in 1 .. m + n /\ ~(m + n <= m) /\ (m + n) - m = n
      BY <1>2
    <3>. QED BY <1>8, <3>1
  <2>2. \A i \in 1 .. m + n - 1 : i \in 1 .. m + n /\ (i - m \in 1 .. n => i - m \in 1 .. n - 1)
    BY <1>2
  <2>3. ProgramIsOutermost(t)
    BY DEF Stacked
  <2>. QED BY <1>1, <1>4, <1>11, <2>1, <2>2, <2>3 DEF ProgramIsOutermost
<1>. QED BY <1>1, <1>4, <1>10, <1>12, <1>13, <1>14 DEF Stacked

\* A list begins with what is there, at the top of the arena.
LEMMA ListBegins ==
  ASSUME NEW t \in Seq(Move), NEW b, NEW refs, NEW up \in Nat, NEW errs,
         Stacked(b, t, refs, up, errs), Len(refs) \in Nat,
         NEW loop \in LoopMove, loop.n = 0, loop.mark = up, loop.list # "Program",
         \A j \in 1 .. Len(refs) : refs[j].at <= up, Exact(errs) => up = Len(refs)
  PROVE  /\ <<loop>> \o t \in Seq(Move)
         /\ \E c : Stacked(c, <<loop>> \o t, refs, up, errs)
<1>1. PICK n, u : n = Len(t) /\ u = <<loop>> \o t
  OBVIOUS
<1>2. t # <<>> /\ n \in Nat \ {0}
  BY <1>1, EmptySeq DEF Stacked, Chained
<1>3. loop \in Move
  BY DEF Move
<1>4. u \in Seq(Move) /\ Len(u) = n + 1 /\ u[1] = loop /\ \A i \in 1 .. n : u[i + 1] = t[i]
  BY <1>1, <1>3
<1>5. PICK c : c = [i \in 1 .. n + 1 |-> IF i = 1 THEN Len(refs) ELSE b[i - 1]]
  OBVIOUS
<1>6. /\ b \in [1 .. n -> Nat] /\ b[n] = 0 /\ Len(refs) = b[1] + Owned(t[1])
      /\ \A i \in 1 .. n - 1 : b[i] = b[i + 1] + Owned(t[i + 1])
  BY <1>1 DEF Stacked, Chained
<1>7. /\ 1 \in 1 .. n + 1 /\ c[1] = Len(refs)
      /\ \A i \in 1 .. n : i + 1 \in 1 .. n + 1 /\ i + 1 # 1 /\ (i + 1) - 1 = i /\ c[i + 1] = b[i]
  BY <1>2, <1>5
<1>8. \A i \in 1 .. n + 1 : i = 1 \/ (i - 1 \in 1 .. n /\ (i - 1) + 1 = i)
  BY <1>2
<1>9. \A i \in 1 .. n + 1 : i = 1 \/ (i - 1 \in 1 .. n /\ u[i] = t[i - 1] /\ c[i] = b[i - 1])
  BY <1>4, <1>7, <1>8
<1>10. c \in [1 .. n + 1 -> Nat]
  BY <1>5, <1>6, <1>8
<1>11. Owned(loop) = 0 /\ IsLoop(loop)
  BY OwnedIsInt, <1>3 DEF Owned, IsLoop
<1>12. Chained(c, u, refs)
  <2>1. u # <<>>
    BY <1>2, <1>4, EmptySeq
  <2>2. c[n + 1] = 0
    <3>1. n \in 1 .. n
      BY <1>2
    <3>. QED BY <1>6, <1>7, <3>1
  <2>3. ASSUME NEW i \in 1 .. n PROVE c[i] = c[i + 1] + Owned(u[i + 1])
    <3>1. CASE i = 1
      BY <1>4, <1>6, <1>7, <3>1
    <3>2. CASE i # 1
      <4>1. i - 1 \in 1 .. n - 1 /\ i \in 1 .. n + 1 /\ (i - 1) + 1 = i
        BY <1>2, <3>2
      <4>2. c[i] = b[i - 1] /\ c[i + 1] = b[i] /\ u[i + 1] = t[i]
        BY <1>4, <1>7, <1>9, <3>2, <4>1
      <4>3. b[i - 1] = b[(i - 1) + 1] + Owned(t[(i - 1) + 1])
        BY <1>6, <4>1
      <4>. QED BY <4>1, <4>2, <4>3
    <3>. QED BY <3>1, <3>2
  <2>4. Len(refs) = c[1] + Owned(u[1])
    BY <1>4, <1>7, <1>11
  <2>5. 1 .. Len(u) - 1 = 1 .. n /\ 1 .. Len(u) = 1 .. n + 1
    BY <1>2, <1>4
  <2>6. c \in [1 .. Len(u) -> Nat] /\ c[Len(u)] = 0
    BY <1>4, <1>10, <2>2
  <2>7. \A i \in 1 .. Len(u) - 1 : c[i] = c[i + 1] + Owned(u[i + 1])
    BY <2>3, <2>5
  <2>. QED BY <2>1, <2>4, <2>6, <2>7 DEF Chained
<1>13. LoopsFit(c, u, refs, up, errs)
  <2>. SUFFICES ASSUME NEW i \in 1 .. n + 1, IsLoop(u[i])
                PROVE  LoopFits(c[i], u[i], refs, up, errs)
    BY <1>4 DEF LoopsFit
  <2>1. CASE i = 1
    BY <1>4, <1>7, <2>1 DEF LoopFits
  <2>2. CASE i # 1
    BY <1>1, <1>9, <2>2 DEF Stacked, LoopsFit
  <2>. QED BY <2>1, <2>2
<1>14. Nested(c, u)
  <2>. SUFFICES ASSUME NEW i \in 1 .. n + 1, NEW k \in 1 .. n + 1, i < k, IsLoop(u[i]), IsLoop(u[k])
                PROVE  c[k] <= c[i] /\ u[k].mark <= u[i].mark
    BY <1>4 DEF Nested
  <2>1. k - 1 \in 1 .. n /\ u[k] = t[k - 1] /\ c[k] = b[k - 1] /\ k # 1
    BY <1>9
  <2>2. CASE i = 1
    <3>1. LoopFits(b[k - 1], t[k - 1], refs, up, errs)
      BY <1>1, <2>1 DEF Stacked, LoopsFit
    <3>. QED BY <1>4, <1>7, <2>1, <2>2, <3>1 DEF LoopFits
  <2>3. CASE i # 1
    <3>1. i - 1 \in 1 .. n /\ u[i] = t[i - 1] /\ c[i] = b[i - 1] /\ i - 1 < k - 1
      BY <1>9, <2>3
    <3>. QED BY <1>1, <2>1, <3>1 DEF Stacked, Nested
  <2>. QED BY <2>2, <2>3
<1>15. ProgramIsOutermost(u)
  <2>1. u[n + 1] = t[n]
    <3>1. n \in 1 .. n
      BY <1>2
    <3>. QED BY <1>4, <3>1
  <2>2. \A i \in 1 .. n : i = 1 \/ (i - 1 \in 1 .. n - 1 /\ u[i] = t[i - 1])
    <3>. TAKE i \in 1 .. n
    <3>1. i \in 1 .. n + 1 /\ (i = 1 \/ i - 1 \in 1 .. n - 1)
      BY <1>2
    <3>. QED BY <1>9, <3>1
  <2>3. 1 .. Len(u) - 1 = 1 .. n
    BY <1>2, <1>4
  <2>. QED BY <1>1, <1>4, <2>1, <2>2, <2>3 DEF Stacked, ProgramIsOutermost
<1>. QED BY <1>1, <1>4, <1>12, <1>13, <1>14, <1>15 DEF Stacked

\* An item is counted before it is on the stack.
LEMMA ItemIsCounted ==
  ASSUME NEW t \in Seq(Move), NEW b, NEW refs, NEW up, NEW errs,
         Stacked(b, t, refs, up, errs), IsLoop(t[1]),
         NEW loop \in LoopMove, loop.n = t[1].n + 1, loop.mark = t[1].mark, loop.list = t[1].list
  PROVE  /\ <<PushRef, loop>> \o Tail(t) \in Seq(Move)
         /\ \E c : Stacked(c, <<PushRef, loop>> \o Tail(t), refs, up, errs)
<1>1. PICK n, u : n = Len(t) /\ u = <<PushRef, loop>> \o Tail(t)
  OBVIOUS
<1>2. t # <<>> /\ n \in Nat \ {0}
  BY <1>1, EmptySeq DEF Stacked, Chained
<1>3. loop \in Move /\ PushRef \in Move
  BY DEF Move
<1>4. /\ u \in Seq(Move) /\ Len(u) = n + 1 /\ u[1] = PushRef /\ u[2] = loop
      /\ \A i \in 2 .. n : u[i + 1] = t[i]
  <2>1. PICK p, r : p = <<PushRef, loop>> /\ r = Tail(t)
    OBVIOUS
  <2>2. p \in Seq(Move) /\ Len(p) = 2 /\ p[1] = PushRef /\ p[2] = loop
    BY <1>3, <2>1
  <2>3. r \in Seq(Move) /\ Len(r) = n - 1 /\ \A i \in 1 .. n - 1 : r[i] = t[i + 1]
    BY <1>1, <1>2, <2>1, HeadTailProperties
  <2>4. u = p \o r
    BY <1>1, <2>1
  <2>5. u \in Seq(Move) /\ Len(u) = 2 + (n - 1)
        /\ \A i \in 1 .. 2 + (n - 1) : u[i] = IF i <= 2 THEN p[i] ELSE r[i - 2]
    <3>1. u \in Seq(Move) /\ Len(u) = Len(p) + Len(r)
          /\ \A i \in 1 .. Len(p) + Len(r) : u[i] = IF i <= Len(p) THEN p[i] ELSE r[i - Len(p)]
      BY <2>2, <2>3, <2>4, ConcatProperties
    <3>2. Len(p) = 2 /\ Len(r) = n - 1
      BY <2>2, <2>3
    <3>. QED BY <3>1, <3>2
  <2>6. ASSUME NEW i \in 2 .. n PROVE u[i + 1] = t[i]
    <3>1. i + 1 \in 1 .. 2 + (n - 1) /\ ~(i + 1 <= 2) /\ (i + 1) - 2 = i - 1 /\ i - 1 \in 1 .. n - 1
          /\ (i - 1) + 1 = i
      BY <1>2
    <3>. QED BY <2>3, <2>5, <3>1
  <2>7. 1 \in 1 .. 2 + (n - 1) /\ 2 \in 1 .. 2 + (n - 1) /\ 2 + (n - 1) = n + 1
    BY <1>2
  <2>. QED BY <2>2, <2>5, <2>6, <2>7
<1>5. PICK c : c = [i \in 1 .. n + 1 |-> IF i = 1 THEN b[1] + loop.n ELSE b[i - 1]]
  OBVIOUS
<1>6. /\ b \in [1 .. n -> Nat] /\ b[n] = 0 /\ Len(refs) = b[1] + Owned(t[1])
      /\ \A i \in 1 .. n - 1 : b[i] = b[i + 1] + Owned(t[i + 1])
  BY <1>1 DEF Stacked, Chained
<1>7. 1 \in 1 .. n /\ b[1] \in Nat /\ t[1].n \in Nat /\ t[1] \in LoopMove
  <2>1. 1 \in 1 .. n
    BY <1>2
  <2>2. t[1] \in LoopMove
    BY <1>1, <2>1, OwnedIsInt
  <2>3. t[1].n \in Nat
    BY <2>2 DEF LoopMove
  <2>. QED BY <1>6, <2>1, <2>2, <2>3
<1>8. /\ Owned(loop) = t[1].n + 1 /\ Owned(t[1]) = t[1].n /\ Owned(PushRef) = -1
      /\ IsLoop(loop) /\ ~IsLoop(PushRef)
  BY <1>3, OwnedIsInt DEF Owned, IsLoop, PushRef
<1>9. /\ 1 \in 1 .. n + 1 /\ c[1] = b[1] + (t[1].n + 1)
      /\ \A i \in 1 .. n : i + 1 \in 1 .. n + 1 /\ i + 1 # 1 /\ (i + 1) - 1 = i /\ c[i + 1] = b[i]
  BY <1>2, <1>5
<1>10. \A i \in 1 .. n + 1 : i = 1 \/ (i - 1 \in 1 .. n /\ (i - 1) + 1 = i)
  BY <1>2
<1>11. c \in [1 .. n + 1 -> Nat]
  BY <1>5, <1>6, <1>7, <1>10
<1>12. \* a loop above stands for the one that was there
       ASSUME NEW i \in 1 .. n + 1, IsLoop(u[i])
       PROVE  /\ i - 1 \in 1 .. n /\ c[i] = b[i - 1] /\ IsLoop(t[i - 1])
              /\ u[i].mark = t[i - 1].mark /\ u[i].list = t[i - 1].list
  <2>1. i # 1
    BY <1>4, <1>8, <1>12
  <2>2. i - 1 \in 1 .. n /\ (i - 1) + 1 = i
    BY <1>10, <2>1
  <2>3. c[i] = b[i - 1]
    BY <1>9, <2>2
  <2>4. CASE i = 2
    BY <1>4, <1>8, <2>2, <2>3, <2>4
  <2>5. CASE i # 2
    <3>1. i - 1 \in 2 .. n
      BY <1>2, <2>1, <2>5
    <3>2. u[i] = t[i - 1]
      BY <1>4, <2>2, <3>1
    <3>. QED BY <1>12, <2>2, <2>3, <3>2
  <2>. QED BY <2>4, <2>5
<1>13. Chained(c, u, refs)
  <2>1. u # <<>>
    BY <1>2, <1>4, EmptySeq
  <2>2. c[n + 1] = 0
    <3>1. n \in 1 .. n
      BY <1>2
    <3>. QED BY <1>6, <1>9, <3>1
  <2>3. ASSUME NEW i \in 1 .. n PROVE c[i] = c[i + 1] + Owned(u[i + 1])
    <3>1. CASE i = 1
      BY <1>4, <1>7, <1>8, <1>9, <3>1
    <3>2. CASE i # 1
      <4>1. i \in 2 .. n /\ i - 1 \in 1 .. n - 1 /\ i \in 1 .. n + 1 /\ (i - 1) + 1 = i /\ i - 1 \in 1 .. n
        BY <1>2, <3>2
      <4>2. c[i] = b[i - 1]
        BY <1>9, <4>1
      <4>3. c[i + 1] = b[i] /\ u[i + 1] = t[i]
        BY <1>4, <1>9, <4>1
      <4>4. b[i - 1] = b[(i - 1) + 1] + Owned(t[(i - 1) + 1])
        BY <1>6, <4>1
      <4>. QED BY <4>1, <4>2, <4>3, <4>4
    <3>. QED BY <3>1, <3>2
  <2>4. Len(refs) = c[1] + Owned(u[1])
    <3>1. Len(refs) = b[1] + t[1].n
      BY <1>6, <1>8
    <3>2. Owned(u[1]) = -1
      BY <1>4, <1>8
    <3>3. c[1] = b[1] + (t[1].n + 1) /\ b[1] \in Nat /\ t[1].n \in Nat
      BY <1>7, <1>9
    <3>. QED BY <3>1, <3>2, <3>3
  <2>5. 1 .. Len(u) - 1 = 1 .. n /\ 1 .. Len(u) = 1 .. n + 1
    BY <1>2, <1>4
  <2>6. c \in [1 .. Len(u) -> Nat] /\ c[Len(u)] = 0
    BY <1>4, <1>11, <2>2
  <2>7. \A i \in 1 .. Len(u) - 1 : c[i] = c[i + 1] + Owned(u[i + 1])
    BY <2>3, <2>5
  <2>. QED BY <2>1, <2>4, <2>6, <2>7 DEF Chained
<1>14. LoopsFit(c, u, refs, up, errs)
  <2>. SUFFICES ASSUME NEW i \in 1 .. n + 1, IsLoop(u[i])
                PROVE  LoopFits(c[i], u[i], refs, up, errs)
    BY <1>4 DEF LoopsFit
  <2>1. LoopFits(b[i - 1], t[i - 1], refs, up, errs)
    BY <1>1, <1>12 DEF Stacked, LoopsFit
  <2>. QED BY <1>12, <2>1 DEF LoopFits
<1>15. Nested(c, u)
  <2>. SUFFICES ASSUME NEW i \in 1 .. n + 1, NEW k \in 1 .. n + 1, i < k, IsLoop(u[i]), IsLoop(u[k])
                PROVE  c[k] <= c[i] /\ u[k].mark <= u[i].mark
    BY <1>4 DEF Nested
  <2>1. i - 1 < k - 1
    OBVIOUS
  <2>2. b[k - 1] <= b[i - 1] /\ t[k - 1].mark <= t[i - 1].mark
    BY <1>1, <1>12, <2>1 DEF Stacked, Nested
  <2>. QED BY <1>12, <2>2
<1>16. ProgramIsOutermost(u)
  <2>1. IsLoop(u[n + 1]) /\ (n + 1) - 1 = n /\ n + 1 \in 1 .. n + 1
    <3>1. CASE n = 1
      BY <1>4, <1>8, <3>1
    <3>2. CASE n # 1
      <4>1. n \in 2 .. n /\ n + 1 \in 1 .. n + 1 /\ (n + 1) - 1 = n
        BY <1>2, <3>2
      <4>2. u[n + 1] = t[n]
        BY <1>4, <4>1
      <4>. QED BY <1>1, <4>1, <4>2 DEF Stacked, ProgramIsOutermost
    <3>. QED BY <3>1, <3>2
  <2>2. u[n + 1].list = t[n].list /\ u[n + 1].mark = t[n].mark
    BY <1>12, <2>1
  <2>3. ASSUME NEW i \in 1 .. n, IsLoop(u[i]) PROVE u[i].list # "Program"
    <3>1. i \in 1 .. n + 1
      BY <1>2
    <3>2. i - 1 \in 1 .. n - 1 /\ IsLoop(t[i - 1]) /\ u[i].list = t[i - 1].list
      BY <1>2, <1>12, <2>3, <3>1
    <3>. QED BY <1>1, <3>2 DEF Stacked, ProgramIsOutermost
  <2>4. 1 .. Len(u) - 1 = 1 .. n
    BY <1>2, <1>4
  <2>. QED BY <1>1, <1>4, <2>1, <2>2, <2>3, <2>4 DEF Stacked, ProgramIsOutermost
<1>. QED BY <1>1, <1>4, <1>13, <1>14, <1>15, <1>16 DEF Stacked

LEMMA ErrorsAreAdded ==
  ASSUME NEW t, NEW b, NEW refs, NEW up, NEW errs, NEW more,
         Stacked(b, t, refs, up, errs), Exact(more) => Exact(errs)
  PROVE  Stacked(b, t, refs, up, more)
BY DEF Stacked, LoopsFit, LoopFits

LEMMA FieldsOfMoves ==
  ASSUME NEW m \in Move
  PROVE  /\ m.move \in {"expect", "leaf", "if"} => m.kind \in Asked
         /\ m.move \notin {"loop", "push"} => m \in RoutineMove
         /\ m.move = "if" => m.then \in Seq(RoutineMove) /\ m.else \in Seq(RoutineMove)
         /\ m.move = "begin" => m.list \in ItemLists /\ m.binary \in BOOLEAN
         /\ m.move = "report" => m.error = "host type"
         /\ m.move = "push" => m = PushRef
         /\ m.move = "loop" => m \in LoopMove
<1>1. \A q \in Seq(PlainMove) \union Seq(ShallowMove) : q \in Seq(RoutineMove)
  BY MovesOfRoutines, SeqMonotonic
<1>2. CASE m \in PlainMove
  <2>1. m \in RoutineMove
    BY <1>2, MovesOfRoutines
  <2>2. m.move \in {"expect", "leaf"} => m.kind \in Asked
    BY <1>2 DEF PlainMove
  <2>3. m.move = "begin" => m.list \in ItemLists /\ m.binary \in BOOLEAN
    BY <1>2 DEF PlainMove
  <2>4. m.move = "report" => m.error = "host type"
    BY <1>2 DEF PlainMove
  <2>5. m.move \notin {"if", "loop", "push"}
    BY <1>2 DEF PlainMove
  <2>. QED BY <2>1, <2>2, <2>3, <2>4, <2>5
<1>3. CASE m \in IfOf(PlainMove) \union IfOf(ShallowMove)
  <2>1. m \in RoutineMove
    BY <1>3 DEF RoutineMove, ShallowMove
  <2>2. m.move = "if" /\ m.kind \in Asked
    BY <1>3 DEF IfOf
  <2>3. m.then \in Seq(PlainMove) \union Seq(ShallowMove) /\ m.else \in Seq(PlainMove) \union Seq(ShallowMove)
    BY <1>3 DEF IfOf
  <2>. QED BY <1>1, <2>1, <2>2, <2>3
<1>4. CASE m \in LoopMove
  BY <1>4 DEF LoopMove
<1>5. CASE m = PushRef
  BY <1>5 DEF PushRef
<1>. QED BY <1>2, <1>3, <1>4, <1>5 DEF Move, RoutineMove, ShallowMove

-----------------------------------------------------------------------------
(* What is read.  Whoever takes the end of file for something else reports *)
(* an error, so that behind it there is one.                               *)

ErrorKinds == {"expected", "unexpected", "host type", "too many"}

ReadInv ==
  /\ TypeOK
  /\ ahead \in Seq(TokenKind)
  /\ token = NoToken => errors # {}
  /\ HaltsOnErrorsOnly

LEMMA TokenIsConsumed ==
  ASSUME ReadInv, Consume, errors \subseteq errors', errors' \subseteq ErrorKinds,
         token # "EOF" \/ errors' # {}, top' \in Nat, halt = "no", halt' = halt
  PROVE  ReadInv'
<1>1. NoToken \notin TokenKind /\ "EOF" \in TokenKind
  BY DEF NoToken, TokenKind
<1>2. token' \in TokenKind \union {NoToken} /\ (token' = NoToken => token = "EOF")
  <2>1. CASE token = "EOF"
    BY <2>1 DEF Consume
  <2>2. CASE token # "EOF" /\ ahead # <<>>
    <3>1. Head(ahead) \in TokenKind
      BY <2>2 DEF ReadInv
    <3>2. token' = Head(ahead)
      BY <2>2 DEF Consume
    <3>. QED BY <1>1, <3>1, <3>2
  <2>3. CASE token # "EOF" /\ ahead = <<>>
    BY <1>1, <2>3 DEF Consume
  <2>. QED BY <2>1, <2>2, <2>3
<1>3. pos' \in Nat
  <2>1. pos' = pos + 1
    BY DEF Consume
  <2>2. pos \in Nat
    BY DEF ReadInv, TypeOK
  <2>. QED BY <2>1, <2>2
<1>4. free' \in 0 .. MaxTokens
  <2>1. MaxTokens \in Nat /\ free \in 0 .. MaxTokens
    BY ParserAssumption DEF ReadInv, TypeOK
  <2>2. CASE ahead = <<>> /\ token' \in TokenKind \ {"EOF"}
    <3>1. free' = free - 1
      BY <2>2 DEF Consume
    <3>2. token # "EOF"
      BY <1>1, <2>2 DEF Consume
    <3>3. free # 0
      BY <2>2, <3>2 DEF Consume
    <3>. QED BY <2>1, <3>1, <3>3
  <2>3. CASE ~(ahead = <<>> /\ token' \in TokenKind \ {"EOF"})
    <3>1. free' = free
      BY <2>3 DEF Consume
    <3>. QED BY <2>1, <3>1
  <2>. QED BY <2>2, <2>3
<1>5. ahead' \in Seq(TokenKind)
  <2>1. CASE ahead = <<>>
    BY <2>1 DEF Consume, ReadInv
  <2>2. CASE ahead # <<>>
    <3>1. ahead' = Tail(ahead)
      BY <2>2 DEF Consume
    <3>. QED BY <2>2, <3>1 DEF ReadInv
  <2>. QED BY <2>1, <2>2
<1>6. token' = NoToken => errors' # {}
  BY <1>2
<1>. QED BY <1>2, <1>3, <1>4, <1>5, <1>6 DEF ReadInv, TypeOK, ErrorKinds, HaltsOnErrorsOnly

LEMMA ReadOn ==
  ASSUME ReadInv, UNCHANGED readVars, errors \subseteq errors', errors' \subseteq ErrorKinds,
         top' \in Nat, halt = "no", halt' = halt
  PROVE  ReadInv'
BY DEF ReadInv, TypeOK, readVars, ErrorKinds, HaltsOnErrorsOnly

LEMMA ReadStep ==
  ASSUME ReadInv, todo \in Seq(Move), top' \in Nat, [Next]_vars
  PROVE  ReadInv'
<1>1. todo # <<>> => todo[1] \in Move
  BY EmptySeq, ElementOfSeq
<1>2. errors \subseteq ErrorKinds
  BY DEF ReadInv, TypeOK, ErrorKinds
<1>3. CASE ExpectToken
  <2>1. todo[1].kind \in Asked
    BY <1>1, <1>3, FieldsOfMoves DEF ExpectToken, At
  <2>2. errors' = errors \union (IF token = todo[1].kind THEN {} ELSE {"expected"})
    BY <1>3 DEF ExpectToken, ReportErrors
  <2>3. token # "EOF" \/ errors' # {}
    BY <2>1, <2>2 DEF Asked
  <2>. QED BY <1>2, <1>3, <2>2, <2>3, TokenIsConsumed DEF ExpectToken, At, ErrorKinds
<1>4. CASE ExpectTokenOfLeaf
  <2>1. todo[1].kind \in Asked
    BY <1>1, <1>4, FieldsOfMoves DEF ExpectTokenOfLeaf, At
  <2>2. errors' = errors \union (IF token = todo[1].kind THEN {} ELSE {"expected"})
    BY <1>4 DEF ExpectTokenOfLeaf, ReportErrors
  <2>3. token # "EOF" \/ errors' # {}
    BY <2>1, <2>2 DEF Asked
  <2>. QED BY <1>2, <1>4, <2>2, <2>3, TokenIsConsumed DEF ExpectTokenOfLeaf, At, ErrorKinds
<1>5. CASE TakeIf
  <2>1. todo[1].kind \in Asked
    BY <1>1, <1>5, FieldsOfMoves DEF TakeIf, At
  <2>2. token # "EOF" /\ errors' = errors
    BY <1>5, <2>1 DEF TakeIf, Asked, errorVars
  <2>. QED BY <1>2, <1>5, <2>2, TokenIsConsumed DEF TakeIf, At
<1>6. CASE TakeElse \/ NilNode \/ MakeNode \/ PushNodeRef \/ BeginList \/ EndProgram
  <2>1. UNCHANGED readVars /\ errors' = errors /\ halt = "no" /\ halt' = halt
    BY <1>6 DEF TakeElse, NilNode, MakeNode, PushNodeRef, BeginList, EndProgram, At, errorVars
  <2>. QED BY <1>2, <2>1, ReadOn
<1>7. CASE ReportMove
  <2>1. errors' = errors \union {"host type"}
    BY <1>1, <1>7, FieldsOfMoves DEF ReportMove, ReportErrors, At
  <2>. QED BY <1>2, <1>7, <2>1, ReadOn DEF ReportMove, At, ErrorKinds
<1>8. CASE BeginItem
  <2>1. todo[1] \in LoopMove
    BY <1>1, <1>8, FieldsOfMoves DEF BeginItem, At
  <2>2. todo[1].list \in ItemLists \union {"Program"}
    BY <2>1 DEF LoopMove
  <2>3. token \in Asked
    BY <1>8, <2>2, ItemsOfLoops DEF BeginItem
  <2>4. errors' = errors /\ halt = "no" /\ halt' = halt
    BY <1>8 DEF BeginItem, At, errorVars
  <2>5. CASE todo[1].list = "Program"
    BY <1>2, <1>8, <2>3, <2>4, <2>5, TokenIsConsumed DEF BeginItem, Asked
  <2>6. CASE todo[1].list # "Program"
    BY <1>2, <1>8, <2>4, <2>6, ReadOn DEF BeginItem
  <2>. QED BY <2>5, <2>6
<1>9. CASE SkipSeparator
  <2>1. todo[1] \in LoopMove
    BY <1>1, <1>9, FieldsOfMoves DEF SkipSeparator, At
  <2>2. todo[1].list \in ItemLists \union {"Program"}
    BY <2>1 DEF LoopMove
  <2>3. token \in Asked
    BY <1>9, <2>2, ItemsOfLoops DEF SkipSeparator
  <2>4. errors' = errors /\ halt = "no" /\ halt' = halt
    BY <1>9 DEF SkipSeparator, At, errorVars
  <2>. QED BY <1>2, <1>9, <2>3, <2>4, TokenIsConsumed DEF SkipSeparator, Asked
<1>10. CASE EndList
  <2>1. todo[1] \in LoopMove
    BY <1>1, <1>10, FieldsOfMoves DEF EndList, At
  <2>2. todo[1].list \in ItemLists
    BY <1>10, <2>1 DEF LoopMove, EndList
  <2>3. LoopOf[todo[1].list].end \in Asked
    BY <2>2, ItemsOfLoops DEF ItemLists
  <2>4. errors' = errors \union ListErrors(todo[1])
    BY <1>10 DEF EndList, ReportErrors
  <2>5. ListErrors(todo[1]) \subseteq ErrorKinds
    BY DEF ListErrors, ErrorKinds
  <2>6. token # "EOF" \/ errors' # {}
    BY <2>3, <2>4 DEF ListErrors, Closes, Asked
  <2>. QED BY <1>2, <1>10, <2>4, <2>5, <2>6, TokenIsConsumed DEF EndList, At
<1>11. CASE GiveUp
  <2>1. errors' = errors \union {"unexpected"}
    BY <1>11 DEF GiveUp, ReportErrors
  <2>. QED BY <1>2, <1>11, <2>1, TokenIsConsumed DEF GiveUp, At, ErrorKinds
<1>12. CASE Halt
  <2>1. UNCHANGED <<readVars, top, errorVars>> /\ token \in {"Error", NoToken}
        /\ halt' \in {"assert", "unreachable"}
    BY <1>12 DEF Halt
  <2>. QED BY <2>1 DEF ReadInv, TypeOK, HaltsOnErrorsOnly, readVars, errorVars
<1>13. CASE UNCHANGED vars
  BY <1>13 DEF vars, readVars, errorVars, ReadInv, TypeOK, HaltsOnErrorsOnly
<1>. QED BY <1>3, <1>4, <1>5, <1>6, <1>7, <1>8, <1>9, <1>10, <1>11, <1>12, <1>13 DEF Next

-----------------------------------------------------------------------------
(* The stack of references.                                                *)

RefsLive(refs, up) ==
  /\ \E S : refs \in Seq(S)
  /\ \A i \in DOMAIN refs :
       refs[i].at \in Nat /\ refs[i].at <= up /\ (i > 1 => refs[i - 1].at < refs[i].at)

StackInv ==
  /\ todo \in Seq(Move) /\ top \in Nat
  /\ Done => todo = <<>> /\ top = 0
  /\ ~Done => /\ RefsLive(nrs, top)
              /\ Exact(errors) => top = Len(nrs)
              /\ \E b : Stacked(b, todo, nrs, top, errors)

LEMMA StackBegins == Init => StackInv
<1>. SUFFICES ASSUME Init PROVE StackInv
  OBVIOUS
<1>1. PICK loop : loop = Loop("Program", FALSE, 0, 0)
  OBVIOUS
<1>2. loop \in LoopMove /\ loop.n = 0 /\ loop.mark = 0 /\ loop.list = "Program"
  BY <1>1 DEF Loop, LoopMove
<1>3. todo = <<loop>> /\ top = 0 /\ nrs = <<>> /\ root = NoRoot
  BY <1>1 DEF Init
<1>4. loop \in Move
  BY <1>2 DEF Move
<1>5. Owned(loop) = 0 /\ IsLoop(loop)
  BY <1>2, <1>4, OwnedIsInt DEF Owned, IsLoop
<1>6. PICK b : b = [i \in 1 .. 1 |-> 0]
  OBVIOUS
<1>7. Len(todo) = 1 /\ todo[1] = loop /\ todo # <<>> /\ Len(nrs) = 0
  BY <1>3
<1>8. b \in [1 .. 1 -> Nat] /\ b[1] = 0 /\ 1 .. 1 - 1 = {} /\ \A i \in 1 .. 1 : i = 1
  BY <1>6
<1>9. Chained(b, todo, nrs)
  BY <1>5, <1>7, <1>8 DEF Chained
<1>10. LoopsFit(b, todo, nrs, top, errors)
  BY <1>2, <1>3, <1>7, <1>8 DEF LoopsFit, LoopFits
<1>11. Nested(b, todo) /\ ProgramIsOutermost(todo)
  BY <1>2, <1>5, <1>7, <1>8 DEF Nested, ProgramIsOutermost
<1>12. RefsLive(nrs, top)
  <2>1. nrs \in Seq({}) /\ DOMAIN nrs = {}
    BY <1>3
  <2>. QED BY <2>1 DEF RefsLive
<1>. QED BY <1>3, <1>4, <1>7, <1>9, <1>10, <1>11, <1>12 DEF StackInv, Stacked, Done

\* The moves that touch neither the stack of references nor its memory.
LEMMA RoutineStep ==
  ASSUME StackInv, todo # <<>>, todo[1] \in RoutineMove, NEW p \in Seq(RoutineMove),
         todo' = p \o Rest, UNCHANGED <<nrs, top, root>>, errors \subseteq errors'
  PROVE  StackInv'
<1>1. ~Done /\ ~Done'
  BY DEF StackInv, Done
<1>2. PICK b : Stacked(b, todo, nrs, top, errors)
  BY <1>1 DEF StackInv
<1>3. Stacked(b, todo, nrs, top, errors')
  BY <1>2, ErrorsAreAdded DEF Exact
<1>4. Rest \in Seq(Move) /\ \E c : Stacked(c, Rest, nrs, top, errors')
  BY <1>3, MoveIsMade DEF StackInv, Rest
<1>5. PICK c : Stacked(c, Rest, nrs, top, errors')
  BY <1>4
<1>6. Len(nrs) \in Nat
  <2>1. PICK S : nrs \in Seq(S)
    BY <1>1 DEF StackInv, RefsLive
  <2>. QED BY <2>1
<1>7. todo' \in Seq(Move) /\ \E d : Stacked(d, todo', nrs, top, errors')
  BY <1>4, <1>5, <1>6, RoutineIsCalled
<1>. QED BY <1>1, <1>7 DEF StackInv, Exact, Done

LEMMA PushStep ==
  ASSUME StackInv, PushNodeRef
  PROVE  StackInv'
<1>1. todo # <<>> /\ todo[1].move = "push" /\ todo' = Rest /\ root' = root /\ errors' = errors
  BY DEF PushNodeRef, At, errorVars
<1>2. ~Done /\ ~Done'
  BY <1>1 DEF StackInv, Done
<1>3. todo[1] = PushRef
  <2>1. todo[1] \in Move
    BY <1>1, EmptySeq, ElementOfSeq DEF StackInv
  <2>. QED BY <1>1, <2>1, FieldsOfMoves
<1>4. PICK b : Stacked(b, todo, nrs, top, errors)
  BY <1>2 DEF StackInv
<1>5. PICK S : nrs \in Seq(S)
  BY <1>2 DEF StackInv, RefsLive
<1>6. PICK ref : ref = [to |-> Last(nodes), at |-> top + 1]
  OBVIOUS
<1>7. nrs' = Append(nrs, ref) /\ top' = top + 1 /\ ref.at = top + 1 /\ top \in Nat
  BY <1>6 DEF PushNodeRef, StackInv
<1>8. PICK T : T = S \union {ref}
  OBVIOUS
<1>9. nrs \in Seq(T) /\ ref \in T
  BY <1>5, <1>8, SeqMonotonic
<1>10. todo' \in Seq(Move) /\ \E c : Stacked(c, todo', nrs', top', errors')
  BY <1>1, <1>3, <1>4, <1>7, <1>9, RefIsPushed DEF StackInv, Rest
<1>11. PICK n : n = Len(nrs)
  OBVIOUS
<1>12. /\ n \in Nat /\ Len(nrs') = n + 1 /\ nrs' \in Seq(T) /\ DOMAIN nrs' = 1 .. n + 1 /\ DOMAIN nrs = 1 .. n
       /\ nrs'[n + 1] = ref /\ \A i \in 1 .. n : nrs'[i] = nrs[i]
  BY <1>7, <1>9, <1>11
<1>13. RefsLive(nrs', top')
  <2>. SUFFICES ASSUME NEW i \in 1 .. n + 1
                PROVE  nrs'[i].at \in Nat /\ nrs'[i].at <= top' /\ (i > 1 => nrs'[i - 1].at < nrs'[i].at)
    BY <1>12 DEF RefsLive
  <2>1. \A j \in 1 .. n : nrs[j].at \in Nat /\ nrs[j].at <= top /\ (j > 1 => nrs[j - 1].at < nrs[j].at)
    BY <1>2, <1>12 DEF StackInv, RefsLive
  <2>2. CASE i \in 1 .. n
    <3>1. i > 1 => i - 1 \in 1 .. n
      BY <1>12
    <3>. QED BY <1>7, <1>12, <2>1, <2>2, <3>1
  <2>3. CASE i = n + 1
    <3>1. i > 1 => i - 1 \in 1 .. n
      BY <1>12, <2>3
    <3>2. i > 1 => nrs'[i - 1].at <= top /\ nrs'[i - 1].at \in Nat
      BY <1>12, <2>1, <3>1
    <3>. QED BY <1>7, <1>12, <2>3, <3>2
  <2>. QED BY <1>12, <2>2, <2>3
<1>14. Exact(errors') => top' = Len(nrs')
  BY <1>1, <1>2, <1>7, <1>11, <1>12 DEF StackInv
<1>. QED BY <1>2, <1>7, <1>10, <1>13, <1>14 DEF StackInv

LEMMA BeginStep ==
  ASSUME StackInv, BeginList
  PROVE  StackInv'
<1>1. todo # <<>> /\ todo[1].move = "begin" /\ UNCHANGED <<nrs, top, root>> /\ errors' = errors
  BY DEF BeginList, At, errorVars
<1>2. ~Done /\ ~Done'
  BY <1>1 DEF StackInv, Done
<1>3. todo[1] \in Move
  BY <1>1, EmptySeq, ElementOfSeq DEF StackInv
<1>4. todo[1] \in RoutineMove /\ todo[1].list \in ItemLists /\ todo[1].binary \in BOOLEAN
  BY <1>1, <1>3, FieldsOfMoves
<1>5. PICK loop : loop = Loop(todo[1].list, todo[1].binary, top, 0)
  OBVIOUS
<1>6. loop \in LoopMove /\ loop.n = 0 /\ loop.mark = top /\ loop.list # "Program"
  BY <1>4, <1>5 DEF Loop, LoopMove, ItemLists, StackInv
<1>7. todo' = <<loop>> \o Rest
  BY <1>5 DEF BeginList
<1>8. PICK b : Stacked(b, todo, nrs, top, errors)
  BY <1>2 DEF StackInv
<1>9. Rest \in Seq(Move) /\ \E c : Stacked(c, Rest, nrs, top, errors)
  BY <1>4, <1>8, MoveIsMade DEF StackInv, Rest
<1>10. PICK c : Stacked(c, Rest, nrs, top, errors)
  BY <1>9
<1>11. Len(nrs) \in Nat /\ \A j \in 1 .. Len(nrs) : nrs[j].at <= top
  <2>1. PICK S : nrs \in Seq(S)
    BY <1>2 DEF StackInv, RefsLive
  <2>2. DOMAIN nrs = 1 .. Len(nrs) /\ Len(nrs) \in Nat
    BY <2>1
  <2>3. \A j \in DOMAIN nrs : nrs[j].at <= top
    BY <1>2 DEF StackInv, RefsLive
  <2>. QED BY <2>2, <2>3
<1>12. todo' \in Seq(Move) /\ \E d : Stacked(d, todo', nrs, top, errors)
  BY <1>2, <1>6, <1>7, <1>9, <1>10, <1>11, ListBegins DEF StackInv
<1>. QED BY <1>1, <1>2, <1>12 DEF StackInv

LEMMA ItemStep ==
  ASSUME StackInv, BeginItem
  PROVE  StackInv'
<1>1. todo # <<>> /\ todo[1].move = "loop" /\ UNCHANGED <<nrs, top, root>> /\ errors' = errors
  BY DEF BeginItem, At, errorVars
<1>2. ~Done /\ ~Done'
  BY <1>1 DEF StackInv, Done
<1>3. todo[1] \in Move
  BY <1>1, EmptySeq, ElementOfSeq DEF StackInv
<1>4. todo[1] \in LoopMove
  BY <1>1, <1>3, FieldsOfMoves
<1>5. PICK loop : loop = [todo[1] EXCEPT !.n = @ + 1]
  OBVIOUS
<1>6. loop \in LoopMove /\ loop.n = todo[1].n + 1 /\ loop.mark = todo[1].mark /\ loop.list = todo[1].list
  BY <1>4, <1>5 DEF LoopMove
<1>7. PICK p : p = LoopOf[todo[1].list].items[token]
  OBVIOUS
<1>8. p \in Seq(RoutineMove) /\ p \in Seq(Move)
  <2>1. todo[1].list \in ItemLists \union {"Program"} /\ token \in DOMAIN LoopOf[todo[1].list].items
    BY <1>4 DEF LoopMove, BeginItem
  <2>2. p \in Seq(RoutineMove)
    BY <1>7, <2>1, ItemsOfLoops
  <2>. QED BY <2>2, MovesOfRoutines, SeqMonotonic
<1>9. PICK b : Stacked(b, todo, nrs, top, errors)
  BY <1>2 DEF StackInv
<1>10. PICK u : u = <<PushRef, loop>> \o Rest
  OBVIOUS
<1>11. u \in Seq(Move) /\ \E c : Stacked(c, u, nrs, top, errors)
  BY <1>1, <1>6, <1>9, <1>10, ItemIsCounted DEF StackInv, Rest, IsLoop
<1>12. todo' = p \o u
  <2>1. todo' = p \o <<PushRef, loop>> \o Rest
    BY <1>5, <1>7 DEF BeginItem
  <2>2. <<PushRef, loop>> \in Seq(Move)
    BY <1>6 DEF Move
  <2>3. Rest \in Seq(Move)
    BY <1>1, HeadTailProperties DEF StackInv, Rest
  <2>. QED BY <1>8, <1>10, <2>1, <2>2, <2>3, ConcatAssociative
<1>13. PICK c : Stacked(c, u, nrs, top, errors)
  BY <1>11
<1>14. Len(nrs) \in Nat
  <2>1. PICK S : nrs \in Seq(S)
    BY <1>2 DEF StackInv, RefsLive
  <2>. QED BY <2>1
<1>15. todo' \in Seq(Move) /\ \E d : Stacked(d, todo', nrs, top, errors)
  BY <1>8, <1>11, <1>12, <1>13, <1>14, RoutineIsCalled
<1>. QED BY <1>1, <1>2, <1>15 DEF StackInv

LEMMA EndStep ==
  ASSUME StackInv, EndList
  PROVE  StackInv'
<1>1. todo # <<>> /\ todo[1].move = "loop" /\ todo[1].list # "Program" /\ root' = root
  BY DEF EndList, At
<1>2. ~Done /\ ~Done'
  BY <1>1 DEF StackInv, Done
<1>3. todo[1] \in LoopMove
  <2>1. todo[1] \in Move
    BY <1>1, EmptySeq, ElementOfSeq DEF StackInv
  <2>. QED BY <1>1, <2>1, FieldsOfMoves
<1>4. /\ todo' = Rest /\ nrs' = SubSeq(nrs, 1, Len(nrs) - todo[1].n) /\ top' = TopBelow(todo[1])
      /\ errors' = errors \union ListErrors(todo[1])
  BY DEF EndList, RefsBelow, ReportErrors
<1>5. top' \in {todo[1].mark, top}
  BY <1>4 DEF TopBelow
<1>6. Exact(errors') => Exact(errors) /\ top' = todo[1].mark
  BY <1>4 DEF Exact, ListErrors, TopBelow
<1>7. PICK b : Stacked(b, todo, nrs, top, errors)
  BY <1>2 DEF StackInv
<1>8. PICK S : nrs \in Seq(S)
  BY <1>2 DEF StackInv, RefsLive
<1>9. PICK base, loop : base = b[1] /\ loop = todo[1]
  OBVIOUS
<1>10. /\ todo' \in Seq(Move)
       /\ base \in Nat /\ Len(nrs) - loop.n = base /\ base <= Len(nrs)
       /\ LoopFits(base, loop, nrs, top, errors)
       /\ \E c : Stacked(c, todo', nrs', top', errors')
  <2>1. PICK below, still : below = top' /\ still = errors'
    OBVIOUS
  <2>2. GivesBack(todo[1], top, errors, below, still)
    BY <1>5, <1>6, <2>1 DEF GivesBack
  <2>3. todo \in Seq(Move) /\ top \in Nat /\ IsLoop(todo[1])
    BY <1>1 DEF StackInv, IsLoop
  <2>4. /\ Tail(todo) \in Seq(Move)
        /\ b[1] \in Nat /\ Len(nrs) - todo[1].n = b[1] /\ b[1] <= Len(nrs)
        /\ LoopFits(b[1], todo[1], nrs, top, errors)
        /\ \E c : Stacked(c, Tail(todo), SubSeq(nrs, 1, Len(nrs) - todo[1].n), below, still)
    BY <1>1, <1>7, <1>8, <2>2, <2>3, ListGoes
  <2>. QED BY <1>4, <1>9, <2>1, <2>4 DEF Rest
<1>11. /\ nrs' \in Seq(S) /\ Len(nrs') = base /\ DOMAIN nrs' = 1 .. base
       /\ \A i \in 1 .. base : nrs'[i] = nrs[i] /\ i \in DOMAIN nrs
  <2>1. base \in 0 .. Len(nrs) /\ DOMAIN nrs = 1 .. Len(nrs) /\ nrs' = SubSeq(nrs, 1, base)
    BY <1>4, <1>8, <1>9, <1>10
  <2>2. nrs' \in Seq(S) /\ Len(nrs') = base /\ \A i \in 1 .. base : nrs'[i] = nrs[i]
    BY <1>8, <2>1, SplitElements
  <2>3. DOMAIN nrs' = 1 .. base
    BY <2>2
  <2>. QED BY <1>8, <1>10, <2>1, <2>2, <2>3
<1>12. loop.mark \in Nat /\ top \in Nat /\ top' \in Nat
  BY <1>3, <1>5, <1>9 DEF LoopMove, StackInv
<1>13. \A i \in DOMAIN nrs : nrs[i].at \in Nat /\ nrs[i].at <= top /\ (i > 1 => nrs[i - 1].at < nrs[i].at)
  BY <1>2 DEF StackInv, RefsLive
<1>14. ASSUME NEW i \in 1 .. base
       PROVE  nrs'[i].at \in Nat /\ nrs'[i].at <= top' /\ (i > 1 => nrs'[i - 1].at < nrs'[i].at)
  <2>1. nrs'[i] = nrs[i] /\ i \in DOMAIN nrs /\ (i > 1 => i - 1 \in 1 .. base)
    BY <1>10, <1>11
  <2>2. nrs[i].at <= loop.mark
    BY <1>10 DEF LoopFits
  <2>. QED BY <1>5, <1>9, <1>11, <1>13, <2>1, <2>2
<1>15. RefsLive(nrs', top')
  BY <1>11, <1>14 DEF RefsLive
<1>16. Exact(errors') => top' = Len(nrs')
  BY <1>6, <1>9, <1>10, <1>11 DEF LoopFits
<1>. QED BY <1>2, <1>10, <1>12, <1>15, <1>16 DEF StackInv

\* The loop over declarations is the last of the moves, and began at the bottom.
LEMMA ProgramIsLast ==
  ASSUME StackInv, todo # <<>>, todo[1].move = "loop", todo[1].list = "Program"
  PROVE  Rest = <<>> /\ todo[1].mark = 0
<1>1. PICK b : Stacked(b, todo, nrs, top, errors)
  BY DEF StackInv, Done
<1>2. PICK n : n = Len(todo)
  OBVIOUS
<1>3. todo \in Seq(Move) /\ n \in Nat \ {0}
  BY <1>2, EmptySeq DEF StackInv
<1>4. n = 1
  <2>1. n # 1 => 1 \in 1 .. n - 1
    BY <1>3
  <2>. QED BY <1>1, <1>2, <2>1 DEF Stacked, ProgramIsOutermost, IsLoop
<1>5. todo[1].mark = 0
  BY <1>1, <1>2, <1>4 DEF Stacked, ProgramIsOutermost
<1>6. Tail(todo) \in Seq(Move) /\ Len(Tail(todo)) = Len(todo) - 1 /\ Len(todo) = 1
  BY <1>2, <1>3, <1>4, HeadTailProperties
<1>7. Tail(todo) = <<>>
  <2>1. PICK u : u = Tail(todo)
    OBVIOUS
  <2>2. u \in Seq(Move) /\ Len(u) = 0
    BY <1>6, <2>1
  <2>. QED BY <2>1, <2>2, EmptySeq
<1>. QED BY <1>5, <1>7 DEF Rest

LEMMA ProgramStep ==
  ASSUME StackInv, EndProgram \/ GiveUp
  PROVE  StackInv'
<1>1. todo # <<>> /\ todo[1].move = "loop" /\ todo[1].list = "Program" /\ top' = todo[1].mark
  BY DEF EndProgram, GiveUp, At
<1>2. top' = 0 /\ Rest = <<>>
  BY <1>1, ProgramIsLast
<1>3. todo' = <<>>
  BY <1>2 DEF EndProgram, GiveUp
<1>4. root'.kind \in {"Program", "Error"}
  BY DEF EndProgram, GiveUp, Node, Leaf
<1>5. root' # NoRoot
  BY <1>4 DEF NoRoot, Leaf
<1>6. todo' \in Seq(Move)
  BY <1>3
<1>. QED BY <1>2, <1>3, <1>5, <1>6 DEF StackInv, Done

LEMMA StackStep ==
  ASSUME StackInv, [Next]_vars
  PROVE  StackInv'
<1>. DEFINE Quiet == UNCHANGED <<nrs, top, root>> /\ errors \subseteq errors'
<1>1. \A m : m \in Move /\ m.move \notin {"loop", "push"} => m \in RoutineMove
  BY FieldsOfMoves
<1>2. todo # <<>> => todo[1] \in Move /\ Rest \in Seq(Move)
  BY EmptySeq, ElementOfSeq, HeadTailProperties DEF StackInv, Rest
<1>3. ASSUME ExpectToken \/ ExpectTokenOfLeaf \/ ReportMove \/ NilNode \/ MakeNode
      PROVE  StackInv'
  <2>1. todo # <<>> /\ todo[1].move \in {"expect", "leaf", "report", "nil", "make"} /\ todo' = Rest
    BY <1>3 DEF ExpectToken, ExpectTokenOfLeaf, ReportMove, NilNode, MakeNode, At
  <2>2. Quiet
    BY <1>3 DEF ExpectToken, ExpectTokenOfLeaf, ReportMove, NilNode, MakeNode, ReportErrors, errorVars
  <2>3. <<>> \in Seq(RoutineMove) /\ todo' = <<>> \o Rest
    BY <1>2, <2>1, ConcatEmptySeq
  <2>. QED BY <1>1, <1>2, <2>1, <2>2, <2>3, RoutineStep
<1>4. ASSUME TakeIf \/ TakeElse
      PROVE  StackInv'
  <2>1. todo # <<>> /\ todo[1].move = "if"
    BY <1>4 DEF TakeIf, TakeElse, At
  <2>2. Quiet
    BY <1>4 DEF TakeIf, TakeElse, errorVars
  <2>3. todo[1].then \in Seq(RoutineMove) /\ todo[1].else \in Seq(RoutineMove)
    BY <1>2, <2>1, FieldsOfMoves
  <2>4. todo' = todo[1].then \o Rest \/ todo' = todo[1].else \o Rest
    BY <1>4 DEF TakeIf, TakeElse
  <2>. QED BY <1>1, <1>2, <2>1, <2>2, <2>3, <2>4, RoutineStep
<1>5. ASSUME SkipSeparator \/ Halt \/ UNCHANGED vars
      PROVE  StackInv'
  <2>1. UNCHANGED <<todo, nrs, top, root, errors>>
    BY <1>5 DEF SkipSeparator, Halt, vars, errorVars
  <2>. QED BY <2>1 DEF StackInv, Done
<1>. QED BY <1>3, <1>4, <1>5, PushStep, BeginStep, ItemStep, EndStep, ProgramStep DEF Next

-----------------------------------------------------------------------------
(* The theorems.                                                           *)

ParserInv == ReadInv /\ StackInv

\* Whatever the source, every step of the parser keeps what is read and the
\* stack of references in order (tools/mirv.c 712-1470).
THEOREM ParserInvariant == Spec => []ParserInv
<1>1. Init => ParserInv
  <2>. SUFFICES ASSUME Init PROVE ParserInv
    OBVIOUS
  <2>1. PICK beginning \in Beginnings : token = Head(beginning) /\ ahead = Tail(beginning)
    BY DEF Init
  <2>2. beginning \in Seq(TokenKind) /\ beginning # <<>>
    BY ParserAssumption
  <2>3. token \in TokenKind /\ ahead \in Seq(TokenKind)
    BY <2>1, <2>2, HeadTailProperties
  <2>4. NoToken \notin TokenKind
    BY DEF NoToken, TokenKind
  <2>5. TypeOK
    BY <2>3, ParserAssumption DEF Init, TypeOK
  <2>6. ReadInv
    BY <2>3, <2>4, <2>5 DEF Init, ReadInv, HaltsOnErrorsOnly
  <2>. QED BY <2>6, StackBegins DEF ParserInv
<1>2. ParserInv /\ [Next]_vars => ParserInv'
  <2>. SUFFICES ASSUME ParserInv, [Next]_vars PROVE ParserInv'
    OBVIOUS
  <2>1. StackInv'
    BY StackStep DEF ParserInv
  <2>2. ReadInv'
    BY <2>1, ReadStep DEF ParserInv, StackInv
  <2>. QED BY <2>1, <2>2 DEF ParserInv
<1>. QED BY <1>1, <1>2, PTL DEF Spec

\* Each list finds its own children on the stack, in memory that was not given
\* back, and gives back what it took, on every error path (mirv.c 805, 967-1014).
THEOREM ListsOwnTheStack == Spec => []RefStackIsSound
<1>1. ParserInv => RefStackIsSound
  <2>. SUFFICES ASSUME ParserInv PROVE RefStackIsSound
    OBVIOUS
  <2>1. TypeOK
    BY DEF ParserInv, ReadInv
  <2>2. ASSUME ~Done PROVE SumFunction([i \in DOMAIN todo |-> Owned(todo[i])]) = Len(nrs)
    <3>1. PICK b : Stacked(b, todo, nrs, top, errors)
      BY <2>2 DEF ParserInv, StackInv
    <3>2. \A i \in 1 .. Len(todo) : Owned(todo[i]) \in Int
      BY OwnedIsInt, ElementOfSeq DEF ParserInv, StackInv
    <3>. QED BY <3>1, <3>2, StackedSum DEF ParserInv, StackInv, Stacked
  <2>3. RefsAreLive
    BY DEF ParserInv, StackInv, RefsLive, RefsAreLive
  <2>4. ScratchIsGivenBack
    BY DEF ParserInv, StackInv, Exact, ScratchIsGivenBack
  <2>. QED BY <2>1, <2>2, <2>3, <2>4 DEF RefStackIsSound, ListsOwnTheRefs
<1>. QED BY <1>1, ParserInvariant, PTL

\* The assertion of mrv_parser_consume and the unreachable case of
\* mrv_parse_program are met only after an error (mirv.c 717-724, 1367-1391).
THEOREM OnlyErrorsHalt == Spec => []HaltsOnErrorsOnly
<1>1. ParserInv => HaltsOnErrorsOnly
  BY DEF ParserInv, ReadInv
<1>. QED BY <1>1, ParserInvariant, PTL

-----------------------------------------------------------------------------
(* What the joined leaves of children are.                                 *)

\* The function that FlattenSeq defines by recursion.
JoinsTo(f, ss, n) == f = [i \in 1 .. n |-> IF i = 1 THEN ss[i] ELSE f[i - 1] \o ss[i]]

JoinOf(ss) == CHOOSE f : JoinsTo(f, ss, Len(ss))

LEMMA FlattenIsJoin ==
  ASSUME NEW ss, Len(ss) # 0
  PROVE  FlattenSeq(ss) = JoinOf(ss)[Len(ss)]
BY DEF FlattenSeq, JoinOf, JoinsTo

LEMMA JoinValues ==
  ASSUME NEW ss, NEW n \in Nat, NEW f, JoinsTo(f, ss, n), NEW i \in 1 .. n
  PROVE  f[i] = IF i = 1 THEN ss[i] ELSE f[i - 1] \o ss[i]
<1>. DEFINE V(g, j) == IF j = 1 THEN ss[j] ELSE g[j - 1] \o ss[j]
<1>1. f = [j \in 1 .. n |-> V(f, j)]
  BY DEF JoinsTo
<1>. HIDE DEF V
<1>2. f[i] = V(f, i)
  BY <1>1
<1>. QED BY <1>2 DEF V

LEMMA JoinExists ==
  ASSUME NEW ss, Len(ss) \in Nat
  PROVE  JoinsTo(JoinOf(ss), ss, Len(ss))
<1>. DEFINE Exists(m) == \E f : JoinsTo(f, ss, m)
            Bad == {m \in Nat : ~Exists(m)}
<1>1. Exists(0)
  <2>. DEFINE V(g, j) == IF j = 1 THEN ss[j] ELSE g[j - 1] \o ss[j]
  <2>1. PICK f : f = [i \in 1 .. 0 |-> 0]
    OBVIOUS
  <2>2. f = [i \in 1 .. 0 |-> V(f, i)]
    BY <2>1
  <2>3. JoinsTo(f, ss, 0)
    BY <2>2 DEF JoinsTo
  <2>. QED BY <2>3
<1>2. ASSUME NEW m \in Nat, Exists(m) PROVE Exists(m + 1)
  <2>. DEFINE V(g, j) == IF j = 1 THEN ss[j] ELSE g[j - 1] \o ss[j]
  <2>1. PICK f : JoinsTo(f, ss, m)
    BY <1>2
  <2>2. \A i \in 1 .. m : f[i] = V(f, i)
    BY <2>1, JoinValues
  <2>. HIDE DEF V
  <2>3. PICK g : g = [i \in 1 .. m + 1 |-> V(f, i)]
    OBVIOUS
  <2>4. \A i \in 1 .. m : g[i] = f[i]
    BY <2>2, <2>3
  <2>5. \A i \in 1 .. m + 1 : V(g, i) = V(f, i)
    <3>. TAKE i \in 1 .. m + 1
    <3>1. i = 1 \/ i - 1 \in 1 .. m
      OBVIOUS
    <3>. QED BY <2>4, <3>1 DEF V
  <2>6. g = [i \in 1 .. m + 1 |-> V(g, i)]
    BY <2>3, <2>5
  <2>. QED BY <2>6 DEF JoinsTo, V
<1>. HIDE DEF Exists
<1>3. Bad = {}
  <2>. SUFFICES ASSUME Bad # {} PROVE FALSE
    OBVIOUS
  <2>1. PICK m \in Bad : \A k \in Bad : m <= k
    <3>1. Bad \in SUBSET Nat
      OBVIOUS
    <3>. QED BY <3>1, LeastNat
  <2>2. m \in Nat /\ m # 0
    BY <1>1, <2>1
  <2>3. m - 1 \in Nat /\ m - 1 \notin Bad
    BY <2>1, <2>2
  <2>4. Exists((m - 1) + 1) /\ (m - 1) + 1 = m
    BY <1>2, <2>2, <2>3
  <2>. QED BY <2>1, <2>4
<1>4. Exists(Len(ss))
  BY <1>3
<1>. QED BY <1>4 DEF Exists, JoinOf

LEMMA FlattenEmpty ==
  ASSUME NEW ss, Len(ss) = 0
  PROVE  FlattenSeq(ss) = ss
BY DEF FlattenSeq

\* Whoever joins sequences over a set gets one over it.
LEMMA FlattenIsSeq ==
  ASSUME NEW T, NEW ss \in Seq(Seq(T))
  PROVE  FlattenSeq(ss) \in Seq(T)
<1>1. PICK n, f : n = Len(ss) /\ f = JoinOf(ss)
  OBVIOUS
<1>2. n \in Nat /\ JoinsTo(f, ss, n) /\ \A i \in 1 .. n : ss[i] \in Seq(T)
  BY <1>1, JoinExists, LenProperties, ElementOfSeq
<1>3. CASE n = 0
  <2>1. ss = <<>>
    BY <1>1, <1>3, EmptySeq
  <2>2. FlattenSeq(ss) = <<>>
    BY <1>1, <1>3, <2>1, FlattenEmpty
  <2>. QED BY <2>2, EmptySeq
<1>4. CASE n # 0
  <2>. DEFINE Bad == {m \in 1 .. n : f[m] \notin Seq(T)}
  <2>1. Bad = {}
    <3>. SUFFICES ASSUME Bad # {} PROVE FALSE
      OBVIOUS
    <3>1. PICK m \in Bad : \A k \in Bad : m <= k
      <4>1. Bad \in SUBSET Nat
        OBVIOUS
      <4>. QED BY <4>1, LeastNat
    <3>2. f[m] = IF m = 1 THEN ss[m] ELSE f[m - 1] \o ss[m]
      <4>1. n \in Nat /\ JoinsTo(f, ss, n) /\ m \in 1 .. n
        BY <1>2
      <4>. HIDE DEF Bad
      <4>. QED BY <4>1, JoinValues
    <3>3. m # 1 => m - 1 \in 1 .. n /\ m - 1 \notin Bad
      BY <1>2, <3>1
    <3>4. m # 1 => f[m - 1] \in Seq(T)
      BY <3>3
    <3>5. f[m] \in Seq(T)
      BY <1>2, <3>2, <3>4, ConcatProperties
    <3>. QED BY <3>1, <3>5
  <2>2. n \in 1 .. n
    BY <1>2, <1>4
  <2>3. f[n] \in Seq(T)
    BY <2>1, <2>2
  <2>. QED BY <1>1, <1>4, <2>3, FlattenIsJoin
<1>. QED BY <1>3, <1>4

LEMMA PieceBounds ==
  ASSUME NEW l \in Nat, NEW x \in 0 .. l, NEW b \in 0 .. l, NEW c \in 0 .. l, x <= b, b <= c
  PROVE  x + 1 \in 1 .. l + 1 /\ b \in (x + 1) - 1 .. l /\ c \in b .. l
OBVIOUS

\* e cuts us into n pieces that are ss.
CutsInto(e, us, ss, n) ==
  /\ e[0] \in 0 .. Len(us)
  /\ \A i \in 1 .. n :
       /\ e[i] \in 0 .. Len(us) /\ e[i - 1] <= e[i]
       /\ ss[i] = SubSeq(us, e[i - 1] + 1, e[i])

\* Pieces of a sequence that are joined again are the sequence.
LEMMA FlattenOfPieces ==
  ASSUME NEW T, NEW us \in Seq(T), NEW ss \in Seq(Seq(T)), NEW n, n = Len(ss),
         NEW e, CutsInto(e, us, ss, n)
  PROVE  FlattenSeq(ss) = SubSeq(us, e[0] + 1, e[n])
<1>1. PICK f : f = JoinOf(ss)
  OBVIOUS
<1>2. n \in Nat /\ JoinsTo(f, ss, n) /\ Len(us) \in Nat
  BY <1>1, JoinExists, LenProperties
<1>3. e[0] \in 0 .. Len(us)
  BY DEF CutsInto
<1>4. CASE n = 0
  <2>1. ss = <<>>
    BY <1>4, EmptySeq
  <2>2. FlattenSeq(ss) = <<>>
    BY <1>4, <2>1, FlattenEmpty
  <2>3. e[0] + 1 \in Int /\ e[0] \in Int /\ e[0] < e[0] + 1
    BY <1>2, <1>3
  <2>4. SubSeq(us, e[0] + 1, e[0]) = <<>>
    BY <2>3, SubSeqEmpty
  <2>. QED BY <1>4, <2>2, <2>4
<1>5. CASE n # 0
  <2>. DEFINE Good(m) == e[0] <= e[m] /\ f[m] = SubSeq(us, e[0] + 1, e[m])
              Bad == {m \in 1 .. n : ~Good(m)}
  <2>1. Bad = {}
    <3>. SUFFICES ASSUME Bad # {} PROVE FALSE
      OBVIOUS
    <3>1. PICK m \in Bad : \A k \in Bad : m <= k
      <4>1. Bad \in SUBSET Nat
        BY <1>2
      <4>. QED BY <4>1, LeastNat
    <3>2. f[m] = IF m = 1 THEN ss[m] ELSE f[m - 1] \o ss[m]
      <4>1. n \in Nat /\ JoinsTo(f, ss, n) /\ m \in 1 .. n
        BY <1>2
      <4>. HIDE DEF Bad, Good
      <4>. QED BY <4>1, JoinValues
    <3>3. e[m] \in 0 .. Len(us) /\ e[m - 1] <= e[m] /\ ss[m] = SubSeq(us, e[m - 1] + 1, e[m])
      BY DEF CutsInto
    <3>4. CASE m = 1
      <4>1. m - 1 = 0
        BY <3>4
      <4>2. Good(m)
        BY <3>2, <3>3, <3>4, <4>1
      <4>. QED BY <4>2
    <3>5. CASE m # 1
      <4>1. m - 1 \in 1 .. n
        BY <1>2, <3>5
      <4>2. m - 1 \notin Bad
        BY <1>2, <3>1, <4>1
      <4>3. Good(m - 1)
        BY <4>1, <4>2
      <4>4. e[m - 1] \in 0 .. Len(us)
        BY <4>1 DEF CutsInto
      <4>5. e[0] <= e[m]
        BY <1>2, <1>3, <3>3, <4>3, <4>4
      <4>6. PICK a, b, c, x : a = x + 1 /\ b = e[m - 1] /\ c = e[m] /\ x = e[0]
        OBVIOUS
      <4>7. a \in 1 .. Len(us) + 1 /\ b \in a - 1 .. Len(us) /\ c \in b .. Len(us)
        <5>1. x \in 0 .. Len(us) /\ b \in 0 .. Len(us) /\ c \in 0 .. Len(us) /\ x <= b /\ b <= c
          BY <1>3, <3>3, <4>3, <4>4, <4>6
        <5>. QED BY <1>2, <4>6, <5>1, PieceBounds
      <4>8. SubSeq(us, a, b) \o SubSeq(us, b + 1, c) = SubSeq(us, a, c)
        BY <4>7, ConcatAdjacentSubSeq
      <4>9. f[m] = SubSeq(us, e[0] + 1, e[m])
        BY <3>2, <3>3, <3>5, <4>3, <4>6, <4>8
      <4>. QED BY <4>5, <4>9
    <3>. QED BY <3>4, <3>5
  <2>2. n \in 1 .. n
    BY <1>2, <1>5
  <2>3. Good(n)
    BY <2>1, <2>2
  <2>. QED BY <1>1, <1>5, <2>3, FlattenIsJoin
<1>. QED BY <1>4, <1>5

-----------------------------------------------------------------------------
(* How many nodes the moves of a routine leave behind.                     *)

\* The tokens that are names.
Named == {"Ident", "SymbolIdent", "Unit"}

\* A move that is reached with from nodes of the routine is left with to of them.
PlainGain ==
  {g \in [does : PlainMove, from : Nat, to : Nat] :
     /\ g.does.move = "expect" => g.does.kind \notin Named /\ g.to = g.from
     /\ g.does.move = "report" => g.to = g.from
     /\ g.does.move = "leaf" => g.does.kind \in Named /\ g.to = g.from + 1
     /\ g.does.move \in {"nil", "begin"} => g.to = g.from + 1
     /\ g.does.move = "make" => g.does.n <= g.from /\ g.to = g.from - g.does.n + 1}

Gain(m, a, b) == [does |-> m, from |-> a, to |-> b]

\* The moves p go from a to b nodes.
Rises(G, p, a, b) ==
  \E d \in [1 .. Len(p) + 1 -> Nat] :
    d[1] = a /\ d[Len(p) + 1] = b /\ \A i \in 1 .. Len(p) : Gain(p[i], d[i], d[i + 1]) \in G

\* Both ways leave the same.
IfGain(S, G) ==
  {g \in [does : IfOf(S), from : Nat, to : Nat] :
     /\ g.does.kind \notin Named
     /\ Rises(G, g.does.then, g.from, g.to) /\ Rises(G, g.does.else, g.from, g.to)}

ShallowGain == PlainGain \union IfGain(PlainMove, PlainGain)
RoutineGain == ShallowGain \union IfGain(ShallowMove, ShallowGain)

LEMMA GainsOfRoutines ==
  PlainGain \subseteq ShallowGain /\ ShallowGain \subseteq RoutineGain /\ PlainGain \subseteq RoutineGain
BY DEF ShallowGain, RoutineGain

LEMMA MoreRises ==
  ASSUME NEW G, NEW H, G \subseteq H, NEW p, NEW a, NEW b, Rises(G, p, a, b)
  PROVE  Rises(H, p, a, b)
BY DEF Rises

LEMMA OneRises ==
  ASSUME NEW G, NEW m, NEW a \in Nat, NEW b \in Nat, Gain(m, a, b) \in G
  PROVE  Rises(G, <<m>>, a, b)
<1>1. PICK d : d = [i \in 1 .. 2 |-> IF i = 1 THEN a ELSE b]
  OBVIOUS
<1>2. d \in [1 .. 2 -> Nat] /\ d[1] = a /\ d[2] = b
  BY <1>1
<1>3. Len(<<m>>) = 1 /\ <<m>>[1] = m /\ \A i \in 1 .. 1 : i = 1 /\ i + 1 = 2
  OBVIOUS
<1>. QED BY <1>2, <1>3 DEF Rises

LEMMA ConcatRises ==
  ASSUME NEW G, NEW S, NEW p \in Seq(S), NEW q \in Seq(S), NEW a, NEW b, NEW c,
         Rises(G, p, a, b), Rises(G, q, b, c)
  PROVE  Rises(G, p \o q, a, c)
<1>1. PICK m, n, u : m = Len(p) /\ n = Len(q) /\ u = p \o q
  OBVIOUS
<1>2. m \in Nat /\ n \in Nat /\ Len(u) = m + n
      /\ \A i \in 1 .. m + n : u[i] = IF i <= m THEN p[i] ELSE q[i - m]
  BY <1>1, ConcatProperties, LenProperties
<1>3. PICK d \in [1 .. m + 1 -> Nat] :
        d[1] = a /\ d[m + 1] = b /\ \A i \in 1 .. m : Gain(p[i], d[i], d[i + 1]) \in G
  BY <1>1 DEF Rises
<1>4. PICK e \in [1 .. n + 1 -> Nat] :
        e[1] = b /\ e[n + 1] = c /\ \A i \in 1 .. n : Gain(q[i], e[i], e[i + 1]) \in G
  BY <1>1 DEF Rises
<1>5. PICK h : h = [i \in 1 .. m + n + 1 |-> IF i <= m THEN d[i] ELSE e[i - m]]
  OBVIOUS
<1>6. \A i \in 1 .. m + n + 1 : i <= m \/ i - m \in 1 .. n + 1
  BY <1>2
<1>7. h \in [1 .. m + n + 1 -> Nat]
  <2>1. \A i \in 1 .. m + n + 1 : i <= m => i \in 1 .. m + 1
    BY <1>2
  <2>. QED BY <1>3, <1>4, <1>5, <1>6, <2>1
<1>8. h[1] = a
  <2>1. 1 \in 1 .. m + n + 1
    BY <1>2
  <2>2. CASE m = 0
    <3>1. ~(1 <= m) /\ 1 - m = 1 /\ m + 1 = 1
      BY <2>2
    <3>. QED BY <1>3, <1>4, <1>5, <2>1, <3>1
  <2>3. CASE m # 0
    BY <1>2, <1>3, <1>5, <2>1, <2>3
  <2>. QED BY <2>2, <2>3
<1>9. h[m + n + 1] = c
  <2>1. m + n + 1 \in 1 .. m + n + 1 /\ ~(m + n + 1 <= m) /\ (m + n + 1) - m = n + 1
    BY <1>2
  <2>. QED BY <1>4, <1>5, <2>1
<1>10. ASSUME NEW i \in 1 .. m + n PROVE Gain(u[i], h[i], h[i + 1]) \in G
  <2>1. i \in 1 .. m + n + 1 /\ i + 1 \in 1 .. m + n + 1
    BY <1>2
  <2>2. CASE i + 1 <= m
    <3>1. i \in 1 .. m /\ i <= m
      BY <1>2, <2>2
    <3>2. u[i] = p[i] /\ h[i] = d[i] /\ h[i + 1] = d[i + 1]
      BY <1>2, <1>5, <2>1, <2>2, <3>1
    <3>. QED BY <1>3, <3>1, <3>2
  <2>3. CASE i = m
    <3>1. i \in 1 .. m /\ i <= m /\ ~(i + 1 <= m) /\ (i + 1) - m = 1
      BY <1>2, <2>3
    <3>2. u[i] = p[i] /\ h[i] = d[i] /\ h[i + 1] = e[1]
      BY <1>2, <1>5, <2>1, <3>1
    <3>. QED BY <1>3, <1>4, <2>3, <3>1, <3>2
  <2>4. CASE i > m
    <3>1. i - m \in 1 .. n /\ ~(i <= m) /\ ~(i + 1 <= m) /\ (i + 1) - m = (i - m) + 1
      BY <1>2, <2>4
    <3>2. u[i] = q[i - m] /\ h[i] = e[i - m] /\ h[i + 1] = e[(i - m) + 1]
      BY <1>2, <1>5, <2>1, <3>1
    <3>. QED BY <1>4, <3>1, <3>2
  <2>. QED BY <1>2, <2>2, <2>3, <2>4
<1>. QED BY <1>1, <1>2, <1>7, <1>8, <1>9, <1>10 DEF Rises

LEMMA AppendRises ==
  ASSUME NEW G, NEW S, NEW p \in Seq(S), NEW m \in S, NEW a, NEW b \in Nat, NEW c \in Nat,
         Rises(G, p, a, b), Gain(m, b, c) \in G
  PROVE  Rises(G, p \o <<m>>, a, c)
<1>1. <<m>> \in Seq(S) /\ Rises(G, <<m>>, b, c)
  BY Sequels, OneRises
<1>. QED BY <1>1, ConcatRises

LEMMA Pairs ==
  ASSUME NEW a, NEW b
  PROVE  <<a>> \o <<b>> = <<a, b>>
<1>1. PICK q, v, S : q = <<a>> /\ v = <<a, b>> /\ S = {a, b}
  OBVIOUS
<1>2. q \in Seq(S) /\ Len(q) = 1 /\ q[1] = a
  BY <1>1
<1>3. v \in Seq(S) /\ Len(v) = 2 /\ v[1] = a /\ v[2] = b
  BY <1>1
<1>4. PICK u : u = Append(q, b)
  OBVIOUS
<1>5. u \in Seq(S) /\ Len(u) = Len(q) + 1 /\ u[Len(q) + 1] = b
      /\ \A i \in 1 .. Len(q) : u[i] = q[i]
  <2>1. b \in S /\ q \in Seq(S)
    BY <1>1, <1>2
  <2>. QED BY <1>4, <2>1
<1>6. u \in Seq(S) /\ Len(u) = 2 /\ u[1] = a /\ u[2] = b
  BY <1>2, <1>5
<1>7. \A i \in 1 .. 2 : i = 1 \/ i = 2
  OBVIOUS
<1>8. u = v
  BY <1>3, <1>6, <1>7, SeqEqual
<1>. QED BY <1>1, <1>2, <1>4, <1>8, AppendIsConcat

LEMMA Triples ==
  ASSUME NEW a, NEW b, NEW c
  PROVE  <<a, b>> \o <<c>> = <<a, b, c>>
<1>1. PICK q, v, S : q = <<a, b>> /\ v = <<a, b, c>> /\ S = {a, b, c}
  OBVIOUS
<1>2. q \in Seq(S) /\ Len(q) = 2 /\ q[1] = a /\ q[2] = b
  BY <1>1
<1>3. v \in Seq(S) /\ Len(v) = 3 /\ v[1] = a /\ v[2] = b /\ v[3] = c
  BY <1>1
<1>4. PICK u : u = Append(q, c)
  OBVIOUS
<1>5. u \in Seq(S) /\ Len(u) = Len(q) + 1 /\ u[Len(q) + 1] = c
      /\ \A i \in 1 .. Len(q) : u[i] = q[i]
  <2>1. c \in S /\ q \in Seq(S)
    BY <1>1, <1>2
  <2>. QED BY <1>4, <2>1
<1>6. u \in Seq(S) /\ Len(u) = 3 /\ u[1] = a /\ u[2] = b /\ u[3] = c
  BY <1>2, <1>5
<1>7. \A i \in 1 .. 3 : i = 1 \/ i = 2 \/ i = 3
  OBVIOUS
<1>8. u = v
  BY <1>3, <1>6, <1>7, SeqEqual
<1>. QED BY <1>1, <1>2, <1>4, <1>8, AppendIsConcat

LEMMA Quadruples ==
  ASSUME NEW a, NEW b, NEW c, NEW d
  PROVE  <<a, b, c>> \o <<d>> = <<a, b, c, d>>
<1>1. PICK q, v, S : q = <<a, b, c>> /\ v = <<a, b, c, d>> /\ S = {a, b, c, d}
  OBVIOUS
<1>2. q \in Seq(S) /\ Len(q) = 3 /\ q[1] = a /\ q[2] = b /\ q[3] = c
  BY <1>1
<1>3. v \in Seq(S) /\ Len(v) = 4 /\ v[1] = a /\ v[2] = b /\ v[3] = c /\ v[4] = d
  BY <1>1
<1>4. PICK u : u = Append(q, d)
  OBVIOUS
<1>5. u \in Seq(S) /\ Len(u) = Len(q) + 1 /\ u[Len(q) + 1] = d
      /\ \A i \in 1 .. Len(q) : u[i] = q[i]
  <2>1. d \in S /\ q \in Seq(S)
    BY <1>1, <1>2
  <2>. QED BY <1>4, <2>1
<1>6. u \in Seq(S) /\ Len(u) = 4 /\ u[1] = a /\ u[2] = b /\ u[3] = c /\ u[4] = d
  BY <1>2, <1>5
<1>7. \A i \in 1 .. 4 : i = 1 \/ i = 2 \/ i = 3 \/ i = 4
  OBVIOUS
<1>8. u = v
  BY <1>3, <1>6, <1>7, SeqEqual
<1>. QED BY <1>1, <1>2, <1>4, <1>8, AppendIsConcat

LEMMA TwoRise ==
  ASSUME NEW G, NEW S, NEW m \in S, NEW n \in S, NEW a \in Nat, NEW b \in Nat, NEW c \in Nat,
         Gain(m, a, b) \in G, Gain(n, b, c) \in G
  PROVE  Rises(G, <<m, n>>, a, c)
<1>1. <<m>> \in Seq(S) /\ Rises(G, <<m>>, a, b)
  BY Sequels, OneRises
<1>2. Rises(G, <<m>> \o <<n>>, a, c)
  BY <1>1, AppendRises
<1>. QED BY <1>2, Pairs

LEMMA ThreeRise ==
  ASSUME NEW G, NEW S, NEW m \in S, NEW n \in S, NEW o \in S,
         NEW a \in Nat, NEW b \in Nat, NEW c \in Nat, NEW d \in Nat,
         Gain(m, a, b) \in G, Gain(n, b, c) \in G, Gain(o, c, d) \in G
  PROVE  Rises(G, <<m, n, o>>, a, d)
<1>1. <<m, n>> \in Seq(S) /\ Rises(G, <<m, n>>, a, c)
  BY Sequels, TwoRise
<1>2. Rises(G, <<m, n>> \o <<o>>, a, d)
  BY <1>1, AppendRises
<1>. QED BY <1>2, Triples

LEMMA FourRise ==
  ASSUME NEW G, NEW S, NEW m \in S, NEW n \in S, NEW o \in S, NEW p \in S,
         NEW a \in Nat, NEW b \in Nat, NEW c \in Nat, NEW d \in Nat, NEW e \in Nat,
         Gain(m, a, b) \in G, Gain(n, b, c) \in G, Gain(o, c, d) \in G, Gain(p, d, e) \in G
  PROVE  Rises(G, <<m, n, o, p>>, a, e)
<1>1. <<m, n, o>> \in Seq(S) /\ Rises(G, <<m, n, o>>, a, d)
  BY Sequels, ThreeRise
<1>2. Rises(G, <<m, n, o>> \o <<p>>, a, e)
  BY <1>1, AppendRises
<1>. QED BY <1>2, Quadruples

LEMMA SimpleGains ==
  ASSUME NEW a \in Nat
  PROVE  /\ \A kind \in Asked \ Named : Gain(Expect(kind), a, a) \in PlainGain
         /\ \A kind \in Named, as \in LeafKinds : Gain(ExpectLeaf(kind, as), a, a + 1) \in PlainGain
         /\ \A kind \in NodeKinds, n \in Nat : Gain(Make(kind, n), a + n, a + 1) \in PlainGain
         /\ Gain(GiveNil, a, a + 1) \in PlainGain /\ Gain(Report("host type"), a, a) \in PlainGain
         /\ \A list \in ItemLists, binary \in BOOLEAN : Gain(Begin(list, binary), a, a + 1) \in PlainGain
<1>1. Named \subseteq Asked
  BY AskedKinds DEF Named
<1>2. ASSUME NEW kind \in Asked \ Named PROVE Gain(Expect(kind), a, a) \in PlainGain
  <2>1. Expect(kind) \in PlainMove /\ Expect(kind).move = "expect" /\ Expect(kind).kind = kind
    BY SimpleMoves DEF Expect
  <2>. QED BY <2>1 DEF Gain, PlainGain
<1>3. ASSUME NEW kind \in Named, NEW as \in LeafKinds
      PROVE  Gain(ExpectLeaf(kind, as), a, a + 1) \in PlainGain
  <2>1. PICK m : m = ExpectLeaf(kind, as)
    OBVIOUS
  <2>2. m \in PlainMove /\ m.move = "leaf" /\ m.kind \in Named
    BY <1>1, <2>1, SimpleMoves DEF ExpectLeaf
  <2>3. Gain(m, a, a + 1) \in PlainGain
    BY <2>2 DEF Gain, PlainGain
  <2>. QED BY <2>1, <2>3
<1>4. ASSUME NEW kind \in NodeKinds, NEW n \in Nat
      PROVE  Gain(Make(kind, n), a + n, a + 1) \in PlainGain
  <2>1. Make(kind, n) \in PlainMove /\ Make(kind, n).move = "make" /\ Make(kind, n).n = n
    BY SimpleMoves DEF Make
  <2>2. a + n \in Nat /\ a + 1 \in Nat /\ n <= a + n /\ a + 1 = (a + n) - n + 1
    OBVIOUS
  <2>. QED BY <2>1, <2>2 DEF Gain, PlainGain
<1>5. Gain(GiveNil, a, a + 1) \in PlainGain
  <2>1. GiveNil \in PlainMove /\ GiveNil.move = "nil"
    BY SimpleMoves DEF GiveNil
  <2>. QED BY <2>1 DEF Gain, PlainGain
<1>6. Gain(Report("host type"), a, a) \in PlainGain
  <2>1. Report("host type") \in PlainMove /\ Report("host type").move = "report"
    BY SimpleMoves DEF Report
  <2>. QED BY <2>1 DEF Gain, PlainGain
<1>7. ASSUME NEW list \in ItemLists, NEW binary \in BOOLEAN
      PROVE  Gain(Begin(list, binary), a, a + 1) \in PlainGain
  <2>1. Begin(list, binary) \in PlainMove /\ Begin(list, binary).move = "begin"
    BY SimpleMoves DEF Begin
  <2>. QED BY <2>1 DEF Gain, PlainGain
<1>. QED BY <1>2, <1>3, <1>4, <1>5, <1>6, <1>7

\* The moves that are written in the routines.
WrittenGain(a) ==
  /\ Gain(Expect("Colon"), a, a) \in PlainGain /\ Gain(Expect("Equals"), a, a) \in PlainGain
  /\ Gain(Expect("Semicolon"), a, a) \in PlainGain /\ Gain(Expect("OpenParen"), a, a) \in PlainGain
  /\ Gain(Expect("OpenBrace"), a, a) \in PlainGain /\ Gain(Expect("EndHostType"), a, a) \in PlainGain
  /\ Gain(ExpectLeaf("Ident", "OtherIdent"), a, a + 1) \in PlainGain
  /\ Gain(ExpectLeaf("Ident", "HostTypeIdent"), a, a + 1) \in PlainGain
  /\ Gain(ExpectLeaf("SymbolIdent", "SymbolIdent"), a, a + 1) \in PlainGain
  /\ Gain(ExpectLeaf("Unit", "Unit"), a, a + 1) \in PlainGain
  /\ Gain(Make("SymbolDeclaration", 2), a + 2, a + 1) \in PlainGain
  /\ Gain(Make("DeclarationArg", 2), a + 2, a + 1) \in PlainGain
  /\ Gain(Make("InvocationExpression", 2), a + 2, a + 1) \in PlainGain
  /\ Gain(Make("ExpressionStatement", 1), a + 1, a + 1) \in PlainGain
  /\ Gain(Make("LambdaExpression", 2), a + 2, a + 1) \in PlainGain
  /\ Gain(Make("AssignmentStatement", 2), a + 2, a + 1) \in PlainGain
  /\ Gain(Make("CombinatorDeclaration", 3), a + 3, a + 1) \in PlainGain
  /\ Gain(Make("LanguageDeclaration", 1), a + 1, a + 1) \in PlainGain
  /\ Gain(Make("NonTrivialType", 2), a + 2, a + 1) \in PlainGain
  /\ Gain(Make("TypeDeclaration", 2), a + 2, a + 1) \in PlainGain
  /\ Gain(Make("OperatorDeclaration", 3), a + 3, a + 1) \in PlainGain
  /\ Gain(GiveNil, a, a + 1) \in PlainGain /\ Gain(Report("host type"), a, a) \in PlainGain
  /\ \A binary \in BOOLEAN : Gain(Begin("DeclarationArgList", binary), a, a + 1) \in PlainGain
  /\ Gain(Begin("InvocationArgList", FALSE), a, a + 1) \in PlainGain
  /\ Gain(Begin("Block", FALSE), a, a + 1) \in PlainGain

LEMMA WrittenGains == \A a \in Nat : WrittenGain(a)
<1>. SUFFICES ASSUME NEW a \in Nat PROVE WrittenGain(a)
  OBVIOUS
<1>1. {"Colon", "Equals", "Semicolon", "OpenParen", "OpenBrace", "EndHostType"} \subseteq Asked \ Named
  BY AskedKinds DEF Named
<1>. QED BY <1>1, SimpleGains DEF WrittenGain, Named, LeafKinds, NodeKinds, ItemLists

LEMMA PlainRises ==
  /\ \A a \in Nat : Rises(PlainGain, OtherIdent, a, a + 1)
  /\ \A a \in Nat : Rises(PlainGain, SymbolIdent, a, a + 1)
  /\ \A a \in Nat : Rises(PlainGain, Unit, a, a + 1)
  /\ \A a \in Nat : Rises(PlainGain, HostTypeIdent, a, a + 1)
  /\ \A a \in Nat, binary \in BOOLEAN : Rises(PlainGain, DeclArgList(binary), a, a + 1)
  /\ \A a \in Nat : Rises(PlainGain, InvocationArgList, a, a + 1)
  /\ \A a \in Nat : Rises(PlainGain, Block, a, a + 1)
<1>1. \A a \in Nat : a + 1 \in Nat /\ WrittenGain(a) /\ WrittenGain(a + 1)
  BY WrittenGains
<1>2. ASSUME NEW a \in Nat
      PROVE  /\ Rises(PlainGain, OtherIdent, a, a + 1)
             /\ Rises(PlainGain, SymbolIdent, a, a + 1)
             /\ Rises(PlainGain, Unit, a, a + 1)
  <2>1. /\ Gain(ExpectLeaf("Ident", "OtherIdent"), a, a + 1) \in PlainGain
        /\ Gain(ExpectLeaf("SymbolIdent", "SymbolIdent"), a, a + 1) \in PlainGain
        /\ Gain(ExpectLeaf("Unit", "Unit"), a, a + 1) \in PlainGain
    BY <1>1 DEF WrittenGain
  <2>. QED BY <1>1, <2>1, OneRises DEF OtherIdent, SymbolIdent, Unit
<1>3. ASSUME NEW a \in Nat PROVE Rises(PlainGain, HostTypeIdent, a, a + 1)
  <2>1. /\ Gain(ExpectLeaf("Ident", "HostTypeIdent"), a, a + 1) \in PlainGain
        /\ Gain(Expect("EndHostType"), a + 1, a + 1) \in PlainGain
    BY <1>1 DEF WrittenGain
  <2>2. ExpectLeaf("Ident", "HostTypeIdent") \in PlainMove /\ Expect("EndHostType") \in PlainMove
    BY WrittenMoves
  <2>3. Rises(PlainGain, <<ExpectLeaf("Ident", "HostTypeIdent"), Expect("EndHostType")>>, a, a + 1)
    BY <1>1, <2>1, <2>2, TwoRise
  <2>. QED BY <2>3 DEF HostTypeIdent
<1>4. ASSUME NEW a \in Nat, NEW binary \in BOOLEAN PROVE Rises(PlainGain, DeclArgList(binary), a, a + 1)
  <2>1. Gain(Begin("DeclarationArgList", binary), a, a + 1) \in PlainGain
    BY <1>1 DEF WrittenGain
  <2>. QED BY <1>1, <2>1, OneRises DEF DeclArgList
<1>5. ASSUME NEW a \in Nat
      PROVE  Rises(PlainGain, InvocationArgList, a, a + 1) /\ Rises(PlainGain, Block, a, a + 1)
  <2>1. /\ Gain(Begin("InvocationArgList", FALSE), a, a + 1) \in PlainGain
        /\ Gain(Begin("Block", FALSE), a, a + 1) \in PlainGain
    BY <1>1 DEF WrittenGain
  <2>. QED BY <1>1, <2>1, OneRises DEF InvocationArgList, Block
<1>. QED BY <1>2, <1>3, <1>4, <1>5

LEMMA ComposedRises ==
  /\ \A a \in Nat : Rises(PlainGain, LanguageDecl, a, a + 1)
  /\ \A a \in Nat : Rises(PlainGain, SymbolDecl, a, a + 1)
  /\ \A a \in Nat : Rises(PlainGain, InvocationExpr, a, a + 1)
  /\ \A a \in Nat : Rises(PlainGain, ExprStatement, a, a + 1)
  /\ \A a \in Nat : Rises(PlainGain, LambdaExpr, a, a + 1)
  /\ \A a \in Nat : Rises(PlainGain, CombinatorDecl, a, a + 1)
<1>1. \A a \in Nat :
        /\ a + 1 \in Nat /\ a + 2 \in Nat /\ a + 3 \in Nat /\ (a + 1) + 1 = a + 2 /\ (a + 2) + 1 = a + 3
        /\ WrittenGain(a) /\ WrittenGain(a + 1) /\ WrittenGain(a + 2)
  BY WrittenGains
<1>2. ASSUME NEW a \in Nat PROVE Rises(PlainGain, LanguageDecl, a, a + 1)
  <2>1. /\ Rises(PlainGain, OtherIdent, a, a + 1)
        /\ Gain(Expect("Semicolon"), a + 1, a + 1) \in PlainGain
        /\ Gain(Make("LanguageDeclaration", 1), a + 1, a + 1) \in PlainGain
    BY <1>1, PlainRises DEF WrittenGain
  <2>2. /\ OtherIdent \in Seq(PlainMove)
        /\ Expect("Semicolon") \in PlainMove
        /\ Make("LanguageDeclaration", 1) \in PlainMove
    BY PlainRoutines, WrittenMoves
  <2>3. Rises(PlainGain, OtherIdent \o <<Expect("Semicolon"), Make("LanguageDeclaration", 1)>>, a, a + 1)
        /\ OtherIdent \o <<Expect("Semicolon"), Make("LanguageDeclaration", 1)>> \in Seq(PlainMove)
    BY <1>1, <2>1, <2>2, <2>1, <2>2, ConcatRises, TwoRise, Sequels
  <2>. QED BY <2>3 DEF LanguageDecl
<1>3. ASSUME NEW a \in Nat PROVE Rises(PlainGain, SymbolDecl, a, a + 1)
  <2>1. /\ Rises(PlainGain, SymbolIdent, a, a + 1)
        /\ Gain(Expect("Colon"), a + 1, a + 1) \in PlainGain
        /\ Rises(PlainGain, OtherIdent, a + 1, a + 2)
        /\ Gain(Make("SymbolDeclaration", 2), a + 2, a + 1) \in PlainGain
    BY <1>1, PlainRises DEF WrittenGain
  <2>2. /\ SymbolIdent \in Seq(PlainMove)
        /\ Expect("Colon") \in PlainMove
        /\ OtherIdent \in Seq(PlainMove)
        /\ Make("SymbolDeclaration", 2) \in PlainMove
    BY PlainRoutines, WrittenMoves
  <2>3. Rises(PlainGain, SymbolIdent \o <<Expect("Colon")>>, a, a + 1)
        /\ SymbolIdent \o <<Expect("Colon")>> \in Seq(PlainMove)
    BY <1>1, <2>1, <2>2, <2>1, <2>2, AppendRises, Sequels
  <2>4. Rises(PlainGain, SymbolIdent \o <<Expect("Colon")>> \o OtherIdent, a, a + 2)
        /\ SymbolIdent \o <<Expect("Colon")>> \o OtherIdent \in Seq(PlainMove)
    BY <1>1, <2>1, <2>2, <2>3, ConcatRises, Sequels
  <2>5. Rises(PlainGain, SymbolIdent \o <<Expect("Colon")>> \o OtherIdent \o <<Make("SymbolDeclaration", 2)>>, a, a + 1)
        /\ SymbolIdent \o <<Expect("Colon")>> \o OtherIdent \o <<Make("SymbolDeclaration", 2)>> \in Seq(PlainMove)
    BY <1>1, <2>1, <2>2, <2>4, AppendRises, Sequels
  <2>. QED BY <2>5 DEF SymbolDecl
<1>4. ASSUME NEW a \in Nat PROVE Rises(PlainGain, InvocationExpr, a, a + 1)
  <2>1. /\ Rises(PlainGain, OtherIdent, a, a + 1)
        /\ Gain(Expect("OpenParen"), a + 1, a + 1) \in PlainGain
        /\ Rises(PlainGain, InvocationArgList, a + 1, a + 2)
        /\ Gain(Make("InvocationExpression", 2), a + 2, a + 1) \in PlainGain
    BY <1>1, PlainRises DEF WrittenGain
  <2>2. /\ OtherIdent \in Seq(PlainMove)
        /\ Expect("OpenParen") \in PlainMove
        /\ InvocationArgList \in Seq(PlainMove)
        /\ Make("InvocationExpression", 2) \in PlainMove
    BY PlainRoutines, WrittenMoves
  <2>3. Rises(PlainGain, OtherIdent \o <<Expect("OpenParen")>>, a, a + 1)
        /\ OtherIdent \o <<Expect("OpenParen")>> \in Seq(PlainMove)
    BY <1>1, <2>1, <2>2, <2>1, <2>2, AppendRises, Sequels
  <2>4. Rises(PlainGain, OtherIdent \o <<Expect("OpenParen")>> \o InvocationArgList, a, a + 2)
        /\ OtherIdent \o <<Expect("OpenParen")>> \o InvocationArgList \in Seq(PlainMove)
    BY <1>1, <2>1, <2>2, <2>3, ConcatRises, Sequels
  <2>5. Rises(PlainGain, OtherIdent \o <<Expect("OpenParen")>> \o InvocationArgList \o <<Make("InvocationExpression", 2)>>, a, a + 1)
        /\ OtherIdent \o <<Expect("OpenParen")>> \o InvocationArgList \o <<Make("InvocationExpression", 2)>> \in Seq(PlainMove)
    BY <1>1, <2>1, <2>2, <2>4, AppendRises, Sequels
  <2>. QED BY <2>5 DEF InvocationExpr
<1>5. ASSUME NEW a \in Nat PROVE Rises(PlainGain, ExprStatement, a, a + 1)
  <2>1. /\ Rises(PlainGain, InvocationExpr, a, a + 1)
        /\ Gain(Expect("Semicolon"), a + 1, a + 1) \in PlainGain
        /\ Gain(Make("ExpressionStatement", 1), a + 1, a + 1) \in PlainGain
    BY <1>1, PlainRises, <1>4 DEF WrittenGain
  <2>2. /\ InvocationExpr \in Seq(PlainMove)
        /\ Expect("Semicolon") \in PlainMove
        /\ Make("ExpressionStatement", 1) \in PlainMove
    BY PlainRoutines, WrittenMoves
  <2>3. Rises(PlainGain, InvocationExpr \o <<Expect("Semicolon"), Make("ExpressionStatement", 1)>>, a, a + 1)
        /\ InvocationExpr \o <<Expect("Semicolon"), Make("ExpressionStatement", 1)>> \in Seq(PlainMove)
    BY <1>1, <2>1, <2>2, <2>1, <2>2, ConcatRises, TwoRise, Sequels
  <2>. QED BY <2>3 DEF ExprStatement
<1>6. ASSUME NEW a \in Nat PROVE Rises(PlainGain, LambdaExpr, a, a + 1)
  <2>1. /\ Gain(Expect("OpenParen"), a, a) \in PlainGain
        /\ Rises(PlainGain, DeclArgList(TRUE), a, a + 1)
        /\ Gain(Expect("OpenBrace"), a + 1, a + 1) \in PlainGain
        /\ Rises(PlainGain, Block, a + 1, a + 2)
        /\ Gain(Make("LambdaExpression", 2), a + 2, a + 1) \in PlainGain
    BY <1>1, PlainRises DEF WrittenGain
  <2>2. /\ Expect("OpenParen") \in PlainMove
        /\ DeclArgList(TRUE) \in Seq(PlainMove)
        /\ Expect("OpenBrace") \in PlainMove
        /\ Block \in Seq(PlainMove)
        /\ Make("LambdaExpression", 2) \in PlainMove
    BY PlainRoutines, WrittenMoves
  <2>3. Rises(PlainGain, <<Expect("OpenParen")>>, a, a) /\ <<Expect("OpenParen")>> \in Seq(PlainMove)
    BY <1>1, <2>1, <2>2, OneRises, Sequels
  <2>4. Rises(PlainGain, <<Expect("OpenParen")>> \o DeclArgList(TRUE), a, a + 1)
        /\ <<Expect("OpenParen")>> \o DeclArgList(TRUE) \in Seq(PlainMove)
    BY <1>1, <2>1, <2>2, <2>3, ConcatRises, Sequels
  <2>5. Rises(PlainGain, <<Expect("OpenParen")>> \o DeclArgList(TRUE) \o <<Expect("OpenBrace")>>, a, a + 1)
        /\ <<Expect("OpenParen")>> \o DeclArgList(TRUE) \o <<Expect("OpenBrace")>> \in Seq(PlainMove)
    BY <1>1, <2>1, <2>2, <2>4, AppendRises, Sequels
  <2>6. Rises(PlainGain, <<Expect("OpenParen")>> \o DeclArgList(TRUE) \o <<Expect("OpenBrace")>> \o Block, a, a + 2)
        /\ <<Expect("OpenParen")>> \o DeclArgList(TRUE) \o <<Expect("OpenBrace")>> \o Block \in Seq(PlainMove)
    BY <1>1, <2>1, <2>2, <2>5, ConcatRises, Sequels
  <2>7. Rises(PlainGain, <<Expect("OpenParen")>> \o DeclArgList(TRUE) \o <<Expect("OpenBrace")>> \o Block \o <<Make("LambdaExpression", 2)>>, a, a + 1)
        /\ <<Expect("OpenParen")>> \o DeclArgList(TRUE) \o <<Expect("OpenBrace")>> \o Block \o <<Make("LambdaExpression", 2)>> \in Seq(PlainMove)
    BY <1>1, <2>1, <2>2, <2>6, AppendRises, Sequels
  <2>. QED BY <2>7 DEF LambdaExpr
<1>7. ASSUME NEW a \in Nat PROVE Rises(PlainGain, CombinatorDecl, a, a + 1)
  <2>1. /\ Rises(PlainGain, OtherIdent, a, a + 1)
        /\ Gain(Expect("OpenParen"), a + 1, a + 1) \in PlainGain
        /\ Rises(PlainGain, DeclArgList(FALSE), a + 1, a + 2)
        /\ Gain(Expect("OpenBrace"), a + 2, a + 2) \in PlainGain
        /\ Rises(PlainGain, Block, a + 2, a + 3)
        /\ Gain(Make("CombinatorDeclaration", 3), a + 3, a + 1) \in PlainGain
    BY <1>1, PlainRises DEF WrittenGain
  <2>2. /\ OtherIdent \in Seq(PlainMove)
        /\ Expect("OpenParen") \in PlainMove
        /\ DeclArgList(FALSE) \in Seq(PlainMove)
        /\ Expect("OpenBrace") \in PlainMove
        /\ Block \in Seq(PlainMove)
        /\ Make("CombinatorDeclaration", 3) \in PlainMove
    BY PlainRoutines, WrittenMoves
  <2>3. Rises(PlainGain, OtherIdent \o <<Expect("OpenParen")>>, a, a + 1)
        /\ OtherIdent \o <<Expect("OpenParen")>> \in Seq(PlainMove)
    BY <1>1, <2>1, <2>2, <2>1, <2>2, AppendRises, Sequels
  <2>4. Rises(PlainGain, OtherIdent \o <<Expect("OpenParen")>> \o DeclArgList(FALSE), a, a + 2)
        /\ OtherIdent \o <<Expect("OpenParen")>> \o DeclArgList(FALSE) \in Seq(PlainMove)
    BY <1>1, <2>1, <2>2, <2>3, ConcatRises, Sequels
  <2>5. Rises(PlainGain, OtherIdent \o <<Expect("OpenParen")>> \o DeclArgList(FALSE) \o <<Expect("OpenBrace")>>, a, a + 2)
        /\ OtherIdent \o <<Expect("OpenParen")>> \o DeclArgList(FALSE) \o <<Expect("OpenBrace")>> \in Seq(PlainMove)
    BY <1>1, <2>1, <2>2, <2>4, AppendRises, Sequels
  <2>6. Rises(PlainGain, OtherIdent \o <<Expect("OpenParen")>> \o DeclArgList(FALSE) \o <<Expect("OpenBrace")>> \o Block, a, a + 3)
        /\ OtherIdent \o <<Expect("OpenParen")>> \o DeclArgList(FALSE) \o <<Expect("OpenBrace")>> \o Block \in Seq(PlainMove)
    BY <1>1, <2>1, <2>2, <2>5, ConcatRises, Sequels
  <2>7. Rises(PlainGain, OtherIdent \o <<Expect("OpenParen")>> \o DeclArgList(FALSE) \o <<Expect("OpenBrace")>> \o Block \o <<Make("CombinatorDeclaration", 3)>>, a, a + 1)
        /\ OtherIdent \o <<Expect("OpenParen")>> \o DeclArgList(FALSE) \o <<Expect("OpenBrace")>> \o Block \o <<Make("CombinatorDeclaration", 3)>> \in Seq(PlainMove)
    BY <1>1, <2>1, <2>2, <2>6, AppendRises, Sequels
  <2>. QED BY <2>7 DEF CombinatorDecl
<1>. QED BY <1>2, <1>3, <1>4, <1>5, <1>6, <1>7

LEMMA IfGains ==
  ASSUME NEW S, NEW G, NEW kind \in Asked \ Named, NEW p \in Seq(S), NEW q \in Seq(S),
         NEW a \in Nat, NEW b \in Nat, Rises(G, p, a, b), Rises(G, q, a, b)
  PROVE  Gain(If(kind, p, q), a, b) \in IfGain(S, G)
<1>1. PICK m : m = If(kind, p, q)
  OBVIOUS
<1>2. m \in IfOf(S)
  BY <1>1, Branches
<1>3. m.kind = kind /\ m.then = p /\ m.else = q
  BY <1>1 DEF If
<1>4. Gain(m, a, b) \in IfGain(S, G)
  BY <1>2, <1>3 DEF Gain, IfGain
<1>. QED BY <1>1, <1>4

\* The ways of the routines that look at a token.
HostArg == If("BeginHostType", <<Report("host type"), GiveNil>>, OtherIdent)
Assigned == If("Lambda", LambdaExpr, InvocationExpr)
Result == If("RightArrow", OtherIdent, <<GiveNil>>)
HostOrType ==
  If("BeginHostType", HostTypeIdent \o <<GiveNil>>,
     OtherIdent \o <<Expect("OpenParen")>> \o InvocationArgList)
Definition == If("Equals", NonTrivialType, <<GiveNil>>)

LEMMA ShallowIfs ==
  /\ HostArg \in ShallowMove /\ Assigned \in ShallowMove /\ Result \in ShallowMove
  /\ HostOrType \in ShallowMove /\ Definition \in RoutineMove
<1>1. IfOf(PlainMove) \subseteq ShallowMove /\ IfOf(ShallowMove) \subseteq RoutineMove
      /\ PlainMove \subseteq ShallowMove
  BY DEF ShallowMove, RoutineMove
<1>2. HostArg \in ShallowMove /\ Assigned \in ShallowMove /\ Result \in ShallowMove
  BY <1>1, Branches, Sequels, WrittenMoves, PlainRoutines, AskedKinds DEF HostArg, Assigned, Result
<1>3. HostTypeIdent \o <<GiveNil>> \in Seq(PlainMove)
      /\ OtherIdent \o <<Expect("OpenParen")>> \o InvocationArgList \in Seq(PlainMove)
  BY Sequels, WrittenMoves, PlainRoutines
<1>4. HostOrType \in ShallowMove
  BY <1>1, <1>3, Branches, AskedKinds DEF HostOrType
<1>5. <<GiveNil>> \in Seq(ShallowMove)
  BY <1>1, Sequels, WrittenMoves
<1>6. Definition \in RoutineMove
  BY <1>1, <1>5, Branches, ShallowRoutines, AskedKinds DEF Definition
<1>. QED BY <1>2, <1>4, <1>6

LEMMA UnnamedTokens ==
  {"BeginHostType", "Lambda", "RightArrow", "Equals"} \subseteq Asked \ Named
BY AskedKinds DEF Named

LEMMA ShallowIfGains ==
  ASSUME NEW a \in Nat
  PROVE  /\ Gain(HostArg, a, a + 1) \in ShallowGain
         /\ Gain(Assigned, a, a + 1) \in ShallowGain
         /\ Gain(Result, a, a + 1) \in ShallowGain
         /\ Gain(HostOrType, a, a + 2) \in ShallowGain
<1>1. /\ a + 1 \in Nat /\ a + 2 \in Nat /\ (a + 1) + 1 = a + 2
      /\ WrittenGain(a) /\ WrittenGain(a + 1)
  BY WrittenGains
<1>2. IfGain(PlainMove, PlainGain) \subseteq ShallowGain
  BY DEF ShallowGain
<1>3. /\ Rises(PlainGain, OtherIdent, a, a + 1) /\ Rises(PlainGain, HostTypeIdent, a, a + 1)
      /\ Rises(PlainGain, LambdaExpr, a, a + 1) /\ Rises(PlainGain, InvocationExpr, a, a + 1)
      /\ Rises(PlainGain, InvocationArgList, a + 1, a + 2)
  BY <1>1, PlainRises, ComposedRises
<1>4. /\ OtherIdent \in Seq(PlainMove) /\ HostTypeIdent \in Seq(PlainMove)
      /\ LambdaExpr \in Seq(PlainMove) /\ InvocationExpr \in Seq(PlainMove)
      /\ InvocationArgList \in Seq(PlainMove)
      /\ GiveNil \in PlainMove /\ Report("host type") \in PlainMove /\ Expect("OpenParen") \in PlainMove
      /\ <<GiveNil>> \in Seq(PlainMove) /\ <<Report("host type"), GiveNil>> \in Seq(PlainMove)
  BY PlainRoutines, WrittenMoves, Sequels
<1>5. /\ Gain(GiveNil, a, a + 1) \in PlainGain /\ Gain(GiveNil, a + 1, a + 2) \in PlainGain
      /\ Gain(Report("host type"), a, a) \in PlainGain
      /\ Gain(Expect("OpenParen"), a + 1, a + 1) \in PlainGain
  BY <1>1 DEF WrittenGain
<1>6. Rises(PlainGain, <<GiveNil>>, a, a + 1)
  BY <1>1, <1>5, OneRises
<1>7. Gain(HostArg, a, a + 1) \in ShallowGain
  <2>1. Rises(PlainGain, <<Report("host type"), GiveNil>>, a, a + 1)
    BY <1>1, <1>4, <1>5, TwoRise
  <2>. QED BY <1>1, <1>2, <1>3, <1>4, <2>1, IfGains, UnnamedTokens DEF HostArg
<1>8. Gain(Assigned, a, a + 1) \in ShallowGain
  BY <1>1, <1>2, <1>3, <1>4, IfGains, UnnamedTokens DEF Assigned
<1>9. Gain(Result, a, a + 1) \in ShallowGain
  BY <1>1, <1>2, <1>3, <1>4, <1>6, IfGains, UnnamedTokens DEF Result
<1>10. Gain(HostOrType, a, a + 2) \in ShallowGain
  <2>1. Rises(PlainGain, HostTypeIdent \o <<GiveNil>>, a, a + 2)
        /\ HostTypeIdent \o <<GiveNil>> \in Seq(PlainMove)
    BY <1>1, <1>3, <1>4, <1>5, AppendRises, Sequels
  <2>2. Rises(PlainGain, OtherIdent \o <<Expect("OpenParen")>>, a, a + 1)
        /\ OtherIdent \o <<Expect("OpenParen")>> \in Seq(PlainMove)
    BY <1>1, <1>3, <1>4, <1>5, AppendRises, Sequels
  <2>3. Rises(PlainGain, OtherIdent \o <<Expect("OpenParen")>> \o InvocationArgList, a, a + 2)
        /\ OtherIdent \o <<Expect("OpenParen")>> \o InvocationArgList \in Seq(PlainMove)
    BY <1>1, <1>3, <1>4, <2>2, ConcatRises, Sequels
  <2>. QED BY <1>1, <1>2, <2>1, <2>3, IfGains, UnnamedTokens DEF HostOrType
<1>. QED BY <1>7, <1>8, <1>9, <1>10

LEMMA ShallowRises ==
  /\ \A a \in Nat, name \in Seq(PlainMove) :
       Rises(PlainGain, name, a, a + 1) => Rises(ShallowGain, DeclArg(name), a, a + 1)
  /\ \A a \in Nat : Rises(ShallowGain, AssignmentStatement, a, a + 1)
  /\ \A a \in Nat : Rises(ShallowGain, OperatorDecl, a, a + 1)
  /\ \A a \in Nat : Rises(ShallowGain, NonTrivialType, a, a + 1)
<1>1. \A a \in Nat :
        /\ a + 1 \in Nat /\ a + 2 \in Nat /\ a + 3 \in Nat /\ (a + 1) + 1 = a + 2 /\ (a + 2) + 1 = a + 3
        /\ WrittenGain(a) /\ WrittenGain(a + 1) /\ WrittenGain(a + 2)
  BY WrittenGains
<1>2. PlainGain \subseteq ShallowGain /\ PlainMove \subseteq ShallowMove
  BY GainsOfRoutines, MovesOfRoutines
<1>3. \A p \in Seq(PlainMove) : p \in Seq(ShallowMove)
  BY <1>2, SeqMonotonic
<1>4. \A p, a, b : Rises(PlainGain, p, a, b) => Rises(ShallowGain, p, a, b)
  BY <1>2, MoreRises

<1>5. ASSUME NEW a \in Nat, NEW name \in Seq(PlainMove), Rises(PlainGain, name, a, a + 1)
      PROVE  Rises(ShallowGain, DeclArg(name), a, a + 1)
  <2>1. /\ Rises(PlainGain, name, a, a + 1)
        /\ Gain(Expect("Colon"), a + 1, a + 1) \in PlainGain
        /\ Gain(Make("DeclarationArg", 2), a + 2, a + 1) \in PlainGain
    BY <1>1, <1>5 DEF WrittenGain
  <2>2. /\ Rises(ShallowGain, name, a, a + 1)
        /\ Gain(Expect("Colon"), a + 1, a + 1) \in ShallowGain
        /\ Gain(HostArg, a + 1, a + 2) \in ShallowGain
        /\ Gain(Make("DeclarationArg", 2), a + 2, a + 1) \in ShallowGain
    BY <1>1, <1>2, <1>4, <2>1, ShallowIfGains
  <2>3. /\ name \in Seq(ShallowMove)
        /\ Expect("Colon") \in ShallowMove
        /\ HostArg \in ShallowMove
        /\ Make("DeclarationArg", 2) \in ShallowMove
    BY <1>2, <1>3, ShallowIfs, WrittenMoves
  <2>4. Rises(ShallowGain, <<Expect("Colon"), HostArg, Make("DeclarationArg", 2)>>, a + 1, a + 1)
        /\ <<Expect("Colon"), HostArg, Make("DeclarationArg", 2)>> \in Seq(ShallowMove)
    BY <1>1, <2>2, <2>3, ThreeRise, Sequels
  <2>5. Rises(ShallowGain, name \o <<Expect("Colon"), HostArg, Make("DeclarationArg", 2)>>, a, a + 1)
        /\ name \o <<Expect("Colon"), HostArg, Make("DeclarationArg", 2)>> \in Seq(ShallowMove)
    BY <1>1, <2>2, <2>3, <2>4, ConcatRises, Sequels
  <2>. QED BY <2>5 DEF DeclArg, HostArg
<1>6. ASSUME NEW a \in Nat PROVE Rises(ShallowGain, AssignmentStatement, a, a + 1)
  <2>1. /\ Rises(PlainGain, SymbolDecl, a, a + 1)
        /\ Gain(Expect("Equals"), a + 1, a + 1) \in PlainGain
        /\ Gain(Expect("Semicolon"), a + 2, a + 2) \in PlainGain
        /\ Gain(Make("AssignmentStatement", 2), a + 2, a + 1) \in PlainGain
    BY <1>1, ComposedRises DEF WrittenGain
  <2>2. /\ Rises(ShallowGain, SymbolDecl, a, a + 1)
        /\ Gain(Expect("Equals"), a + 1, a + 1) \in ShallowGain
        /\ Gain(Assigned, a + 1, a + 2) \in ShallowGain
        /\ Gain(Expect("Semicolon"), a + 2, a + 2) \in ShallowGain
        /\ Gain(Make("AssignmentStatement", 2), a + 2, a + 1) \in ShallowGain
    BY <1>1, <1>2, <1>4, <2>1, ShallowIfGains
  <2>3. /\ SymbolDecl \in Seq(ShallowMove)
        /\ Expect("Equals") \in ShallowMove
        /\ Assigned \in ShallowMove
        /\ Expect("Semicolon") \in ShallowMove
        /\ Make("AssignmentStatement", 2) \in ShallowMove
    BY <1>2, <1>3, ShallowIfs, WrittenMoves, PlainRoutines
  <2>4. Rises(ShallowGain, <<Expect("Equals"), Assigned, Expect("Semicolon"), Make("AssignmentStatement", 2)>>, a + 1, a + 1)
        /\ <<Expect("Equals"), Assigned, Expect("Semicolon"), Make("AssignmentStatement", 2)>> \in Seq(ShallowMove)
    BY <1>1, <2>2, <2>3, FourRise, Sequels
  <2>5. Rises(ShallowGain, SymbolDecl \o <<Expect("Equals"), Assigned, Expect("Semicolon"), Make("AssignmentStatement", 2)>>, a, a + 1)
        /\ SymbolDecl \o <<Expect("Equals"), Assigned, Expect("Semicolon"), Make("AssignmentStatement", 2)>> \in Seq(ShallowMove)
    BY <1>1, <2>2, <2>3, <2>4, ConcatRises, Sequels
  <2>. QED BY <2>5 DEF AssignmentStatement, Assigned
<1>7. ASSUME NEW a \in Nat PROVE Rises(ShallowGain, OperatorDecl, a, a + 1)
  <2>1. /\ Rises(PlainGain, OtherIdent, a, a + 1)
        /\ Gain(Expect("OpenParen"), a + 1, a + 1) \in PlainGain
        /\ Rises(PlainGain, DeclArgList(TRUE), a + 1, a + 2)
        /\ Gain(Expect("Semicolon"), a + 3, a + 3) \in PlainGain
        /\ Gain(Make("OperatorDeclaration", 3), a + 3, a + 1) \in PlainGain
    BY <1>1, PlainRises DEF WrittenGain
  <2>2. /\ Rises(ShallowGain, OtherIdent, a, a + 1)
        /\ Gain(Expect("OpenParen"), a + 1, a + 1) \in ShallowGain
        /\ Rises(ShallowGain, DeclArgList(TRUE), a + 1, a + 2)
        /\ Gain(Result, a + 2, a + 3) \in ShallowGain
        /\ Gain(Expect("Semicolon"), a + 3, a + 3) \in ShallowGain
        /\ Gain(Make("OperatorDeclaration", 3), a + 3, a + 1) \in ShallowGain
    BY <1>1, <1>2, <1>4, <2>1, ShallowIfGains
  <2>3. /\ OtherIdent \in Seq(ShallowMove)
        /\ Expect("OpenParen") \in ShallowMove
        /\ DeclArgList(TRUE) \in Seq(ShallowMove)
        /\ Result \in ShallowMove
        /\ Expect("Semicolon") \in ShallowMove
        /\ Make("OperatorDeclaration", 3) \in ShallowMove
    BY <1>2, <1>3, ShallowIfs, WrittenMoves, PlainRoutines
  <2>4. Rises(ShallowGain, OtherIdent \o <<Expect("OpenParen")>>, a, a + 1)
        /\ OtherIdent \o <<Expect("OpenParen")>> \in Seq(ShallowMove)
    BY <1>1, <2>2, <2>3, AppendRises, Sequels
  <2>5. Rises(ShallowGain, OtherIdent \o <<Expect("OpenParen")>> \o DeclArgList(TRUE), a, a + 2)
        /\ OtherIdent \o <<Expect("OpenParen")>> \o DeclArgList(TRUE) \in Seq(ShallowMove)
    BY <1>1, <2>2, <2>3, <2>4, ConcatRises, Sequels
  <2>6. Rises(ShallowGain, <<Result, Expect("Semicolon"), Make("OperatorDeclaration", 3)>>, a + 2, a + 1)
        /\ <<Result, Expect("Semicolon"), Make("OperatorDeclaration", 3)>> \in Seq(ShallowMove)
    BY <1>1, <2>2, <2>3, ThreeRise, Sequels
  <2>7. Rises(ShallowGain, OtherIdent \o <<Expect("OpenParen")>> \o DeclArgList(TRUE) \o <<Result, Expect("Semicolon"), Make("OperatorDeclaration", 3)>>, a, a + 1)
        /\ OtherIdent \o <<Expect("OpenParen")>> \o DeclArgList(TRUE) \o <<Result, Expect("Semicolon"), Make("OperatorDeclaration", 3)>> \in Seq(ShallowMove)
    BY <1>1, <2>2, <2>3, <2>5, <2>6, ConcatRises, Sequels
  <2>. QED BY <2>7 DEF OperatorDecl, Result
<1>8. ASSUME NEW a \in Nat PROVE Rises(ShallowGain, NonTrivialType, a, a + 1)
  <2>1. /\ Gain(Make("NonTrivialType", 2), a + 2, a + 1) \in PlainGain
    BY <1>1 DEF WrittenGain
  <2>2. /\ Gain(HostOrType, a, a + 2) \in ShallowGain
        /\ Gain(Make("NonTrivialType", 2), a + 2, a + 1) \in ShallowGain
    BY <1>1, <1>2, <1>4, <2>1, ShallowIfGains
  <2>3. /\ HostOrType \in ShallowMove
        /\ Make("NonTrivialType", 2) \in ShallowMove
    BY <1>2, <1>3, ShallowIfs, WrittenMoves, PlainRoutines
  <2>4. Rises(ShallowGain, <<HostOrType, Make("NonTrivialType", 2)>>, a, a + 1)
    BY <1>1, <2>2, <2>3, TwoRise
  <2>. QED BY <2>4 DEF NonTrivialType, HostOrType
<1>. QED BY <1>5, <1>6, <1>7, <1>8

LEMMA TypeDeclRises == \A a \in Nat : Rises(RoutineGain, TypeDecl, a, a + 1)
<1>1. \A a \in Nat :
        /\ a + 1 \in Nat /\ a + 2 \in Nat /\ (a + 1) + 1 = a + 2
        /\ WrittenGain(a) /\ WrittenGain(a + 1)
  BY WrittenGains
<1>2. PlainGain \subseteq RoutineGain /\ PlainMove \subseteq RoutineMove
      /\ PlainGain \subseteq ShallowGain /\ PlainMove \subseteq ShallowMove
  BY GainsOfRoutines, MovesOfRoutines
<1>3. \A p \in Seq(PlainMove) : p \in Seq(RoutineMove)
  BY <1>2, SeqMonotonic
<1>4. \A p, a, b : Rises(PlainGain, p, a, b) => Rises(RoutineGain, p, a, b)
  BY <1>2, MoreRises
<1>5. ASSUME NEW a \in Nat PROVE Gain(Definition, a, a + 1) \in RoutineGain
  <2>1. Gain(GiveNil, a, a + 1) \in ShallowGain
    BY <1>1, <1>2 DEF WrittenGain
  <2>2. Rises(ShallowGain, <<GiveNil>>, a, a + 1)
    BY <1>1, <2>1, OneRises
  <2>3. <<GiveNil>> \in Seq(ShallowMove)
    BY <1>2, WrittenMoves, Sequels
  <2>4. Gain(Definition, a, a + 1) \in IfGain(ShallowMove, ShallowGain)
    BY <1>1, <2>2, <2>3, IfGains, UnnamedTokens, ShallowRises, ShallowRoutines DEF Definition
  <2>. QED BY <2>4 DEF RoutineGain
<1>6. ASSUME NEW a \in Nat PROVE Rises(RoutineGain, TypeDecl, a, a + 1)
  <2>1. /\ Rises(PlainGain, OtherIdent, a, a + 1)
        /\ Gain(Expect("Semicolon"), a + 2, a + 2) \in PlainGain
        /\ Gain(Make("TypeDeclaration", 2), a + 2, a + 1) \in PlainGain
    BY <1>1, PlainRises DEF WrittenGain
  <2>2. /\ Rises(RoutineGain, OtherIdent, a, a + 1)
        /\ Gain(Definition, a + 1, a + 2) \in RoutineGain
        /\ Gain(Expect("Semicolon"), a + 2, a + 2) \in RoutineGain
        /\ Gain(Make("TypeDeclaration", 2), a + 2, a + 1) \in RoutineGain
    BY <1>1, <1>2, <1>4, <2>1, <1>5
  <2>3. /\ OtherIdent \in Seq(RoutineMove)
        /\ Definition \in RoutineMove
        /\ Expect("Semicolon") \in RoutineMove
        /\ Make("TypeDeclaration", 2) \in RoutineMove
    BY <1>2, <1>3, ShallowIfs, WrittenMoves, PlainRoutines
  <2>4. Rises(RoutineGain, <<Definition, Expect("Semicolon"), Make("TypeDeclaration", 2)>>, a + 1, a + 1)
        /\ <<Definition, Expect("Semicolon"), Make("TypeDeclaration", 2)>> \in Seq(RoutineMove)
    BY <1>1, <2>2, <2>3, ThreeRise, Sequels
  <2>5. Rises(RoutineGain, OtherIdent \o <<Definition, Expect("Semicolon"), Make("TypeDeclaration", 2)>>, a, a + 1)
        /\ OtherIdent \o <<Definition, Expect("Semicolon"), Make("TypeDeclaration", 2)>> \in Seq(RoutineMove)
    BY <1>1, <2>2, <2>3, <2>4, ConcatRises, Sequels
  <2>. QED BY <2>5 DEF TypeDecl, Definition
<1>. QED BY <1>6

-----------------------------------------------------------------------------
(* What the loops call for an item.                                        *)

\* A move that leaves a node the list is for.
Gives(m, list) ==
  \/ m.move = "make" /\ m.kind \in ItemKinds[list]
  \/ m.move = "leaf" /\ m.as \in ItemKinds[list]

\* The moves of an item leave one node behind, in the end the one of the item.
IsItem(p, list) ==
  /\ p \in Seq(RoutineMove)
  /\ \A a \in Nat : Rises(RoutineGain, p, a, a + 1)
  /\ p # <<>> /\ Gives(p[Len(p)], list)

EndsIn(p, m) == p # <<>> /\ p[Len(p)] = m

LEMMA LastOfConcat ==
  ASSUME NEW S, NEW p \in Seq(S), NEW q \in Seq(S), Len(q) # 0
  PROVE  EndsIn(p \o q, q[Len(q)])
<1>1. PICK m, n, u : m = Len(p) /\ n = Len(q) /\ u = p \o q
  OBVIOUS
<1>2. /\ m \in Nat /\ n \in Nat \ {0} /\ u \in Seq(S) /\ Len(u) = m + n
      /\ \A i \in 1 .. m + n : u[i] = IF i <= m THEN p[i] ELSE q[i - m]
  BY <1>1, ConcatProperties, LenProperties
<1>3. m + n \in 1 .. m + n /\ ~(m + n <= m) /\ (m + n) - m = n /\ m + n # 0
  BY <1>2
<1>4. u[m + n] = q[n]
  BY <1>2, <1>3
<1>. QED BY <1>1, <1>2, <1>3, <1>4, EmptySeq DEF EndsIn

LEMMA LastOfOne ==
  ASSUME NEW S, NEW p \in Seq(S), NEW m, <<m>> \in Seq(S)
  PROVE  EndsIn(p \o <<m>>, m)
<1>1. PICK q : q = <<m>>
  OBVIOUS
<1>2. Len(q) = 1 /\ q[1] = m /\ q \in Seq(S)
  BY <1>1
<1>3. Len(q) # 0 /\ q \in Seq(S)
  BY <1>2
<1>4. EndsIn(p \o q, q[Len(q)])
  BY <1>3, LastOfConcat
<1>. QED BY <1>1, <1>2, <1>4

LEMMA LastOfTwo ==
  ASSUME NEW S, NEW p \in Seq(S), NEW l, NEW m, <<l, m>> \in Seq(S)
  PROVE  EndsIn(p \o <<l, m>>, m)
<1>1. PICK q : q = <<l, m>>
  OBVIOUS
<1>2. Len(q) = 2 /\ q[2] = m /\ q \in Seq(S)
  BY <1>1
<1>3. Len(q) # 0 /\ q \in Seq(S)
  BY <1>2
<1>4. EndsIn(p \o q, q[Len(q)])
  BY <1>3, LastOfConcat
<1>. QED BY <1>1, <1>2, <1>4

LEMMA LastOfThree ==
  ASSUME NEW S, NEW p \in Seq(S), NEW k, NEW l, NEW m, <<k, l, m>> \in Seq(S)
  PROVE  EndsIn(p \o <<k, l, m>>, m)
<1>1. PICK q : q = <<k, l, m>>
  OBVIOUS
<1>2. Len(q) = 3 /\ q[3] = m /\ q \in Seq(S)
  BY <1>1
<1>3. Len(q) # 0 /\ q \in Seq(S)
  BY <1>2
<1>4. EndsIn(p \o q, q[Len(q)])
  BY <1>3, LastOfConcat
<1>. QED BY <1>1, <1>2, <1>4

LEMMA LastOfFour ==
  ASSUME NEW S, NEW p \in Seq(S), NEW j, NEW k, NEW l, NEW m, <<j, k, l, m>> \in Seq(S)
  PROVE  EndsIn(p \o <<j, k, l, m>>, m)
<1>1. PICK q : q = <<j, k, l, m>>
  OBVIOUS
<1>2. Len(q) = 4 /\ q[4] = m /\ q \in Seq(S)
  BY <1>1
<1>3. Len(q) # 0 /\ q \in Seq(S)
  BY <1>2
<1>4. EndsIn(p \o q, q[Len(q)])
  BY <1>3, LastOfConcat
<1>. QED BY <1>1, <1>2, <1>4

\* Who makes an item.
LEMMA GivesItems ==
  /\ \A n : Gives(Make("DeclarationArg", n), "DeclarationArgList")
  /\ Gives(ExpectLeaf("Ident", "OtherIdent"), "InvocationArgList")
  /\ Gives(ExpectLeaf("SymbolIdent", "SymbolIdent"), "InvocationArgList")
  /\ Gives(ExpectLeaf("Unit", "Unit"), "InvocationArgList")
  /\ \A n : Gives(Make("ExpressionStatement", n), "Block")
  /\ \A n : Gives(Make("AssignmentStatement", n), "Block")
  /\ \A n : Gives(Make("CombinatorDeclaration", n), "Program")
  /\ \A n : Gives(Make("LanguageDeclaration", n), "Program")
  /\ \A n : Gives(Make("TypeDeclaration", n), "Program")
  /\ \A n : Gives(Make("OperatorDeclaration", n), "Program")
BY DEF Gives, Make, ExpectLeaf, ItemKinds

LEMMA ItemsOfArgs ==
  /\ IsItem(DeclArg(OtherIdent), "DeclarationArgList")
  /\ IsItem(DeclArg(SymbolIdent), "DeclarationArgList")
  /\ IsItem(OtherIdent, "InvocationArgList")
  /\ IsItem(SymbolIdent, "InvocationArgList")
  /\ IsItem(Unit, "InvocationArgList")
<1>1. \A p \in Seq(PlainMove) \union Seq(ShallowMove) : p \in Seq(RoutineMove)
  BY MovesOfRoutines, SeqMonotonic
<1>2. \A p, a, b : Rises(PlainGain, p, a, b) \/ Rises(ShallowGain, p, a, b) => Rises(RoutineGain, p, a, b)
  BY GainsOfRoutines, MoreRises
<1>3. /\ OtherIdent \in Seq(PlainMove) /\ SymbolIdent \in Seq(PlainMove) /\ Unit \in Seq(PlainMove)
      /\ \A a \in Nat : /\ Rises(PlainGain, OtherIdent, a, a + 1) /\ Rises(PlainGain, SymbolIdent, a, a + 1)
                        /\ Rises(PlainGain, Unit, a, a + 1)
  BY PlainRoutines, PlainRises
<1>4. ASSUME NEW name \in Seq(PlainMove), \A a \in Nat : Rises(PlainGain, name, a, a + 1)
      PROVE  IsItem(DeclArg(name), "DeclarationArgList")
  <2>1. DeclArg(name) \in Seq(RoutineMove)
    BY <1>1, ShallowRoutines
  <2>2. \A a \in Nat : Rises(RoutineGain, DeclArg(name), a, a + 1)
    BY <1>2, <1>4, ShallowRises
  <2>3. name \in Seq(ShallowMove) /\ <<Expect("Colon"), HostArg, Make("DeclarationArg", 2)>> \in Seq(ShallowMove)
    BY MovesOfRoutines, SeqMonotonic, Sequels, ShallowIfs, WrittenMoves
  <2>4. DeclArg(name) = name \o <<Expect("Colon"), HostArg, Make("DeclarationArg", 2)>>
    BY DEF DeclArg, HostArg
  <2>5. DeclArg(name) # <<>> /\ DeclArg(name)[Len(DeclArg(name))] = Make("DeclarationArg", 2)
    BY <2>3, <2>4, LastOfThree DEF EndsIn
  <2>. QED BY <2>1, <2>2, <2>5, GivesItems DEF IsItem
<1>5. ASSUME NEW m, NEW p, p = <<m>>, p \in Seq(PlainMove), \A a \in Nat : Rises(PlainGain, p, a, a + 1),
             Gives(m, "InvocationArgList")
      PROVE  IsItem(p, "InvocationArgList")
  <2>1. Len(p) = 1 /\ p[1] = m /\ p # <<>>
    BY <1>5
  <2>2. p \in Seq(RoutineMove) /\ \A a \in Nat : Rises(RoutineGain, p, a, a + 1)
    BY <1>1, <1>2, <1>5
  <2>. QED BY <1>5, <2>1, <2>2 DEF IsItem
<1>6. IsItem(OtherIdent, "InvocationArgList")
  BY <1>3, <1>5, GivesItems DEF OtherIdent
<1>7. IsItem(SymbolIdent, "InvocationArgList")
  BY <1>3, <1>5, GivesItems DEF SymbolIdent
<1>8. IsItem(Unit, "InvocationArgList")
  BY <1>3, <1>5, GivesItems DEF Unit
<1>. QED BY <1>3, <1>4, <1>6, <1>7, <1>8

LEMMA ItemsOfStatements ==
  IsItem(ExprStatement, "Block") /\ IsItem(AssignmentStatement, "Block")
<1>1. \A p \in Seq(PlainMove) \union Seq(ShallowMove) : p \in Seq(RoutineMove)
  BY MovesOfRoutines, SeqMonotonic
<1>2. \A p, a, b : Rises(PlainGain, p, a, b) \/ Rises(ShallowGain, p, a, b) => Rises(RoutineGain, p, a, b)
  BY GainsOfRoutines, MoreRises
<1>3. IsItem(ExprStatement, "Block")
  <2>1. ExprStatement \in Seq(RoutineMove) /\ \A a \in Nat : Rises(RoutineGain, ExprStatement, a, a + 1)
    BY <1>1, <1>2, PlainRoutines, ComposedRises
  <2>2. /\ InvocationExpr \in Seq(PlainMove)
        /\ <<Expect("Semicolon"), Make("ExpressionStatement", 1)>> \in Seq(PlainMove)
        /\ ExprStatement = InvocationExpr \o <<Expect("Semicolon"), Make("ExpressionStatement", 1)>>
    BY PlainRoutines, Sequels, WrittenMoves DEF ExprStatement
  <2>3. ExprStatement # <<>> /\ ExprStatement[Len(ExprStatement)] = Make("ExpressionStatement", 1)
    BY <2>2, LastOfTwo DEF EndsIn
  <2>. QED BY <2>1, <2>3, GivesItems DEF IsItem
<1>4. IsItem(AssignmentStatement, "Block")
  <2>1. AssignmentStatement \in Seq(RoutineMove) /\ \A a \in Nat : Rises(RoutineGain, AssignmentStatement, a, a + 1)
    BY <1>1, <1>2, ShallowRoutines, ShallowRises
  <2>2. /\ SymbolDecl \in Seq(ShallowMove)
        /\ <<Expect("Equals"), Assigned, Expect("Semicolon"), Make("AssignmentStatement", 2)>> \in Seq(ShallowMove)
        /\ AssignmentStatement
             = SymbolDecl \o <<Expect("Equals"), Assigned, Expect("Semicolon"), Make("AssignmentStatement", 2)>>
    BY MovesOfRoutines, SeqMonotonic, PlainRoutines, Sequels, WrittenMoves, ShallowIfs
       DEF AssignmentStatement, Assigned
  <2>3. /\ AssignmentStatement # <<>>
        /\ AssignmentStatement[Len(AssignmentStatement)] = Make("AssignmentStatement", 2)
    BY <2>2, LastOfFour DEF EndsIn
  <2>. QED BY <2>1, <2>3, GivesItems DEF IsItem
<1>. QED BY <1>3, <1>4

LEMMA ItemsOfPrograms ==
  /\ IsItem(CombinatorDecl, "Program") /\ IsItem(LanguageDecl, "Program")
  /\ IsItem(TypeDecl, "Program") /\ IsItem(OperatorDecl, "Program")
<1>1. \A p \in Seq(PlainMove) \union Seq(ShallowMove) : p \in Seq(RoutineMove)
  BY MovesOfRoutines, SeqMonotonic
<1>2. \A p, a, b : Rises(PlainGain, p, a, b) \/ Rises(ShallowGain, p, a, b) => Rises(RoutineGain, p, a, b)
  BY GainsOfRoutines, MoreRises
<1>3. IsItem(CombinatorDecl, "Program")
  <2>1. CombinatorDecl \in Seq(RoutineMove) /\ \A a \in Nat : Rises(RoutineGain, CombinatorDecl, a, a + 1)
    BY <1>1, <1>2, PlainRoutines, ComposedRises
  <2>2. PICK p : p = OtherIdent \o <<Expect("OpenParen")>> \o DeclArgList(FALSE) \o <<Expect("OpenBrace")>> \o Block
    OBVIOUS
  <2>3. /\ p \in Seq(PlainMove) /\ <<Make("CombinatorDeclaration", 3)>> \in Seq(PlainMove)
        /\ CombinatorDecl = p \o <<Make("CombinatorDeclaration", 3)>>
    BY <2>2, PlainRoutines, Sequels, WrittenMoves DEF CombinatorDecl
  <2>4. CombinatorDecl # <<>> /\ CombinatorDecl[Len(CombinatorDecl)] = Make("CombinatorDeclaration", 3)
    BY <2>3, LastOfOne DEF EndsIn
  <2>. QED BY <2>1, <2>4, GivesItems DEF IsItem
<1>4. IsItem(LanguageDecl, "Program")
  <2>1. LanguageDecl \in Seq(RoutineMove) /\ \A a \in Nat : Rises(RoutineGain, LanguageDecl, a, a + 1)
    BY <1>1, <1>2, PlainRoutines, ComposedRises
  <2>2. /\ OtherIdent \in Seq(PlainMove)
        /\ <<Expect("Semicolon"), Make("LanguageDeclaration", 1)>> \in Seq(PlainMove)
        /\ LanguageDecl = OtherIdent \o <<Expect("Semicolon"), Make("LanguageDeclaration", 1)>>
    BY PlainRoutines, Sequels, WrittenMoves DEF LanguageDecl
  <2>3. LanguageDecl # <<>> /\ LanguageDecl[Len(LanguageDecl)] = Make("LanguageDeclaration", 1)
    BY <2>2, LastOfTwo DEF EndsIn
  <2>. QED BY <2>1, <2>3, GivesItems DEF IsItem
<1>5. IsItem(TypeDecl, "Program")
  <2>1. TypeDecl \in Seq(RoutineMove) /\ \A a \in Nat : Rises(RoutineGain, TypeDecl, a, a + 1)
    BY TypeDeclMoves, TypeDeclRises
  <2>2. /\ OtherIdent \in Seq(RoutineMove)
        /\ <<Definition, Expect("Semicolon"), Make("TypeDeclaration", 2)>> \in Seq(RoutineMove)
        /\ TypeDecl = OtherIdent \o <<Definition, Expect("Semicolon"), Make("TypeDeclaration", 2)>>
    BY <1>1, MovesOfRoutines, PlainRoutines, Sequels, WrittenMoves, ShallowIfs DEF TypeDecl, Definition
  <2>3. TypeDecl # <<>> /\ TypeDecl[Len(TypeDecl)] = Make("TypeDeclaration", 2)
    BY <2>2, LastOfThree DEF EndsIn
  <2>. QED BY <2>1, <2>3, GivesItems DEF IsItem
<1>6. IsItem(OperatorDecl, "Program")
  <2>1. OperatorDecl \in Seq(RoutineMove) /\ \A a \in Nat : Rises(RoutineGain, OperatorDecl, a, a + 1)
    BY <1>1, <1>2, ShallowRoutines, ShallowRises
  <2>2. PICK p : p = OtherIdent \o <<Expect("OpenParen")>> \o DeclArgList(TRUE)
    OBVIOUS
  <2>3. /\ p \in Seq(RoutineMove)
        /\ <<Result, Expect("Semicolon"), Make("OperatorDeclaration", 3)>> \in Seq(RoutineMove)
        /\ OperatorDecl = p \o <<Result, Expect("Semicolon"), Make("OperatorDeclaration", 3)>>
    <3>1. p \in Seq(PlainMove)
      BY <2>2, PlainRoutines, Sequels, WrittenMoves
    <3>2. <<Result, Expect("Semicolon"), Make("OperatorDeclaration", 3)>> \in Seq(RoutineMove)
      BY MovesOfRoutines, Sequels, WrittenMoves, ShallowIfs
    <3>. QED BY <1>1, <2>2, <3>1, <3>2 DEF OperatorDecl, Result
  <2>4. OperatorDecl # <<>> /\ OperatorDecl[Len(OperatorDecl)] = Make("OperatorDeclaration", 3)
    BY <2>3, LastOfThree DEF EndsIn
  <2>. QED BY <2>1, <2>4, GivesItems DEF IsItem
<1>. QED BY <1>3, <1>4, <1>5, <1>6

\* The names of the source are items or in items; a loop takes none for
\* anything else.
LEMMA LoopsCallItems ==
  ASSUME NEW list \in ItemLists \union {"Program"}
  PROVE  /\ \A kind \in DOMAIN LoopOf[list].items : IsItem(LoopOf[list].items[kind], list)
         /\ list = "Program" => DOMAIN LoopOf[list].items \intersect Named = {}
         /\ LoopOf[list].skips \intersect Named = {}
         /\ LoopOf[list].end \notin Named
<1>1. /\ \A kind \in DOMAIN DeclArgs.items : IsItem(DeclArgs.items[kind], "DeclarationArgList")
      /\ DeclArgs.skips \intersect Named = {} /\ DeclArgs.end \notin Named
  BY ItemsOfArgs DEF DeclArgs, Named
<1>2. /\ \A kind \in DOMAIN InvocationArgs.items : IsItem(InvocationArgs.items[kind], "InvocationArgList")
      /\ InvocationArgs.skips \intersect Named = {} /\ InvocationArgs.end \notin Named
  BY ItemsOfArgs DEF InvocationArgs, Named
<1>3. /\ \A kind \in DOMAIN Statements.items : IsItem(Statements.items[kind], "Block")
      /\ Statements.skips \intersect Named = {} /\ Statements.end \notin Named
  BY ItemsOfStatements DEF Statements, Named
<1>4. /\ \A kind \in DOMAIN Declarations.items : IsItem(Declarations.items[kind], "Program")
      /\ DOMAIN Declarations.items \intersect Named = {}
      /\ Declarations.skips \intersect Named = {} /\ Declarations.end \notin Named
  BY ItemsOfPrograms DEF Declarations, Named
<1>5. /\ LoopOf["Program"] = Declarations /\ LoopOf["DeclarationArgList"] = DeclArgs
      /\ LoopOf["InvocationArgList"] = InvocationArgs /\ LoopOf["Block"] = Statements
  BY DEF LoopOf
<1>6. CASE list = "Program"
  BY <1>4, <1>5, <1>6
<1>7. CASE list = "DeclarationArgList"
  BY <1>1, <1>5, <1>7
<1>8. CASE list = "InvocationArgList"
  BY <1>2, <1>5, <1>8
<1>9. CASE list = "Block"
  BY <1>3, <1>5, <1>9
<1>. QED BY <1>6, <1>7, <1>8, <1>9 DEF ItemLists

-----------------------------------------------------------------------------
(* What lies before a move: for each piece of the source that was read, in *)
(* the order of the source, a node that was not used yet, or a reference   *)
(* that a list of this kind counted.                                       *)

Tag == {"node", "Program"} \union ItemLists

\* The shape s, and then d pieces of one kind.
Grown(s, d, tag) == s \o [i \in 1 .. d |-> tag]

GoesOn(u, s, d, tag) ==
  /\ u \in Seq(Tag) /\ Len(s) \in Nat /\ Len(u) = Len(s) + d
  /\ \A i \in 1 .. Len(s) : u[i] = s[i]
  /\ \A i \in 1 .. d : u[Len(s) + i] = tag

LEMMA GrownElements ==
  ASSUME NEW s \in Seq(Tag), NEW d \in Nat, NEW tag \in Tag
  PROVE  GoesOn(Grown(s, d, tag), s, d, tag)
<1>1. PICK m, q, u : m = Len(s) /\ q = [i \in 1 .. d |-> tag] /\ u = Grown(s, d, tag)
  OBVIOUS
<1>2. q \in Seq(Tag) /\ Len(q) = d /\ m \in Nat /\ \A i \in 1 .. d : q[i] = tag
  <2>1. q \in [1 .. d -> Tag]
    BY <1>1
  <2>. QED BY <1>1, <2>1, LenProperties
<1>3. u \in Seq(Tag) /\ Len(u) = m + d /\ \A i \in 1 .. m + d : u[i] = IF i <= m THEN s[i] ELSE q[i - m]
  BY <1>1, <1>2, ConcatProperties DEF Grown
<1>4. \A i \in 1 .. m : u[i] = s[i]
  BY <1>2, <1>3
<1>5. \A i \in 1 .. d : u[m + i] = tag
  <2>. TAKE i \in 1 .. d
  <2>1. m + i \in 1 .. m + d /\ ~(m + i <= m) /\ (m + i) - m = i
    BY <1>2
  <2>. QED BY <1>2, <1>3, <2>1
<1>. QED BY <1>1, <1>2, <1>3, <1>4, <1>5 DEF GoesOn

LEMMA GrownTwice ==
  ASSUME NEW s \in Seq(Tag), NEW a \in Nat, NEW b \in Nat, NEW tag \in Tag
  PROVE  Grown(Grown(s, a, tag), b, tag) = Grown(s, a + b, tag)
<1>1. PICK m, x, y, z : m = Len(s) /\ x = Grown(s, a, tag) /\ y = Grown(x, b, tag) /\ z = Grown(s, a + b, tag)
  OBVIOUS
<1>2. m \in Nat /\ a + b \in Nat
  BY <1>1
<1>3. /\ x \in Seq(Tag) /\ Len(x) = m + a /\ \A i \in 1 .. m : x[i] = s[i]
      /\ \A i \in 1 .. a : x[m + i] = tag
  <2>1. GoesOn(x, s, a, tag)
    BY <1>1, GrownElements
  <2>. QED BY <1>1, <2>1 DEF GoesOn
<1>4. /\ y \in Seq(Tag) /\ Len(y) = (m + a) + b /\ \A i \in 1 .. m + a : y[i] = x[i]
      /\ \A i \in 1 .. b : y[(m + a) + i] = tag
  <2>1. GoesOn(y, x, b, tag)
    BY <1>1, <1>3, GrownElements
  <2>2. Len(x) = m + a
    BY <1>3
  <2>. QED BY <2>1, <2>2 DEF GoesOn
<1>5. /\ z \in Seq(Tag) /\ Len(z) = m + (a + b) /\ \A i \in 1 .. m : z[i] = s[i]
      /\ \A i \in 1 .. a + b : z[m + i] = tag
  <2>1. GoesOn(z, s, a + b, tag)
    BY <1>1, <1>2, GrownElements
  <2>. QED BY <1>1, <2>1 DEF GoesOn
<1>6. \A i \in 1 .. m + a + b : y[i] = z[i]
  <2>. TAKE i \in 1 .. m + a + b
  <2>1. CASE i <= m
    <3>1. i \in 1 .. m /\ i \in 1 .. m + a
      BY <1>2, <2>1
    <3>. QED BY <1>3, <1>4, <1>5, <3>1
  <2>2. CASE i > m /\ i <= m + a
    <3>1. i \in 1 .. m + a /\ i - m \in 1 .. a /\ i - m \in 1 .. a + b /\ m + (i - m) = i
      BY <1>2, <2>2
    <3>2. y[i] = x[i]
      BY <1>4, <3>1
    <3>3. x[m + (i - m)] = tag
      BY <1>3, <3>1
    <3>4. z[m + (i - m)] = tag
      BY <1>5, <3>1
    <3>. QED BY <3>1, <3>2, <3>3, <3>4
  <2>3. CASE i > m + a
    <3>1. i - (m + a) \in 1 .. b /\ (m + a) + (i - (m + a)) = i /\ i - m \in 1 .. a + b /\ m + (i - m) = i
      BY <1>2, <2>3
    <3>2. y[(m + a) + (i - (m + a))] = tag
      BY <1>4, <3>1
    <3>3. z[m + (i - m)] = tag
      BY <1>5, <3>1
    <3>. QED BY <3>1, <3>2, <3>3
  <2>. QED BY <1>2, <2>1, <2>2, <2>3
<1>7. Len(y) = m + a + b /\ Len(z) = m + a + b
  BY <1>2, <1>4, <1>5
<1>8. \A i \in 1 .. Len(y) : y[i] = z[i]
  BY <1>6, <1>7
<1>9. y = z
  BY <1>4, <1>5, <1>7, <1>8, SeqEqual
<1>. QED BY <1>1, <1>9

LEMMA GrownByNone ==
  ASSUME NEW s \in Seq(Tag), NEW tag \in Tag
  PROVE  Grown(s, 0, tag) = s
<1>1. PICK u : u = Grown(s, 0, tag)
  OBVIOUS
<1>2. u \in Seq(Tag) /\ Len(u) = Len(s) + 0 /\ \A i \in 1 .. Len(s) : u[i] = s[i]
  <2>1. GoesOn(u, s, 0, tag)
    BY <1>1, GrownElements
  <2>. QED BY <2>1 DEF GoesOn
<1>3. Len(u) = Len(s)
  BY <1>2
<1>4. u = s
  BY <1>2, <1>3, SeqEqual
<1>. QED BY <1>1, <1>4

\* The k-th piece, of which the first c[k] are nodes.
Piece(s, c, k, ns, rs) == IF s[k] = "node" THEN ns[c[k]] ELSE rs[k - c[k]].to

Laid(s, c, ns, rs) ==
  /\ c \in [0 .. Len(s) -> Nat] /\ c[0] = 0
  /\ \A k \in 1 .. Len(s) : c[k] = c[k - 1] + (IF s[k] = "node" THEN 1 ELSE 0)
  /\ \A j, k \in 0 .. Len(s) : j <= k => c[j] <= c[k] /\ j - c[j] <= k - c[k]
  /\ Len(ns) = c[Len(s)] /\ Len(rs) = Len(s) - c[Len(s)]

\* The pieces tell the names us, in order; what is counted is an item.
Tells(s, c, e, ns, rs, us) ==
  /\ e \in [0 .. Len(s) -> 0 .. Len(us)] /\ e[0] = 0 /\ e[Len(s)] = Len(us)
  /\ \A k \in 1 .. Len(s) :
       /\ e[k - 1] <= e[k]
       /\ Piece(s, c, k, ns, rs).leaves = SubSeq(us, e[k - 1] + 1, e[k])
       /\ s[k] # "node" => Piece(s, c, k, ns, rs).kind \in ItemKinds[s[k]]

\* The nodes ns and the references rs are of the shape s, and tell us if ok.
Holds(s, ns, rs, us, ok) ==
  \E c : Laid(s, c, ns, rs) /\ (ok => \E e : Tells(s, c, e, ns, rs, us))

\* vs goes on after us.
Extends(us, vs) == Len(us) <= Len(vs) /\ us = SubSeq(vs, 1, Len(us))

\* Where the k-th piece is.
LEMMA PieceIsThere ==
  ASSUME NEW s, NEW l \in Nat, l = Len(s), NEW c, NEW ns, NEW rs, Laid(s, c, ns, rs), NEW k \in 1 .. l
  PROVE  /\ s[k] = "node" => c[k] \in 1 .. Len(ns)
         /\ s[k] # "node" => k - c[k] \in 1 .. Len(rs)
<1>1. /\ c \in [0 .. l -> Nat] /\ c[0] = 0 /\ c[k] = c[k - 1] + (IF s[k] = "node" THEN 1 ELSE 0)
      /\ \A i, j \in 0 .. l : i <= j => c[i] <= c[j] /\ i - c[i] <= j - c[j]
      /\ Len(ns) = c[l] /\ Len(rs) = l - c[l]
  BY DEF Laid
<1>2. k \in 0 .. l /\ k - 1 \in 0 .. l /\ 0 \in 0 .. l /\ l \in 0 .. l
  OBVIOUS
<1>3. c[k] \in Nat /\ c[k - 1] \in Nat /\ c[l] \in Nat
  BY <1>1, <1>2
<1>4. c[k] <= c[l] /\ k - c[k] <= l - c[l]
  BY <1>1, <1>2
<1>5. 0 - c[0] <= (k - 1) - c[k - 1]
  BY <1>1, <1>2
<1>6. CASE s[k] = "node"
  BY <1>1, <1>3, <1>4, <1>6
<1>7. CASE s[k] # "node"
  <2>1. c[k] = c[k - 1]
    BY <1>1, <1>3, <1>7
  <2>2. k - c[k] \in Int /\ 1 <= k - c[k]
    BY <1>1, <1>3, <1>5, <2>1
  <2>. QED BY <1>1, <1>3, <1>4, <1>7, <2>2
<1>. QED BY <1>6, <1>7

LEMMA PrefixPieces ==
  ASSUME NEW U, NEW vs \in Seq(U), NEW m \in 0 .. Len(vs), NEW a \in 0 .. m, NEW b \in 0 .. m, a <= b
  PROVE  SubSeq(SubSeq(vs, 1, m), a + 1, b) = SubSeq(vs, a + 1, b)
<1>1. Len(vs) \in Nat
  BY LenProperties
<1>2. CASE a = b
  <2>1. a + 1 \in Int /\ b \in Int /\ b < a + 1
    BY <1>2
  <2>2. SubSeq(SubSeq(vs, 1, m), a + 1, b) = <<>>
    BY <2>1, SubSeqEmpty
  <2>3. SubSeq(vs, a + 1, b) = <<>>
    BY <2>1, SubSeqEmpty
  <2>. QED BY <2>2, <2>3
<1>3. CASE a # b
  <2>1. /\ 1 \in 1 .. Len(vs) /\ m \in 1 .. Len(vs) /\ a + 1 \in 1 .. m - 1 + 1 /\ b \in 1 .. m - 1 + 1
        /\ 1 + (a + 1) - 1 = a + 1 /\ 1 + b - 1 = b
    BY <1>1, <1>3
  <2>2. SubSeq(SubSeq(vs, 1, m), a + 1, b) = SubSeq(vs, 1 + (a + 1) - 1, 1 + b - 1)
    BY <2>1, SubSeqOfSubSeq
  <2>. QED BY <2>1, <2>2
<1>. QED BY <1>2, <1>3

\* A piece goes on top of the nodes or of the references.
Added(tag, ns, rs, ms, qs, piece) ==
  IF tag = "node"
    THEN /\ qs = rs
         /\ Len(ms) = Len(ns) + 1 /\ ms[Len(ns) + 1] = piece /\ \A i \in 1 .. Len(ns) : ms[i] = ns[i]
    ELSE /\ ms = ns
         /\ Len(qs) = Len(rs) + 1 /\ qs[Len(rs) + 1].to = piece /\ \A i \in 1 .. Len(rs) : qs[i] = rs[i]

\* Where it lies, and where the others do.
LaidOn(u, d, ms, qs, piece, s, c, ns, rs) ==
  /\ Laid(u, d, ms, qs)
  /\ Piece(u, d, Len(s) + 1, ms, qs) = piece
  /\ \A k \in 1 .. Len(s) : Piece(u, d, k, ms, qs) = Piece(s, c, k, ns, rs)

LEMMA PieceIsLaid ==
  ASSUME NEW s \in Seq(Tag), NEW tag \in Tag, NEW c, NEW ns, NEW rs, Laid(s, c, ns, rs),
         NEW ms, NEW qs, NEW piece, Added(tag, ns, rs, ms, qs, piece)
  PROVE  \E d : LaidOn(Grown(s, 1, tag), d, ms, qs, piece, s, c, ns, rs)
<1>0. PICK l, u : l = Len(s) /\ u = Grown(s, 1, tag)
  OBVIOUS
<1>. PICK d : d = [k \in 0 .. l + 1 |-> IF k <= l THEN c[k] ELSE c[l] + (IF tag = "node" THEN 1 ELSE 0)]
  OBVIOUS
<1>1. l \in Nat /\ Len(u) = l + 1 /\ u[l + 1] = tag /\ \A k \in 1 .. l : u[k] = s[k]
  <2>1. GoesOn(u, s, 1, tag)
    BY <1>0, GrownElements
  <2>2. 1 \in 1 .. 1
    OBVIOUS
  <2>. QED BY <1>0, <2>1, <2>2 DEF GoesOn
<1>2. /\ c \in [0 .. l -> Nat] /\ c[0] = 0
      /\ \A k \in 1 .. l : c[k] = c[k - 1] + (IF s[k] = "node" THEN 1 ELSE 0)
      /\ \A j, k \in 0 .. l : j <= k => c[j] <= c[k] /\ j - c[j] <= k - c[k]
      /\ Len(ns) = c[l] /\ Len(rs) = l - c[l]
  BY <1>0 DEF Laid
<1>3. /\ \A k \in 0 .. l : k \in 0 .. l + 1 /\ d[k] = c[k] /\ d[k] \in Nat
      /\ l + 1 \in 0 .. l + 1 /\ d[l + 1] = c[l] + (IF tag = "node" THEN 1 ELSE 0)
      /\ l \in 0 .. l /\ c[l] \in Nat /\ d[l + 1] \in Nat
  <2>0. l \in Nat /\ c \in [0 .. l -> Nat]
    BY <1>1, <1>2
  <2>1. \A k \in 0 .. l : k \in 0 .. l + 1 /\ k <= l /\ c[k] \in Nat
    BY <2>0
  <2>2. l + 1 \in 0 .. l + 1 /\ ~(l + 1 <= l) /\ l \in 0 .. l
    BY <1>1
  <2>3. d[l + 1] = c[l] + (IF tag = "node" THEN 1 ELSE 0)
    BY <2>2
  <2>4. \A k \in 0 .. l : d[k] = c[k]
    BY <2>1
  <2>. QED BY <2>1, <2>2, <2>3, <2>4
<1>4. \A k \in 0 .. l + 1 : k \in 0 .. l \/ k = l + 1
  BY <1>1
<1>5. d \in [0 .. l + 1 -> Nat]
  BY <1>3, <1>4
<1>6. d[0] = 0
  BY <1>1, <1>2, <1>3
<1>7. \A k \in 1 .. l + 1 : d[k] = d[k - 1] + (IF u[k] = "node" THEN 1 ELSE 0)
  <2>. TAKE k \in 1 .. l + 1
  <2>1. CASE k = l + 1
    <3>1. k - 1 = l
      BY <1>1, <2>1
    <3>2. d[k - 1] = c[l]
      BY <1>3, <3>1
    <3>. QED BY <1>1, <1>3, <2>1, <3>2
  <2>2. CASE k # l + 1
    <3>1. k \in 1 .. l /\ k \in 0 .. l /\ k - 1 \in 0 .. l
      BY <1>1, <2>2
    <3>2. d[k] = c[k] /\ d[k - 1] = c[k - 1] /\ u[k] = s[k]
      BY <1>1, <1>3, <3>1
    <3>. QED BY <1>2, <3>1, <3>2
  <2>. QED BY <2>1, <2>2
<1>8. \A j, k \in 0 .. l + 1 : j <= k => d[j] <= d[k] /\ j - d[j] <= k - d[k]
  <2>. SUFFICES ASSUME NEW j \in 0 .. l + 1, NEW k \in 0 .. l + 1, j <= k
                PROVE  d[j] <= d[k] /\ j - d[j] <= k - d[k]
    OBVIOUS
  <2>1. CASE k \in 0 .. l
    <3>1. j \in 0 .. l
      BY <1>1, <2>1
    <3>2. c[j] <= c[k] /\ j - c[j] <= k - c[k]
      BY <1>2, <2>1, <3>1
    <3>. QED BY <1>3, <2>1, <3>1, <3>2
  <2>2. CASE k = l + 1 /\ j \in 0 .. l
    <3>1. c[j] <= c[l] /\ j - c[j] <= l - c[l] /\ c[j] \in Nat
      <4>1. j <= l /\ l \in 0 .. l /\ j \in 0 .. l
        BY <1>1, <2>2
      <4>2. c[j] \in Nat
        BY <1>2, <4>1
      <4>. QED BY <1>2, <4>1, <4>2
    <3>2. d[j] = c[j] /\ d[k] = c[l] + (IF tag = "node" THEN 1 ELSE 0)
      BY <1>3, <2>2
    <3>3. c[l] <= d[k] /\ d[k] <= c[l] + 1
      BY <1>3, <3>2
    <3>. QED BY <1>1, <1>3, <2>2, <3>1, <3>2, <3>3
  <2>3. CASE k = l + 1 /\ j = l + 1
    BY <1>1, <1>3, <2>3
  <2>. QED BY <1>4, <2>1, <2>2, <2>3
<1>9. Len(ms) = d[l + 1] /\ Len(qs) = (l + 1) - d[l + 1]
  <2>1. CASE tag = "node"
    <3>1. Len(ms) = Len(ns) + 1 /\ qs = rs
      BY <2>1 DEF Added
    <3>2. PICK x : x = c[l]
      OBVIOUS
    <3>3. x \in Nat /\ l \in Nat /\ d[l + 1] = x + 1 /\ Len(rs) = l - x /\ Len(ns) = x
      BY <1>1, <1>2, <1>3, <2>1, <3>2
    <3>. QED BY <3>1, <3>3
  <2>2. CASE tag # "node"
    <3>1. Len(qs) = Len(rs) + 1 /\ ms = ns
      BY <2>2 DEF Added
    <3>2. PICK x : x = c[l]
      OBVIOUS
    <3>3. x \in Nat /\ l \in Nat /\ d[l + 1] = x + 0 /\ Len(rs) = l - x /\ Len(ns) = x
      BY <1>1, <1>2, <1>3, <2>2, <3>2
    <3>. QED BY <3>1, <3>3
  <2>. QED BY <2>1, <2>2
<1>10. Laid(u, d, ms, qs)
  BY <1>1, <1>5, <1>6, <1>7, <1>8, <1>9 DEF Laid
<1>11. Piece(u, d, l + 1, ms, qs) = piece
  <2>1. CASE tag = "node"
    <3>1. ms[Len(ns) + 1] = piece /\ d[l + 1] = Len(ns) + 1
      BY <1>2, <1>3, <2>1 DEF Added
    <3>. QED BY <1>1, <2>1, <3>1 DEF Piece
  <2>2. CASE tag # "node"
    <3>1. qs[Len(rs) + 1].to = piece
      BY <2>2 DEF Added
    <3>2. (l + 1) - d[l + 1] = Len(rs) + 1
      BY <1>1, <1>2, <1>3, <2>2
    <3>. QED BY <1>1, <2>2, <3>1, <3>2 DEF Piece
  <2>. QED BY <2>1, <2>2
<1>12. ASSUME NEW k \in 1 .. l PROVE Piece(u, d, k, ms, qs) = Piece(s, c, k, ns, rs)
  <2>1. k \in 0 .. l
    OBVIOUS
  <2>2. u[k] = s[k] /\ d[k] = c[k]
    BY <1>1, <1>3, <2>1
  <2>3. /\ s[k] = "node" => c[k] \in 1 .. Len(ns)
        /\ s[k] # "node" => k - c[k] \in 1 .. Len(rs)
    BY <1>0, <1>1, PieceIsThere
  <2>4. /\ \A i \in 1 .. Len(ns) : ms[i] = ns[i]
        /\ \A i \in 1 .. Len(rs) : qs[i] = rs[i]
    BY DEF Added
  <2>5. CASE s[k] = "node"
    BY <2>2, <2>3, <2>4, <2>5 DEF Piece
  <2>6. CASE s[k] # "node"
    BY <2>2, <2>3, <2>4, <2>6 DEF Piece
  <2>. QED BY <2>5, <2>6
<1>13. LaidOn(u, d, ms, qs, piece, s, c, ns, rs)
  BY <1>0, <1>10, <1>11, <1>12 DEF LaidOn
<1>. QED BY <1>0, <1>13

\* The piece that is added tells what comes next.
Continues(us, vs, tag, piece) ==
  /\ Extends(us, vs) /\ piece.leaves = SubSeq(vs, Len(us) + 1, Len(vs))
  /\ tag # "node" => piece.kind \in ItemKinds[tag]

LEMMA PieceIsTold ==
  ASSUME NEW s \in Seq(Tag), NEW tag \in Tag, NEW c, NEW ns, NEW rs, NEW d, NEW ms, NEW qs, NEW piece,
         LaidOn(Grown(s, 1, tag), d, ms, qs, piece, s, c, ns, rs),
         NEW U, NEW us \in Seq(U), NEW vs \in Seq(U), Continues(us, vs, tag, piece),
         NEW e, Tells(s, c, e, ns, rs, us)
  PROVE  \E f : Tells(Grown(s, 1, tag), d, f, ms, qs, vs)
<1>0. PICK l, u : l = Len(s) /\ u = Grown(s, 1, tag)
  OBVIOUS
<1>. /\ Piece(u, d, l + 1, ms, qs) = piece
     /\ \A k \in 1 .. l : Piece(u, d, k, ms, qs) = Piece(s, c, k, ns, rs)
  BY <1>0 DEF LaidOn
<1>1. l \in Nat /\ Len(u) = l + 1 /\ u[l + 1] = tag /\ \A k \in 1 .. l : u[k] = s[k]
  <2>1. GoesOn(u, s, 1, tag)
    BY <1>0, GrownElements
  <2>2. 1 \in 1 .. 1
    OBVIOUS
  <2>. QED BY <1>0, <2>1, <2>2 DEF GoesOn
<1>2. PICK m, n : m = Len(us) /\ n = Len(vs)
  OBVIOUS
<1>3. m \in Nat /\ n \in Nat /\ m <= n /\ us = SubSeq(vs, 1, m) /\ piece.leaves = SubSeq(vs, m + 1, n)
  BY <1>2, LenProperties DEF Continues, Extends
<1>4. /\ e \in [0 .. l -> 0 .. m] /\ e[0] = 0 /\ e[l] = m
      /\ \A k \in 1 .. l :
           /\ e[k - 1] <= e[k]
           /\ Piece(s, c, k, ns, rs).leaves = SubSeq(us, e[k - 1] + 1, e[k])
           /\ s[k] # "node" => Piece(s, c, k, ns, rs).kind \in ItemKinds[s[k]]
  BY <1>0, <1>2 DEF Tells
<1>5. PICK f : f = [k \in 0 .. l + 1 |-> IF k <= l THEN e[k] ELSE n]
  OBVIOUS
<1>6. /\ \A k \in 0 .. l : k \in 0 .. l + 1 /\ f[k] = e[k] /\ e[k] \in 0 .. m /\ f[k] \in 0 .. n
      /\ l + 1 \in 0 .. l + 1 /\ f[l + 1] = n
  BY <1>1, <1>3, <1>4, <1>5
<1>7. \A k \in 0 .. l + 1 : k \in 0 .. l \/ k = l + 1
  BY <1>1
<1>8. f \in [0 .. l + 1 -> 0 .. n]
  <2>1. n \in 0 .. n
    BY <1>3
  <2>. QED BY <1>5, <1>6, <1>7, <2>1
<1>9. f[0] = 0
  BY <1>1, <1>4, <1>6
<1>10. ASSUME NEW k \in 1 .. l + 1
       PROVE  /\ f[k - 1] <= f[k]
              /\ Piece(u, d, k, ms, qs).leaves = SubSeq(vs, f[k - 1] + 1, f[k])
              /\ u[k] # "node" => Piece(u, d, k, ms, qs).kind \in ItemKinds[u[k]]
  <2>1. CASE k = l + 1
    <3>1. k - 1 = l /\ l \in 0 .. l
      BY <1>1, <2>1
    <3>2. f[k - 1] = m /\ f[k] = n
      BY <1>4, <1>6, <2>1, <3>1
    <3>. QED BY <1>1, <1>3, <2>1, <3>2 DEF Continues
  <2>2. CASE k # l + 1
    <3>1. k \in 1 .. l /\ k \in 0 .. l /\ k - 1 \in 0 .. l
      BY <1>1, <2>2
    <3>2. f[k] = e[k] /\ f[k - 1] = e[k - 1] /\ u[k] = s[k] /\ e[k] \in 0 .. m /\ e[k - 1] \in 0 .. m
      BY <1>1, <1>6, <3>1
    <3>3. /\ e[k - 1] <= e[k]
          /\ Piece(u, d, k, ms, qs).leaves = SubSeq(us, e[k - 1] + 1, e[k])
          /\ s[k] # "node" => Piece(u, d, k, ms, qs).kind \in ItemKinds[s[k]]
      BY <1>4, <3>1
    <3>4. m \in 0 .. Len(vs)
      BY <1>2, <1>3
    <3>5. PICK x, y : x = e[k - 1] /\ y = e[k]
      OBVIOUS
    <3>6. SubSeq(SubSeq(vs, 1, m), x + 1, y) = SubSeq(vs, x + 1, y)
      BY <3>2, <3>3, <3>4, <3>5, PrefixPieces
    <3>. QED BY <1>3, <3>2, <3>3, <3>5, <3>6
  <2>. QED BY <2>1, <2>2
<1>11. Tells(u, d, f, ms, qs, vs)
  BY <1>1, <1>2, <1>6, <1>8, <1>9, <1>10 DEF Tells
<1>. QED BY <1>0, <1>11

LEMMA PieceIsAdded ==
  ASSUME NEW s \in Seq(Tag), NEW tag \in Tag, NEW ns, NEW rs, NEW ms, NEW qs, NEW piece,
         NEW U, NEW us \in Seq(U), NEW vs \in Seq(U), NEW ok, NEW still,
         Holds(s, ns, rs, us, ok), Added(tag, ns, rs, ms, qs, piece),
         still => ok /\ Continues(us, vs, tag, piece)
  PROVE  Holds(Grown(s, 1, tag), ms, qs, vs, still)
<1>1. PICK c : Laid(s, c, ns, rs) /\ (ok => \E e : Tells(s, c, e, ns, rs, us))
  BY DEF Holds
<1>2. PICK u : u = Grown(s, 1, tag)
  OBVIOUS
<1>3. PICK d : LaidOn(u, d, ms, qs, piece, s, c, ns, rs)
  <2>1. \E d : LaidOn(Grown(s, 1, tag), d, ms, qs, piece, s, c, ns, rs)
    BY <1>1, PieceIsLaid
  <2>. QED BY <1>2, <2>1
<1>4. ASSUME still PROVE \E f : Tells(u, d, f, ms, qs, vs)
  <2>1. PICK e : Tells(s, c, e, ns, rs, us)
    BY <1>1, <1>4
  <2>2. Continues(us, vs, tag, piece)
    BY <1>4
  <2>3. LaidOn(Grown(s, 1, tag), d, ms, qs, piece, s, c, ns, rs)
    BY <1>2, <1>3
  <2>4. \E f : Tells(Grown(s, 1, tag), d, f, ms, qs, vs)
    BY <2>1, <2>2, <2>3, PieceIsTold
  <2>. QED BY <1>2, <2>4
<1>5. Holds(u, ms, qs, vs, still)
  BY <1>3, <1>4 DEF Holds, LaidOn
<1>. QED BY <1>2, <1>5

\* The last n pieces, all of one kind, are ps; what is left are ms and qs.
CutOff(n, tag, ns, rs, ms, qs, ps) ==
  IF tag = "node"
    THEN /\ n <= Len(ns) /\ qs = rs
         /\ ms = SubSeq(ns, 1, Len(ns) - n) /\ ps = [i \in 1 .. n |-> ns[Len(ns) - n + i]]
    ELSE /\ n <= Len(rs) /\ ms = ns
         /\ qs = SubSeq(rs, 1, Len(rs) - n) /\ ps = [i \in 1 .. n |-> rs[Len(rs) - n + i].to]

LaidUnder(u, c, ns, rs, s, d, ms, qs, n, ps) ==
  /\ Laid(s, d, ms, qs)
  /\ \A k \in 1 .. Len(s) : Piece(s, d, k, ms, qs) = Piece(u, c, k, ns, rs)
  /\ \A i \in 1 .. n : Piece(u, c, Len(s) + i, ns, rs) = ps[i]

\* Pieces of one kind lie on top of each other.
LEMMA PiecesRise ==
  ASSUME NEW s \in Seq(Tag), NEW tag \in Tag, NEW n \in Nat, NEW c, NEW ns, NEW rs,
         Laid(Grown(s, n, tag), c, ns, rs)
  PROVE  \A i \in 0 .. n : c[Len(s) + i] = c[Len(s)] + (IF tag = "node" THEN i ELSE 0)
<1>0. PICK l, u : l = Len(s) /\ u = Grown(s, n, tag)
  OBVIOUS
<1>1. l \in Nat /\ Len(u) = l + n /\ \A i \in 1 .. n : u[l + i] = tag
  <2>1. GoesOn(u, s, n, tag)
    BY <1>0, GrownElements
  <2>. QED BY <1>0, <2>1 DEF GoesOn
<1>2. c \in [0 .. l + n -> Nat] /\ \A k \in 1 .. l + n : c[k] = c[k - 1] + (IF u[k] = "node" THEN 1 ELSE 0)
  BY <1>0, <1>1 DEF Laid
<1>. DEFINE Good(i) == c[l + i] = c[l] + (IF tag = "node" THEN i ELSE 0)
            Bad == {i \in 0 .. n : ~Good(i)}
<1>3. Bad = {}
  <2>. SUFFICES ASSUME Bad # {} PROVE FALSE
    OBVIOUS
  <2>1. PICK m \in Bad : \A k \in Bad : m <= k
    <3>1. Bad \in SUBSET Nat
      OBVIOUS
    <3>. QED BY <3>1, LeastNat
  <2>2. l \in 0 .. l + n /\ c[l] \in Nat
    BY <1>1, <1>2
  <2>3. m # 0
    <3>1. Good(0)
      BY <1>1, <2>2
    <3>. QED BY <2>1, <3>1
  <2>4. m \in 1 .. n /\ m - 1 \in 0 .. n /\ m - 1 \notin Bad
    BY <2>1, <2>3
  <2>5. Good(m - 1)
    BY <2>4
  <2>6. l + m \in 1 .. l + n /\ (l + m) - 1 = l + (m - 1)
    BY <1>1, <2>4
  <2>7. c[l + m] = c[l + (m - 1)] + (IF tag = "node" THEN 1 ELSE 0)
    <3>1. u[l + m] = tag
      BY <1>1, <2>4
    <3>. QED BY <1>2, <2>6, <3>1
  <2>8. Good(m)
    BY <2>2, <2>4, <2>5, <2>7
  <2>. QED BY <2>1, <2>8
<1>. QED BY <1>0, <1>3

LEMMA PiecesUnder ==
  ASSUME NEW s \in Seq(Tag), NEW tag \in Tag, NEW n \in Nat, NEW c,
         NEW N, NEW ns \in Seq(N), NEW R, NEW rs \in Seq(R),
         Laid(Grown(s, n, tag), c, ns, rs)
  PROVE  \E ms, qs, ps, d : /\ CutOff(n, tag, ns, rs, ms, qs, ps)
                            /\ LaidUnder(Grown(s, n, tag), c, ns, rs, s, d, ms, qs, n, ps)
<1>0. PICK l, u : l = Len(s) /\ u = Grown(s, n, tag)
  OBVIOUS
<1>1. l \in Nat /\ Len(u) = l + n /\ (\A k \in 1 .. l : u[k] = s[k]) /\ \A i \in 1 .. n : u[l + i] = tag
  <2>1. GoesOn(u, s, n, tag)
    BY <1>0, GrownElements
  <2>. QED BY <1>0, <2>1 DEF GoesOn
<1>2. /\ c \in [0 .. l + n -> Nat] /\ c[0] = 0
      /\ \A k \in 1 .. l + n : c[k] = c[k - 1] + (IF u[k] = "node" THEN 1 ELSE 0)
      /\ \A j, k \in 0 .. l + n : j <= k => c[j] <= c[k] /\ j - c[j] <= k - c[k]
      /\ Len(ns) = c[l + n] /\ Len(rs) = (l + n) - c[l + n]
  BY <1>0, <1>1 DEF Laid
<1>3. \A i \in 0 .. n : c[l + i] = c[l] + (IF tag = "node" THEN i ELSE 0)
  BY <1>0, PiecesRise
<1>4. PICK x : x = c[l]
  OBVIOUS
<1>5. x \in 0 .. l /\ x \in Nat
  <2>1. l \in 0 .. l + n /\ 0 \in 0 .. l + n
    BY <1>1
  <2>2. c[l] \in Nat /\ 0 - c[0] <= l - c[l]
    <3>1. 0 <= l
      BY <1>1
    <3>2. c[l] \in Nat
      BY <1>2, <2>1
    <3>. QED BY <1>2, <2>1, <3>1, <3>2
  <2>. QED BY <1>1, <1>2, <1>4, <2>2
<1>6. c[l + n] = x + (IF tag = "node" THEN n ELSE 0)
  BY <1>3, <1>4
<1>7. PICK ms, qs : ms = SubSeq(ns, 1, x) /\ qs = SubSeq(rs, 1, l - x)
  OBVIOUS
<1>8. x \in 0 .. Len(ns) /\ l - x \in 0 .. Len(rs) /\ Len(ns) \in Nat /\ Len(rs) \in Nat
  <2>1. Len(ns) = x + (IF tag = "node" THEN n ELSE 0)
    BY <1>2, <1>6
  <2>2. Len(rs) = (l + n) - (x + (IF tag = "node" THEN n ELSE 0))
    BY <1>2, <1>6
  <2>. QED BY <1>1, <1>5, <2>1, <2>2
<1>9. /\ Len(ms) = x /\ \A i \in 1 .. x : ms[i] = ns[i]
      /\ Len(qs) = l - x /\ \A i \in 1 .. l - x : qs[i] = rs[i]
  BY <1>7, <1>8, SplitElements
<1>10. PICK d : d = [k \in 0 .. l |-> c[k]]
  OBVIOUS
<1>11. \A k \in 0 .. l : k \in 0 .. l + n /\ d[k] = c[k] /\ d[k] \in Nat
  <2>1. \A k \in 0 .. l : k \in 0 .. l + n
    BY <1>1
  <2>. QED BY <1>2, <1>10, <2>1
<1>12. Laid(s, d, ms, qs)
  <2>1. d \in [0 .. l -> Nat]
    BY <1>10, <1>11
  <2>2. 0 \in 0 .. l /\ l \in 0 .. l
    BY <1>1
  <2>3. d[0] = 0
    BY <1>2, <1>11, <2>2
  <2>4. \A k \in 1 .. l : d[k] = d[k - 1] + (IF s[k] = "node" THEN 1 ELSE 0)
    <3>. TAKE k \in 1 .. l
    <3>1. k \in 0 .. l /\ k - 1 \in 0 .. l /\ k \in 1 .. l + n
      BY <1>1
    <3>2. d[k] = c[k] /\ d[k - 1] = c[k - 1] /\ u[k] = s[k]
      BY <1>1, <1>11, <3>1
    <3>. QED BY <1>2, <3>1, <3>2
  <2>5. \A j, k \in 0 .. l : j <= k => d[j] <= d[k] /\ j - d[j] <= k - d[k]
    BY <1>2, <1>11
  <2>6. Len(ms) = d[l] /\ Len(qs) = l - d[l]
    BY <1>4, <1>9, <1>11, <2>2
  <2>. QED BY <1>0, <2>1, <2>3, <2>4, <2>5, <2>6 DEF Laid
<1>13. ASSUME NEW k \in 1 .. l PROVE Piece(s, d, k, ms, qs) = Piece(u, c, k, ns, rs)
  <2>1. k \in 0 .. l
    OBVIOUS
  <2>2. u[k] = s[k] /\ d[k] = c[k]
    BY <1>1, <1>11, <2>1
  <2>3. /\ s[k] = "node" => d[k] \in 1 .. Len(ms)
        /\ s[k] # "node" => k - d[k] \in 1 .. Len(qs)
    BY <1>0, <1>1, <1>12, PieceIsThere
  <2>4. CASE s[k] = "node"
    BY <1>9, <2>2, <2>3, <2>4 DEF Piece
  <2>5. CASE s[k] # "node"
    BY <1>9, <2>2, <2>3, <2>5 DEF Piece
  <2>. QED BY <2>4, <2>5
<1>14. CASE tag = "node"
  <2>1. Len(ns) = x + n /\ Len(rs) = l - x /\ Len(ns) - n = x /\ n <= Len(ns)
    BY <1>1, <1>2, <1>5, <1>6, <1>14
  <2>2. qs = rs
    BY <1>7, <2>1, SubSeqFull
  <2>3. PICK ps : ps = [i \in 1 .. n |-> ns[Len(ns) - n + i]]
    OBVIOUS
  <2>4. CutOff(n, tag, ns, rs, ms, qs, ps)
    BY <1>7, <1>14, <2>1, <2>2, <2>3 DEF CutOff
  <2>5. ASSUME NEW i \in 1 .. n PROVE Piece(u, c, l + i, ns, rs) = ps[i]
    <3>1. i \in 0 .. n
      OBVIOUS
    <3>2. c[l + i] = x + i /\ u[l + i] = "node"
      BY <1>1, <1>3, <1>4, <1>14, <3>1
    <3>3. ps[i] = ns[x + i]
      BY <2>1, <2>3
    <3>. QED BY <3>2, <3>3 DEF Piece
  <2>6. LaidUnder(u, c, ns, rs, s, d, ms, qs, n, ps)
    BY <1>0, <1>12, <1>13, <2>5 DEF LaidUnder
  <2>. QED BY <1>0, <2>4, <2>6
<1>15. CASE tag # "node"
  <2>1. Len(ns) = x /\ Len(rs) = (l - x) + n /\ Len(rs) - n = l - x /\ n <= Len(rs)
    BY <1>1, <1>2, <1>5, <1>6, <1>15
  <2>2. ms = ns
    BY <1>7, <2>1, SubSeqFull
  <2>3. PICK ps : ps = [i \in 1 .. n |-> rs[Len(rs) - n + i].to]
    OBVIOUS
  <2>4. CutOff(n, tag, ns, rs, ms, qs, ps)
    BY <1>7, <1>15, <2>1, <2>2, <2>3 DEF CutOff
  <2>5. ASSUME NEW i \in 1 .. n PROVE Piece(u, c, l + i, ns, rs) = ps[i]
    <3>1. i \in 0 .. n /\ (l + i) - x = (l - x) + i
      BY <1>1, <1>5
    <3>2. c[l + i] = x + 0 /\ u[l + i] = tag
      BY <1>1, <1>3, <1>4, <1>15, <3>1
    <3>3. c[l + i] = x
      BY <1>5, <3>2
    <3>4. ps[i] = rs[(l - x) + i].to
      BY <2>1, <2>3
    <3>. QED BY <1>15, <3>1, <3>2, <3>3, <3>4 DEF Piece
  <2>6. LaidUnder(u, c, ns, rs, s, d, ms, qs, n, ps)
    BY <1>0, <1>12, <1>13, <2>5 DEF LaidUnder
  <2>. QED BY <1>0, <2>4, <2>6
<1>. QED BY <1>14, <1>15

\* The leaves of the pieces that were taken are what comes after the first z.
Taken(n, tag, ps, us, z) ==
  /\ FlattenSeq([i \in 1 .. n |-> ps[i].leaves]) = SubSeq(us, z + 1, Len(us))
  /\ tag # "node" => \A i \in 1 .. n : ps[i].kind \in ItemKinds[tag]

LEMMA PiecesAreTold ==
  ASSUME NEW s \in Seq(Tag), NEW tag \in Tag, NEW n \in Nat, NEW c, NEW ns, NEW rs,
         NEW d, NEW ms, NEW qs, NEW ps,
         LaidUnder(Grown(s, n, tag), c, ns, rs, s, d, ms, qs, n, ps),
         NEW U, NEW us \in Seq(U), NEW e, Tells(Grown(s, n, tag), c, e, ns, rs, us)
  PROVE  \E z \in 0 .. Len(us) : /\ \E f : Tells(s, d, f, ms, qs, SubSeq(us, 1, z))
                                 /\ Taken(n, tag, ps, us, z)
<1>0. PICK l, u, m : l = Len(s) /\ u = Grown(s, n, tag) /\ m = Len(us)
  OBVIOUS
<1>1. l \in Nat /\ Len(u) = l + n /\ (\A k \in 1 .. l : u[k] = s[k]) /\ \A i \in 1 .. n : u[l + i] = tag
  <2>1. GoesOn(u, s, n, tag)
    BY <1>0, GrownElements
  <2>. QED BY <1>0, <2>1 DEF GoesOn
<1>2. /\ e \in [0 .. l + n -> 0 .. m] /\ e[0] = 0 /\ e[l + n] = m
      /\ \A k \in 1 .. l + n :
           /\ e[k - 1] <= e[k]
           /\ Piece(u, c, k, ns, rs).leaves = SubSeq(us, e[k - 1] + 1, e[k])
           /\ u[k] # "node" => Piece(u, c, k, ns, rs).kind \in ItemKinds[u[k]]
  BY <1>0, <1>1 DEF Tells
<1>3. /\ \A k \in 1 .. l : Piece(s, d, k, ms, qs) = Piece(u, c, k, ns, rs)
      /\ \A i \in 1 .. n : Piece(u, c, l + i, ns, rs) = ps[i]
  BY <1>0 DEF LaidUnder
<1>4. m \in Nat
  BY <1>0
<1>5. PICK z : z = e[l]
  OBVIOUS
<1>6. z \in 0 .. m
  <2>1. l \in 0 .. l + n
    BY <1>1
  <2>. QED BY <1>2, <1>5, <2>1
<1>7. PICK vs : vs = SubSeq(us, 1, z)
  OBVIOUS
<1>8. vs \in Seq(U) /\ Len(vs) = z
  BY <1>0, <1>6, <1>7, SplitElements
<1>9. \A k \in 0 .. l : e[k] \in 0 .. z
  <2>. DEFINE Bad == {j \in 0 .. l : ~(e[l - j] <= z)}
  <2>1. Bad = {}
    <3>. SUFFICES ASSUME Bad # {} PROVE FALSE
      OBVIOUS
    <3>1. PICK j \in Bad : \A k \in Bad : j <= k
      <4>1. Bad \in SUBSET Nat
        OBVIOUS
      <4>. QED BY <4>1, LeastNat
    <3>2. j # 0
      <4>1. j = 0 => l - j = l
        BY <1>1
      <4>2. z <= z
        BY <1>6
      <4>. QED BY <1>5, <3>1, <4>1, <4>2
    <3>3. j - 1 \in 0 .. l /\ j - 1 \notin Bad
      <4>1. l \in Nat /\ j \in 0 .. l /\ j \in Bad
        BY <1>1, <3>1
      <4>2. j - 1 \in 0 .. l /\ ~(j <= j - 1)
        BY <3>2, <4>1
      <4>. QED BY <3>1, <4>2
    <3>4. e[l - (j - 1)] <= z
      BY <3>3
    <3>5. l - (j - 1) \in 1 .. l + n /\ (l - (j - 1)) - 1 = l - j /\ l - j \in 0 .. l + n
          /\ l - (j - 1) \in 0 .. l + n
      <4>1. j \in 1 .. l
        BY <1>1, <3>1, <3>2
      <4>2. l \in Nat /\ n \in Nat
        BY <1>1
      <4>. QED BY <4>1, <4>2
    <3>6. e[l - j] <= e[l - (j - 1)] /\ e[l - j] \in 0 .. m /\ e[l - (j - 1)] \in 0 .. m
      BY <1>2, <3>5
    <3>7. PICK x, y : x = e[l - j] /\ y = e[l - (j - 1)]
      OBVIOUS
    <3>8. x <= z
      BY <1>6, <3>4, <3>6, <3>7
    <3>. QED BY <3>1, <3>7, <3>8
  <2>. TAKE k \in 0 .. l
  <2>2. l - k \in 0 .. l /\ l - (l - k) = k /\ k \in 0 .. l + n
    BY <1>1
  <2>3. e[l - (l - k)] <= z
    BY <2>1, <2>2
  <2>4. e[k] \in 0 .. m
    BY <1>2, <2>2
  <2>. QED BY <1>6, <2>2, <2>3, <2>4
<1>10. PICK f : f = [k \in 0 .. l |-> e[k]]
  OBVIOUS
<1>11. Tells(s, d, f, ms, qs, vs)
  <2>1. f \in [0 .. l -> 0 .. z]
    BY <1>9, <1>10
  <2>2. f[0] = 0 /\ f[l] = z
    BY <1>1, <1>2, <1>5, <1>10
  <2>3. ASSUME NEW k \in 1 .. l
        PROVE  /\ f[k - 1] <= f[k]
               /\ Piece(s, d, k, ms, qs).leaves = SubSeq(vs, f[k - 1] + 1, f[k])
               /\ s[k] # "node" => Piece(s, d, k, ms, qs).kind \in ItemKinds[s[k]]
    <3>1. k \in 1 .. l + n /\ k \in 0 .. l /\ k - 1 \in 0 .. l
      BY <1>1
    <3>2. f[k] = e[k] /\ f[k - 1] = e[k - 1] /\ u[k] = s[k]
      BY <1>1, <1>10, <3>1
    <3>3. PICK x, y : x = e[k - 1] /\ y = e[k]
      OBVIOUS
    <3>4. x \in 0 .. z /\ y \in 0 .. z /\ x <= y /\ z \in 0 .. Len(us)
      BY <1>0, <1>2, <1>6, <1>9, <3>1, <3>3
    <3>5. SubSeq(SubSeq(us, 1, z), x + 1, y) = SubSeq(us, x + 1, y)
      BY <3>4, PrefixPieces
    <3>6. /\ Piece(s, d, k, ms, qs).leaves = SubSeq(us, x + 1, y)
          /\ s[k] # "node" => Piece(s, d, k, ms, qs).kind \in ItemKinds[s[k]]
      BY <1>2, <1>3, <3>1, <3>2, <3>3
    <3>. QED BY <1>7, <3>2, <3>3, <3>4, <3>5, <3>6
  <2>. QED BY <1>0, <1>8, <2>1, <2>2, <2>3 DEF Tells
<1>12. PICK ss, g : ss = [i \in 1 .. n |-> ps[i].leaves] /\ g = [i \in 0 .. n |-> e[l + i]]
  OBVIOUS
<1>13. ASSUME NEW i \in 1 .. n
       PROVE  /\ g[i] \in 0 .. Len(us) /\ g[i - 1] <= g[i] /\ ss[i] = SubSeq(us, g[i - 1] + 1, g[i])
              /\ ss[i] \in Seq(U)
              /\ tag # "node" => ps[i].kind \in ItemKinds[tag]
  <2>1. l + i \in 1 .. l + n /\ l + i \in 0 .. l + n /\ (l + i) - 1 = l + (i - 1) /\ i \in 0 .. n /\ i - 1 \in 0 .. n
        /\ l + (i - 1) \in 0 .. l + n
    BY <1>1
  <2>2. g[i] = e[l + i] /\ g[i - 1] = e[l + (i - 1)] /\ ss[i] = ps[i].leaves
    BY <1>12, <2>1
  <2>3. /\ e[l + (i - 1)] <= e[l + i]
        /\ Piece(u, c, l + i, ns, rs).leaves = SubSeq(us, e[l + (i - 1)] + 1, e[l + i])
        /\ u[l + i] # "node" => Piece(u, c, l + i, ns, rs).kind \in ItemKinds[u[l + i]]
    BY <1>2, <2>1
  <2>4. Piece(u, c, l + i, ns, rs) = ps[i] /\ u[l + i] = tag
    BY <1>1, <1>3
  <2>5. e[l + i] \in 0 .. m /\ e[l + (i - 1)] \in 0 .. m
    BY <1>2, <2>1
  <2>6. PICK x, y : x = e[l + (i - 1)] /\ y = e[l + i]
    OBVIOUS
  <2>7. SubSeq(us, x + 1, y) \in Seq(U)
    <3>1. x + 1 \in Int /\ y \in Int /\ \A j \in x + 1 .. y : us[j] \in U
      <4>1. \A j \in x + 1 .. y : j \in 1 .. Len(us)
        BY <1>0, <1>4, <2>5, <2>6
      <4>. QED BY <2>5, <2>6, <4>1, ElementOfSeq
    <3>. QED BY <3>1, SubSeqProperties
  <2>. QED BY <1>0, <2>2, <2>3, <2>4, <2>5, <2>6, <2>7
<1>14. ss \in Seq(Seq(U)) /\ Len(ss) = n
  <2>1. ss \in [1 .. n -> Seq(U)]
    BY <1>12, <1>13
  <2>. QED BY <2>1, LenProperties
<1>15. g[0] = z /\ g[n] = m
  <2>1. 0 \in 0 .. n /\ n \in 0 .. n /\ l + 0 = l
    BY <1>1
  <2>. QED BY <1>2, <1>5, <1>12, <2>1
<1>16. CutsInto(g, us, ss, n)
  BY <1>0, <1>6, <1>13, <1>15 DEF CutsInto
<1>17. FlattenSeq(ss) = SubSeq(us, g[0] + 1, g[n])
  BY <1>14, <1>16, FlattenOfPieces
<1>18. Taken(n, tag, ps, us, z)
  BY <1>0, <1>12, <1>13, <1>15, <1>17 DEF Taken
<1>. QED BY <1>0, <1>6, <1>7, <1>11, <1>18

LEMMA PiecesAreCut ==
  ASSUME NEW s \in Seq(Tag), NEW tag \in Tag, NEW n \in Nat,
         NEW N, NEW ns \in Seq(N), NEW R, NEW rs \in Seq(R), NEW U, NEW us \in Seq(U), NEW ok,
         Holds(Grown(s, n, tag), ns, rs, us, ok)
  PROVE  \E ms, qs, ps : /\ CutOff(n, tag, ns, rs, ms, qs, ps)
                         /\ \E z \in 0 .. Len(us) : /\ Holds(s, ms, qs, SubSeq(us, 1, z), ok)
                                                    /\ ok => Taken(n, tag, ps, us, z)
<1>1. PICK u : u = Grown(s, n, tag)
  OBVIOUS
<1>2. PICK c : Laid(u, c, ns, rs) /\ (ok => \E e : Tells(u, c, e, ns, rs, us))
  BY <1>1 DEF Holds
<1>3. PICK ms, qs, ps, d : /\ CutOff(n, tag, ns, rs, ms, qs, ps)
                           /\ LaidUnder(u, c, ns, rs, s, d, ms, qs, n, ps)
  <2>1. Laid(Grown(s, n, tag), c, ns, rs)
    BY <1>1, <1>2
  <2>2. \E ms, qs, ps, d : /\ CutOff(n, tag, ns, rs, ms, qs, ps)
                           /\ LaidUnder(Grown(s, n, tag), c, ns, rs, s, d, ms, qs, n, ps)
    BY <2>1, PiecesUnder
  <2>. QED BY <1>1, <2>2
<1>4. Laid(s, d, ms, qs)
  BY <1>3 DEF LaidUnder
<1>5. CASE ok
  <2>1. PICK e : Tells(u, c, e, ns, rs, us)
    BY <1>2, <1>5
  <2>2. LaidUnder(Grown(s, n, tag), c, ns, rs, s, d, ms, qs, n, ps) /\ Tells(Grown(s, n, tag), c, e, ns, rs, us)
    BY <1>1, <1>3, <2>1
  <2>3. \E z \in 0 .. Len(us) : /\ \E f : Tells(s, d, f, ms, qs, SubSeq(us, 1, z))
                                /\ Taken(n, tag, ps, us, z)
    BY <2>2, PiecesAreTold
  <2>4. PICK z \in 0 .. Len(us) : /\ \E f : Tells(s, d, f, ms, qs, SubSeq(us, 1, z))
                                  /\ Taken(n, tag, ps, us, z)
    BY <2>3
  <2>5. Holds(s, ms, qs, SubSeq(us, 1, z), ok)
    BY <1>4, <2>4 DEF Holds
  <2>. QED BY <1>3, <2>4, <2>5
<1>6. CASE ~ok
  <2>1. 0 \in 0 .. Len(us)
    BY LenProperties
  <2>2. Holds(s, ms, qs, SubSeq(us, 1, 0), ok)
    BY <1>4, <1>6 DEF Holds
  <2>. QED BY <1>3, <1>6, <2>1, <2>2
<1>. QED BY <1>5, <1>6

-----------------------------------------------------------------------------
(* The shapes between the moves of t: w[i] is what the i-th move finds.    *)

RoutineLeads(m, x, y) ==
  /\ m \in RoutineMove
  /\ \E base \in Seq(Tag), a, b \in Nat :
       Gain(m, a, b) \in RoutineGain /\ x = Grown(base, a, "node") /\ y = Grown(base, b, "node")

LoopLeads(m, x, y) ==
  IsLoop(m) /\ \E base \in Seq(Tag) : x = Grown(base, m.n, m.list) /\ y = Grown(base, 1, "node")

\* A reference is pushed to a node that has just been made for the list.
PushLeads(t, i, x, y) ==
  /\ t[i].move = "push" /\ i < Len(t) /\ IsLoop(t[i + 1])
  /\ i > 1 => Gives(t[i - 1], t[i + 1].list)
  /\ \E base \in Seq(Tag) : x = Grown(base, 1, "node") /\ y = Grown(base, 1, t[i + 1].list)

Leads(t, i, x, y) == RoutineLeads(t[i], x, y) \/ LoopLeads(t[i], x, y) \/ PushLeads(t, i, x, y)

Shaped(w, t) ==
  /\ \A i \in 1 .. Len(t) + 1 : w[i] \in Seq(Tag)
  /\ \A i \in 1 .. Len(t) : Leads(t, i, w[i], w[i + 1])
  /\ Len(w[Len(t) + 1]) = 1

\* The node of m, if the first of the moves t is to push a reference to it.
Feeds(m, t) == t # <<>> /\ t[1].move = "push" => Len(t) > 1 /\ Gives(m, t[2].list)

\* The move t[i] leads as u[j] does when what is around them is the same.
LEMMA LeadsAsWell ==
  ASSUME NEW t, NEW i \in Nat, NEW u, NEW j \in Nat, NEW x, NEW y, Leads(t, i, x, y), u[j] = t[i],
         i < Len(t) => j < Len(u) /\ u[j + 1] = t[i + 1],
         t[i].move = "push" /\ j > 1 => i > 1 /\ u[j - 1] = t[i - 1]
  PROVE  Leads(u, j, x, y)
BY DEF Leads, PushLeads

\* What is below the move on top.
Popped(w, t, v) == Shaped(v, Tail(t)) /\ v[1] = w[2] /\ Feeds(t[1], Tail(t))

LEMMA ShapesGo ==
  ASSUME NEW t \in Seq(Move), t # <<>>, NEW w, Shaped(w, t)
  PROVE  \E v : Popped(w, t, v)
<1>1. PICK n, u : n = Len(t) /\ u = Tail(t)
  OBVIOUS
<1>2. n \in Nat \ {0} /\ u \in Seq(Move) /\ Len(u) = n - 1 /\ \A i \in 1 .. n - 1 : u[i] = t[i + 1]
  BY <1>1, HeadTailProperties, EmptySeq
<1>3. /\ \A i \in 1 .. n + 1 : w[i] \in Seq(Tag)
      /\ \A i \in 1 .. n : Leads(t, i, w[i], w[i + 1])
      /\ Len(w[n + 1]) = 1
  BY <1>1 DEF Shaped
<1>4. PICK v : v = [i \in 1 .. n |-> w[i + 1]]
  OBVIOUS
<1>5. \A i \in 1 .. n : v[i] = w[i + 1] /\ i + 1 \in 1 .. n + 1 /\ v[i] \in Seq(Tag)
  BY <1>2, <1>3, <1>4
<1>6. ASSUME NEW i \in 1 .. n - 1 PROVE Leads(u, i, v[i], v[i + 1])
  <2>1. i \in 1 .. n /\ i + 1 \in 1 .. n /\ i + 1 \in Nat
    BY <1>2
  <2>2. v[i] = w[i + 1] /\ v[i + 1] = w[(i + 1) + 1] /\ u[i] = t[i + 1]
    BY <1>2, <1>5, <2>1
  <2>3. Leads(t, i + 1, w[i + 1], w[(i + 1) + 1])
    BY <1>3, <2>1
  <2>4. i + 1 < Len(t) => i < Len(u) /\ u[i + 1] = t[(i + 1) + 1]
    <3>1. i + 1 < n => i + 1 \in 1 .. n - 1 /\ i < n - 1
      BY <1>2
    <3>. QED BY <1>1, <1>2, <3>1
  <2>5. i > 1 => i + 1 > 1 /\ u[i - 1] = t[(i + 1) - 1]
    <3>1. i > 1 => i - 1 \in 1 .. n - 1 /\ (i - 1) + 1 = (i + 1) - 1 /\ i + 1 > 1
      BY <1>2
    <3>. QED BY <1>2, <3>1
  <2>6. Leads(u, i, w[i + 1], w[(i + 1) + 1])
    <3>1. PICK j, x, y : j = i + 1 /\ x = w[i + 1] /\ y = w[(i + 1) + 1]
      OBVIOUS
    <3>2. /\ j \in Nat /\ i \in Nat /\ Leads(t, j, x, y) /\ u[i] = t[j]
          /\ j < Len(t) => i < Len(u) /\ u[i + 1] = t[j + 1]
          /\ t[j].move = "push" /\ i > 1 => j > 1 /\ u[i - 1] = t[j - 1]
      BY <2>1, <2>2, <2>3, <2>4, <2>5, <3>1
    <3>3. Leads(u, i, x, y)
      BY <3>2, LeadsAsWell
    <3>. QED BY <3>1, <3>3
  <2>. QED BY <2>2, <2>6
<1>7. Shaped(v, u)
  <2>1. Len(u) + 1 = n /\ (n - 1) + 1 = n
    BY <1>2
  <2>2. n \in 1 .. n
    BY <1>2
  <2>. QED BY <1>2, <1>3, <1>5, <1>6, <2>1, <2>2 DEF Shaped
<1>8. v[1] = w[2]
  <2>1. 1 \in 1 .. n /\ 1 + 1 = 2
    BY <1>2
  <2>. QED BY <1>5, <2>1
<1>9. Feeds(t[1], u)
  <2>. SUFFICES ASSUME u # <<>>, u[1].move = "push" PROVE Len(u) > 1 /\ Gives(t[1], u[2].list)
    BY DEF Feeds
  <2>1. n - 1 # 0 /\ n - 1 \in Nat
    BY <1>2, EmptySeq
  <2>2. 1 \in 1 .. n - 1 /\ 2 \in 1 .. n /\ 1 + 1 = 2 /\ 2 - 1 = 1 /\ 2 > 1
    BY <1>2, <2>1
  <2>3. u[1] = t[2]
    BY <1>2, <2>2
  <2>4. Leads(t, 2, w[2], w[2 + 1])
    BY <1>3, <2>2
  <2>5. t[2] \notin RoutineMove /\ ~IsLoop(t[2])
    BY <2>3, MovesOfRoutines DEF IsLoop
  <2>6. PushLeads(t, 2, w[2], w[2 + 1])
    BY <2>4, <2>5 DEF Leads, RoutineLeads, LoopLeads
  <2>7. 2 < Len(t) /\ Gives(t[1], t[2 + 1].list)
    BY <2>2, <2>6 DEF PushLeads
  <2>8. 2 \in 1 .. n - 1 /\ n - 1 > 1
    BY <1>1, <1>2, <2>7
  <2>. QED BY <1>2, <2>7, <2>8
<1>. QED BY <1>1, <1>7, <1>8, <1>9 DEF Popped

\* A routine that rises from a to b nodes is called.
Called(w, p, t, v, base, a) ==
  /\ Shaped(v, p \o t) /\ v[1] = Grown(base, a, "node")
  /\ p # <<>> => (p \o t)[1] \in RoutineMove

LEMMA ShapesAreCalled ==
  ASSUME NEW t \in Seq(Move), NEW w, Shaped(w, t), NEW p \in Seq(RoutineMove),
         NEW base \in Seq(Tag), NEW a \in Nat, NEW b \in Nat, Rises(RoutineGain, p, a, b),
         w[1] = Grown(base, b, "node"),
         p = <<>> \/ Feeds(p[Len(p)], t)
  PROVE  \E v : Called(w, p, t, v, base, a)
<1>1. PICK n, m, u : n = Len(t) /\ m = Len(p) /\ u = p \o t
  OBVIOUS
<1>2. n \in Nat /\ m \in Nat
  BY <1>1, LenProperties
<1>3. p \in Seq(Move)
  BY MovesOfRoutines, SeqMonotonic
<1>4. u \in Seq(Move) /\ Len(u) = m + n /\ \A i \in 1 .. m + n : u[i] = IF i <= m THEN p[i] ELSE t[i - m]
  BY <1>1, <1>3, ConcatProperties
<1>5. PICK d \in [1 .. m + 1 -> Nat] :
        d[1] = a /\ d[m + 1] = b /\ \A i \in 1 .. m : Gain(p[i], d[i], d[i + 1]) \in RoutineGain
  BY <1>1 DEF Rises
<1>6. /\ \A i \in 1 .. n + 1 : w[i] \in Seq(Tag)
      /\ \A i \in 1 .. n : Leads(t, i, w[i], w[i + 1])
      /\ Len(w[n + 1]) = 1
  BY <1>1 DEF Shaped
<1>7. PICK v : v = [i \in 1 .. m + n + 1 |-> IF i <= m THEN Grown(base, d[i], "node") ELSE w[i - m]]
  OBVIOUS
<1>8. "node" \in Tag
  BY DEF Tag
<1>9. \A i \in 1 .. m + 1 : i \in 1 .. m + n + 1 /\ v[i] = Grown(base, d[i], "node") /\ v[i] \in Seq(Tag)
  <2>. TAKE i \in 1 .. m + 1
  <2>1. i \in 1 .. m + n + 1 /\ d[i] \in Nat
    BY <1>2, <1>5
  <2>2. v[i] = Grown(base, d[i], "node")
    <3>1. CASE i <= m
      BY <1>7, <2>1, <3>1
    <3>2. CASE ~(i <= m)
      <4>1. i = m + 1 /\ i - m = 1
        BY <1>2, <3>2
      <4>. QED BY <1>5, <1>7, <2>1, <3>2, <4>1
    <3>. QED BY <3>1, <3>2
  <2>3. GoesOn(Grown(base, d[i], "node"), base, d[i], "node")
    BY <1>8, <2>1, GrownElements
  <2>. QED BY <2>1, <2>2, <2>3 DEF GoesOn
<1>10. \A i \in 1 .. m + n + 1 : i > m => i - m \in 1 .. n + 1 /\ v[i] = w[i - m] /\ v[i] \in Seq(Tag)
  <2>. TAKE i \in 1 .. m + n + 1
  <2>1. i > m => i - m \in 1 .. n + 1 /\ ~(i <= m)
    BY <1>2
  <2>. QED BY <1>6, <1>7, <2>1
<1>11. ASSUME NEW i \in 1 .. m + n PROVE Leads(u, i, v[i], v[i + 1])
  <2>1. i \in 1 .. m + n + 1 /\ i + 1 \in 1 .. m + n + 1 /\ i \in Nat
    BY <1>2
  <2>2. CASE i <= m
    <3>1. i \in 1 .. m /\ i \in 1 .. m + 1 /\ i + 1 \in 1 .. m + 1
      BY <1>2, <2>2
    <3>2. u[i] = p[i] /\ p[i] \in RoutineMove
      BY <1>1, <1>4, <2>2, <3>1, ElementOfSeq
    <3>3. v[i] = Grown(base, d[i], "node") /\ v[i + 1] = Grown(base, d[i + 1], "node")
      BY <1>9, <3>1
    <3>4. Gain(p[i], d[i], d[i + 1]) \in RoutineGain /\ d[i] \in Nat /\ d[i + 1] \in Nat
      BY <1>5, <3>1
    <3>5. RoutineLeads(u[i], v[i], v[i + 1])
      BY <3>2, <3>3, <3>4 DEF RoutineLeads
    <3>. QED BY <3>5 DEF Leads
  <2>3. CASE i > m
    <3>1. i - m \in 1 .. n /\ i - m \in Nat /\ (i + 1) - m = (i - m) + 1 /\ i + 1 > m /\ ~(i <= m)
      BY <1>2, <2>3
    <3>2. u[i] = t[i - m] /\ v[i] = w[i - m] /\ v[i + 1] = w[(i - m) + 1]
      BY <1>4, <1>10, <2>1, <2>3, <3>1
    <3>3. Leads(t, i - m, w[i - m], w[(i - m) + 1])
      BY <1>6, <3>1
    <3>4. i - m < Len(t) => i < Len(u) /\ u[i + 1] = t[(i - m) + 1]
      <4>1. i - m < n => i < m + n /\ i + 1 \in 1 .. m + n /\ ~(i + 1 <= m)
        BY <1>2, <2>3
      <4>. QED BY <1>1, <1>4, <3>1, <4>1
    <3>5. CASE i - m > 1
      <4>1. i - 1 \in 1 .. m + n /\ ~(i - 1 <= m) /\ (i - 1) - m = (i - m) - 1
        BY <1>2, <3>5
      <4>2. u[i - 1] = t[(i - m) - 1]
        BY <1>4, <4>1
      <4>3. Leads(u, i, w[i - m], w[(i - m) + 1])
        BY <2>1, <3>1, <3>2, <3>3, <3>4, <3>5, <4>2, LeadsAsWell
      <4>. QED BY <3>2, <4>3
    <3>6. CASE i - m = 1 /\ t[1].move # "push"
      <4>1. Leads(u, i, w[i - m], w[(i - m) + 1])
        BY <2>1, <3>1, <3>2, <3>3, <3>4, <3>6, LeadsAsWell
      <4>. QED BY <3>2, <4>1
    <3>7. CASE i - m = 1 /\ t[1].move = "push"
      <4>1. t[1] \notin RoutineMove /\ ~IsLoop(t[1])
        BY <3>7, MovesOfRoutines DEF IsLoop
      <4>2. PushLeads(t, 1, w[1], w[2])
        <5>1. 1 \in 1 .. n /\ 1 + 1 = 2
          BY <1>2, <3>1
        <5>. QED BY <1>6, <4>1, <5>1 DEF Leads, RoutineLeads, LoopLeads
      <4>3. /\ 1 < n /\ IsLoop(t[2])
            /\ \E x \in Seq(Tag) : w[1] = Grown(x, 1, "node") /\ w[2] = Grown(x, 1, t[2].list)
        BY <1>1, <4>2 DEF PushLeads
      <4>4. i = m + 1 /\ i < m + n
        BY <1>2, <3>7, <4>3
      <4>5. u[i] = t[1] /\ u[i + 1] = t[2] /\ v[i] = w[1] /\ v[i + 1] = w[2]
        <5>1. 1 + 1 = 2
          OBVIOUS
        <5>. QED BY <1>1, <1>4, <3>2, <3>4, <3>7, <4>3, <5>1
      <4>6. i > 1 => Gives(u[i - 1], u[i + 1].list)
        <5>. SUFFICES ASSUME i > 1 PROVE Gives(u[i - 1], u[i + 1].list)
          OBVIOUS
        <5>1. m # 0 /\ i - 1 = m /\ m \in 1 .. m + n
          BY <1>2, <4>4
        <5>2. u[i - 1] = p[m]
          BY <1>2, <1>4, <5>1
        <5>3. p # <<>>
          BY <1>1, <5>1, EmptySeq
        <5>4. Feeds(p[m], t) /\ t # <<>>
          BY <1>1, <4>3, <5>3, EmptySeq
        <5>5. Gives(p[m], t[2].list)
          BY <3>7, <5>4 DEF Feeds
        <5>. QED BY <4>5, <5>2, <5>5
      <4>7. PushLeads(u, i, v[i], v[i + 1])
        BY <1>4, <3>7, <4>3, <4>4, <4>5, <4>6 DEF PushLeads
      <4>. QED BY <4>7 DEF Leads
    <3>. QED BY <3>1, <3>5, <3>6, <3>7
  <2>. QED BY <1>2, <2>2, <2>3
<1>12. Shaped(v, u)
  <2>1. \A i \in 1 .. m + n + 1 : v[i] \in Seq(Tag)
    <3>. TAKE i \in 1 .. m + n + 1
    <3>1. i > m \/ i \in 1 .. m + 1
      BY <1>2
    <3>. QED BY <1>9, <1>10, <3>1
  <2>2. Len(v[m + n + 1]) = 1
    <3>1. m + n + 1 \in 1 .. m + n + 1 /\ m + n + 1 > m /\ (m + n + 1) - m = n + 1
      BY <1>2
    <3>2. v[m + n + 1] = w[n + 1]
      BY <1>10, <3>1
    <3>. QED BY <1>6, <3>2
  <2>. QED BY <1>4, <1>11, <2>1, <2>2 DEF Shaped
<1>13. v[1] = Grown(base, a, "node")
  <2>1. 1 \in 1 .. m + 1
    BY <1>2
  <2>. QED BY <1>5, <1>9, <2>1
<1>14. p # <<>> => u[1] \in RoutineMove
  <2>. SUFFICES ASSUME p # <<>> PROVE u[1] \in RoutineMove
    OBVIOUS
  <2>1. m # 0
    BY <1>1, EmptySeq
  <2>2. 1 \in 1 .. m + n /\ 1 <= m /\ 1 \in 1 .. m
    BY <1>2, <2>1
  <2>3. u[1] = p[1] /\ p[1] \in RoutineMove
    BY <1>1, <1>4, <2>2, ElementOfSeq
  <2>. QED BY <2>3
<1>. QED BY <1>1, <1>12, <1>13, <1>14 DEF Called

\* A loop that counted nothing is put before t, which finds its node.
LEMMA ShapesBegin ==
  ASSUME NEW t \in Seq(Move), t # <<>> => t[1].move # "push", NEW w, Shaped(w, t),
         NEW base \in Seq(Tag), w[1] = Grown(base, 1, "node"),
         NEW loop \in LoopMove, loop.n = 0
  PROVE  \E v : Shaped(v, <<loop>> \o t) /\ v[1] = base
<1>1. PICK n, u : n = Len(t) /\ u = <<loop>> \o t
  OBVIOUS
<1>2. n \in Nat /\ (n # 0 => t # <<>>)
  BY <1>1, LenProperties, EmptySeq
<1>3. loop \in Move /\ IsLoop(loop) /\ loop.list \in Tag
  BY DEF Move, LoopMove, IsLoop, Tag
<1>4. u \in Seq(Move) /\ Len(u) = n + 1 /\ u[1] = loop /\ \A i \in 1 .. n : u[i + 1] = t[i]
  BY <1>1, <1>3
<1>5. /\ \A i \in 1 .. n + 1 : w[i] \in Seq(Tag)
      /\ \A i \in 1 .. n : Leads(t, i, w[i], w[i + 1])
      /\ Len(w[n + 1]) = 1
  BY <1>1 DEF Shaped
<1>6. PICK v : v = [i \in 1 .. n + 2 |-> IF i = 1 THEN base ELSE w[i - 1]]
  OBVIOUS
<1>7. /\ v[1] = base
      /\ \A i \in 1 .. n + 1 : i + 1 \in 1 .. n + 2 /\ i + 1 # 1 /\ (i + 1) - 1 = i /\ v[i + 1] = w[i]
  BY <1>2, <1>6
<1>9. ASSUME NEW i \in 1 .. n + 1 PROVE Leads(u, i, v[i], v[i + 1])
  <2>1. CASE i = 1
    <3>1. v[i] = base /\ v[i + 1] = w[1] /\ u[i] = loop
      BY <1>2, <1>4, <1>7, <2>1
    <3>2. Grown(base, loop.n, loop.list) = base
      BY <1>3, GrownByNone
    <3>3. LoopLeads(u[i], v[i], v[i + 1])
      BY <1>3, <3>1, <3>2 DEF LoopLeads
    <3>. QED BY <3>3 DEF Leads
  <2>2. CASE i # 1
    <3>1. i - 1 \in 1 .. n /\ (i - 1) + 1 = i /\ i - 1 \in Nat /\ i - 1 \in 1 .. n + 1
      BY <1>2, <2>2
    <3>2. u[i] = t[i - 1]
      BY <1>4, <3>1
    <3>3. v[i] = w[i - 1] /\ v[i + 1] = w[(i - 1) + 1]
      BY <1>7, <3>1
    <3>4. Leads(t, i - 1, w[i - 1], w[(i - 1) + 1])
      BY <1>5, <3>1
    <3>5. i - 1 < Len(t) => i < Len(u) /\ u[i + 1] = t[(i - 1) + 1]
      <4>1. i - 1 < n => i \in 1 .. n /\ i < n + 1
        BY <1>2
      <4>. QED BY <1>1, <1>4, <3>1, <4>1
    <3>6. t[i - 1].move = "push" /\ i > 1 => i - 1 > 1 /\ u[i - 1] = t[(i - 1) - 1]
      <4>. SUFFICES ASSUME t[i - 1].move = "push" PROVE i - 1 > 1 /\ u[i - 1] = t[(i - 1) - 1]
        OBVIOUS
      <4>1. i - 1 # 1
        BY <1>2, <3>1
      <4>2. i - 1 > 1 /\ (i - 1) - 1 \in 1 .. n /\ ((i - 1) - 1) + 1 = i - 1
        BY <1>2, <3>1, <4>1
      <4>. QED BY <1>4, <4>2
    <3>7. i \in Nat
      OBVIOUS
    <3>8. Leads(u, i, w[i - 1], w[(i - 1) + 1])
      <4>1. PICK j, x, y : j = i - 1 /\ x = w[i - 1] /\ y = w[(i - 1) + 1]
        OBVIOUS
      <4>2. /\ j \in Nat /\ i \in Nat /\ Leads(t, j, x, y) /\ u[i] = t[j]
            /\ j < Len(t) => i < Len(u) /\ u[i + 1] = t[j + 1]
            /\ t[j].move = "push" /\ i > 1 => j > 1 /\ u[i - 1] = t[j - 1]
        BY <3>1, <3>2, <3>4, <3>5, <3>6, <3>7, <4>1
      <4>3. Leads(u, i, x, y)
        BY <4>2, LeadsAsWell
      <4>. QED BY <4>1, <4>3
    <3>. QED BY <3>3, <3>8
  <2>. QED BY <2>1, <2>2
<1>10. Shaped(v, u)
  <2>1. \A i \in 1 .. (n + 1) + 1 : v[i] \in Seq(Tag)
    <3>. TAKE i \in 1 .. (n + 1) + 1
    <3>1. i = 1 \/ (i - 1 \in 1 .. n + 1 /\ (i - 1) + 1 = i)
      BY <1>2
    <3>. QED BY <1>5, <1>7, <3>1
  <2>2. Len(v[(n + 1) + 1]) = 1
    <3>1. n + 1 \in 1 .. n + 1
      BY <1>2
    <3>. QED BY <1>5, <1>7, <3>1
  <2>. QED BY <1>4, <1>9, <2>1, <2>2 DEF Shaped
<1>. QED BY <1>1, <1>7, <1>10

\* The loop on top counts an item before it is on the stack.
LEMMA ShapesCount ==
  ASSUME NEW t \in Seq(Move), t # <<>>, IsLoop(t[1]), NEW w, Shaped(w, t),
         NEW loop \in LoopMove, loop.n = t[1].n + 1, loop.list = t[1].list
  PROVE  \E v : Shaped(v, <<PushRef, loop>> \o Tail(t)) /\ v[1] = Grown(w[1], 1, "node")
<1>1. PICK n, r, u : n = Len(t) /\ r = Tail(t) /\ u = <<PushRef, loop>> \o r
  OBVIOUS
<1>2. n \in Nat \ {0} /\ r \in Seq(Move) /\ Len(r) = n - 1 /\ \A i \in 1 .. n - 1 : r[i] = t[i + 1]
  BY <1>1, HeadTailProperties, EmptySeq
<1>3. /\ loop \in Move /\ PushRef \in Move /\ IsLoop(loop) /\ PushRef.move = "push"
      /\ loop.list \in Tag /\ "node" \in Tag
  BY DEF Move, LoopMove, IsLoop, Tag, PushRef
<1>4. u \in Seq(Move) /\ Len(u) = n + 1 /\ u[1] = PushRef /\ u[2] = loop /\ \A i \in 2 .. n : u[i + 1] = t[i]
  <2>1. PICK p : p = <<PushRef, loop>>
    OBVIOUS
  <2>2. p \in Seq(Move) /\ Len(p) = 2 /\ p[1] = PushRef /\ p[2] = loop
    BY <1>3, <2>1
  <2>3. /\ u \in Seq(Move) /\ Len(u) = Len(p) + Len(r)
        /\ \A i \in 1 .. Len(p) + Len(r) : u[i] = IF i <= Len(p) THEN p[i] ELSE r[i - Len(p)]
    BY <1>1, <1>2, <2>1, <2>2, ConcatProperties
  <2>4. Len(u) = n + 1 /\ \A i \in 1 .. n + 1 : u[i] = IF i <= 2 THEN p[i] ELSE r[i - 2]
    <3>1. Len(p) + Len(r) = n + 1 /\ Len(p) = 2
      BY <1>2, <2>2
    <3>. QED BY <2>3, <3>1
  <2>5. 1 \in 1 .. n + 1 /\ 2 \in 1 .. n + 1
    BY <1>2
  <2>6. ASSUME NEW i \in 2 .. n PROVE u[i + 1] = t[i]
    <3>1. i + 1 \in 1 .. n + 1 /\ ~(i + 1 <= 2) /\ (i + 1) - 2 = i - 1 /\ i - 1 \in 1 .. n - 1 /\ (i - 1) + 1 = i
      BY <1>2
    <3>. QED BY <1>2, <2>4, <3>1
  <2>. QED BY <2>2, <2>3, <2>4, <2>5, <2>6
<1>5. /\ \A i \in 1 .. n + 1 : w[i] \in Seq(Tag)
      /\ \A i \in 1 .. n : Leads(t, i, w[i], w[i + 1])
      /\ Len(w[n + 1]) = 1
  BY <1>1 DEF Shaped
<1>6. PICK x, y, z : x = w[1] /\ y = Grown(x, 1, "node") /\ z = Grown(x, 1, loop.list)
  OBVIOUS
<1>7. x \in Seq(Tag) /\ y \in Seq(Tag) /\ z \in Seq(Tag)
  <2>1. 1 \in 1 .. n + 1
    BY <1>2
  <2>2. x \in Seq(Tag)
    BY <1>5, <1>6, <2>1
  <2>3. GoesOn(y, x, 1, "node") /\ GoesOn(z, x, 1, loop.list)
    BY <1>3, <1>6, <2>2, GrownElements
  <2>. QED BY <2>2, <2>3 DEF GoesOn
<1>8. \* the loop as it was
      t[1].n \in Nat /\ \E base \in Seq(Tag) : x = Grown(base, t[1].n, loop.list) /\ w[2] = Grown(base, 1, "node")
  <2>1. 1 \in 1 .. n /\ 1 + 1 = 2
    BY <1>2
  <2>2. Leads(t, 1, w[1], w[2])
    BY <1>5, <2>1
  <2>3. t[1] \notin RoutineMove /\ t[1].move # "push"
    BY MovesOfRoutines DEF IsLoop
  <2>4. LoopLeads(t[1], w[1], w[2])
    BY <2>2, <2>3 DEF Leads, RoutineLeads, PushLeads
  <2>5. t[1] \in Move
    BY <1>1, <2>1, ElementOfSeq
  <2>6. t[1] \in LoopMove
    BY <2>5, OwnedIsInt
  <2>7. t[1].n \in Nat
    BY <2>6 DEF LoopMove
  <2>. QED BY <1>6, <2>4, <2>7 DEF LoopLeads
<1>9. PICK v : v = [i \in 1 .. n + 2 |-> IF i = 1 THEN y ELSE IF i = 2 THEN z ELSE w[i - 1]]
  OBVIOUS
<1>10. /\ v[1] = y /\ v[2] = z
       /\ \A i \in 2 .. n + 1 : i + 1 \in 1 .. n + 2 /\ i + 1 \notin {1, 2} /\ (i + 1) - 1 = i /\ v[i + 1] = w[i]
  BY <1>2, <1>9
<1>11. Leads(u, 1, v[1], v[2])
  <2>1. 1 < Len(u) /\ u[1].move = "push" /\ u[1 + 1] = loop
    BY <1>2, <1>3, <1>4
  <2>2. PushLeads(u, 1, v[1], v[2])
    BY <1>3, <1>6, <1>7, <1>10, <2>1 DEF PushLeads
  <2>. QED BY <2>2 DEF Leads
<1>12. Leads(u, 2, v[2], v[3])
  <2>1. PICK base \in Seq(Tag) : x = Grown(base, t[1].n, loop.list) /\ w[2] = Grown(base, 1, "node")
    BY <1>8
  <2>2. Grown(Grown(base, t[1].n, loop.list), 1, loop.list) = Grown(base, t[1].n + 1, loop.list)
    <3>1. PICK k, tag, one : k = t[1].n /\ tag = loop.list /\ one = 1
      OBVIOUS
    <3>2. k \in Nat /\ one \in Nat /\ tag \in Tag
      BY <1>3, <1>8, <3>1
    <3>3. Grown(Grown(base, k, tag), one, tag) = Grown(base, k + one, tag)
      BY <3>2, GrownTwice
    <3>. QED BY <3>1, <3>3
  <2>3. z = Grown(base, loop.n, loop.list)
    BY <1>6, <2>1, <2>2
  <2>4. v[3] = w[2]
    <3>1. 2 \in 2 .. n + 1 /\ 2 + 1 = 3
      BY <1>2
    <3>. QED BY <1>10, <3>1
  <2>5. LoopLeads(u[2], v[2], v[3])
    BY <1>3, <1>4, <1>10, <2>1, <2>3, <2>4 DEF LoopLeads
  <2>. QED BY <2>5 DEF Leads
<1>13. ASSUME NEW i \in 3 .. n + 1 PROVE Leads(u, i, v[i], v[i + 1])
  <2>1. /\ i - 1 \in 2 .. n /\ (i - 1) + 1 = i /\ i - 1 \in Nat /\ i - 1 \in 2 .. n + 1 /\ i - 1 \in 1 .. n
        /\ i \in 2 .. n + 1 /\ i \in Nat
    BY <1>2
  <2>2. u[i] = t[i - 1]
    BY <1>4, <2>1
  <2>3. v[i] = w[i - 1] /\ v[i + 1] = w[(i - 1) + 1]
    BY <1>10, <2>1
  <2>4. Leads(t, i - 1, w[i - 1], w[(i - 1) + 1])
    BY <1>5, <2>1
  <2>5. i - 1 < Len(t) => i < Len(u) /\ u[i + 1] = t[(i - 1) + 1]
    <3>1. i - 1 < n => i \in 2 .. n /\ i < n + 1
      BY <1>2
    <3>. QED BY <1>1, <1>4, <2>1, <3>1
  <2>6. CASE i = 3 /\ t[2].move = "push"
    <3>1. t[2] \notin RoutineMove /\ ~IsLoop(t[2])
      BY <2>6, MovesOfRoutines DEF IsLoop
    <3>2. i - 1 = 2 /\ 2 - 1 = 1 /\ 2 > 1
      BY <2>6
    <3>3. PushLeads(t, 2, w[2], w[2 + 1])
      BY <2>4, <3>1, <3>2 DEF Leads, RoutineLeads, LoopLeads
    <3>4. Gives(t[1], t[2 + 1].list)
      BY <3>2, <3>3 DEF PushLeads
    <3>. QED BY <3>4 DEF Gives, IsLoop
  <2>7. CASE i = 3 /\ t[2].move # "push"
    <3>1. t[i - 1].move # "push"
      BY <2>7
    <3>2. Leads(u, i, w[i - 1], w[(i - 1) + 1])
      <4>1. PICK j, a, b : j = i - 1 /\ a = w[i - 1] /\ b = w[(i - 1) + 1]
        OBVIOUS
      <4>2. /\ j \in Nat /\ i \in Nat /\ Leads(t, j, a, b) /\ u[i] = t[j]
            /\ j < Len(t) => i < Len(u) /\ u[i + 1] = t[j + 1]
            /\ t[j].move # "push"
        BY <2>1, <2>2, <2>4, <2>5, <3>1, <4>1
      <4>3. Leads(u, i, a, b)
        BY <4>2, LeadsAsWell
      <4>. QED BY <4>1, <4>3
    <3>. QED BY <2>3, <3>2
  <2>8. CASE i # 3
    <3>1. (i - 1) - 1 \in 2 .. n /\ ((i - 1) - 1) + 1 = i - 1 /\ i - 1 > 1
      BY <1>2, <2>8
    <3>2. u[i - 1] = t[(i - 1) - 1]
      BY <1>4, <3>1
    <3>3. Leads(u, i, w[i - 1], w[(i - 1) + 1])
      <4>1. PICK j, a, b : j = i - 1 /\ a = w[i - 1] /\ b = w[(i - 1) + 1]
        OBVIOUS
      <4>2. /\ j \in Nat /\ i \in Nat /\ Leads(t, j, a, b) /\ u[i] = t[j]
            /\ j < Len(t) => i < Len(u) /\ u[i + 1] = t[j + 1]
            /\ j > 1 /\ u[i - 1] = t[j - 1]
        BY <2>1, <2>2, <2>4, <2>5, <3>1, <3>2, <4>1
      <4>3. Leads(u, i, a, b)
        BY <4>2, LeadsAsWell
      <4>. QED BY <4>1, <4>3
    <3>. QED BY <2>3, <3>3
  <2>. QED BY <2>6, <2>7, <2>8
<1>14. Shaped(v, u)
  <2>1. \A i \in 1 .. (n + 1) + 1 : v[i] \in Seq(Tag)
    <3>. TAKE i \in 1 .. (n + 1) + 1
    <3>1. i = 1 \/ i = 2 \/ (i - 1 \in 2 .. n + 1 /\ (i - 1) + 1 = i /\ i - 1 \in 1 .. n + 1)
      BY <1>2
    <3>. QED BY <1>5, <1>7, <1>10, <3>1
  <2>2. Len(v[(n + 1) + 1]) = 1
    <3>1. n + 1 \in 2 .. n + 1
      BY <1>2
    <3>. QED BY <1>5, <1>10, <3>1
  <2>3. \A i \in 1 .. n + 1 : Leads(u, i, v[i], v[i + 1])
    <3>. TAKE i \in 1 .. n + 1
    <3>1. i = 1 \/ i = 2 \/ i \in 3 .. n + 1
      BY <1>2
    <3>2. 1 + 1 = 2 /\ 2 + 1 = 3
      OBVIOUS
    <3>. QED BY <1>11, <1>12, <1>13, <3>1, <3>2
  <2>. QED BY <1>4, <2>1, <2>2, <2>3 DEF Shaped
<1>. QED BY <1>1, <1>6, <1>10, <1>14

-----------------------------------------------------------------------------
(* Nodes, when l tokens were consumed; ok says that there was no error.    *)

TreeKinds == LeafKinds \union NodeKinds \union ItemLists \union {"Program", "nil", "Error", "none"}

TreeNode(l, ok) ==
  {n \in [kind : TreeKinds, children : Seq(TreeKinds), leaves : Seq(1 .. l)] :
     ok /\ n.kind \in DOMAIN ItemKinds => \A i \in 1 .. Len(n.children) : n.children[i] \in ItemKinds[n.kind]}

Ref(l, ok) == [to : TreeNode(l, ok), at : Nat]

LEMMA NodesStay ==
  ASSUME NEW l \in Nat, NEW m \in Nat, l <= m, NEW ok, NEW still, still => ok
  PROVE  TreeNode(l, ok) \subseteq TreeNode(m, still) /\ Ref(l, ok) \subseteq Ref(m, still)
<1>1. Seq(1 .. l) \subseteq Seq(1 .. m)
  <2>1. 1 .. l \subseteq 1 .. m
    OBVIOUS
  <2>. QED BY <2>1, SeqMonotonic
<1>2. TreeNode(l, ok) \subseteq TreeNode(m, still)
  BY <1>1 DEF TreeNode
<1>. QED BY <1>2 DEF Ref

LEMMA KindsOfLists ==
  /\ DOMAIN ItemKinds = ItemLists \union {"Program"}
  /\ \A kind \in TreeKinds \ (ItemLists \union {"Program"}) : kind \notin DOMAIN ItemKinds
  /\ \A list \in ItemLists \union {"Program"} : ItemKinds[list] \subseteq TreeKinds
BY DEF ItemKinds, ItemLists, TreeKinds, LeafKinds, NodeKinds

\* A node that is made of ps.
MadeOf(node, kind, n, ps, l, ok) ==
  /\ node \in TreeNode(l, ok) /\ node.kind = kind
  /\ node.leaves = FlattenSeq([i \in 1 .. n |-> ps[i].leaves])

LEMMA NodeIsMade ==
  ASSUME NEW l \in Nat, NEW ok, NEW n \in Nat, NEW ps \in [1 .. n -> TreeNode(l, ok)],
         NEW kind \in TreeKinds,
         ok /\ kind \in DOMAIN ItemKinds => \A i \in 1 .. n : ps[i].kind \in ItemKinds[kind]
  PROVE  MadeOf(Node(kind, ps), kind, n, ps, l, ok)
<1>1. DOMAIN ps = 1 .. n /\ \A i \in 1 .. n : ps[i].kind \in TreeKinds /\ ps[i].leaves \in Seq(1 .. l)
  BY DEF TreeNode
<1>2. PICK kinds, ss : kinds = [i \in 1 .. n |-> ps[i].kind] /\ ss = [i \in 1 .. n |-> ps[i].leaves]
  OBVIOUS
<1>3. kinds \in Seq(TreeKinds) /\ Len(kinds) = n /\ ss \in Seq(Seq(1 .. l))
  BY <1>1, <1>2
<1>4. FlattenSeq(ss) \in Seq(1 .. l)
  BY <1>3, FlattenIsSeq
<1>5. Node(kind, ps) = [kind |-> kind, children |-> kinds, leaves |-> FlattenSeq(ss)]
  BY <1>1, <1>2 DEF Node
<1>6. PICK node : node = Node(kind, ps)
  OBVIOUS
<1>7. /\ node \in [kind : TreeKinds, children : Seq(TreeKinds), leaves : Seq(1 .. l)]
      /\ node.kind = kind /\ node.children = kinds /\ node.leaves = FlattenSeq(ss)
  BY <1>3, <1>4, <1>5, <1>6
<1>8. ok /\ node.kind \in DOMAIN ItemKinds =>
        \A i \in 1 .. Len(node.children) : node.children[i] \in ItemKinds[node.kind]
  BY <1>2, <1>3, <1>7
<1>9. node \in TreeNode(l, ok)
  BY <1>7, <1>8 DEF TreeNode
<1>. QED BY <1>2, <1>6, <1>7, <1>9 DEF MadeOf

\* A leaf of tokens that were consumed.
LEMMA LeafIsMade ==
  ASSUME NEW l \in Nat, NEW ok, NEW leaves \in Seq(1 .. l),
         NEW kind \in TreeKinds \ (ItemLists \union {"Program"})
  PROVE  Leaf(kind, leaves) \in TreeNode(l, ok) /\ Leaf(kind, leaves).kind = kind
<1>1. kind \notin DOMAIN ItemKinds
  BY KindsOfLists
<1>2. <<>> \in Seq(TreeKinds)
  OBVIOUS
<1>. QED BY <1>1, <1>2 DEF Leaf, TreeNode

LEMMA NilIsMade ==
  ASSUME NEW l \in Nat, NEW ok
  PROVE  Nil \in TreeNode(l, ok) /\ Nil.kind = "nil" /\ Nil.leaves = <<>>
<1>1. PICK ps : ps = [i \in 1 .. 0 |-> Nil]
  OBVIOUS
<1>2. ps \in [1 .. 0 -> TreeNode(l, ok)] /\ 1 .. 0 = {} /\ ps = <<>>
  BY <1>1
<1>3. "nil" \in TreeKinds /\ "nil" \notin DOMAIN ItemKinds
  BY DEF TreeKinds, ItemKinds
<1>4. MadeOf(Node("nil", ps), "nil", 0, ps, l, ok)
  BY <1>2, <1>3, NodeIsMade
<1>5. PICK ss : ss = [i \in 1 .. 0 |-> ps[i].leaves]
  OBVIOUS
<1>6. Len(ss) = 0 /\ ss = <<>>
  BY <1>5
<1>7. FlattenSeq(ss) = <<>>
  BY <1>6, FlattenEmpty
<1>8. Node("nil", ps) = Nil
  BY <1>2 DEF Nil
<1>. QED BY <1>4, <1>5, <1>7, <1>8 DEF MadeOf

-----------------------------------------------------------------------------
(* What a move does to the shape.                                          *)

LEMMA FieldsOfPlainGains ==
  ASSUME NEW m, NEW a, NEW b, Gain(m, a, b) \in PlainGain
  PROVE  /\ m.move \in {"expect", "leaf", "report", "nil", "begin", "make"} /\ a \in Nat /\ b \in Nat
         /\ m.move = "expect" => m.kind \notin Named /\ b = a
         /\ m.move = "report" => b = a
         /\ m.move = "leaf" => m.kind \in Named /\ m.as \in LeafKinds /\ b = a + 1
         /\ m.move \in {"nil", "begin"} => b = a + 1
         /\ m.move = "make" => m.kind \in NodeKinds /\ m.n \in Nat /\ m.n <= a /\ b = a - m.n + 1
<1>1. m \in PlainMove /\ a \in Nat /\ b \in Nat
  BY DEF PlainGain, Gain
<1>2. m.move \in {"expect", "leaf", "report", "nil", "begin", "make"}
  BY <1>1 DEF PlainMove
<1>3. m.move = "leaf" => m.as \in LeafKinds
  BY <1>1 DEF PlainMove
<1>4. m.move = "make" => m.kind \in NodeKinds /\ m.n \in Nat
  BY <1>1 DEF PlainMove
<1>5. /\ m.move = "expect" => m.kind \notin Named /\ b = a
      /\ m.move = "report" => b = a
      /\ m.move = "leaf" => m.kind \in Named /\ b = a + 1
      /\ m.move \in {"nil", "begin"} => b = a + 1
      /\ m.move = "make" => m.n <= a /\ b = a - m.n + 1
  BY DEF PlainGain, Gain
<1>. QED BY <1>1, <1>2, <1>3, <1>4, <1>5

LEMMA FieldsOfIfGains ==
  ASSUME NEW m, NEW a, NEW b, NEW S, NEW G, G \subseteq RoutineGain, S \subseteq RoutineMove,
         Gain(m, a, b) \in IfGain(S, G)
  PROVE  /\ m.move = "if" /\ a \in Nat /\ b \in Nat /\ m.kind \notin Named
         /\ Rises(RoutineGain, m.then, a, b) /\ Rises(RoutineGain, m.else, a, b)
<1>1. m \in IfOf(S) /\ a \in Nat /\ b \in Nat
  BY DEF IfGain, Gain
<1>2. m.move = "if"
  BY <1>1 DEF IfOf
<1>3. m.kind \notin Named /\ Rises(G, m.then, a, b) /\ Rises(G, m.else, a, b)
  BY DEF IfGain, Gain
<1>. QED BY <1>1, <1>2, <1>3, MoreRises

\* What the move m does, that is reached with a nodes of a routine.
DoesIts(m, a, b) ==
  /\ a \in Nat /\ b \in Nat
  /\ m.move \in {"expect", "leaf", "report", "nil", "begin", "make", "if"}
  /\ m.move = "expect" => m.kind \notin Named /\ b = a
  /\ m.move = "report" => b = a
  /\ m.move = "leaf" => m.kind \in Named /\ m.as \in LeafKinds /\ b = a + 1
  /\ m.move \in {"nil", "begin"} => b = a + 1
  /\ m.move = "make" => m.kind \in NodeKinds /\ m.n \in Nat /\ m.n <= a /\ b = a - m.n + 1
  /\ m.move = "if" => /\ m.kind \notin Named
                      /\ Rises(RoutineGain, m.then, a, b) /\ Rises(RoutineGain, m.else, a, b)

LEMMA FieldsOfGains ==
  ASSUME NEW m, NEW a, NEW b, Gain(m, a, b) \in RoutineGain
  PROVE  DoesIts(m, a, b)
<1>1. CASE Gain(m, a, b) \in PlainGain
  BY <1>1, FieldsOfPlainGains DEF DoesIts
<1>2. CASE Gain(m, a, b) \in IfGain(PlainMove, PlainGain)
  BY <1>2, FieldsOfIfGains, GainsOfRoutines, MovesOfRoutines DEF DoesIts
<1>3. CASE Gain(m, a, b) \in IfGain(ShallowMove, ShallowGain)
  BY <1>3, FieldsOfIfGains, GainsOfRoutines, MovesOfRoutines DEF DoesIts
<1>. QED BY <1>1, <1>2, <1>3 DEF RoutineGain, ShallowGain

\* The move on top takes a nodes on top of base and leaves b.
Leading(w, t, v, base, a, b) ==
  /\ Popped(w, t, v) /\ DoesIts(t[1], a, b)
  /\ base \in Seq(Tag) /\ w[1] = Grown(base, a, "node") /\ v[1] = Grown(base, b, "node")

LEMMA MoveIsLeading ==
  ASSUME NEW t \in Seq(Move), t # <<>>, t[1].move \notin {"loop", "push"}, NEW w, Shaped(w, t)
  PROVE  \E v, base, a, b : Leading(w, t, v, base, a, b)
<1>1. PICK v : Popped(w, t, v)
  BY ShapesGo
<1>2. 1 \in 1 .. Len(t) /\ 1 + 1 = 2
  BY EmptySeq
<1>3. Leads(t, 1, w[1], w[2])
  BY <1>2 DEF Shaped
<1>4. RoutineLeads(t[1], w[1], w[2])
  BY <1>3 DEF Leads, LoopLeads, PushLeads, IsLoop
<1>5. PICK base \in Seq(Tag), a, b \in Nat :
        Gain(t[1], a, b) \in RoutineGain /\ w[1] = Grown(base, a, "node") /\ w[2] = Grown(base, b, "node")
  BY <1>4 DEF RoutineLeads
<1>6. DoesIts(t[1], a, b)
  BY <1>5, FieldsOfGains
<1>7. v[1] = w[2]
  BY <1>1 DEF Popped
<1>8. Leading(w, t, v, base, a, b)
  BY <1>1, <1>5, <1>6, <1>7 DEF Leading
<1>. QED BY <1>8

\* The moves t find what they need: nodes and references of their shapes.
Prepared(w, t, ns, rs, us, ok) ==
  /\ Shaped(w, t) /\ Holds(w[1], ns, rs, us, ok)
  /\ t # <<>> /\ t[1].move = "push" /\ ok => Len(ns) # 0 /\ ns[Len(ns)].kind \in ItemKinds[t[2].list]

\* After what leaves no node for a list no reference is pushed.
LEMMA NothingIsPushed ==
  ASSUME NEW m, NEW t, Feeds(m, t), m.move \notin {"make", "leaf"}
  PROVE  ~(t # <<>> /\ t[1].move = "push")
BY DEF Feeds, Gives

LEMMA HoldsOn ==
  ASSUME NEW s, NEW ns, NEW rs, NEW us, NEW ok, Holds(s, ns, rs, us, ok), NEW vs, NEW still,
         still => ok /\ vs = us
  PROVE  Holds(s, ns, rs, vs, still)
BY DEF Holds

\* Of the tokens that are consumed the names are told.
LEMMA NamesGoOn ==
  ASSUME Consume, names \in Seq(Nat), pos \in Nat
  PROVE  /\ names' \in Seq(Nat) /\ pos' = pos + 1
         /\ token \notin Named => names' = names
         /\ token \in Named => names' = Append(names, pos)
<1>1. DOMAIN LeafKind = Named
  BY DEF LeafKind, Named
<1>. QED BY <1>1 DEF Consume

\* What is appended to the nodes.
LEMMA NodeIsAdded ==
  ASSUME NEW T, NEW ns \in Seq(T), NEW piece \in T, NEW rs
  PROVE  /\ Append(ns, piece) \in Seq(T) /\ Added("node", ns, rs, Append(ns, piece), rs, piece)
         /\ Len(Append(ns, piece)) # 0 /\ Append(ns, piece)[Len(Append(ns, piece))] = piece
<1>1. PICK ms, n : ms = Append(ns, piece) /\ n = Len(ns)
  OBVIOUS
<1>2. ms \in Seq(T) /\ Len(ms) = n + 1 /\ ms[n + 1] = piece /\ (\A i \in 1 .. n : ms[i] = ns[i]) /\ n \in Nat
  BY <1>1, AppendProperties, LenProperties
<1>3. Added("node", ns, rs, ms, rs, piece)
  BY <1>1, <1>2 DEF Added
<1>. QED BY <1>1, <1>2, <1>3

\* Where a piece tells nothing, or one name more.
LEMMA NothingIsTold ==
  ASSUME NEW us \in Seq(Nat), NEW piece, piece.leaves = <<>>
  PROVE  Continues(us, us, "node", piece)
<1>1. PICK n : n = Len(us)
  OBVIOUS
<1>2. n \in Nat /\ n + 1 > n
  BY <1>1, LenProperties
<1>3. SubSeq(us, n + 1, n) = <<>>
  BY <1>1, <1>2, SubSeqProperties, EmptySeq
<1>4. us = SubSeq(us, 1, n)
  BY <1>1, SubSeqProperties
<1>. QED BY <1>1, <1>2, <1>3, <1>4 DEF Continues, Extends

LEMMA OneIsTold ==
  ASSUME NEW us \in Seq(Nat), NEW p \in Nat, NEW piece, piece.leaves = <<p>>
  PROVE  Continues(us, Append(us, p), "node", piece)
<1>1. PICK n, vs : n = Len(us) /\ vs = Append(us, p)
  OBVIOUS
<1>2. n \in Nat /\ vs \in Seq(Nat) /\ Len(vs) = n + 1 /\ vs[n + 1] = p /\ \A i \in 1 .. n : vs[i] = us[i]
  BY <1>1, AppendProperties, LenProperties
<1>3. SubSeq(vs, n + 1, n + 1) = <<p>>
  <2>1. n + 1 \in 1 .. Len(vs) /\ n + 1 \in n + 1 .. Len(vs) /\ (n + 1) + 1 > n + 1
    BY <1>2
  <2>2. SubSeq(vs, n + 1, n + 1) = <<vs[n + 1]>> \o SubSeq(vs, (n + 1) + 1, n + 1)
    BY <1>2, <2>1, SubSeqRecursiveFirst
  <2>3. SubSeq(vs, (n + 1) + 1, n + 1) = <<>>
    BY <1>2, <2>1, SubSeqEmpty
  <2>4. <<p>> \in Seq(Nat)
    OBVIOUS
  <2>. QED BY <1>2, <2>2, <2>3, <2>4, ConcatEmptySeq
<1>4. us = SubSeq(vs, 1, n)
  BY <1>1, <1>2
<1>. QED BY <1>1, <1>2, <1>3, <1>4 DEF Continues, Extends

-----------------------------------------------------------------------------
(* The tree.  The inductive invariant: the nodes and references lie as the *)
(* moves to come will use them, and tell the names in order.               *)

Typed ==
  /\ pos \in Nat \ {0} /\ names \in Seq(Nat)
  /\ nodes \in Seq(TreeNode(pos - 1, errors = {}))
  /\ nrs \in Seq(Ref(pos - 1, errors = {}))
  /\ root \in TreeNode(pos - 1, errors = {})

TreeInv ==
  /\ Typed
  /\ ~Done => \E w : Prepared(w, todo, nodes, nrs, names, errors = {})
  /\ TreeIsSource

LEMMA TypedOn ==
  ASSUME Typed, pos' \in Nat, pos <= pos', errors \subseteq errors'
  PROVE  /\ pos' \in Nat \ {0} /\ pos' - 1 \in Nat
         /\ nodes \in Seq(TreeNode(pos' - 1, errors' = {}))
         /\ nrs \in Seq(Ref(pos' - 1, errors' = {}))
         /\ root \in TreeNode(pos' - 1, errors' = {})
<1>1. pos - 1 \in Nat /\ pos' - 1 \in Nat /\ pos - 1 <= pos' - 1 /\ pos' # 0
  <2>1. PICK p, q : p = pos /\ q = pos'
    OBVIOUS
  <2>2. p \in Nat \ {0} /\ q \in Nat /\ p <= q
    BY <2>1 DEF Typed
  <2>3. p - 1 \in Nat /\ q - 1 \in Nat /\ p - 1 <= q - 1 /\ q # 0
    BY <2>2
  <2>. QED BY <2>1, <2>3
<1>2. PICK l, m, ok, still : l = pos - 1 /\ m = pos' - 1 /\ ok = (errors = {}) /\ still = (errors' = {})
  OBVIOUS
<1>3. l \in Nat /\ m \in Nat /\ l <= m /\ (still => ok)
  BY <1>1, <1>2
<1>4. TreeNode(l, ok) \subseteq TreeNode(m, still) /\ Ref(l, ok) \subseteq Ref(m, still)
  BY <1>3, NodesStay
<1>5. nodes \in Seq(TreeNode(l, ok)) /\ nrs \in Seq(Ref(l, ok)) /\ root \in TreeNode(l, ok)
  BY <1>2 DEF Typed
<1>6. nodes \in Seq(TreeNode(m, still)) /\ nrs \in Seq(Ref(m, still)) /\ root \in TreeNode(m, still)
  BY <1>4, <1>5, SeqMonotonic
<1>. QED BY <1>1, <1>2, <1>6

\* What a step begins with, and what it is left to show.
LEMMA StepBegins ==
  ASSUME TreeInv, StackInv, todo # <<>>
  PROVE  /\ ~Done /\ Typed /\ todo \in Seq(Move) /\ todo[1] \in Move /\ Rest \in Seq(Move)
         /\ \E w : Prepared(w, todo, nodes, nrs, names, errors = {})
<1>1. ~Done /\ todo \in Seq(Move)
  BY DEF StackInv
<1>2. todo[1] \in Move
  BY <1>1, EmptySeq, ElementOfSeq
<1>3. Rest \in Seq(Move)
  BY <1>1, HeadTailProperties DEF Rest
<1>. QED BY <1>1, <1>2, <1>3 DEF TreeInv

LEMMA StepEnds ==
  ASSUME ~Done, root' = root, Typed', NEW w, Prepared(w, todo', nodes', nrs', names', errors' = {})
  PROVE  TreeInv'
BY DEF TreeInv, TreeIsSource, Done

LEMMA QuietStep ==
  ASSUME TreeInv, StackInv, ExpectToken \/ ReportMove
  PROVE  TreeInv'
<1>1. todo # <<>> /\ todo[1].move \in {"expect", "report"} /\ todo' = Rest
  BY DEF ExpectToken, ReportMove, At
<1>2. UNCHANGED <<nodes, nrs, root>> /\ errors \subseteq errors'
  BY DEF ExpectToken, ReportMove, ReportErrors
<1>3. /\ ~Done /\ Typed /\ todo \in Seq(Move)
      /\ \E w : Prepared(w, todo, nodes, nrs, names, errors = {})
  BY <1>1, StepBegins
<1>4. PICK w : Prepared(w, todo, nodes, nrs, names, errors = {})
  BY <1>3
<1>5. PICK v, base, a, b : Leading(w, todo, v, base, a, b)
  BY <1>1, <1>3, <1>4, MoveIsLeading DEF Prepared
<1>6. v[1] = w[1]
  BY <1>1, <1>5 DEF Leading, DoesIts
<1>7. /\ names' \in Seq(Nat) /\ pos' \in Nat /\ pos <= pos'
      /\ errors' = {} => errors = {} /\ names' = names
  <2>1. CASE ExpectToken
    <3>1. /\ names' \in Seq(Nat) /\ pos' = pos + 1
          /\ token \notin Named => names' = names
      BY <1>3, <2>1, NamesGoOn DEF ExpectToken, Typed
    <3>2. pos' \in Nat /\ pos <= pos'
      BY <1>3, <3>1 DEF Typed
    <3>3. todo[1].kind \notin Named
      BY <1>5, <2>1 DEF Leading, DoesIts, ExpectToken, At
    <3>4. errors' = {} => errors = {} /\ token = todo[1].kind
      BY <2>1 DEF ExpectToken, ReportErrors
    <3>. QED BY <3>1, <3>2, <3>3, <3>4
  <2>2. CASE ReportMove
    <3>1. names' = names /\ pos' = pos
      BY <2>2 DEF ReportMove, readVars
    <3>. QED BY <1>2, <1>3, <3>1 DEF Typed
  <2>. QED BY <2>1, <2>2
<1>8. Typed'
  <2>1. /\ pos' \in Nat \ {0} /\ nodes \in Seq(TreeNode(pos' - 1, errors' = {}))
        /\ nrs \in Seq(Ref(pos' - 1, errors' = {})) /\ root \in TreeNode(pos' - 1, errors' = {})
    BY <1>2, <1>3, <1>7, TypedOn
  <2>. QED BY <1>2, <1>7, <2>1 DEF Typed
<1>9. Holds(v[1], nodes, nrs, names', errors' = {})
  <2>1. Holds(w[1], nodes, nrs, names, errors = {})
    BY <1>4 DEF Prepared
  <2>2. errors' = {} => errors = {} /\ names' = names
    BY <1>7
  <2>. QED BY <1>6, <2>1, <2>2, HoldsOn
<1>10. ~(Rest # <<>> /\ Rest[1].move = "push") /\ Shaped(v, Rest)
  <2>1. Feeds(todo[1], Rest) /\ Shaped(v, Rest)
    BY <1>5 DEF Leading, Popped, Rest
  <2>. QED BY <1>1, <2>1, NothingIsPushed
<1>11. Prepared(v, todo', nodes', nrs', names', errors' = {})
  BY <1>1, <1>2, <1>9, <1>10 DEF Prepared
<1>. QED BY <1>2, <1>3, <1>8, <1>11, StepEnds

\* A separator is no name.
LEMMA SkipStep ==
  ASSUME TreeInv, StackInv, SkipSeparator
  PROVE  TreeInv'
<1>1. todo # <<>> /\ todo[1].move = "loop"
  BY DEF SkipSeparator, At
<1>2. UNCHANGED <<todo, nodes, nrs, root, errors>>
  BY DEF SkipSeparator, errorVars
<1>3. /\ ~Done /\ Typed /\ todo[1] \in Move
      /\ \E w : Prepared(w, todo, nodes, nrs, names, errors = {})
  BY <1>1, StepBegins
<1>4. PICK w : Prepared(w, todo, nodes, nrs, names, errors = {})
  BY <1>3
<1>5. todo[1].list \in ItemLists \union {"Program"}
  BY <1>1, <1>3, FieldsOfMoves DEF LoopMove
<1>6. token \notin Named
  BY <1>5, LoopsCallItems DEF SkipSeparator
<1>7. names' = names /\ pos' = pos + 1
  BY <1>3, <1>6, NamesGoOn DEF SkipSeparator, Typed
<1>8. Typed'
  <2>1. pos' \in Nat /\ pos <= pos' /\ errors \subseteq errors'
    BY <1>2, <1>3, <1>7 DEF Typed
  <2>2. /\ pos' \in Nat \ {0} /\ nodes \in Seq(TreeNode(pos' - 1, errors' = {}))
        /\ nrs \in Seq(Ref(pos' - 1, errors' = {})) /\ root \in TreeNode(pos' - 1, errors' = {})
    BY <1>3, <2>1, TypedOn
  <2>. QED BY <1>2, <1>3, <1>7, <2>2 DEF Typed
<1>9. Prepared(w, todo', nodes', nrs', names', errors' = {})
  BY <1>2, <1>4, <1>7
<1>. QED BY <1>2, <1>3, <1>8, <1>9, StepEnds

\* A node is appended that goes on with the names.
LEMMA NodeStep ==
  ASSUME ~Done, UNCHANGED <<nrs, root>>, todo' = Rest, Typed,
         pos' \in Nat, pos <= pos', names' \in Seq(Nat), errors \subseteq errors',
         NEW w, NEW v, NEW base, NEW a \in Nat, NEW b, Leading(w, todo, v, base, a, b), b = a + 1,
         Prepared(w, todo, nodes, nrs, names, errors = {}),
         NEW node \in TreeNode(pos' - 1, errors' = {}), nodes' = Append(nodes, node),
         errors' = {} => Continues(names, names', "node", node),
         todo[1].move = "leaf" /\ errors' = {} => node.kind = todo[1].as,
         todo[1].move \in {"leaf", "nil"}
  PROVE  TreeInv'
<1>1. /\ pos' \in Nat \ {0} /\ nodes \in Seq(TreeNode(pos' - 1, errors' = {}))
      /\ nrs \in Seq(Ref(pos' - 1, errors' = {})) /\ root \in TreeNode(pos' - 1, errors' = {})
  BY TypedOn
<1>2. /\ nodes' \in Seq(TreeNode(pos' - 1, errors' = {})) /\ Added("node", nodes, nrs, nodes', nrs, node)
      /\ Len(nodes') # 0 /\ nodes'[Len(nodes')] = node
  BY <1>1, NodeIsAdded
<1>3. Typed'
  BY <1>1, <1>2 DEF Typed
<1>4. "node" \in Tag /\ base \in Seq(Tag) /\ 1 \in Nat
  BY DEF Tag, Leading
<1>5. w[1] \in Seq(Tag) /\ v[1] = Grown(w[1], 1, "node")
  <2>1. w[1] = Grown(base, a, "node") /\ v[1] = Grown(base, a + 1, "node")
    BY DEF Leading
  <2>2. GoesOn(w[1], base, a, "node")
    BY <1>4, <2>1, GrownElements
  <2>. QED BY <1>4, <2>1, <2>2, GrownTwice DEF GoesOn
<1>6. Holds(v[1], nodes', nrs, names', errors' = {})
  <2>1. Holds(w[1], nodes, nrs, names, errors = {})
    BY DEF Prepared
  <2>2. errors' = {} => errors = {} /\ Continues(names, names', "node", node)
    OBVIOUS
  <2>3. names \in Seq(Nat)
    BY DEF Typed
  <2>4. Holds(Grown(w[1], 1, "node"), nodes', nrs, names', errors' = {})
    BY <1>2, <1>4, <1>5, <2>1, <2>2, <2>3, PieceIsAdded
  <2>. QED BY <1>5, <2>4
<1>7. Shaped(v, Rest) /\ Feeds(todo[1], Rest)
  BY DEF Leading, Popped, Rest
<1>8. ASSUME Rest # <<>>, Rest[1].move = "push", errors' = {}
      PROVE  node.kind \in ItemKinds[Rest[2].list]
  BY <1>7, <1>8 DEF Feeds, Gives
<1>9. Prepared(v, todo', nodes', nrs', names', errors' = {})
  BY <1>2, <1>6, <1>7, <1>8 DEF Prepared
<1>. QED BY <1>3, <1>9, StepEnds

LEMMA NilStep ==
  ASSUME TreeInv, StackInv, NilNode
  PROVE  TreeInv'
<1>1. todo # <<>> /\ todo[1].move = "nil" /\ todo' = Rest /\ nodes' = Append(nodes, Nil)
  BY DEF NilNode, At
<1>2. UNCHANGED <<nrs, root, errors, pos, names>>
  BY DEF NilNode, readVars, errorVars
<1>3. /\ ~Done /\ Typed /\ todo \in Seq(Move)
      /\ \E w : Prepared(w, todo, nodes, nrs, names, errors = {})
  BY <1>1, StepBegins
<1>4. PICK w : Prepared(w, todo, nodes, nrs, names, errors = {})
  BY <1>3
<1>5. PICK v, base, a, b : Leading(w, todo, v, base, a, b)
  BY <1>1, <1>3, <1>4, MoveIsLeading DEF Prepared
<1>6. a \in Nat /\ b = a + 1
  BY <1>1, <1>5 DEF Leading, DoesIts
<1>7. pos' \in Nat /\ pos <= pos' /\ pos' - 1 \in Nat /\ names \in Seq(Nat) /\ names' \in Seq(Nat)
  BY <1>2, <1>3 DEF Typed
<1>8. Nil \in TreeNode(pos' - 1, errors' = {}) /\ Nil.leaves = <<>>
  BY <1>7, NilIsMade
<1>9. Continues(names, names', "node", Nil)
  BY <1>2, <1>7, <1>8, NothingIsTold
<1>. QED BY <1>1, <1>2, <1>3, <1>4, <1>5, <1>6, <1>7, <1>8, <1>9, NodeStep

LEMMA LeafStep ==
  ASSUME TreeInv, StackInv, ExpectTokenOfLeaf
  PROVE  TreeInv'
<1>1. PICK node : node = Leaf(todo[1].as, LeavesOf(todo[1].kind))
  OBVIOUS
<1>2. /\ todo # <<>> /\ todo[1].move = "leaf" /\ todo' = Rest /\ nodes' = Append(nodes, node) /\ Consume
      /\ UNCHANGED <<nrs, root>> /\ errors \subseteq errors'
  BY <1>1 DEF ExpectTokenOfLeaf, At, ReportErrors
<1>3. /\ ~Done /\ Typed /\ todo \in Seq(Move)
      /\ \E w : Prepared(w, todo, nodes, nrs, names, errors = {})
  BY <1>2, StepBegins
<1>4. PICK w : Prepared(w, todo, nodes, nrs, names, errors = {})
  BY <1>3
<1>5. PICK v, base, a, b : Leading(w, todo, v, base, a, b)
  BY <1>2, <1>3, <1>4, MoveIsLeading DEF Prepared
<1>6. a \in Nat /\ b = a + 1 /\ todo[1].kind \in Named /\ todo[1].as \in LeafKinds
  BY <1>2, <1>5 DEF Leading, DoesIts
<1>7. /\ names' \in Seq(Nat) /\ pos' = pos + 1
      /\ token \in Named => names' = Append(names, pos)
  BY <1>2, <1>3, NamesGoOn DEF Typed
<1>8. pos' \in Nat /\ pos <= pos' /\ pos' - 1 = pos /\ pos \in 1 .. pos /\ pos \in Nat /\ names \in Seq(Nat)
  BY <1>3, <1>7 DEF Typed
<1>9. LeavesOf(todo[1].kind) \in Seq(1 .. pos)
  <2>1. <<pos>> \in Seq(1 .. pos) /\ <<>> \in Seq(1 .. pos)
    BY <1>8
  <2>. QED BY <2>1 DEF LeavesOf
<1>10. node \in TreeNode(pos' - 1, errors' = {}) /\ node.kind = todo[1].as
  <2>1. todo[1].as \in TreeKinds \ (ItemLists \union {"Program"})
    BY <1>6 DEF TreeKinds, LeafKinds, ItemLists
  <2>. QED BY <1>1, <1>8, <1>9, <2>1, LeafIsMade
<1>11. ASSUME errors' = {} PROVE Continues(names, names', "node", node)
  <2>1. token = todo[1].kind
    BY <1>11 DEF ExpectTokenOfLeaf, ReportErrors
  <2>2. names' = Append(names, pos)
    BY <1>6, <1>7, <2>1
  <2>3. node.leaves = <<pos>>
    BY <1>1, <2>1 DEF Leaf, LeavesOf
  <2>. QED BY <1>8, <2>2, <2>3, OneIsTold
<1>. QED BY <1>2, <1>3, <1>4, <1>5, <1>6, <1>7, <1>8, <1>10, <1>11, NodeStep

\* What lies under n pieces that were taken, and that the names go on with them.
Ready(s, n, tag, ms, qs, ps, us, ok) ==
  \E z \in 0 .. Len(us) : Holds(s, ms, qs, SubSeq(us, 1, z), ok) /\ (ok => Taken(n, tag, ps, us, z))

LEMMA PiecesAreReady ==
  ASSUME NEW s \in Seq(Tag), NEW tag \in Tag, NEW n \in Nat,
         NEW N, NEW ns \in Seq(N), NEW R, NEW rs \in Seq(R), NEW us \in Seq(Nat), NEW ok,
         Holds(Grown(s, n, tag), ns, rs, us, ok)
  PROVE  \E ms, qs, ps : CutOff(n, tag, ns, rs, ms, qs, ps) /\ Ready(s, n, tag, ms, qs, ps, us, ok)
BY PiecesAreCut DEF Ready

\* A piece that is put in their place tells what they did.
LEMMA PieceIsReplaced ==
  ASSUME NEW s \in Seq(Tag), NEW tag, NEW n \in Nat, NEW ms, NEW qs, NEW ps, NEW us \in Seq(Nat), NEW ok,
         Ready(s, n, tag, ms, qs, ps, us, ok),
         NEW to \in Tag, NEW xs, NEW ys, NEW piece, Added(to, ms, qs, xs, ys, piece), NEW still,
         still => /\ ok /\ piece.leaves = FlattenSeq([i \in 1 .. n |-> ps[i].leaves])
                  /\ to # "node" => piece.kind \in ItemKinds[to]
  PROVE  Holds(Grown(s, 1, to), xs, ys, us, still)
<1>1. PICK z \in 0 .. Len(us) :
        Holds(s, ms, qs, SubSeq(us, 1, z), ok) /\ (ok => Taken(n, tag, ps, us, z))
  BY DEF Ready
<1>2. PICK vs, l : vs = SubSeq(us, 1, z) /\ l = Len(us)
  OBVIOUS
<1>3. l \in Nat /\ z \in Nat /\ z <= l
  BY <1>1, <1>2, LenProperties
<1>4. vs \in Seq(Nat) /\ Len(vs) = z
  BY <1>2, <1>3
<1>5. ASSUME still PROVE ok /\ Continues(vs, us, to, piece)
  <2>1. Extends(vs, us)
    BY <1>2, <1>3, <1>4 DEF Extends
  <2>2. piece.leaves = SubSeq(us, Len(vs) + 1, Len(us))
    BY <1>1, <1>4, <1>5 DEF Taken
  <2>. QED BY <1>5, <2>1, <2>2 DEF Continues
<1>6. Holds(s, ms, qs, vs, ok)
  BY <1>1, <1>2
<1>. QED BY <1>4, <1>5, <1>6, PieceIsAdded

LEMMA ReadyItems ==
  ASSUME NEW s, NEW n \in Nat, NEW tag, NEW ms, NEW qs, NEW ps, NEW us, NEW ok,
         Ready(s, n, tag, ms, qs, ps, us, ok), ok, tag # "node"
  PROVE  \A i \in 1 .. n : ps[i].kind \in ItemKinds[tag]
BY DEF Ready, Taken

LEMMA FlattenOne ==
  ASSUME NEW T, NEW us \in Seq(T), NEW ps, ps[1].leaves = us
  PROVE  FlattenSeq([i \in 1 .. 1 |-> ps[i].leaves]) = us
<1>1. PICK ss : ss = [i \in 1 .. 1 |-> ps[i].leaves]
  OBVIOUS
<1>2. Len(ss) = 1 /\ Len(ss) # 0 /\ Len(ss) \in Nat /\ ss[1] = us
  BY <1>1
<1>3. FlattenSeq(ss) = JoinOf(ss)[1]
  BY <1>2, FlattenIsJoin
<1>4. JoinsTo(JoinOf(ss), ss, 1)
  BY <1>2, JoinExists
<1>5. 1 \in 1 .. 1 /\ 1 \in Nat
  OBVIOUS
<1>6. JoinOf(ss)[1] = IF 1 = 1 THEN ss[1] ELSE JoinOf(ss)[1 - 1] \o ss[1]
  BY <1>4, <1>5, JoinValues
<1>. QED BY <1>1, <1>2, <1>3, <1>6

\* The last n of a sequence.
LastOfSeq(ns, n, kept, ps) ==
  /\ kept = SubSeq(ns, 1, Len(ns) - n) /\ ps = [i \in 1 .. n |-> ns[Len(ns) - n + i]]

LEMMA LastAreTaken ==
  ASSUME NEW T, NEW ns \in Seq(T), NEW n \in Nat, n <= Len(ns), NEW kept, NEW ps,
         LastOfSeq(ns, n, kept, ps)
  PROVE  /\ kept \in Seq(T) /\ Len(kept) = Len(ns) - n /\ ps \in [1 .. n -> T]
         /\ SubSeq(ns, Len(kept) + 1, Len(ns)) = ps
<1>1. PICK l : l = Len(ns)
  OBVIOUS
<1>2. l \in Nat /\ n <= l /\ l - n \in 0 .. l /\ \A i \in 1 .. l : ns[i] \in T
  BY <1>1, LenProperties, ElementOfSeq
<1>3. kept = SubSeq(ns, 1, l - n) /\ ps = [i \in 1 .. n |-> ns[l - n + i]]
  BY <1>1 DEF LastOfSeq
<1>4. kept \in Seq(T) /\ Len(kept) = l - n
  BY <1>1, <1>2, <1>3
<1>5. \A i \in 1 .. n : l - n + i \in 1 .. l
  BY <1>2
<1>6. ps \in [1 .. n -> T]
  BY <1>2, <1>3, <1>5
<1>7. PICK q : q = SubSeq(ns, (l - n) + 1, l)
  OBVIOUS
<1>8. q \in Seq(T) /\ Len(q) = n /\ \A i \in 1 .. n : q[i] = ns[l - n + i]
  <2>1. (l - n) + 1 \in 1 .. l + 1 /\ l - ((l - n) + 1) + 1 = n /\ \A i \in 1 .. n : ((l - n) + 1) + i - 1 = l - n + i
    BY <1>2
  <2>2. PICK k : k = (l - n) + 1
    OBVIOUS
  <2>3. k \in Int /\ l \in Int /\ \A i \in k .. l : i \in 1 .. l
    BY <1>2, <2>2
  <2>4. \A i \in k .. l : ns[i] \in T
    BY <1>2, <2>3
  <2>5. SubSeq(ns, k, l) \in Seq(T) /\ Len(SubSeq(ns, k, l)) = IF k <= l THEN l - k + 1 ELSE 0
    BY <2>3, <2>4, SubSeqProperties
  <2>6. Len(q) = n
    BY <1>2, <1>7, <2>2, <2>5
  <2>7. \A i \in 1 .. n : q[i] = ns[l - n + i]
    BY <1>2, <1>7
  <2>. QED BY <1>7, <2>2, <2>5, <2>6, <2>7
<1>9. ps \in Seq(T) /\ Len(ps) = n
  BY <1>6
<1>10. \A i \in 1 .. n : q[i] = ps[i]
  BY <1>3, <1>8
<1>11. q = ps
  BY <1>8, <1>9, <1>10, SeqEqual
<1>. QED BY <1>1, <1>4, <1>6, <1>7, <1>11

\* The items of a list that ends, and the references that stay.
LastRefs(n, rs, l, ok) ==
  /\ SubSeq(rs, 1, Len(rs) - n) \in Seq(Ref(l, ok))
  /\ [i \in 1 .. n |-> rs[Len(rs) - n + i].to] \in [1 .. n -> TreeNode(l, ok)]

LEMMA ItemsAreTyped ==
  ASSUME NEW l, NEW ok, NEW rs \in Seq(Ref(l, ok)), NEW n \in Nat, n <= Len(rs)
  PROVE  LastRefs(n, rs, l, ok)
<1>1. PICK R, k : R = Ref(l, ok) /\ k = Len(rs)
  OBVIOUS
<1>2. k \in Nat /\ n <= k /\ rs \in Seq(R) /\ \A i \in 1 .. k : rs[i] \in R
  BY <1>1, LenProperties, ElementOfSeq
<1>3. k - n \in 0 .. k /\ \A i \in 1 .. n : k - n + i \in 1 .. k
  BY <1>2
<1>4. SubSeq(rs, 1, k - n) \in Seq(R)
  BY <1>1, <1>2, <1>3
<1>5. \A i \in 1 .. n : rs[k - n + i].to \in TreeNode(l, ok)
  BY <1>1, <1>2, <1>3 DEF Ref
<1>. QED BY <1>1, <1>4, <1>5 DEF LastRefs

\* A step that consumes nothing.
LEMMA StillTyped ==
  ASSUME Typed, UNCHANGED <<pos, names>>, errors' = errors
  PROVE  /\ pos' \in Nat \ {0} /\ names' \in Seq(Nat)
         /\ TreeNode(pos' - 1, errors' = {}) = TreeNode(pos - 1, errors = {})
         /\ Ref(pos' - 1, errors' = {}) = Ref(pos - 1, errors = {})
BY DEF Typed

\* The node a routine makes is of what lay on top.
LEMMA MakeStep ==
  ASSUME TreeInv, StackInv, MakeNode
  PROVE  TreeInv'
<1>1. /\ todo # <<>> /\ todo[1].move = "make" /\ todo' = Rest
      /\ UNCHANGED <<nrs, root, pos, names>> /\ errors' = errors
  BY DEF MakeNode, At, readVars, errorVars
<1>2. /\ ~Done /\ Typed /\ todo \in Seq(Move)
      /\ \E w : Prepared(w, todo, nodes, nrs, names, errors = {})
  BY <1>1, StepBegins
<1>3. PICK w : Prepared(w, todo, nodes, nrs, names, errors = {})
  BY <1>2
<1>4. PICK v, base, a, b : Leading(w, todo, v, base, a, b)
  BY <1>1, <1>2, <1>3, MoveIsLeading DEF Prepared
<1>5. PICK n, kind, ok, T : n = todo[1].n /\ kind = todo[1].kind /\ ok = (errors = {}) /\ T = TreeNode(pos - 1, ok)
  OBVIOUS
<1>6. kind \in NodeKinds /\ n \in Nat /\ a \in Nat /\ n <= a /\ b = a - n + 1
  BY <1>1, <1>4, <1>5 DEF Leading, DoesIts
<1>7. PICK d : d = a - n
  OBVIOUS
<1>8. d \in Nat /\ d + n = a /\ d + 1 = b
  BY <1>6, <1>7
<1>9. PICK s : s = Grown(base, d, "node")
  OBVIOUS
<1>10. "node" \in Tag /\ 1 \in Nat /\ base \in Seq(Tag) /\ s \in Seq(Tag)
  <2>1. "node" \in Tag /\ base \in Seq(Tag)
    BY <1>4 DEF Tag, Leading
  <2>2. GoesOn(s, base, d, "node")
    BY <1>8, <1>9, <2>1, GrownElements
  <2>. QED BY <2>1, <2>2 DEF GoesOn
<1>11. w[1] = Grown(s, n, "node") /\ v[1] = Grown(s, 1, "node")
  <2>1. w[1] = Grown(base, a, "node") /\ v[1] = Grown(base, b, "node")
    BY <1>4 DEF Leading
  <2>2. Grown(s, n, "node") = Grown(base, d + n, "node")
    BY <1>6, <1>8, <1>9, <1>10, GrownTwice
  <2>3. Grown(s, 1, "node") = Grown(base, d + 1, "node")
    BY <1>8, <1>9, <1>10, GrownTwice
  <2>. QED BY <1>8, <2>1, <2>2, <2>3
<1>12. Holds(Grown(s, n, "node"), nodes, nrs, names, ok)
  BY <1>3, <1>5, <1>11 DEF Prepared
<1>13. nodes \in Seq(T) /\ nrs \in Seq(Ref(pos - 1, ok)) /\ names \in Seq(Nat) /\ pos - 1 \in Nat
  BY <1>2, <1>5 DEF Typed
<1>14. PICK kept, qs, ps :
         CutOff(n, "node", nodes, nrs, kept, qs, ps) /\ Ready(s, n, "node", kept, qs, ps, names, ok)
  BY <1>6, <1>10, <1>12, <1>13, PiecesAreReady
<1>15. n <= Len(nodes) /\ qs = nrs /\ LastOfSeq(nodes, n, kept, ps)
  BY <1>14 DEF CutOff, LastOfSeq
<1>16. /\ kept \in Seq(T) /\ ps \in [1 .. n -> T]
       /\ SubSeq(nodes, Len(kept) + 1, Len(nodes)) = ps
  BY <1>6, <1>13, <1>15, LastAreTaken
<1>17. PICK node : node = IF kind = "CombinatorDeclaration" /\ errors # {} THEN Nil ELSE Node(kind, ps)
  OBVIOUS
<1>18. nodes' = Append(kept, node)
  <2>1. kept = SubSeq(nodes, 1, Len(nodes) - todo[1].n)
    BY <1>5, <1>15 DEF LastOfSeq
  <2>. QED BY <1>5, <1>16, <1>17, <2>1 DEF MakeNode
<1>19. /\ node \in T
       /\ ok => node.kind = kind /\ node.leaves = FlattenSeq([i \in 1 .. n |-> ps[i].leaves])
  <2>1. kind \in TreeKinds /\ kind \notin DOMAIN ItemKinds
    BY <1>6 DEF TreeKinds, NodeKinds, ItemKinds
  <2>2. MadeOf(Node(kind, ps), kind, n, ps, pos - 1, ok)
    BY <1>5, <1>6, <1>13, <1>16, <2>1, NodeIsMade
  <2>3. Nil \in T
    BY <1>5, <1>13, NilIsMade
  <2>. QED BY <1>5, <1>17, <2>2, <2>3 DEF MadeOf
<1>20. /\ nodes' \in Seq(T) /\ Added("node", kept, nrs, nodes', nrs, node)
       /\ Len(nodes') # 0 /\ nodes'[Len(nodes')] = node
  BY <1>16, <1>18, <1>19, NodeIsAdded
<1>21. Holds(v[1], nodes', nrs, names, ok)
  <2>1. ok => /\ ok /\ node.leaves = FlattenSeq([i \in 1 .. n |-> ps[i].leaves])
              /\ "node" # "node" => node.kind \in ItemKinds["node"]
    BY <1>19
  <2>2. Ready(s, n, "node", kept, nrs, ps, names, ok)
    BY <1>14, <1>15
  <2>3. Holds(Grown(s, 1, "node"), nodes', nrs, names, ok)
    BY <1>6, <1>10, <1>13, <1>20, <2>1, <2>2, PieceIsReplaced
  <2>. QED BY <1>11, <2>3
<1>22. Shaped(v, Rest) /\ Feeds(todo[1], Rest)
  BY <1>4 DEF Leading, Popped, Rest
<1>23. ASSUME Rest # <<>>, Rest[1].move = "push", ok
       PROVE  node.kind \in ItemKinds[Rest[2].list]
  BY <1>1, <1>5, <1>19, <1>22, <1>23 DEF Feeds, Gives
<1>24. Prepared(v, todo', nodes', nrs', names', errors' = {})
  <2>1. Prepared(v, Rest, nodes', nrs, names, ok)
    BY <1>20, <1>21, <1>22, <1>23 DEF Prepared
  <2>. QED BY <1>1, <1>5, <2>1
<1>25. Typed'
  <2>1. /\ pos' \in Nat \ {0} /\ names' \in Seq(Nat)
        /\ TreeNode(pos' - 1, errors' = {}) = TreeNode(pos - 1, errors = {})
        /\ Ref(pos' - 1, errors' = {}) = Ref(pos - 1, errors = {})
    BY <1>1, <1>2, StillTyped
  <2>. QED BY <1>1, <1>2, <1>5, <1>20, <2>1 DEF Typed
<1>. QED BY <1>1, <1>2, <1>24, <1>25, StepEnds

\* Either way what is called leaves as many nodes.
LEMMA IfStep ==
  ASSUME TreeInv, StackInv, TakeIf \/ TakeElse
  PROVE  TreeInv'
<1>1. /\ todo # <<>> /\ todo[1].move = "if"
      /\ UNCHANGED <<nodes, nrs, root>> /\ errors' = errors
  BY DEF TakeIf, TakeElse, At, errorVars
<1>2. /\ ~Done /\ Typed /\ todo \in Seq(Move) /\ todo[1] \in Move /\ Rest \in Seq(Move)
      /\ \E w : Prepared(w, todo, nodes, nrs, names, errors = {})
  BY <1>1, StepBegins
<1>3. PICK w : Prepared(w, todo, nodes, nrs, names, errors = {})
  BY <1>2
<1>4. PICK v, base, a, b : Leading(w, todo, v, base, a, b)
  BY <1>1, <1>2, <1>3, MoveIsLeading DEF Prepared
<1>5. /\ a \in Nat /\ b \in Nat /\ todo[1].kind \notin Named
      /\ Rises(RoutineGain, todo[1].then, a, b) /\ Rises(RoutineGain, todo[1].else, a, b)
  BY <1>1, <1>4 DEF Leading, DoesIts
<1>6. todo[1].then \in Seq(RoutineMove) /\ todo[1].else \in Seq(RoutineMove)
  BY <1>1, <1>2, FieldsOfMoves
<1>7. PICK p \in Seq(RoutineMove) : Rises(RoutineGain, p, a, b) /\ todo' = p \o Rest
  BY <1>5, <1>6 DEF TakeIf, TakeElse
<1>8. names' = names /\ pos' \in Nat /\ pos <= pos'
  <2>1. CASE TakeIf
    <3>1. pos' = pos + 1 /\ names' = names
      BY <1>2, <1>5, <2>1, NamesGoOn DEF TakeIf, Typed
    <3>. QED BY <1>2, <3>1 DEF Typed
  <2>2. CASE TakeElse
    <3>1. pos' = pos /\ names' = names
      BY <2>2 DEF TakeElse, readVars
    <3>. QED BY <1>2, <3>1 DEF Typed
  <2>. QED BY <2>1, <2>2
<1>9. /\ Shaped(v, Rest) /\ Feeds(todo[1], Rest)
      /\ base \in Seq(Tag) /\ v[1] = Grown(base, b, "node") /\ w[1] = Grown(base, a, "node")
  BY <1>4 DEF Leading, Popped, Rest
<1>10. ~(Rest # <<>> /\ Rest[1].move = "push")
  BY <1>1, <1>9, NothingIsPushed
<1>11. p = <<>> \/ Feeds(p[Len(p)], Rest)
  BY <1>10 DEF Feeds
<1>12. PICK x : Called(v, p, Rest, x, base, a)
  BY <1>2, <1>5, <1>7, <1>9, <1>11, ShapesAreCalled
<1>13. Shaped(x, p \o Rest) /\ x[1] = w[1]
  BY <1>9, <1>12 DEF Called
<1>14. ~(todo' # <<>> /\ todo'[1].move = "push")
  <2>1. CASE p = <<>>
    <3>1. todo' = Rest
      BY <1>2, <1>7, <2>1, ConcatEmptySeq
    <3>. QED BY <1>10, <3>1
  <2>2. CASE p # <<>>
    <3>1. todo'[1] \in RoutineMove
      BY <1>7, <1>12, <2>2 DEF Called
    <3>. QED BY <3>1, MovesOfRoutines
  <2>. QED BY <2>1, <2>2
<1>15. Prepared(x, todo', nodes', nrs', names', errors' = {})
  <2>1. Holds(w[1], nodes, nrs, names, errors = {})
    BY <1>3 DEF Prepared
  <2>. QED BY <1>1, <1>7, <1>8, <1>13, <1>14, <2>1 DEF Prepared
<1>16. Typed'
  <2>1. /\ pos' \in Nat \ {0} /\ nodes \in Seq(TreeNode(pos' - 1, errors' = {}))
        /\ nrs \in Seq(Ref(pos' - 1, errors' = {})) /\ root \in TreeNode(pos' - 1, errors' = {})
    BY <1>1, <1>2, <1>8, TypedOn
  <2>. QED BY <1>1, <1>2, <1>8, <2>1 DEF Typed
<1>. QED BY <1>1, <1>2, <1>15, <1>16, StepEnds

\* A list has no items yet.
LEMMA BeginStepOfTree ==
  ASSUME TreeInv, StackInv, BeginList
  PROVE  TreeInv'
<1>1. /\ todo # <<>> /\ todo[1].move = "begin"
      /\ todo' = <<Loop(todo[1].list, todo[1].binary, top, 0)>> \o Rest
      /\ UNCHANGED <<nodes, nrs, root, pos, names>> /\ errors' = errors
  BY DEF BeginList, At, readVars, errorVars
<1>2. /\ ~Done /\ Typed /\ todo \in Seq(Move) /\ todo[1] \in Move /\ Rest \in Seq(Move)
      /\ \E w : Prepared(w, todo, nodes, nrs, names, errors = {})
  BY <1>1, StepBegins
<1>3. PICK w : Prepared(w, todo, nodes, nrs, names, errors = {})
  BY <1>2
<1>4. PICK v, base, a, b : Leading(w, todo, v, base, a, b)
  BY <1>1, <1>2, <1>3, MoveIsLeading DEF Prepared
<1>5. a \in Nat /\ b = a + 1
  BY <1>1, <1>4 DEF Leading, DoesIts
<1>6. PICK loop : loop = Loop(todo[1].list, todo[1].binary, top, 0)
  OBVIOUS
<1>7. loop \in LoopMove /\ loop.n = 0 /\ loop.move = "loop"
  <2>1. todo[1].list \in ItemLists /\ todo[1].binary \in BOOLEAN /\ top \in Nat
    BY <1>1, <1>2, FieldsOfMoves DEF StackInv
  <2>. QED BY <1>6, <2>1 DEF Loop, LoopMove
<1>8. /\ Shaped(v, Rest) /\ Feeds(todo[1], Rest)
      /\ base \in Seq(Tag) /\ v[1] = Grown(base, b, "node") /\ w[1] = Grown(base, a, "node")
  BY <1>4 DEF Leading, Popped, Rest
<1>9. Rest # <<>> => Rest[1].move # "push"
  BY <1>1, <1>8, NothingIsPushed
<1>10. "node" \in Tag /\ 1 \in Nat
  BY DEF Tag
<1>11. w[1] \in Seq(Tag)
  <2>1. GoesOn(w[1], base, a, "node")
    BY <1>5, <1>8, <1>10, GrownElements
  <2>. QED BY <2>1 DEF GoesOn
<1>12. v[1] = Grown(w[1], 1, "node")
  BY <1>5, <1>8, <1>10, GrownTwice
<1>13. PICK x : Shaped(x, <<loop>> \o Rest) /\ x[1] = w[1]
  BY <1>2, <1>7, <1>8, <1>9, <1>11, <1>12, ShapesBegin
<1>14. todo' = <<loop>> \o Rest /\ todo'[1] = loop
  BY <1>1, <1>2, <1>6
<1>15. Prepared(x, todo', nodes', nrs', names', errors' = {})
  <2>1. Holds(w[1], nodes, nrs, names, errors = {})
    BY <1>3 DEF Prepared
  <2>. QED BY <1>1, <1>7, <1>13, <1>14, <2>1 DEF Prepared
<1>16. Typed'
  <2>1. /\ pos' \in Nat \ {0} /\ names' \in Seq(Nat)
        /\ TreeNode(pos' - 1, errors' = {}) = TreeNode(pos - 1, errors = {})
        /\ Ref(pos' - 1, errors' = {}) = Ref(pos - 1, errors = {})
    BY <1>1, <1>2, StillTyped
  <2>. QED BY <1>1, <1>2, <2>1 DEF Typed
<1>. QED BY <1>1, <1>2, <1>15, <1>16, StepEnds

\* A reference is added to what a list counted.
LEMMA RefIsAdded ==
  ASSUME NEW R, NEW rs \in Seq(R), NEW ref \in R, NEW ns, NEW tag, tag # "node"
  PROVE  Append(rs, ref) \in Seq(R) /\ Added(tag, ns, rs, ns, Append(rs, ref), ref.to)
<1>1. PICK qs, n : qs = Append(rs, ref) /\ n = Len(rs)
  OBVIOUS
<1>2. qs \in Seq(R) /\ Len(qs) = n + 1 /\ qs[n + 1] = ref /\ \A i \in 1 .. n : qs[i] = rs[i]
  BY <1>1, AppendProperties, LenProperties
<1>. QED BY <1>1, <1>2 DEF Added

\* The node on top becomes the last item of the loop below.
LEMMA PushStepOfTree ==
  ASSUME TreeInv, StackInv, PushNodeRef
  PROVE  TreeInv'
<1>1. /\ todo # <<>> /\ todo[1].move = "push" /\ todo' = Rest
      /\ nrs' = Append(nrs, [to |-> Last(nodes), at |-> top + 1]) /\ nodes' = Front(nodes)
      /\ UNCHANGED <<root, pos, names>> /\ errors' = errors
  BY DEF PushNodeRef, At, readVars, errorVars
<1>2. /\ ~Done /\ Typed /\ todo \in Seq(Move) /\ todo[1] \in Move /\ Rest \in Seq(Move)
      /\ \E w : Prepared(w, todo, nodes, nrs, names, errors = {})
  BY <1>1, StepBegins
<1>3. PICK w : Prepared(w, todo, nodes, nrs, names, errors = {})
  BY <1>2
<1>4. PICK v : Popped(w, todo, v)
  BY <1>1, <1>2, <1>3, ShapesGo DEF Prepared
<1>5. PICK l : l = Len(todo)
  OBVIOUS
<1>6. l \in Nat \ {0} /\ 1 \in 1 .. l /\ 1 + 1 = 2
  BY <1>1, <1>2, <1>5, EmptySeq
<1>7. PushLeads(todo, 1, w[1], w[2])
  <2>1. Leads(todo, 1, w[1], w[2])
    BY <1>3, <1>5, <1>6 DEF Prepared, Shaped
  <2>2. todo[1] \notin RoutineMove /\ ~IsLoop(todo[1])
    BY <1>1, MovesOfRoutines DEF IsLoop
  <2>. QED BY <2>1, <2>2 DEF Leads, RoutineLeads, LoopLeads
<1>8. PICK list : list = todo[2].list
  OBVIOUS
<1>9. PICK s \in Seq(Tag) : w[1] = Grown(s, 1, "node") /\ w[2] = Grown(s, 1, list)
  BY <1>6, <1>7, <1>8 DEF PushLeads
<1>10. 1 < l /\ IsLoop(todo[2]) /\ 2 \in 1 .. l
  <2>1. 1 < l /\ IsLoop(todo[2])
    BY <1>5, <1>6, <1>7 DEF PushLeads
  <2>. QED BY <1>6, <2>1
<1>11. list \in ItemLists \union {"Program"} /\ list \in Tag /\ list # "node" /\ "node" \in Tag /\ 1 \in Nat
  <2>1. todo[2] \in Move
    BY <1>2, <1>5, <1>10, ElementOfSeq
  <2>2. list \in ItemLists \union {"Program"}
    BY <1>8, <1>10, <2>1, FieldsOfMoves DEF IsLoop, LoopMove
  <2>. QED BY <2>2 DEF Tag, ItemLists
<1>12. Rest # <<>> /\ Rest[1] = todo[2] /\ Rest[1].move = "loop"
  <2>1. Len(Rest) = l - 1 /\ \A i \in 1 .. l - 1 : Rest[i] = todo[i + 1]
    BY <1>1, <1>2, <1>5, HeadTailProperties DEF Rest
  <2>2. 1 \in 1 .. l - 1 /\ l - 1 # 0
    BY <1>6, <1>10
  <2>3. Rest # <<>>
    BY <2>1, <2>2, EmptySeq
  <2>. QED BY <1>6, <1>10, <2>1, <2>2, <2>3 DEF IsLoop
<1>13. PICK ok, T : ok = (errors = {}) /\ T = TreeNode(pos - 1, ok)
  OBVIOUS
<1>14. nodes \in Seq(T) /\ nrs \in Seq(Ref(pos - 1, ok)) /\ names \in Seq(Nat) /\ pos - 1 \in Nat
  BY <1>2, <1>13 DEF Typed
<1>15. Holds(Grown(s, 1, "node"), nodes, nrs, names, ok)
  BY <1>3, <1>9, <1>13 DEF Prepared
<1>16. PICK ms, qs, ps :
         CutOff(1, "node", nodes, nrs, ms, qs, ps) /\ Ready(s, 1, "node", ms, qs, ps, names, ok)
  BY <1>11, <1>14, <1>15, PiecesAreReady
<1>17. 1 <= Len(nodes) /\ qs = nrs /\ LastOfSeq(nodes, 1, ms, ps)
  BY <1>16 DEF CutOff, LastOfSeq
<1>18. ms \in Seq(T) /\ ps \in [1 .. 1 -> T]
  BY <1>11, <1>14, <1>17, LastAreTaken
<1>19. nodes' = ms
  BY <1>1, <1>17 DEF Front, LastOfSeq
<1>20. PICK piece : piece = ps[1]
  OBVIOUS
<1>21. piece \in T /\ piece = Last(nodes)
  <2>1. PICK k : k = Len(nodes)
    OBVIOUS
  <2>2. k \in Nat /\ k - 1 + 1 = k /\ 1 \in 1 .. 1
    BY <1>14, <2>1, LenProperties
  <2>3. ps = [i \in 1 .. 1 |-> nodes[k - 1 + i]]
    BY <1>17, <2>1 DEF LastOfSeq
  <2>4. ps[1] = nodes[k]
    BY <2>2, <2>3
  <2>5. ps[1] \in T
    BY <1>18, <2>2
  <2>. QED BY <1>20, <2>1, <2>4, <2>5 DEF Last
<1>22. PICK ref : ref = [to |-> piece, at |-> top + 1]
  OBVIOUS
<1>23. ref \in Ref(pos - 1, ok) /\ ref.to = piece /\ nrs' = Append(nrs, ref)
  <2>1. top + 1 \in Nat
    BY DEF StackInv
  <2>. QED BY <1>1, <1>13, <1>21, <1>22, <2>1 DEF Ref
<1>24. nrs' \in Seq(Ref(pos - 1, ok)) /\ Added(list, ms, nrs, ms, nrs', piece)
  BY <1>11, <1>14, <1>23, RefIsAdded
<1>25. Holds(Grown(s, 1, list), ms, nrs', names, ok)
  <2>1. piece.leaves = FlattenSeq([i \in 1 .. 1 |-> ps[i].leaves])
    <3>1. piece.leaves \in Seq(1 .. pos - 1) /\ ps[1].leaves = piece.leaves
      BY <1>13, <1>20, <1>21 DEF TreeNode
    <3>. QED BY <3>1, FlattenOne
  <2>2. ok => piece.kind \in ItemKinds[list]
    BY <1>1, <1>3, <1>8, <1>13, <1>21 DEF Prepared, Last
  <2>3. ok => /\ ok /\ piece.leaves = FlattenSeq([i \in 1 .. 1 |-> ps[i].leaves])
              /\ list # "node" => piece.kind \in ItemKinds[list]
    BY <2>1, <2>2
  <2>4. Ready(s, 1, "node", ms, nrs, ps, names, ok)
    BY <1>16, <1>17
  <2>5. PICK k : k = 1
    OBVIOUS
  <2>6. k \in Nat /\ Ready(s, k, "node", ms, nrs, ps, names, ok)
    BY <1>11, <2>4, <2>5
  <2>7. ok => /\ ok /\ piece.leaves = FlattenSeq([i \in 1 .. k |-> ps[i].leaves])
              /\ list # "node" => piece.kind \in ItemKinds[list]
    BY <2>3, <2>5
  <2>8. PICK us, ys, rs : us = names /\ ys = nrs' /\ rs = nrs
    OBVIOUS
  <2>9. /\ us \in Seq(Nat) /\ list \in Tag /\ k \in Nat /\ Ready(s, k, "node", ms, rs, ps, us, ok)
        /\ Added(list, ms, rs, ms, ys, piece)
    BY <1>11, <1>14, <1>24, <2>6, <2>8
  <2>10. Holds(Grown(s, 1, list), ms, ys, us, ok)
    BY <2>7, <2>9, PieceIsReplaced
  <2>. QED BY <2>8, <2>10
<1>26. Prepared(v, todo', nodes', nrs', names', errors' = {})
  <2>1. Shaped(v, Rest) /\ v[1] = Grown(s, 1, list)
    BY <1>4, <1>9 DEF Popped, Rest
  <2>2. Prepared(v, Rest, ms, nrs', names, ok)
    BY <1>12, <1>25, <2>1 DEF Prepared
  <2>. QED BY <1>1, <1>13, <1>19, <2>2
<1>27. Typed'
  <2>1. /\ pos' \in Nat \ {0} /\ names' \in Seq(Nat)
        /\ TreeNode(pos' - 1, errors' = {}) = TreeNode(pos - 1, errors = {})
        /\ Ref(pos' - 1, errors' = {}) = Ref(pos - 1, errors = {})
    BY <1>1, <1>2, StillTyped
  <2>. QED BY <1>1, <1>2, <1>13, <1>18, <1>19, <1>24, <2>1 DEF Typed
<1>. QED BY <1>1, <1>2, <1>26, <1>27, StepEnds

\* A loop calls the routine of an item, which leaves a node that is the item.
LEMMA ItemStepOfTree ==
  ASSUME TreeInv, StackInv, BeginItem
  PROVE  TreeInv'
<1>1. /\ todo # <<>> /\ todo[1].move = "loop"
      /\ token \in DOMAIN LoopOf[todo[1].list].items
      /\ todo' = LoopOf[todo[1].list].items[token] \o <<PushRef, [todo[1] EXCEPT !.n = @ + 1]>> \o Rest
      /\ UNCHANGED <<nodes, nrs, root>> /\ errors' = errors
  BY DEF BeginItem, At, errorVars
<1>2. /\ ~Done /\ Typed /\ todo \in Seq(Move) /\ todo[1] \in Move /\ Rest \in Seq(Move)
      /\ \E w : Prepared(w, todo, nodes, nrs, names, errors = {})
  BY <1>1, StepBegins
<1>3. PICK w : Prepared(w, todo, nodes, nrs, names, errors = {})
  BY <1>2
<1>4. PICK loop, list, p : /\ loop = [todo[1] EXCEPT !.n = @ + 1] /\ list = todo[1].list
                           /\ p = LoopOf[todo[1].list].items[token]
  OBVIOUS
<1>5. todo[1] \in LoopMove
  BY <1>1, <1>2, FieldsOfMoves
<1>6. /\ loop \in LoopMove /\ loop.n = todo[1].n + 1 /\ loop.list = todo[1].list /\ loop \in Move
      /\ list \in ItemLists \union {"Program"}
  BY <1>4, <1>5 DEF LoopMove, Move
<1>7. /\ IsItem(p, list)
      /\ list = "Program" => token \notin Named
  BY <1>1, <1>4, <1>6, LoopsCallItems
<1>8. names' = names /\ pos' \in Nat /\ pos <= pos'
  <2>1. CASE list = "Program"
    <3>1. pos' = pos + 1 /\ names' = names
      BY <1>2, <1>4, <1>7, <2>1, NamesGoOn DEF BeginItem, Typed
    <3>. QED BY <1>2, <3>1 DEF Typed
  <2>2. CASE list # "Program"
    <3>1. pos' = pos /\ names' = names
      BY <1>4, <2>2 DEF BeginItem, readVars
    <3>. QED BY <1>2, <3>1 DEF Typed
  <2>. QED BY <2>1, <2>2
<1>9. PICK two, t : two = <<PushRef, loop>> /\ t = two \o Rest
  OBVIOUS
<1>10. PICK v : Shaped(v, t) /\ v[1] = Grown(w[1], 1, "node")
  <2>1. Shaped(w, todo)
    BY <1>3 DEF Prepared
  <2>2. \E v : Shaped(v, <<PushRef, loop>> \o Tail(todo)) /\ v[1] = Grown(w[1], 1, "node")
    BY <1>1, <1>2, <1>6, <2>1, ShapesCount DEF IsLoop
  <2>. QED BY <1>9, <2>2 DEF Rest
<1>11. two \in Seq(Move) /\ t \in Seq(Move) /\ t # <<>> /\ Len(t) > 1 /\ t[1] = PushRef /\ t[2] = loop
  <2>1. PushRef \in Move
    BY DEF Move
  <2>2. two \in Seq(Move) /\ Len(two) = 2 /\ two[1] = PushRef /\ two[2] = loop
    BY <1>6, <1>9, <2>1
  <2>3. PICK k : k = Len(Rest)
    OBVIOUS
  <2>4. k \in Nat
    BY <1>2, <2>3, LenProperties
  <2>5. /\ t \in Seq(Move) /\ Len(t) = 2 + k
        /\ \A i \in 1 .. 2 + k : t[i] = IF i <= 2 THEN two[i] ELSE Rest[i - 2]
    BY <1>2, <1>9, <2>2, <2>3, ConcatProperties
  <2>6. 1 \in 1 .. 2 + k /\ 2 \in 1 .. 2 + k /\ 2 + k > 1 /\ 2 + k # 0
    BY <2>4
  <2>. QED BY <2>2, <2>5, <2>6, EmptySeq
<1>12. p \in Seq(RoutineMove) /\ p # <<>> /\ Rises(RoutineGain, p, 0, 1) /\ Feeds(p[Len(p)], t)
  <2>1. p \in Seq(RoutineMove) /\ p # <<>> /\ Rises(RoutineGain, p, 0, 0 + 1) /\ Gives(p[Len(p)], list)
    BY <1>7 DEF IsItem
  <2>2. 0 + 1 = 1
    OBVIOUS
  <2>. QED BY <1>4, <1>6, <1>11, <2>1, <2>2 DEF Feeds
<1>13. w[1] \in Seq(Tag) /\ "node" \in Tag /\ 0 \in Nat /\ 1 \in Nat
  <2>1. 1 \in 1 .. Len(todo) + 1
    BY <1>2, LenProperties
  <2>. QED BY <1>3, <2>1 DEF Prepared, Shaped, Tag
<1>14. PICK x : Called(v, p, t, x, w[1], 0)
  BY <1>10, <1>11, <1>12, <1>13, ShapesAreCalled
<1>15. Shaped(x, p \o t) /\ x[1] = w[1] /\ (p \o t)[1] \in RoutineMove
  <2>1. Grown(w[1], 0, "node") = w[1]
    BY <1>13, GrownByNone
  <2>. QED BY <1>12, <1>14, <2>1 DEF Called
<1>16. todo' = p \o t
  <2>1. p \in Seq(Move)
    BY <1>12, MovesOfRoutines, SeqMonotonic
  <2>2. p \in Seq(Move) /\ two \in Seq(Move) /\ Rest \in Seq(Move)
    BY <1>2, <1>11, <2>1
  <2>3. (p \o two) \o Rest = p \o (two \o Rest)
    BY <2>2, ConcatAssociative
  <2>. QED BY <1>1, <1>4, <1>9, <2>3
<1>17. Prepared(x, todo', nodes', nrs', names', errors' = {})
  <2>1. Holds(w[1], nodes, nrs, names, errors = {})
    BY <1>3 DEF Prepared
  <2>2. todo'[1].move # "push"
    BY <1>15, <1>16, MovesOfRoutines
  <2>. QED BY <1>1, <1>8, <1>15, <1>16, <2>1, <2>2 DEF Prepared
<1>18. Typed'
  <2>1. /\ pos' \in Nat \ {0} /\ nodes \in Seq(TreeNode(pos' - 1, errors' = {}))
        /\ nrs \in Seq(Ref(pos' - 1, errors' = {})) /\ root \in TreeNode(pos' - 1, errors' = {})
    BY <1>1, <1>2, <1>8, TypedOn
  <2>. QED BY <1>1, <1>2, <1>8, <2>1 DEF Typed
<1>. QED BY <1>1, <1>2, <1>17, <1>18, StepEnds

\* A list that ends has its items for children, in their order.
LEMMA EndStepOfTree ==
  ASSUME TreeInv, StackInv, EndList
  PROVE  TreeInv'
<1>1. PICK loop, list, n : loop = todo[1] /\ list = todo[1].list /\ n = todo[1].n
  OBVIOUS
<1>2. /\ todo # <<>> /\ todo[1].move = "loop" /\ list # "Program" /\ todo' = Rest
      /\ nodes' = Append(nodes, IF TooMany(loop) THEN Nil ELSE Node(list, Unwound(n)))
      /\ nrs' = SubSeq(nrs, 1, Len(nrs) - n)
      /\ UNCHANGED root /\ errors' = errors \union ListErrors(loop) /\ Consume
  BY <1>1 DEF EndList, At, RefsBelow, ReportErrors
<1>3. /\ ~Done /\ Typed /\ todo \in Seq(Move) /\ todo[1] \in Move /\ Rest \in Seq(Move)
      /\ \E w : Prepared(w, todo, nodes, nrs, names, errors = {})
  BY <1>2, StepBegins
<1>4. PICK w : Prepared(w, todo, nodes, nrs, names, errors = {})
  BY <1>3
<1>5. PICK v : Popped(w, todo, v)
  BY <1>2, <1>3, <1>4, ShapesGo DEF Prepared
<1>6. loop \in LoopMove
  BY <1>1, <1>2, <1>3, FieldsOfMoves
<1>7. /\ list \in ItemLists /\ list \in TreeKinds /\ list \in Tag /\ list # "node" /\ "node" \in Tag
      /\ n \in Nat /\ list \in DOMAIN ItemKinds
  BY <1>1, <1>2, <1>6 DEF LoopMove, ItemLists, TreeKinds, Tag, ItemKinds
<1>8. LoopLeads(todo[1], w[1], w[2])
  <2>1. 1 \in 1 .. Len(todo) /\ 1 + 1 = 2
    BY <1>2, <1>3, EmptySeq
  <2>2. Leads(todo, 1, w[1], w[2])
    BY <1>4, <2>1 DEF Prepared, Shaped
  <2>3. todo[1] \notin RoutineMove /\ todo[1].move # "push"
    BY <1>2, MovesOfRoutines
  <2>. QED BY <2>2, <2>3 DEF Leads, RoutineLeads, PushLeads
<1>9. PICK s \in Seq(Tag) : w[1] = Grown(s, n, list) /\ w[2] = Grown(s, 1, "node")
  BY <1>1, <1>8 DEF LoopLeads
<1>10. /\ Shaped(v, Rest) /\ v[1] = Grown(s, 1, "node")
       /\ ~(Rest # <<>> /\ Rest[1].move = "push")
  <2>1. Shaped(v, Rest) /\ v[1] = w[2] /\ Feeds(todo[1], Rest)
    BY <1>5 DEF Popped, Rest
  <2>. QED BY <1>2, <1>9, <2>1, NothingIsPushed
<1>11. /\ names' \in Seq(Nat) /\ pos' = pos + 1
       /\ token \notin Named => names' = names
  BY <1>2, <1>3, NamesGoOn DEF Typed
<1>12. pos' \in Nat /\ pos <= pos' /\ errors \subseteq errors'
  BY <1>2, <1>3, <1>11 DEF Typed
<1>13. ASSUME errors' = {} PROVE errors = {} /\ names' = names /\ ~TooMany(loop)
  <2>1. Closes(list) /\ ~TooMany(loop) /\ errors = {}
    BY <1>1, <1>2, <1>13 DEF ListErrors
  <2>2. token \notin Named
    BY <1>7, <2>1, LoopsCallItems DEF Closes
  <2>. QED BY <1>11, <2>1, <2>2
<1>14. PICK l, ok, still, T, R : /\ l = pos' - 1 /\ ok = (errors = {}) /\ still = (errors' = {})
                                 /\ T = TreeNode(l, still) /\ R = Ref(l, still)
  OBVIOUS
<1>15. /\ nodes \in Seq(T) /\ nrs \in Seq(R) /\ root \in T /\ names \in Seq(Nat)
       /\ pos' \in Nat \ {0} /\ l \in Nat /\ (still => ok)
  <2>1. /\ pos' \in Nat \ {0} /\ pos' - 1 \in Nat
        /\ nodes \in Seq(TreeNode(pos' - 1, errors' = {}))
        /\ nrs \in Seq(Ref(pos' - 1, errors' = {})) /\ root \in TreeNode(pos' - 1, errors' = {})
    BY <1>3, <1>12, TypedOn
  <2>. QED BY <1>3, <1>13, <1>14, <2>1 DEF Typed
<1>16. Holds(Grown(s, n, list), nodes, nrs, names, ok)
  BY <1>4, <1>9, <1>14 DEF Prepared
<1>17. PICK ms, qs, ps :
         CutOff(n, list, nodes, nrs, ms, qs, ps) /\ Ready(s, n, list, ms, qs, ps, names, ok)
  BY <1>7, <1>15, <1>16, PiecesAreReady
<1>18. /\ n <= Len(nrs) /\ ms = nodes /\ qs = SubSeq(nrs, 1, Len(nrs) - n)
       /\ ps = [i \in 1 .. n |-> nrs[Len(nrs) - n + i].to]
  BY <1>7, <1>17 DEF CutOff
<1>19. Unwound(n) = ps /\ nrs' = qs
  BY <1>2, <1>18 DEF Unwound
<1>20. qs \in Seq(R) /\ ps \in [1 .. n -> T]
  <2>1. PICK rs : rs = nrs
    OBVIOUS
  <2>2. rs \in Seq(Ref(l, still)) /\ n \in Nat /\ n <= Len(rs)
    BY <1>7, <1>14, <1>15, <1>18, <2>1
  <2>3. LastRefs(n, rs, l, still)
    BY <2>2, ItemsAreTyped
  <2>. QED BY <1>14, <1>18, <2>1, <2>3 DEF LastRefs
<1>21. PICK node : node = IF TooMany(loop) THEN Nil ELSE Node(list, ps)
  OBVIOUS
<1>22. /\ node \in T
       /\ still => node.leaves = FlattenSeq([i \in 1 .. n |-> ps[i].leaves])
  <2>1. ASSUME still PROVE \A i \in 1 .. n : ps[i].kind \in ItemKinds[list]
    BY <1>7, <1>15, <1>17, <2>1, ReadyItems
  <2>2. MadeOf(Node(list, ps), list, n, ps, l, still)
    BY <1>7, <1>14, <1>15, <1>20, <2>1, NodeIsMade
  <2>3. Nil \in T
    BY <1>14, <1>15, NilIsMade
  <2>4. still => ~TooMany(loop)
    BY <1>13, <1>14
  <2>. QED BY <1>14, <1>21, <2>2, <2>3, <2>4 DEF MadeOf
<1>23. /\ nodes' \in Seq(T) /\ Added("node", nodes, qs, nodes', qs, node)
  BY <1>2, <1>15, <1>19, <1>21, <1>22, NodeIsAdded
<1>24. Holds(Grown(s, 1, "node"), nodes', qs, names, still)
  <2>1. still => /\ ok /\ node.leaves = FlattenSeq([i \in 1 .. n |-> ps[i].leaves])
                 /\ "node" # "node" => node.kind \in ItemKinds["node"]
    BY <1>15, <1>22
  <2>2. PICK us, ms0, xs : us = names /\ ms0 = nodes /\ xs = nodes'
    OBVIOUS
  <2>3. /\ us \in Seq(Nat) /\ "node" \in Tag /\ n \in Nat /\ Ready(s, n, list, ms0, qs, ps, us, ok)
        /\ Added("node", ms0, qs, xs, qs, node)
    BY <1>7, <1>15, <1>17, <1>18, <1>23, <2>2
  <2>4. Holds(Grown(s, 1, "node"), xs, qs, us, still)
    BY <2>1, <2>3, PieceIsReplaced
  <2>. QED BY <2>2, <2>4
<1>25. Prepared(v, todo', nodes', nrs', names', errors' = {})
  <2>1. still => names' = names
    BY <1>13, <1>14
  <2>2. Holds(Grown(s, 1, "node"), nodes', qs, names', still)
    BY <1>24, <2>1, HoldsOn
  <2>3. Prepared(v, Rest, nodes', qs, names', still)
    BY <1>10, <2>2 DEF Prepared
  <2>. QED BY <1>2, <1>14, <1>19, <2>3
<1>26. Typed'
  BY <1>2, <1>11, <1>14, <1>15, <1>19, <1>20, <1>23 DEF Typed
<1>. QED BY <1>2, <1>3, <1>25, <1>26, StepEnds

\* Nothing lies where nothing is told.
LEMMA NothingLies ==
  ASSUME NEW s, Len(s) = 0, NEW ns, NEW rs, NEW us, Holds(s, ns, rs, us, TRUE)
  PROVE  Len(us) = 0
BY DEF Holds, Tells

\* The tree has what all the moves have told.
LEMMA ProgramStepOfTree ==
  ASSUME TreeInv, StackInv, EndProgram
  PROVE  TreeInv'
<1>1. PICK n : n = todo[1].n
  OBVIOUS
<1>2. /\ todo # <<>> /\ todo[1].move = "loop" /\ todo[1].list = "Program" /\ todo' = Rest
      /\ nrs' = SubSeq(nrs, 1, Len(nrs) - n) /\ root' = Node("Program", Unwound(n))
      /\ UNCHANGED <<nodes, pos, names>> /\ errors' = errors
  BY <1>1 DEF EndProgram, At, RefsBelow, readVars, errorVars
<1>3. /\ ~Done /\ Typed /\ todo \in Seq(Move) /\ todo[1] \in Move
      /\ \E w : Prepared(w, todo, nodes, nrs, names, errors = {})
  BY <1>2, StepBegins
<1>4. PICK w : Prepared(w, todo, nodes, nrs, names, errors = {})
  BY <1>3
<1>5. PICK v : Popped(w, todo, v)
  BY <1>2, <1>3, <1>4, ShapesGo DEF Prepared
<1>6. n \in Nat
  BY <1>1, <1>2, <1>3, FieldsOfMoves DEF LoopMove
<1>7. "Program" \in Tag /\ "node" \in Tag /\ "Program" \in TreeKinds /\ "Program" # "node" /\ 1 \in Nat
  BY DEF Tag, TreeKinds
<1>8. LoopLeads(todo[1], w[1], w[2])
  <2>1. 1 \in 1 .. Len(todo) /\ 1 + 1 = 2
    BY <1>2, <1>3, EmptySeq
  <2>2. Leads(todo, 1, w[1], w[2])
    BY <1>4, <2>1 DEF Prepared, Shaped
  <2>3. todo[1] \notin RoutineMove /\ todo[1].move # "push"
    BY <1>2, MovesOfRoutines
  <2>. QED BY <2>2, <2>3 DEF Leads, RoutineLeads, PushLeads
<1>9. PICK s \in Seq(Tag) : w[1] = Grown(s, n, "Program") /\ w[2] = Grown(s, 1, "node")
  BY <1>1, <1>2, <1>8 DEF LoopLeads
<1>10. Len(s) = 0
  <2>1. Rest = <<>>
    BY <1>2, ProgramIsLast
  <2>2. Len(v[0 + 1]) = 1 /\ v[1] = w[2]
    <3>1. Shaped(v, <<>>) /\ v[1] = w[2]
      BY <1>5, <2>1 DEF Popped, Rest
    <3>2. Len(<<>>) = 0
      OBVIOUS
    <3>. QED BY <3>1, <3>2 DEF Shaped
  <2>3. Len(w[2]) = 1
    BY <2>2
  <2>4. GoesOn(w[2], s, 1, "node")
    BY <1>7, <1>9, GrownElements
  <2>. QED BY <2>3, <2>4 DEF GoesOn
<1>11. PICK l, ok, T, R : l = pos - 1 /\ ok = (errors = {}) /\ T = TreeNode(l, ok) /\ R = Ref(l, ok)
  OBVIOUS
<1>12. nodes \in Seq(T) /\ nrs \in Seq(R) /\ names \in Seq(Nat) /\ l \in Nat
  BY <1>3, <1>11 DEF Typed
<1>13. Holds(Grown(s, n, "Program"), nodes, nrs, names, ok)
  BY <1>4, <1>9, <1>11 DEF Prepared
<1>14. PICK ms, qs, ps :
         CutOff(n, "Program", nodes, nrs, ms, qs, ps) /\ Ready(s, n, "Program", ms, qs, ps, names, ok)
  BY <1>6, <1>7, <1>12, <1>13, PiecesAreReady
<1>15. /\ n <= Len(nrs) /\ qs = SubSeq(nrs, 1, Len(nrs) - n)
       /\ ps = [i \in 1 .. n |-> nrs[Len(nrs) - n + i].to]
  BY <1>7, <1>14 DEF CutOff
<1>16. Unwound(n) = ps /\ nrs' = qs
  BY <1>2, <1>15 DEF Unwound
<1>17. qs \in Seq(R) /\ ps \in [1 .. n -> T]
  <2>1. PICK rs : rs = nrs
    OBVIOUS
  <2>2. rs \in Seq(Ref(l, ok)) /\ n \in Nat /\ n <= Len(rs)
    BY <1>6, <1>11, <1>12, <1>15, <2>1
  <2>3. LastRefs(n, rs, l, ok)
    BY <2>2, ItemsAreTyped
  <2>. QED BY <1>11, <1>15, <2>1, <2>3 DEF LastRefs
<1>18. ok => \A i \in 1 .. n : ps[i].kind \in ItemKinds["Program"]
  BY <1>6, <1>7, <1>14, ReadyItems
<1>19. MadeOf(root', "Program", n, ps, l, ok)
  <2>1. MadeOf(Node("Program", ps), "Program", n, ps, l, ok)
    BY <1>6, <1>7, <1>11, <1>12, <1>17, <1>18, NodeIsMade
  <2>. QED BY <1>2, <1>16, <2>1
<1>20. ok => root'.leaves = names
  <2>. SUFFICES ASSUME ok PROVE root'.leaves = names
    OBVIOUS
  <2>1. PICK z \in 0 .. Len(names) :
          Holds(s, ms, qs, SubSeq(names, 1, z), ok) /\ (ok => Taken(n, "Program", ps, names, z))
    BY <1>14 DEF Ready
  <2>2. Len(SubSeq(names, 1, z)) = 0
    BY <1>10, <2>1, NothingLies
  <2>3. z = 0
    <3>1. Len(names) \in Nat
      BY <1>12, LenProperties
    <3>2. Len(SubSeq(names, 1, z)) = z
      BY <1>12, <2>1, <3>1
    <3>. QED BY <2>2, <3>2
  <2>4. root'.leaves = SubSeq(names, z + 1, Len(names))
    BY <1>19, <2>1 DEF Taken, MadeOf
  <2>5. SubSeq(names, 1, Len(names)) = names
    BY <1>12, SubSeqFull
  <2>6. z + 1 = 1
    BY <2>3
  <2>. QED BY <2>4, <2>5, <2>6
<1>21. Typed'
  <2>1. /\ pos' \in Nat \ {0} /\ names' \in Seq(Nat)
        /\ TreeNode(pos' - 1, errors' = {}) = TreeNode(pos - 1, errors = {})
        /\ Ref(pos' - 1, errors' = {}) = Ref(pos - 1, errors = {})
    BY <1>2, <1>3, StillTyped
  <2>2. root' \in T
    BY <1>11, <1>19 DEF MadeOf
  <2>. QED BY <1>2, <1>11, <1>12, <1>16, <1>17, <2>1, <2>2 DEF Typed
<1>22. Done'
  <2>1. root'.kind = "Program"
    BY <1>19 DEF MadeOf
  <2>. QED BY <2>1 DEF Done, NoRoot, Leaf
<1>23. TreeIsSource'
  BY <1>2, <1>11, <1>20 DEF TreeIsSource
<1>. QED BY <1>21, <1>22, <1>23 DEF TreeInv

LEMMA GiveUpStep ==
  ASSUME TreeInv, StackInv, GiveUp
  PROVE  TreeInv'
<1>1. /\ todo # <<>> /\ UNCHANGED <<nodes, nrs>> /\ errors' = errors \union {"unexpected"}
      /\ root' = Leaf("Error", <<>>) /\ Consume
  BY DEF GiveUp, At, ReportErrors
<1>2. Typed
  BY DEF TreeInv
<1>3. names' \in Seq(Nat) /\ pos' = pos + 1
  BY <1>1, <1>2, NamesGoOn DEF Typed
<1>4. pos' \in Nat /\ pos <= pos' /\ errors \subseteq errors'
  BY <1>1, <1>2, <1>3 DEF Typed
<1>5. /\ pos' \in Nat \ {0} /\ pos' - 1 \in Nat /\ nodes \in Seq(TreeNode(pos' - 1, errors' = {}))
      /\ nrs \in Seq(Ref(pos' - 1, errors' = {}))
  BY <1>2, <1>4, TypedOn
<1>6. root' \in TreeNode(pos' - 1, errors' = {}) /\ root'.kind = "Error"
  <2>1. "Error" \in TreeKinds \ (ItemLists \union {"Program"}) /\ <<>> \in Seq(1 .. pos' - 1)
    BY DEF TreeKinds, ItemLists
  <2>. QED BY <1>1, <1>5, <2>1, LeafIsMade
<1>7. Typed'
  BY <1>1, <1>3, <1>5, <1>6 DEF Typed
<1>8. Done' /\ TreeIsSource'
  BY <1>1, <1>6 DEF Done, NoRoot, Leaf, TreeIsSource
<1>. QED BY <1>7, <1>8 DEF TreeInv

LEMMA TreeStep ==
  ASSUME TreeInv, StackInv, [Next]_vars
  PROVE  TreeInv'
<1>1. CASE Halt \/ UNCHANGED vars
  <2>1. UNCHANGED <<todo, nodes, nrs, names, errors, pos, root>>
    BY <1>1 DEF Halt, vars, readVars, errorVars
  <2>2. Typed'
    BY <2>1 DEF TreeInv, Typed
  <2>3. Done' = Done /\ TreeIsSource'
    BY <2>1 DEF TreeInv, TreeIsSource, Done
  <2>4. ASSUME ~Done PROVE \E w : Prepared(w, todo', nodes', nrs', names', errors' = {})
    <3>1. PICK w : Prepared(w, todo, nodes, nrs, names, errors = {})
      BY <2>4 DEF TreeInv
    <3>2. Prepared(w, todo', nodes', nrs', names', errors' = {})
      BY <2>1, <3>1
    <3>. QED BY <3>2
  <2>. QED BY <2>2, <2>3, <2>4 DEF TreeInv
<1>. QED BY <1>1, QuietStep, SkipStep, NilStep, LeafStep, MakeStep, IfStep, BeginStepOfTree,
            PushStepOfTree, ItemStepOfTree, EndStepOfTree, ProgramStepOfTree, GiveUpStep DEF Next

LEMMA NothingHolds == Holds(<<>>, <<>>, <<>>, <<>>, TRUE)
<1>1. PICK c : c = [i \in 0 .. 0 |-> 0]
  OBVIOUS
<1>2. c \in [0 .. 0 -> Nat] /\ c \in [0 .. 0 -> 0 .. 0] /\ c[0] = 0 /\ (\A i \in 0 .. 0 : i = 0) /\ 1 .. 0 = {}
  BY <1>1
<1>3. PICK s : s = <<>>
  OBVIOUS
<1>4. Len(s) = 0 /\ 0 - 0 = 0
  BY <1>3
<1>5. Laid(s, c, s, s)
  BY <1>2, <1>4 DEF Laid
<1>6. Tells(s, c, c, s, s, s)
  BY <1>2, <1>4 DEF Tells
<1>. QED BY <1>3, <1>5, <1>6 DEF Holds

LEMMA TreeBegins == Init => TreeInv
<1>. SUFFICES ASSUME Init PROVE TreeInv
  OBVIOUS
<1>1. PICK loop : loop = Loop("Program", FALSE, 0, 0)
  OBVIOUS
<1>2. loop \in LoopMove /\ loop.n = 0 /\ loop.move = "loop"
  BY <1>1 DEF Loop, LoopMove
<1>3. /\ todo = <<loop>> /\ nodes = <<>> /\ nrs = <<>> /\ names = <<>> /\ pos = 1 /\ errors = {}
      /\ root = NoRoot
  BY <1>1 DEF Init
<1>4. PICK y, w : y = Grown(<<>>, 1, "node") /\ w = [i \in 1 .. 1 |-> y]
  OBVIOUS
<1>5. "node" \in Tag /\ 1 \in Nat /\ <<>> \in Seq(Tag) /\ <<>> \in Seq(Move) /\ Len(<<>>) = 0
  BY DEF Tag
<1>6. y \in Seq(Tag) /\ Len(y) = 1
  <2>1. GoesOn(y, <<>>, 1, "node")
    BY <1>4, <1>5, GrownElements
  <2>. QED BY <1>5, <2>1 DEF GoesOn
<1>7. Shaped(w, <<>>) /\ w[1] = Grown(<<>>, 1, "node")
  <2>1. 0 + 1 = 1 /\ 1 .. 0 = {} /\ w[1] = y /\ \A i \in 1 .. 1 : w[i] = y
    BY <1>4
  <2>2. Shaped(w, <<>>)
    BY <1>5, <1>6, <2>1 DEF Shaped
  <2>. QED BY <1>4, <2>1, <2>2
<1>8. PICK v : Shaped(v, <<loop>> \o <<>>) /\ v[1] = <<>>
  BY <1>2, <1>5, <1>7, ShapesBegin
<1>9. <<loop>> \o <<>> = todo /\ todo[1] = loop
  <2>1. <<loop>> \in Seq(Move)
    BY <1>2 DEF Move
  <2>. QED BY <1>3, <2>1, ConcatEmptySeq
<1>10. Prepared(v, todo, nodes, nrs, names, errors = {})
  BY <1>2, <1>3, <1>8, <1>9, NothingHolds DEF Prepared
<1>11. Typed
  <2>1. "none" \in TreeKinds \ (ItemLists \union {"Program"})
    BY DEF TreeKinds, ItemLists
  <2>2. 1 - 1 \in Nat /\ <<>> \in Seq(1 .. 1 - 1)
    OBVIOUS
  <2>3. NoRoot \in TreeNode(1 - 1, errors = {})
    BY <2>1, <2>2, LeafIsMade DEF NoRoot
  <2>4. /\ nodes \in Seq(TreeNode(pos - 1, errors = {})) /\ nrs \in Seq(Ref(pos - 1, errors = {}))
        /\ names \in Seq(Nat)
    BY <1>3
  <2>. QED BY <1>3, <2>3, <2>4 DEF Typed
<1>12. TreeIsSource
  BY <1>3 DEF TreeIsSource, Done
<1>. QED BY <1>10, <1>11, <1>12 DEF TreeInv

LEMMA TreesAreAlive ==
  ASSUME Typed
  PROVE  \A node \in Alive : node \in TreeNode(pos - 1, errors = {})
<1>. PICK T, R : T = TreeNode(pos - 1, errors = {}) /\ R = Ref(pos - 1, errors = {})
  OBVIOUS
<1>1. \A node \in Range(nodes) : node \in T
  <2>1. nodes \in Seq(T)
    BY DEF Typed
  <2>. QED BY <2>1 DEF Range
<1>2. \A i \in DOMAIN nrs : nrs[i].to \in T
  <2>1. nrs \in Seq(R)
    BY DEF Typed
  <2>2. \A i \in DOMAIN nrs : nrs[i] \in R
    BY <2>1
  <2>. QED BY <2>2 DEF Ref
<1>. QED BY <1>1, <1>2 DEF Alive, Typed

\* A source without errors becomes a tree that has all its names in order, and
\* in whose lists are the nodes the analysis takes them for; whatever the
\* errors, no leaf is made of a token nobody consumed (mirv.c 943-1470).
THEOREM TreesAreFaithful == Spec => []TreeIsFaithful
<1>1. TreeInv => TreeIsFaithful
  <2>. SUFFICES ASSUME TreeInv PROVE TreeIsFaithful
    OBVIOUS
  <2>1. \A node \in Alive : node \in TreeNode(pos - 1, errors = {})
    BY TreesAreAlive DEF TreeInv
  <2>2. LeavesAreConsumed
    <3>. SUFFICES ASSUME NEW node \in Alive, NEW i \in DOMAIN node.leaves
                  PROVE  node.leaves[i] \in 1 .. pos - 1
      BY DEF LeavesAreConsumed
    <3>1. PICK S, leaves : S = 1 .. pos - 1 /\ leaves = node.leaves
      OBVIOUS
    <3>2. leaves \in Seq(S) /\ i \in DOMAIN leaves
      BY <2>1, <3>1 DEF TreeNode
    <3>3. leaves[i] \in S
      BY <3>2, LenProperties, ElementOfSeq
    <3>. QED BY <3>1, <3>3
  <2>3. ListsHoldItems
    <3>. SUFFICES ASSUME NEW node \in Alive, node.kind \in DOMAIN ItemKinds, errors = {}
                  PROVE  Range(node.children) \subseteq ItemKinds[node.kind]
      BY DEF ListsHoldItems
    <3>1. node.children \in Seq(TreeKinds)
      BY <2>1 DEF TreeNode
    <3>2. \A i \in 1 .. Len(node.children) : node.children[i] \in ItemKinds[node.kind]
      BY <2>1 DEF TreeNode
    <3>. QED BY <3>1, <3>2 DEF Range
  <2>. QED BY <2>2, <2>3 DEF TreeIsFaithful, TreeInv
<1>2. TreeInv /\ ParserInv /\ [Next]_vars => TreeInv'
  BY TreeStep DEF ParserInv
<1>. QED BY <1>1, <1>2, TreeBegins, ParserInvariant, PTL DEF Spec
=============================================================================
