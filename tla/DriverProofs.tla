----------------------------- MODULE DriverProofs -----------------------------
(***************************************************************************)
(* For command lines of any length, files of any length and any flags: the *)
(* exit status tells the truth, after a successful link an executable      *)
(* comes from its own file and this invocation, and a file after clean     *)
(* ones is compiled as if it were the only one.                            *)
(***************************************************************************)
EXTENDS DriverRules, Induction, FiniteSetTheorems

\* main's exit_code is 0 as long as no argument has failed.
ExitCounts == step # "exited" => (exit_code = 0 <=> failed = {})

\* Between Open and the end of an argument there is one.
Busy == step \notin {"main", "exited"} => arg # 0

\* Until a later argument has the same name.
Latest(i) == \A j \in i + 1 .. arg : args[j] # args[i]

\* What was compiled is in the .s of its argument, if that could be opened.
AsmFresh ==
    \A i \in 1 .. arg : code[i] # None /\ i \notin unwritten /\ Latest(i) => asm[args[i]] = i

\* Without a failure, the arguments that are done have been compiled.
AllCompiled ==
    /\ failed = {} =>
          \A i \in 1 .. arg : i < arg \/ step \in {"main", "exited"} => code[i] # None
    /\ step \in {"assemble", "link"} => code[arg] # None

\* cc gets what as has just made of the .s.
ObjFresh == step = "link" => obj[This.stem] = Source

\* Without a failure, the arguments that are done have their executables.
ExeFresh ==
    failed = {} /\ flag = "" =>
        \A i \in 1 .. arg :
            /\ i < arg \/ step \in {"main", "exited"}
            /\ ~args[i].dotted /\ i \notin unwritten /\ Latest(i)
            => exe[args[i].stem] = i

Outcome ==
    /\ Busy
    /\ ExitCounts
    /\ StatusTruthful
    /\ AsmFresh
    /\ AllCompiled
    /\ ObjFresh
    /\ ExeFresh

IInv == TypeOK /\ Outcome

-----------------------------------------------------------------------------
\* Lemmas

\* A sequence that grows keeps its elements.
LEMMA Grows ==
    ASSUME NEW S, NEW s \in Seq(S), NEW e \in S
    PROVE  /\ Append(s, e) \in Seq(S)
           /\ Len(Append(s, e)) = Len(s) + 1
           /\ \A i \in 1 .. Len(s) : Append(s, e)[i] = s[i]
           /\ Append(s, e)[Len(s) + 1] = e
  OBVIOUS

\* An update of one element leaves a sequence as long as it is.
LEMMA Updated ==
    ASSUME NEW S, NEW s \in Seq(S), NEW i \in 1 .. Len(s), NEW e \in S
    PROVE  /\ [s EXCEPT ![i] = e] \in Seq(S)
           /\ Len([s EXCEPT ![i] = e]) = Len(s)
  OBVIOUS

\* A process that fails ends with a status that is not 0.
LEMMA FailTells ==
    ASSUME NEW n \in {1, 2, Abort}, Fail(n)
    PROVE  /\ step' = "exited" /\ status' = n /\ status' \notin {0, None}
           /\ failed' = failed \cup {arg} /\ failed' # {}
<1>1. n \in Nat /\ n # 0
  BY DEF Abort
<1>2. n # None
  BY <1>1, DriverAssumption DEF DriverAssumption
<1>3. failed \cup {arg} # {}
  OBVIOUS
<1>4. QED
  BY <1>1, <1>2, <1>3 DEF Fail, Exit

\* What the lexer and the parser leave alone, and how they end.
LexFrame ==
    /\ step = "parse"
    /\ UNCHANGED <<flag, args, exit_code, list, seeded, strtab, code, asm, obj, exe, unwritten>>
    /\ \/ step' \in {"parse", "collect"} /\ UNCHANGED <<status, failed>>
       \/ \E n \in {1, 2, Abort} : Fail(n)

\* The tree of a file that is accepted is whole.
TreeGrows ==
    /\ tree \in Seq(Tokens) => tree' \in Seq(Tokens)
    /\ step' = "collect" => tree' = tree /\ tree # <<>> /\ Closed

\* A token is taken, or the file is at its end and the process with it.
LEMMA ParseFrame ==
    ASSUME NEW t \in Tokens, Parse(t), step = "parse"
    PROVE  /\ TreeGrows
           /\ \/ step' = "parse" /\ UNCHANGED <<status, failed>>
              \/ \E n \in {1, 2, Abort} : Fail(n)
  BY DEF Parse, TreeGrows, Undefined, Fail, Exit

\* At the end of its input the parser has a whole program, or fails.
LEMMA AcceptFrame ==
    ASSUME Accept
    PROVE  \/ step' = "collect" /\ UNCHANGED <<status, failed>> /\ tree # <<>> /\ Closed
           \/ Fail(2) /\ step' = "exited"
  BY DEF Accept, Fail, Exit

\* A piece more in one text.
LEMMA PieceFrame ==
    ASSUME TypeOK, NEW p \in Pieces, Piece(p)
    PROVE  /\ text' \in Seq(Seq(Pieces)) /\ Len(text') = arg
           /\ step = "parse"
           /\ UNCHANGED <<flag, args, exit_code, reading, list, seeded, strtab, code,
                          asm, obj, exe, unwritten>>
<1>1. reading \in 1 .. Len(text) /\ text \in Seq(Seq(Pieces)) /\ Len(text) = arg /\ step = "parse"
  BY DEF TypeOK, Piece, arg
<1>2. text[reading] \in Seq(Pieces)
  BY <1>1
<1>3. Append(text[reading], p) \in Seq(Pieces)
  BY <1>2, Grows
<1>4. text' = [text EXCEPT ![reading] = Append(text[reading], p)]
  BY DEF Piece
<1>5. QED
  BY <1>1, <1>3, <1>4, Updated DEF Piece, globals, disk

\* Mode and depth of the lexer agree.
ModesOK ==
    /\ mode \in {"INITIAL", "IN_COMMENT", "IN_MULTILINE_STRING"}
    /\ comment_depth \in Nat /\ string_pos \in Nat
    /\ mode = "IN_COMMENT" <=> comment_depth > 0

TextOK == text \in Seq(Seq(Pieces)) /\ Len(text) = arg

ReadingOK == reading \in 0 .. arg /\ (step = "parse" => reading # 0)

LexOK == LexFrame /\ TreeGrows /\ TextOK' /\ ModesOK' /\ ReadingOK'

\* Pieces and tokens by their groups.
LEMMA PieceIsOne == Plain \subseteq Pieces /\ InComment \subseteq Pieces /\ InString \subseteq Pieces
                    /\ {"{", "quote", "/*", "*/", "class", "$"} \subseteq Pieces
                    /\ Plain \subseteq Tokens /\ {"{", "raw", "emptyRaw"} \subseteq Tokens
  BY DEF Plain, Pieces, Tokens, InComment, InString

\* Each rule of the lexer keeps mode and depth in step, and touches nothing but
\* its file.
LEMMA LexerStep == TypeOK /\ yylex => LexOK
<1> SUFFICES ASSUME TypeOK, yylex PROVE LexOK
  OBVIOUS
<1>0. ModesOK /\ ReadingOK /\ arg \in Nat
  BY DEF TypeOK, ModesOK, ReadingOK, arg
<1>1. ASSUME NEW p \in Plain, Token(p) PROVE LexOK
  <2>1. p \in Pieces /\ p \in Tokens /\ Piece(p) /\ Parse(p) /\ UNCHANGED lexer
    BY <1>1, PieceIsOne DEF Token
  <2>2. QED
    BY <2>1, <1>0, PieceFrame, ParseFrame
       DEF LexOK, LexFrame, TextOK, ModesOK, ReadingOK, lexer, arg, Fail, Exit
<1>2. CASE CommentBegins
  <2>1. "/*" \in Pieces /\ Piece("/*") /\ Skip /\ step = "parse"
    BY <1>2, PieceIsOne DEF CommentBegins, Piece
  <2>2. QED
    BY <1>2, <2>1, <1>0, PieceFrame
       DEF CommentBegins, LexOK, LexFrame, TreeGrows, Skip, TextOK, ModesOK, ReadingOK, arg
<1>3. CASE StringBegins
  <2>1. CASE Piece("quote") /\ Skip /\ string_pos' = 0
    <3>1. "quote" \in Pieces /\ step = "parse"
      BY <2>1, PieceIsOne DEF Piece
    <3>2. QED
      BY <1>3, <2>1, <3>1, <1>0, PieceFrame
         DEF StringBegins, LexOK, LexFrame, TreeGrows, Skip, TextOK, ModesOK, ReadingOK, arg
  <2>2. CASE Piece("{") /\ Parse("{") /\ string_pos' = 1
    <3>1. "{" \in Pieces /\ "{" \in Tokens /\ step = "parse"
      BY <2>2, PieceIsOne DEF Piece
    <3>2. QED
      BY <1>3, <2>2, <3>1, <1>0, PieceFrame, ParseFrame
         DEF StringBegins, LexOK, LexFrame, TextOK, ModesOK, ReadingOK, arg, Fail, Exit
  <2>3. QED
    BY <1>3, <2>1, <2>2 DEF StringBegins
<1>4. CASE Unsupported
  <2>1. "class" \in Pieces /\ Piece("class") /\ Fail(1) /\ step' = "exited"
    BY <1>4, PieceIsOne DEF Unsupported, Fail, Exit
  <2>2. QED
    BY <1>4, <2>1, <1>0, PieceFrame
       DEF Unsupported, LexOK, LexFrame, TreeGrows, TextOK, ModesOK, ReadingOK, lexer, arg
<1>5. ASSUME NEW p \in InComment, Comment(p) PROVE LexOK
  <2>1. p \in Pieces /\ Piece(p) /\ Skip /\ step = "parse"
    BY <1>5, PieceIsOne DEF Comment, Piece
  <2>2. comment_depth \in Nat \ {0}
    BY <1>5, <1>0 DEF Comment, ModesOK
  <2>3. ModesOK'
    BY <1>5, <1>0, <2>2 DEF Comment, ModesOK
  <2>4. QED
    BY <2>1, <2>3, <1>0, PieceFrame
       DEF LexOK, LexFrame, TreeGrows, Skip, TextOK, ReadingOK, arg
<1>6. ASSUME NEW p \in InString, String(p) PROVE LexOK
  <2>1. p \in Pieces /\ Piece(p) /\ Skip /\ step = "parse"
    BY <1>6, PieceIsOne DEF String, Piece
  <2>2. QED
    BY <1>6, <2>1, <1>0, PieceFrame
       DEF String, LexOK, LexFrame, TreeGrows, Skip, TextOK, ModesOK, ReadingOK, arg
<1>7. CASE StringEnds
  <2> DEFINE t == IF string_pos = 0 THEN "emptyRaw" ELSE "raw"
  <2>1. "quote" \in Pieces /\ t \in Tokens /\ Piece("quote") /\ Parse(t) /\ step = "parse"
    BY <1>7, PieceIsOne DEF StringEnds, Piece
  <2> HIDE DEF t
  <2>2. QED
    BY <1>7, <2>1, <1>0, PieceFrame, ParseFrame
       DEF StringEnds, LexOK, LexFrame, TextOK, ModesOK, ReadingOK, arg, Fail, Exit
<1>8. ASSUME NEW p \in {"*/", "$"}, Stray(p) PROVE LexOK
  <2>1. p \in Pieces /\ Piece(p) /\ Accept /\ UNCHANGED <<lexer, tree>>
    BY <1>8, PieceIsOne DEF Stray
  <2>2. QED
    BY <2>1, <1>0, PieceFrame, AcceptFrame
       DEF LexOK, LexFrame, TreeGrows, TextOK, ModesOK, ReadingOK, lexer, arg
<1>9. CASE BufferEnds
  BY <1>9, <1>0
     DEF BufferEnds, TypeOK, LexOK, LexFrame, TreeGrows, TextOK, ModesOK, ReadingOK, lexer,
         globals, disk, arg
<1>10. CASE Eof
  <2>1. (Fail(1) /\ step' = "exited") \/ Accept
    BY <1>10 DEF Eof, Fail, Exit
  <2>2. step = "parse" /\ UNCHANGED <<lexer, tree>> /\ reading' = 0
    BY <1>10 DEF Eof
  <2>3. QED
    BY <1>10, <2>1, <2>2, <1>0, AcceptFrame
       DEF Eof, TypeOK, LexOK, LexFrame, TreeGrows, TextOK, ModesOK, ReadingOK, lexer,
           globals, disk, arg
<1>11. QED
  BY <1>1, <1>2, <1>3, <1>4, <1>5, <1>6, <1>7, <1>8, <1>9, <1>10 DEF yylex

-----------------------------------------------------------------------------
\* Types

\* The part of TypeOK that is about what the passes keep and write.
KeptOK ==
    /\ list \in {"empty", "live", "freed"} /\ seeded \in BOOLEAN /\ strtab \in BOOLEAN
    /\ asm \in [Args -> {None, Old} \cup 1 .. arg]
    /\ obj \in [Stems -> {None, Old} \cup 1 .. arg] /\ exe \in [Stems -> {None, Old} \cup 1 .. arg]
    /\ failed \subseteq 1 .. arg /\ unwritten \subseteq 1 .. arg

Compiled == [tree : Seq(Tokens), raw : BOOLEAN, srand : BOOLEAN]

ArgsOK ==
    /\ args \in Seq(Args) /\ arg <= Len(MaxPieces)
    /\ code \in Seq({None} \cup Compiled) /\ Len(code) = arg /\ exit_code \in Nat

StepOK ==
    /\ tree \in Seq(Tokens)
    /\ step = "exited" <=> status # None
    /\ step \in {"collect", "generate", "free", "assemble", "link"} => tree # <<>> /\ Closed

\* TypeOK is the sum of its parts.
LEMMA TypeParts == TypeOK <=> ArgsOK /\ TextOK /\ ModesOK /\ ReadingOK /\ KeptOK /\ StepOK
  BY DEF TypeOK, ArgsOK, TextOK, ModesOK, ReadingOK, KeptOK, StepOK, Compiled

\* The parts hold before the first argument.
LEMMA TypesInit == Init => TypeOK
<1> SUFFICES ASSUME Init PROVE ArgsOK /\ TextOK /\ ModesOK /\ ReadingOK /\ KeptOK /\ StepOK
  BY TypeParts
<1>0. MaxPieces \in Seq(Nat)
  BY DriverAssumption DEF DriverAssumption
<1>1. Len(MaxPieces) \in Nat
  BY <1>0
<1>2. arg = 0 /\ ArgsOK /\ TextOK
  BY <1>1 DEF Init, ArgsOK, TextOK, arg
<1>3. ModesOK /\ ReadingOK /\ StepOK
  BY <1>2 DEF Init, ModesOK, ReadingOK, StepOK
<1>4. KeptOK
  <2>1. PICK s \in Before : asm = [f \in Args |-> s]
    BY DEF Init
  <2>2. s \in {None, Old}
    BY DriverAssumption DEF DriverAssumption
  <2>3. QED
    BY <1>2, <2>1, <2>2 DEF Init, KeptOK
<1>5. QED
  BY <1>2, <1>3, <1>4

\* Failing needs an argument, and is no type error.
LEMMA FailTypes ==
    ASSUME TypeOK, Busy, step \notin {"main", "exited"}, NEW n \in {1, 2, Abort}, Fail(n)
    PROVE  /\ failed' \subseteq 1 .. arg
           /\ step' = "exited" <=> status' # None
           /\ step' = "exited"
<1>1. arg \in 1 .. arg
  BY DEF TypeOK, Busy, arg
<1>2. QED
  BY <1>1, FailTells DEF TypeOK

\* yylex and what yyparse does with the token keep the types.
LEMMA LexerTypes == TypeOK /\ Busy /\ yylex => TypeOK'
<1> SUFFICES ASSUME TypeOK, Busy, yylex PROVE TypeOK'
  OBVIOUS
<1>1. ArgsOK /\ TextOK /\ ModesOK /\ ReadingOK /\ KeptOK /\ StepOK
  BY TypeParts
<1>2. LexFrame /\ TreeGrows /\ TextOK' /\ ModesOK' /\ ReadingOK'
  BY LexerStep DEF LexOK
<1>3. ArgsOK'
  BY <1>1, <1>2 DEF ArgsOK, LexFrame, arg
<1>4. CASE step' \in {"parse", "collect"} /\ UNCHANGED <<status, failed>>
  <2>1. KeptOK'
    BY <1>1, <1>2, <1>4 DEF KeptOK, LexFrame, arg
  <2>2. StepOK'
    BY <1>1, <1>2, <1>4 DEF StepOK, LexFrame, TreeGrows, Closed
  <2>3. QED
    BY <1>2, <1>3, <2>1, <2>2, TypeParts, PTL
<1>5. CASE \E n \in {1, 2, Abort} : Fail(n)
  <2>1. failed' \subseteq 1 .. arg /\ (step' = "exited" <=> status' # None) /\ step' = "exited"
    BY <1>2, <1>5, FailTypes DEF LexFrame
  <2>2. KeptOK'
    BY <1>1, <1>2, <2>1 DEF KeptOK, LexFrame, arg
  <2>3. StepOK'
    BY <1>1, <1>2, <2>1 DEF StepOK, TreeGrows
  <2>4. QED
    BY <1>2, <1>3, <2>2, <2>3, TypeParts, PTL
<1>6. QED
  BY <1>2, <1>4, <1>5 DEF LexFrame

\* The argument at hand, and what it is called.
LEMMA ThisOne ==
    ASSUME TypeOK, Busy, step \notin {"main", "exited"}
    PROVE  /\ arg \in 1 .. arg /\ arg \in Nat /\ arg = Len(args)
           /\ This \in Args /\ This.stem \in Stems
           /\ [stem |-> This.stem, dotted |-> FALSE] \in Args
           /\ Source \in {None, Old} \cup 1 .. arg
<1>1. args \in Seq(Args) /\ arg = Len(args) /\ arg # 0
  BY DEF TypeOK, Busy, arg
<1>2. arg \in 1 .. arg /\ arg \in Nat
  BY <1>1
<1>3. This \in Args
  BY <1>1, <1>2 DEF This
<1>4. This.stem \in Stems
  BY <1>3 DEF Args
<1>5. [stem |-> This.stem, dotted |-> FALSE] \in Args
  BY <1>4 DEF Args
<1>6. Source \in {None, Old} \cup 1 .. arg
  BY <1>5 DEF Source, TypeOK
<1>7. QED
  BY <1>1, <1>2, <1>3, <1>4, <1>5, <1>6

\* One argument more.
OpenFrame(a) ==
    /\ args' = Append(args, a) /\ code' = Append(code, None)
    /\ arg' = arg + 1
    /\ UNCHANGED <<flag, status, asm, obj, exe, unwritten>>
    /\ \/ exit_code' = 1 /\ failed' = failed \cup {arg + 1} /\ step' = "main"
       \/ step' = "parse" /\ UNCHANGED <<exit_code, failed>>

\* So does opening a file, or not finding it.
LEMMA OpenTypes ==
    ASSUME TypeOK, NEW a \in Args, Open(a)
    PROVE  TypeOK' /\ OpenFrame(a)
<1>1. ArgsOK /\ TextOK /\ ModesOK /\ ReadingOK /\ KeptOK /\ StepOK /\ arg \in Nat
  BY TypeParts DEF ArgsOK, arg
<1>2. args' \in Seq(Args) /\ arg' = arg + 1
  BY <1>1, Grows DEF Open, ArgsOK, arg
<1>3. text' \in Seq(Seq(Pieces)) /\ Len(text') = arg + 1
  <2>1. <<>> \in Seq(Pieces)
    OBVIOUS
  <2>2. QED
    BY <1>1, <2>1, Grows DEF Open, TextOK
<1>4. code' \in Seq({None} \cup Compiled) /\ Len(code') = arg + 1
  <2>1. code \in Seq({None} \cup Compiled) /\ None \in {None} \cup Compiled
    BY <1>1 DEF ArgsOK
  <2> HIDE DEF Compiled
  <2>2. QED
    BY <1>1, <2>1, Grows DEF Open, ArgsOK
<1>5. OpenFrame(a)
  BY <1>2 DEF Open, OpenFrame, Return, disk
<1>6. ArgsOK'
  <2>1. arg + 1 <= Len(MaxPieces)
    <3>1. MaxPieces \in Seq(Nat)
      BY DriverAssumption DEF DriverAssumption
    <3>2. Len(MaxPieces) \in Nat
      BY <3>1
    <3>3. QED
      BY <1>1, <3>2 DEF Open
  <2>2. exit_code' \in Nat
    BY <1>1, <1>5 DEF OpenFrame, ArgsOK
  <2>3. QED
    BY <1>2, <1>4, <2>1, <2>2 DEF ArgsOK
<1>7. ModesOK' /\ ReadingOK'
  BY <1>1, <1>2 DEF Open, ModesOK, ReadingOK, lexer
<1>8. KeptOK'
  <2>1. 1 .. arg \subseteq 1 .. arg' /\ arg + 1 \in 1 .. arg'
    BY <1>1, <1>2
  <2>2. asm \in [Args -> {None, Old} \cup 1 .. arg'] /\ obj \in [Stems -> {None, Old} \cup 1 .. arg']
        /\ exe \in [Stems -> {None, Old} \cup 1 .. arg']
    BY <1>1, <2>1 DEF KeptOK
  <2>3. UNCHANGED <<list, seeded, strtab>>
    BY DEF Open, globals
  <2>4. QED
    BY <1>1, <1>5, <2>1, <2>2, <2>3 DEF KeptOK, OpenFrame
<1>9. StepOK'
  BY <1>1 DEF Open, StepOK, Closed
<1>10. TextOK'
  BY <1>2, <1>3 DEF TextOK
<1>11. TypeOK'
  BY <1>6, <1>7, <1>8, <1>9, <1>10, TypeParts, PTL
<1>12. QED
  BY <1>5, <1>11

\* What a step of the passes and tools leaves of the texts.
SameTexts == UNCHANGED <<flag, args, text, reading, mode, comment_depth, string_pos, tree>>

\* Then the parts about the texts are as they were.
LEMMA SameTextsTypes ==
    ASSUME TypeOK, SameTexts, step' # "parse"
    PROVE  TextOK' /\ ModesOK' /\ ReadingOK' /\ arg' = arg /\ tree' \in Seq(Tokens)
           /\ (Closed <=> Closed')
<1>1. TextOK /\ ModesOK /\ ReadingOK /\ tree \in Seq(Tokens)
  BY TypeParts DEF StepOK
<1>2. arg' = arg /\ tree' = tree
  BY DEF SameTexts, arg
<1>3. (Closed <=> Closed') /\ tree' \in Seq(Tokens)
  BY <1>1, <1>2 DEF Closed
<1>4. TextOK' /\ ModesOK' /\ ReadingOK'
  BY <1>1, <1>2 DEF SameTexts, TextOK, ModesOK, ReadingOK
<1>5. QED
  BY <1>2, <1>3, <1>4

\* printsyms keeps the types.
LEMMA CollectTypes == TypeOK /\ Busy /\ printsyms => TypeOK'
<1> SUFFICES ASSUME TypeOK, Busy, printsyms PROVE TypeOK'
  OBVIOUS
<1>1. ArgsOK /\ KeptOK /\ StepOK
  BY TypeParts
<1>2. step = "collect" /\ SameTexts
      /\ UNCHANGED <<args, code, exit_code, seeded, strtab, asm, obj, exe, unwritten>>
  BY DEF printsyms, SameTexts, lexer, disk
<1>3. CASE list' \in {"live", "freed"} /\ step' \in {"free", "generate"} /\ UNCHANGED <<status, failed>>
  <2>1. TextOK' /\ ModesOK' /\ ReadingOK' /\ arg' = arg /\ tree' \in Seq(Tokens) /\ (Closed <=> Closed')
    BY <1>2, <1>3, SameTextsTypes
  <2>2. ArgsOK' /\ KeptOK' /\ StepOK'
    BY <1>1, <1>2, <1>3, <2>1 DEF ArgsOK, KeptOK, StepOK, SameTexts
  <2>3. QED
    BY <2>1, <2>2, TypeParts, PTL
<1>4. CASE Undefined /\ UNCHANGED list
  <2>1. failed' \subseteq 1 .. arg /\ (step' = "exited" <=> status' # None) /\ step' = "exited"
    BY <1>2, <1>4, FailTypes DEF Undefined
  <2>2. TextOK' /\ ModesOK' /\ ReadingOK' /\ arg' = arg /\ tree' \in Seq(Tokens)
    BY <1>2, <2>1, SameTextsTypes
  <2>3. ArgsOK' /\ KeptOK' /\ StepOK'
    BY <1>1, <1>2, <1>4, <2>1, <2>2 DEF ArgsOK, KeptOK, StepOK
  <2>4. QED
    BY <2>2, <2>3, TypeParts, PTL
<1>5. QED
  BY <1>1, <1>3, <1>4 DEF printsyms, KeptOK

\* So do generate_code and write_asm_file, opened file or not,
LEMMA GenerateTypes == TypeOK /\ Busy /\ generate_code => TypeOK'
<1> SUFFICES ASSUME TypeOK, Busy, generate_code PROVE TypeOK'
  OBVIOUS
<1>1. ArgsOK /\ KeptOK /\ StepOK
  BY TypeParts
<1>2. /\ step = "generate" /\ step' = "free" /\ SameTexts
      /\ UNCHANGED <<args, exit_code, status, list, obj, exe, failed>>
  BY DEF generate_code, SameTexts, lexer
<1>3. TextOK' /\ ModesOK' /\ ReadingOK' /\ arg' = arg /\ tree' \in Seq(Tokens) /\ (Closed <=> Closed')
  BY <1>2, SameTextsTypes
<1>4. arg \in 1 .. arg /\ This \in Args /\ tree \in Seq(Tokens)
  BY <1>1, <1>2, ThisOne DEF StepOK
<1>5. seeded' \in BOOLEAN /\ strtab' \in BOOLEAN
  BY <1>1 DEF generate_code, KeptOK
<1>6. ArgsOK'
  <2> DEFINE c == [tree |-> tree, raw |-> strtab', srand |-> "rand" \in Range(tree) /\ ~seeded]
  <2>1. c \in {None} \cup Compiled
    BY <1>1, <1>4, <1>5 DEF Compiled, KeptOK
  <2>2. code \in Seq({None} \cup Compiled) /\ arg \in 1 .. Len(code) /\ code' = [code EXCEPT ![arg] = c]
    BY <1>1, <1>4 DEF ArgsOK, generate_code
  <2> HIDE DEF c, Compiled
  <2>3. code' \in Seq({None} \cup Compiled) /\ Len(code') = Len(code)
    BY <2>1, <2>2, Updated
  <2>4. QED
    BY <1>1, <1>2, <1>3, <2>3 DEF ArgsOK
<1>7. KeptOK'
  <2>1. asm' \in [Args -> {None, Old} \cup 1 .. arg] /\ unwritten' \subseteq 1 .. arg
    BY <1>1, <1>4 DEF generate_code, KeptOK
  <2>2. QED
    BY <1>1, <1>2, <1>3, <1>5, <2>1 DEF KeptOK
<1>8. StepOK'
  BY <1>1, <1>2, <1>3 DEF StepOK, SameTexts
<1>9. QED
  BY <1>3, <1>6, <1>7, <1>8, TypeParts, PTL

\* the end of process_file,
LEMMA EndTypes == TypeOK /\ Busy /\ process_fileEnd => TypeOK'
<1> SUFFICES ASSUME TypeOK, Busy, process_fileEnd PROVE TypeOK'
  OBVIOUS
<1>1. ArgsOK /\ KeptOK /\ StepOK
  BY TypeParts
<1>2. /\ step = "free" /\ SameTexts
      /\ UNCHANGED <<args, code, seeded, strtab, asm, obj, exe, unwritten>>
  BY DEF process_fileEnd, SameTexts, lexer, disk
<1>3. arg \in 1 .. arg
  BY <1>2, ThisOne
<1>4. CASE Undefined /\ UNCHANGED <<list, exit_code>>
  <2>1. failed' \subseteq 1 .. arg /\ (step' = "exited" <=> status' # None) /\ step' = "exited"
    BY <1>2, <1>4, FailTypes DEF Undefined
  <2>2. TextOK' /\ ModesOK' /\ ReadingOK' /\ arg' = arg /\ tree' \in Seq(Tokens)
    BY <1>2, <2>1, SameTextsTypes
  <2>3. ArgsOK' /\ KeptOK' /\ StepOK'
    BY <1>1, <1>2, <1>4, <2>1, <2>2 DEF ArgsOK, KeptOK, StepOK
  <2>4. QED
    BY <2>2, <2>3, TypeParts, PTL
<1>5. CASE /\ list' = "freed" /\ UNCHANGED status
           /\ exit_code' \in {exit_code, 3} /\ failed' \in {failed, failed \cup {arg}}
           /\ step' \in {"main", "assemble"}
  <2>1. TextOK' /\ ModesOK' /\ ReadingOK' /\ arg' = arg /\ tree' \in Seq(Tokens) /\ (Closed <=> Closed')
    BY <1>2, <1>5, SameTextsTypes
  <2>2. ArgsOK' /\ KeptOK' /\ StepOK'
    BY <1>1, <1>2, <1>3, <1>5, <2>1 DEF ArgsOK, KeptOK, StepOK, SameTexts
  <2>3. QED
    BY <2>1, <2>2, TypeParts, PTL
<1>6. QED
  BY <1>4, <1>5 DEF process_fileEnd, Return

\* as and cc, and
LEMMA ToolTypes == TypeOK /\ Busy /\ (assemble \/ link) => TypeOK'
<1> SUFFICES ASSUME TypeOK, Busy, assemble \/ link PROVE TypeOK'
  OBVIOUS
<1>1. ArgsOK /\ KeptOK /\ StepOK
  BY TypeParts
<1>2. /\ step \in {"assemble", "link"} /\ SameTexts
      /\ UNCHANGED <<args, exit_code, code, list, seeded, strtab, asm, unwritten>>
  BY DEF assemble, link, SameTexts, lexer, globals
<1>3. This.stem \in Stems /\ Source \in {None, Old} \cup 1 .. arg
  BY <1>2, ThisOne
<1>4. obj' \in [Stems -> {None, Old} \cup 1 .. arg] /\ exe' \in [Stems -> {None, Old} \cup 1 .. arg]
  <2>1. CASE assemble
    BY <1>1, <1>3, <2>1 DEF assemble, KeptOK
  <2>2. CASE link
    <3>1. obj[This.stem] \in {None, Old} \cup 1 .. arg
      BY <1>1, <1>3 DEF KeptOK
    <3>2. QED
      BY <1>1, <1>3, <2>2, <3>1 DEF link, KeptOK
  <2>3. QED
    BY <2>1, <2>2
<1>5. CASE step' \in {"main", "link"} /\ UNCHANGED <<status, failed>>
  <2>1. TextOK' /\ ModesOK' /\ ReadingOK' /\ arg' = arg /\ tree' \in Seq(Tokens) /\ (Closed <=> Closed')
    BY <1>2, <1>5, SameTextsTypes
  <2>2. ArgsOK' /\ KeptOK' /\ StepOK'
    BY <1>1, <1>2, <1>4, <1>5, <2>1 DEF ArgsOK, KeptOK, StepOK, SameTexts
  <2>3. QED
    BY <2>1, <2>2, TypeParts, PTL
<1>6. CASE Fail(1)
  <2>1. failed' \subseteq 1 .. arg /\ (step' = "exited" <=> status' # None) /\ step' = "exited"
    BY <1>2, <1>6, FailTypes
  <2>2. TextOK' /\ ModesOK' /\ ReadingOK' /\ arg' = arg /\ tree' \in Seq(Tokens)
    BY <1>2, <2>1, SameTextsTypes
  <2>3. ArgsOK' /\ KeptOK' /\ StepOK'
    BY <1>1, <1>2, <1>4, <2>1, <2>2 DEF ArgsOK, KeptOK, StepOK
  <2>4. QED
    BY <2>2, <2>3, TypeParts, PTL
<1>7. QED
  BY <1>5, <1>6 DEF assemble, link

\* the return of main.
LEMMA ReturnTypes == TypeOK /\ mainReturn => TypeOK'
<1> SUFFICES ASSUME TypeOK, mainReturn PROVE TypeOK'
  OBVIOUS
<1>1. ArgsOK /\ KeptOK /\ StepOK
  BY TypeParts
<1>2. /\ SameTexts /\ step' = "exited" /\ status' = exit_code
      /\ UNCHANGED <<args, exit_code, code, list, seeded, strtab, asm, obj, exe, unwritten, failed>>
  BY DEF mainReturn, Exit, SameTexts, lexer, globals, disk
<1>3. exit_code # None
  BY <1>1, DriverAssumption DEF DriverAssumption, ArgsOK
<1>4. TextOK' /\ ModesOK' /\ ReadingOK' /\ arg' = arg /\ tree' \in Seq(Tokens)
  BY <1>2, SameTextsTypes
<1>5. ArgsOK' /\ KeptOK' /\ StepOK'
  BY <1>1, <1>2, <1>3, <1>4 DEF ArgsOK, KeptOK, StepOK
<1>6. QED
  BY <1>4, <1>5, TypeParts, PTL

\* And so does nothing.
LEMMA StutterTypes == TypeOK /\ UNCHANGED vars => TypeOK'
  BY DEF TypeOK, vars, lexer, globals, disk, arg, Closed

-----------------------------------------------------------------------------
\* Outcomes

\* A process that fails leaves only what was compiled before.
LEMMA FailKeeps ==
    ASSUME Outcome, NEW n \in {1, 2, Abort}, Fail(n), UNCHANGED <<args, code, asm, unwritten>>
    PROVE  Outcome'
<1>1. step' = "exited" /\ status' # 0 /\ failed' # {} /\ arg' = arg
  BY FailTells DEF arg
<1>2. AsmFresh'
  BY <1>1 DEF Outcome, AsmFresh, Latest
<1>3. QED
  BY <1>1, <1>2
     DEF Outcome, Busy, ExitCounts, StatusTruthful, AllCompiled, ObjFresh, ExeFresh

\* A step on the way to generated code changes no file and no status.
LEMMA QuietKeeps ==
    ASSUME Outcome, step \in {"parse", "collect"},
           step' \in {"parse", "collect", "generate", "free"},
           UNCHANGED <<flag, args, status, exit_code, code, asm, exe, failed, unwritten>>
    PROVE  Outcome'
<1>1. arg' = arg
  BY DEF arg
<1>2. Busy' /\ ExitCounts' /\ StatusTruthful' /\ ObjFresh'
  BY <1>1 DEF Outcome, Busy, ExitCounts, StatusTruthful, ObjFresh
<1>3. AsmFresh' /\ AllCompiled' /\ ExeFresh'
  BY <1>1 DEF Outcome, AsmFresh, AllCompiled, ExeFresh, Latest
<1>4. QED
  BY <1>2, <1>3 DEF Outcome

\* A new argument may supersede an older one of the same name, and is not done.
LEMMA OpenOutcome ==
    ASSUME TypeOK, Outcome, NEW a \in Args, step = "main", OpenFrame(a)
    PROVE  Outcome'
<1>1. arg \in Nat /\ arg' = arg + 1 /\ arg' # 0
  BY DEF TypeOK, OpenFrame, arg
<1>2. /\ Len(args) = arg /\ Len(code) = arg
      /\ \A i \in 1 .. arg : args'[i] = args[i] /\ code'[i] = code[i]
      /\ code'[arg + 1] = None
  BY Grows DEF TypeOK, OpenFrame, arg
<1>3. \A i \in 1 .. arg : Latest(i)' => Latest(i)
  BY <1>1, <1>2 DEF Latest
<1>4. AsmFresh'
  <2>1. ASSUME NEW i \in 1 .. arg', code'[i] # None, i \notin unwritten', Latest(i)'
        PROVE asm'[args'[i]] = i
    <3>1. i \in 1 .. arg
      BY <1>1, <1>2, <2>1
    <3>2. QED
      BY <1>2, <1>3, <2>1, <3>1 DEF Outcome, AsmFresh, OpenFrame
  <2>2. QED
    BY <2>1 DEF AsmFresh
<1>5. CASE exit_code' = 1 /\ failed' = failed \cup {arg + 1} /\ step' = "main"
  <2>1. failed' # {}
    BY <1>5
  <2>2. Busy' /\ ExitCounts' /\ StatusTruthful' /\ ObjFresh'
    BY <1>5, <2>1 DEF Busy, ExitCounts, StatusTruthful, ObjFresh
  <2>3. AllCompiled' /\ ExeFresh'
    BY <1>5, <2>1 DEF AllCompiled, ExeFresh
  <2>4. QED
    BY <1>4, <2>2, <2>3 DEF Outcome
<1>6. CASE step' = "parse" /\ UNCHANGED <<exit_code, failed>>
  <2>1. Busy' /\ ExitCounts' /\ StatusTruthful' /\ ObjFresh'
    BY <1>1, <1>6 DEF Outcome, Busy, ExitCounts, StatusTruthful, ObjFresh
  <2>2. \A i \in 1 .. arg' : i < arg' => i \in 1 .. arg
    BY <1>1
  <2>3. AllCompiled'
    BY <1>1, <1>2, <1>6, <2>2 DEF Outcome, AllCompiled
  <2>4. ExeFresh'
    BY <1>1, <1>2, <1>3, <1>6, <2>2 DEF Outcome, ExeFresh, OpenFrame
  <2>5. QED
    BY <1>4, <2>1, <2>3, <2>4 DEF Outcome
<1>7. QED
  BY <1>5, <1>6 DEF OpenFrame

\* The .s of the argument at hand is written, or was not to be opened.
LEMMA GenerateOutcome == TypeOK /\ Outcome /\ generate_code => Outcome'
<1> SUFFICES ASSUME TypeOK, Outcome, generate_code PROVE Outcome'
  OBVIOUS
<1>1. /\ step = "generate" /\ step' = "free"
      /\ UNCHANGED <<flag, args, exit_code, status, exe, failed>> /\ arg' = arg
  BY DEF generate_code, arg
<1>2. arg \in 1 .. arg /\ arg \in Nat /\ arg = Len(args) /\ This \in Args
  BY <1>1, ThisOne DEF Outcome
<1>3. /\ code \in Seq({None} \cup Compiled) /\ Len(code) = arg
      /\ \A i \in 1 .. arg : i # arg => code'[i] = code[i]
  BY <1>2 DEF TypeOK, generate_code, Compiled
<1>4. \A i \in 1 .. arg : i # arg /\ Latest(i) => args[i] # This
  BY <1>2 DEF Latest, This
<1>5. AsmFresh'
  <2>1. ASSUME NEW i \in 1 .. arg, code'[i] # None, i \notin unwritten', Latest(i)
        PROVE asm'[args[i]] = i
    <3>1. asm \in [Args -> {None, Old} \cup 1 .. arg] /\ args[i] \in Args
      BY <1>2 DEF TypeOK
    <3>2. CASE i = arg
      <4>1. asm' = [asm EXCEPT ![This] = arg]
        BY <2>1, <3>2 DEF generate_code
      <4>2. args[i] = This
        BY <3>2 DEF This
      <4>3. QED
        BY <1>2, <3>1, <3>2, <4>1, <4>2
    <3>3. CASE i # arg
      <4>1. code[i] # None /\ args[i] # This /\ i \notin unwritten
        BY <1>3, <1>4, <2>1, <3>3 DEF generate_code
      <4>2. asm[args[i]] = i
        BY <2>1, <4>1 DEF Outcome, AsmFresh
      <4>3. asm'[args[i]] = asm[args[i]]
        BY <3>1, <4>1 DEF generate_code
      <4>4. QED
        BY <4>2, <4>3
    <3>4. QED
      BY <3>2, <3>3
  <2>2. \A i : Latest(i)' <=> Latest(i)
    BY <1>1 DEF Latest
  <2>3. QED
    BY <1>1, <2>1, <2>2 DEF AsmFresh
<1>6. Busy' /\ ExitCounts' /\ StatusTruthful' /\ ObjFresh'
  BY <1>1 DEF Outcome, Busy, ExitCounts, StatusTruthful, ObjFresh
<1>7. AllCompiled'
  BY <1>1, <1>2, <1>3 DEF Outcome, AllCompiled
<1>8. ExeFresh'
  <2>1. \A i \in 1 .. arg : i \notin unwritten' => i \notin unwritten
    BY DEF generate_code
  <2>2. QED
    BY <1>1, <2>1 DEF Outcome, ExeFresh, Latest
<1>9. QED
  BY <1>5, <1>6, <1>7, <1>8 DEF Outcome

\* Without code the argument has failed; with it, it is done only under -s.
LEMMA EndOutcome == TypeOK /\ Outcome /\ process_fileEnd => Outcome'
<1> SUFFICES ASSUME TypeOK, Outcome, process_fileEnd PROVE Outcome'
  OBVIOUS
<1>1. /\ step = "free" /\ arg' = arg
      /\ UNCHANGED <<flag, args, code, asm, obj, exe, unwritten>>
  BY DEF process_fileEnd, disk, arg
<1>2. AsmFresh'
  BY <1>1 DEF Outcome, AsmFresh, Latest
<1>3. CASE Undefined
  BY <1>1, <1>3, FailKeeps DEF Undefined
<1>4. CASE /\ exit_code' = 3 /\ failed' = failed \cup {arg} /\ step' = "main"
  <2>1. failed' # {}
    BY <1>4
  <2>2. Busy' /\ ExitCounts' /\ StatusTruthful' /\ ObjFresh'
    BY <1>4, <2>1 DEF Busy, ExitCounts, StatusTruthful, ObjFresh
  <2>3. AllCompiled' /\ ExeFresh'
    BY <1>4, <2>1 DEF AllCompiled, ExeFresh
  <2>4. QED
    BY <1>2, <2>2, <2>3 DEF Outcome
<1>5. CASE /\ code[arg] # None /\ exit_code' = exit_code /\ UNCHANGED failed
           /\ step' = IF flag = "-s" THEN "main" ELSE "assemble"
  <2>1. Busy' /\ ExitCounts' /\ StatusTruthful' /\ ObjFresh'
    BY <1>1, <1>5 DEF Outcome, Busy, ExitCounts, StatusTruthful, ObjFresh
  <2>2. AllCompiled'
    <3>1. \A i \in 1 .. arg : i < arg \/ i = arg
      BY DEF TypeOK, arg
    <3>2. QED
      BY <1>1, <1>5, <3>1 DEF Outcome, AllCompiled
  <2>3. ExeFresh'
    BY <1>1, <1>5 DEF Outcome, ExeFresh, Latest
  <2>4. QED
    BY <1>2, <2>1, <2>2, <2>3 DEF Outcome
<1>6. QED
  BY <1>3, <1>4, <1>5 DEF process_fileEnd, Return

\* as makes the .o of the .s of the stem; under -c that is all.
LEMMA AssembleOutcome == TypeOK /\ Outcome /\ assemble => Outcome'
<1> SUFFICES ASSUME TypeOK, Outcome, assemble PROVE Outcome'
  OBVIOUS
<1>1. /\ step = "assemble" /\ arg' = arg
      /\ UNCHANGED <<flag, args, exit_code, code, asm, exe, unwritten>>
  BY DEF assemble, arg
<1>2. CASE Fail(1)
  BY <1>1, <1>2, FailKeeps
<1>3. CASE /\ obj' = [obj EXCEPT ![This.stem] = Source]
           /\ step' = IF flag = "-c" THEN "main" ELSE "link"
           /\ UNCHANGED <<status, failed>>
  <2>1. Busy' /\ ExitCounts' /\ StatusTruthful'
    BY <1>1, <1>3 DEF Outcome, Busy, ExitCounts, StatusTruthful
  <2>2. AsmFresh'
    BY <1>1 DEF Outcome, AsmFresh, Latest
  <2>3. AllCompiled'
    <3>1. \A i \in 1 .. arg : i < arg \/ i = arg
      BY DEF TypeOK, arg
    <3>2. QED
      BY <1>1, <1>3, <3>1 DEF Outcome, AllCompiled
  <2>4. ObjFresh'
    <3>1. This.stem \in Stems
      BY <1>1, ThisOne DEF Outcome
    <3>2. obj \in [Stems -> {None, Old} \cup 1 .. arg]
      BY DEF TypeOK
    <3>3. obj'[This.stem] = Source
      BY <1>3, <3>1, <3>2
    <3>4. This' = This /\ Source' = Source
      BY <1>1 DEF This, Source
    <3>5. QED
      BY <3>3, <3>4 DEF ObjFresh
  <2>5. ExeFresh'
    BY <1>1, <1>3 DEF Outcome, ExeFresh, Latest
  <2>6. QED
    BY <2>1, <2>2, <2>3, <2>4, <2>5 DEF Outcome
<1>4. QED
  BY <1>2, <1>3 DEF assemble

\* cc makes the executable of the .o just made; an older argument of the same
\* stem without a dot is of the same .s, which is still its own.
LEMMA LinkOutcome == TypeOK /\ Outcome /\ link => Outcome'
<1> SUFFICES ASSUME TypeOK, Outcome, link PROVE Outcome'
  OBVIOUS
<1>1. /\ step = "link" /\ arg' = arg
      /\ UNCHANGED <<flag, args, exit_code, code, asm, obj, unwritten>>
  BY DEF link, arg
<1>2. CASE Fail(1)
  BY <1>1, <1>2, FailKeeps
<1>3. CASE /\ exe' = [exe EXCEPT ![This.stem] = obj[This.stem]]
           /\ step' = "main" /\ UNCHANGED <<status, failed>>
  <2>1. Busy' /\ ExitCounts' /\ StatusTruthful' /\ ObjFresh'
    BY <1>1, <1>3 DEF Outcome, Busy, ExitCounts, StatusTruthful, ObjFresh
  <2>2. AsmFresh'
    BY <1>1 DEF Outcome, AsmFresh, Latest
  <2>3. \A i \in 1 .. arg : i < arg \/ i = arg
    BY DEF TypeOK, arg
  <2>4. AllCompiled'
    BY <1>1, <1>3, <2>3 DEF Outcome, AllCompiled
  <2>5. ASSUME failed = {}, flag = "", NEW i \in 1 .. arg,
               ~args[i].dotted, i \notin unwritten, Latest(i)
        PROVE exe'[args[i].stem] = i
    <3>1. /\ args[i] \in Args /\ This.stem \in Stems
          /\ exe \in [Stems -> {None, Old} \cup 1 .. arg]
      <4>1. This.stem \in Stems /\ arg = Len(args)
        BY <1>1, ThisOne DEF Outcome
      <4>2. args \in Seq(Args) /\ exe \in [Stems -> {None, Old} \cup 1 .. arg]
        BY DEF TypeOK
      <4>3. args[i] \in Args
        BY <4>1, <4>2
      <4>4. QED
        BY <4>1, <4>2, <4>3
    <3>2. args[i].stem \in Stems /\ args[i] = [stem |-> args[i].stem, dotted |-> FALSE]
      <4>1. args[i].stem \in Stems /\ args[i].dotted \in BOOLEAN
            /\ args[i] = [stem |-> args[i].stem, dotted |-> args[i].dotted]
        BY <3>1 DEF Args
      <4>2. args[i].dotted = FALSE
        BY <2>5, <4>1
      <4>3. QED
        BY <4>1, <4>2
    <3>3. CASE args[i].stem = This.stem
      <4>1. exe'[args[i].stem] = Source
        BY <1>1, <1>3, <3>1, <3>3 DEF Outcome, ObjFresh
      <4>2. Source = asm[args[i]]
        BY <3>2, <3>3 DEF Source
      <4>3. code[i] # None
        BY <1>1, <2>3, <2>5 DEF Outcome, AllCompiled
      <4>4. QED
        BY <2>5, <4>1, <4>2, <4>3 DEF Outcome, AsmFresh
    <3>4. CASE args[i].stem # This.stem
      <4>1. i < arg
        BY <2>3, <3>4 DEF This
      <4>2. exe[args[i].stem] = i
        BY <2>5, <4>1 DEF Outcome, ExeFresh
      <4>3. QED
        BY <1>3, <3>1, <3>2, <3>4, <4>2
    <3>5. QED
      BY <3>3, <3>4
  <2>6. ExeFresh'
    <3>1. \A i \in 1 .. arg : Latest(i)' => Latest(i)
      BY <1>1 DEF Latest
    <3>2. SUFFICES ASSUME failed = {}, flag = "", NEW i \in 1 .. arg,
                          ~args[i].dotted, i \notin unwritten, Latest(i)'
                   PROVE  exe'[args[i].stem] = i
      BY <1>1, <1>3 DEF ExeFresh
    <3>3. QED
      BY <2>5, <3>1, <3>2
  <2>7. QED
    BY <2>1, <2>2, <2>4, <2>6 DEF Outcome
<1>4. QED
  BY <1>2, <1>3 DEF link

\* The exit status of main is 0 if no argument failed.
LEMMA ReturnOutcome == TypeOK /\ Outcome /\ mainReturn => Outcome'
<1> SUFFICES ASSUME TypeOK, Outcome, mainReturn PROVE Outcome'
  OBVIOUS
<1>1. /\ step = "main" /\ step' = "exited" /\ status' = exit_code /\ arg' = arg
      /\ UNCHANGED <<flag, args, exit_code, code, asm, obj, exe, failed, unwritten>>
  BY DEF mainReturn, Exit, disk, arg
<1>2. Busy' /\ ExitCounts' /\ StatusTruthful' /\ ObjFresh'
  BY <1>1 DEF Outcome, Busy, ExitCounts, StatusTruthful, ObjFresh
<1>3. AsmFresh' /\ AllCompiled' /\ ExeFresh'
  BY <1>1 DEF Outcome, AsmFresh, AllCompiled, ExeFresh, Latest
<1>4. QED
  BY <1>2, <1>3 DEF Outcome

-----------------------------------------------------------------------------
\* Theorems

\* Before the first argument nothing is wrong.
LEMMA InitInv == Init => IInv
<1> SUFFICES ASSUME Init PROVE Outcome
  BY TypesInit DEF IInv
<1>1. arg = 0 /\ failed = {} /\ step = "main" /\ exit_code = 0
  BY DEF Init, arg
<1>2. \A i \in 1 .. arg : FALSE
  BY <1>1
<1>3. QED
  BY <1>1, <1>2
     DEF Outcome, Busy, ExitCounts, StatusTruthful, AsmFresh, AllCompiled, ObjFresh, ExeFresh

\* No step of the lexer, the passes, the tools or main breaks the invariant.
LEMMA NextInv == IInv /\ [Next]_vars => IInv'
<1> SUFFICES ASSUME IInv, [Next]_vars PROVE IInv'
  OBVIOUS
<1>0. TypeOK /\ Outcome /\ Busy
  BY DEF IInv, Outcome
<1>1. CASE yylex
  <2>1. LexFrame
    BY <1>0, <1>1, LexerStep DEF LexOK
  <2>2. Outcome'
    BY <1>0, <2>1, QuietKeeps, FailKeeps DEF LexFrame
  <2>3. QED
    BY <1>0, <1>1, <2>2, LexerTypes DEF IInv
<1>2. ASSUME NEW a \in Args, Open(a) PROVE IInv'
  BY <1>0, <1>2, OpenTypes, OpenOutcome DEF IInv, Open
<1>3. CASE printsyms
  <2>1. Outcome'
    BY <1>0, <1>3, QuietKeeps, FailKeeps DEF printsyms, Undefined, disk
  <2>2. QED
    BY <1>0, <1>3, <2>1, CollectTypes DEF IInv
<1>4. CASE generate_code
  BY <1>0, <1>4, GenerateTypes, GenerateOutcome DEF IInv
<1>5. CASE process_fileEnd
  BY <1>0, <1>5, EndTypes, EndOutcome DEF IInv
<1>6. CASE assemble
  BY <1>0, <1>6, ToolTypes, AssembleOutcome DEF IInv
<1>7. CASE link
  BY <1>0, <1>7, ToolTypes, LinkOutcome DEF IInv
<1>8. CASE mainReturn
  BY <1>0, <1>8, ReturnTypes, ReturnOutcome DEF IInv
<1>9. CASE UNCHANGED vars
  <2>1. Outcome'
    BY <1>0, <1>9
       DEF Outcome, Busy, ExitCounts, StatusTruthful, AsmFresh, AllCompiled, ObjFresh, ExeFresh,
           Latest, This, Source, arg, vars, disk
  <2>2. QED
    BY <1>0, <1>9, <2>1, StutterTypes DEF IInv
<1>10. QED
  BY <1>1, <1>2, <1>3, <1>4, <1>5, <1>6, <1>7, <1>8, <1>9 DEF Next, Exited

\* The invariant, for every command line.
LEMMA Invariance == Spec => []IInv
  BY InitInv, NextInv, PTL DEF Spec

\* The lexer's mode and depth agree at every point of every text, also after
\* files that end in the middle, flex reads a file whose end it has not seen, and
\* only a parsed file is compiled.
THEOREM TypeCorrect == Spec => []TypeOK
  BY Invariance, PTL DEF IInv

\* The process ends with 0 exactly if every argument was opened, compiled,
\* assembled and linked, for any number of files: an error is never forgotten
\* over the files that follow it (main.c 511-533).
THEOREM StatusAlwaysTruthful == Spec => []StatusTruthful
<1>1. IInv => StatusTruthful
  BY DEF IInv, Outcome
<1>2. QED
  BY <1>1, Invariance, PTL

\* If the process ends with 0, the executable of each file that is the last of its
\* name, has no second dot and whose .s could be written, comes from that file.
THEOREM ExecutablesFresh == Spec => []SuccessIsFresh
<1>1. IInv => SuccessIsFresh
  <2> SUFFICES ASSUME IInv, status = 0, flag = "" PROVE SuccessIsFresh
    BY DEF SuccessIsFresh
  <2>1. status # None
    <3>1. None \notin Nat
      BY DriverAssumption DEF DriverAssumption
    <3>2. status \in Nat
      OBVIOUS
    <3>3. QED
      BY <3>1, <3>2
  <2>2. step = "exited" /\ failed = {}
    BY <2>1 DEF IInv, TypeOK, Outcome, StatusTruthful
  <2>3. \A i \in 1 .. arg : (\A j \in i + 1 .. arg : args[j] # args[i]) <=> Latest(i)
    BY DEF Latest
  <2>4. QED
    BY <2>2, <2>3 DEF IInv, Outcome, ExeFresh, SuccessIsFresh
<1>2. QED
  BY <1>1, Invariance, PTL

-----------------------------------------------------------------------------
\* A text, piece by piece

\* Readings that are right for the first k pieces.
Reads(r, t, k) == r = [n \in 0 .. k |-> IF n = 0 THEN Blank ELSE Read(r[n - 1], t[n])]

\* Every text has readings.
LEMMA ReadingsExist == \A t : \A k \in Nat : \E r : Reads(r, t, k)
<1> SUFFICES ASSUME NEW t PROVE \A k \in Nat : \E r : Reads(r, t, k)
  OBVIOUS
<1> DEFINE Reached == {k \in Nat : \E r : Reads(r, t, k)}
<1>1. 0 \in Reached
  <2> DEFINE r == [n \in 0 .. 0 |-> Blank]
  <2>1. Reads(r, t, 0)
    BY DEF Reads
  <2>2. QED
    BY <2>1
<1>2. ASSUME NEW k \in Nat, k \in Reached PROVE k + 1 \in Reached
  <2>1. PICK r : Reads(r, t, k)
    BY <1>2
  <2> DEFINE last == Read(r[k], t[k + 1])
             next == [n \in 0 .. k + 1 |-> IF n \in 0 .. k THEN r[n] ELSE last]
  <2>2. \A n \in 0 .. k : r[n] = IF n = 0 THEN Blank ELSE Read(r[n - 1], t[n])
    BY <2>1 DEF Reads
  <2>3. ASSUME NEW n \in 0 .. k + 1
        PROVE  next[n] = IF n = 0 THEN Blank ELSE Read(next[n - 1], t[n])
    <3>1. CASE n = 0
      BY <2>2, <3>1
    <3>2. CASE n \in 1 .. k
      <4>1. n \in 0 .. k /\ n - 1 \in 0 .. k /\ n # 0
        BY <3>2
      <4>2. next[n] = r[n] /\ next[n - 1] = r[n - 1]
        BY <4>1
      <4>3. QED
        BY <2>2, <4>1, <4>2
    <3>3. CASE n = k + 1
      <4>1. n - 1 = k /\ n \notin 0 .. k /\ n # 0 /\ k \in 0 .. k
        BY <3>3
      <4>2. next[n] = last /\ next[n - 1] = r[k]
        BY <4>1
      <4>3. QED
        BY <3>3, <4>1, <4>2
    <3>4. QED
      BY <3>1, <3>2, <3>3
  <2>4. next = [n \in 0 .. k + 1 |-> next[n]]
    OBVIOUS
  <2> HIDE DEF next
  <2>5. Reads(next, t, k + 1)
    BY <2>3, <2>4 DEF Reads
  <2>6. QED
    BY <2>5
<1>3. \A k \in Nat : k \in Reached
  <2> HIDE DEF Reached
  <2>1. QED
    BY <1>1, <1>2, InductionOnNat
<1>4. QED
  BY <1>3

\* Each piece is read after those before it.
LEMMA ReadingsUnfold ==
    ASSUME NEW t, Len(t) \in Nat
    PROVE  /\ Readings(t)[0] = Blank
           /\ \A n \in 1 .. Len(t) : Readings(t)[n] = Read(Readings(t)[n - 1], t[n])
<1> DEFINE r == CHOOSE r : r = [n \in 0 .. Len(t) |->
                                  IF n = 0 THEN Blank ELSE Read(r[n - 1], t[n])]
<1>1. PICK some : Reads(some, t, Len(t))
  BY ReadingsExist
<1>2. r = [n \in 0 .. Len(t) |-> IF n = 0 THEN Blank ELSE Read(r[n - 1], t[n])]
  <2>1. some = [n \in 0 .. Len(t) |-> IF n = 0 THEN Blank ELSE Read(some[n - 1], t[n])]
    BY <1>1 DEF Reads
  <2>2. QED
    BY <2>1, Zenon
<1>3. Readings(t) = r
  BY DEF Readings
<1> HIDE DEF r
<1>4. QED
  BY <1>2, <1>3

\* One more piece is read after all of the text.
LEMMA ReadingGrows ==
    ASSUME NEW E, NEW t \in Seq(E), NEW p \in E
    PROVE  Reading(Append(t, p)) = Read(Reading(t), p)
<1> DEFINE q == Append(t, p)
           Same == {n \in Nat : Readings(q)[n] = Readings(t)[n]}
<1>1. /\ Len(t) \in Nat /\ Len(q) = Len(t) + 1 /\ q[Len(t) + 1] = p
      /\ \A n \in 1 .. Len(t) : q[n] = t[n]
  OBVIOUS
<1> HIDE DEF q
<1>2. 0 \in Same
  BY <1>1, ReadingsUnfold
<1>3. ASSUME NEW n \in 0 .. Len(t) - 1, n \in Same PROVE n + 1 \in Same
  <2>1. n + 1 \in 1 .. Len(t) /\ n + 1 \in 1 .. Len(q) /\ (n + 1) - 1 = n /\ n + 1 \in Nat
    BY <1>1
  <2>2. Readings(t)[n + 1] = Read(Readings(t)[n], t[n + 1])
    BY <1>1, <2>1, ReadingsUnfold
  <2>3. Readings(q)[n + 1] = Read(Readings(q)[n], q[n + 1])
    BY <1>1, <2>1, ReadingsUnfold
  <2>4. QED
    BY <1>1, <1>3, <2>1, <2>2, <2>3
<1>4. \A n \in 0 .. Len(t) : n \in Same
  <2> HIDE DEF Same
  <2>1. QED
    BY <1>1, <1>2, <1>3, InductionUpTo
<1>5. Readings(q)[Len(t) + 1] = Read(Readings(q)[Len(t)], q[Len(t) + 1])
  <2>1. Len(t) + 1 \in 1 .. Len(q) /\ (Len(t) + 1) - 1 = Len(t) /\ Len(q) \in Nat
    BY <1>1
  <2>2. \A n \in 1 .. Len(q) : Readings(q)[n] = Read(Readings(q)[n - 1], q[n])
    BY <2>1, ReadingsUnfold
  <2>3. QED
    BY <2>1, <2>2
<1>6. Readings(q)[Len(t)] = Readings(t)[Len(t)]
  BY <1>1, <1>4
<1>7. QED
  BY <1>1, <1>5, <1>6 DEF Reading, q

\* Of nothing, nothing is read.
LEMMA ReadingOfNothing == Reading(<<>>) = Blank
  BY ReadingsUnfold DEF Reading

\* What reading a text can come to.
Readable == [at : {"code", "comment", "string", "unsupported", "stray"},
             depth : Int, len : Int, toks : Seq(Tokens)]

\* What has been read, by its fields.
Got(at, depth, len, toks) == [at |-> at, depth |-> depth, len |-> len, toks |-> toks]

\* A reading is known by its four fields.
LEMMA GotFacts ==
    ASSUME NEW r \in Readable
    PROVE  /\ r = Got(r.at, r.depth, r.len, r.toks)
           /\ r.at \in {"code", "comment", "string", "unsupported", "stray"}
           /\ r.depth \in Int /\ r.len \in Int /\ r.toks \in Seq(Tokens)
  BY DEF Readable, Got

\* Four fields of the right kind make a reading.
LEMMA GotTyped ==
    ASSUME NEW at \in {"code", "comment", "string", "unsupported", "stray"},
           NEW depth \in Int, NEW len \in Int, NEW toks \in Seq(Tokens)
    PROVE  Got(at, depth, len, toks) \in Readable
  BY DEF Readable, Got

\* What a piece does in code, in a comment, in a string and after the end.
LEMMA ReadCode ==
    ASSUME NEW r \in Readable, NEW p \in Pieces, r.at = "code"
    PROVE  /\ p = "/*" => Read(r, p) = Got("comment", 1, r.len, r.toks)
           /\ p = "quote" => Read(r, p) = Got("string", r.depth, 0, r.toks)
           /\ p = "{" => Read(r, p) = Got("string", r.depth, 1, Append(r.toks, p))
           /\ p \in Plain => Read(r, p) = Got("code", r.depth, r.len, Append(r.toks, p))
           /\ p = "class" => Read(r, p) = Got("unsupported", r.depth, r.len, r.toks)
           /\ p \in {"*/", "$"} => Read(r, p) = Got("stray", r.depth, r.len, r.toks)
<1> DEFINE toks == r.toks
<1>1. r = [at |-> "code", depth |-> r.depth, len |-> r.len, toks |-> toks]
  BY GotFacts DEF Got
<1> HIDE DEF toks
<1>2. CASE p \in {"/*", "quote"}
  BY <1>1, <1>2 DEF Read, Got, Plain
<1>3. CASE p = "{"
  BY <1>1, <1>3 DEF Read, Got, Plain
<1>4. CASE p \in Plain
  <2>1. p \notin {"/*", "quote", "{", "class", "*/", "$"}
    BY <1>4 DEF Plain
  <2>2. Read(r, p) = [r EXCEPT !.toks = Append(@, p)]
    BY <2>1, <1>4 DEF Read
  <2>3. QED
    BY <1>1, <2>1, <2>2 DEF Got
<1>5. CASE p \in {"class", "*/", "$"}
  BY <1>1, <1>5 DEF Read, Got, Plain
<1>6. QED
  BY <1>2, <1>3, <1>4, <1>5 DEF Pieces

\* What one piece does inside a comment.
LEMMA ReadComment ==
    ASSUME NEW r \in Readable, NEW p \in Pieces, r.at = "comment"
    PROVE  /\ p = "/*" => Read(r, p) = Got("comment", r.depth + 1, r.len, r.toks)
           /\ p = "*/" => Read(r, p) = Got(IF r.depth = 1 THEN "code" ELSE "comment",
                                           r.depth - 1, r.len, r.toks)
           /\ p \notin {"/*", "*/"} => Read(r, p) = r
<1>1. r = [at |-> "comment", depth |-> r.depth, len |-> r.len, toks |-> r.toks]
  BY GotFacts DEF Got
<1>2. QED
  BY <1>1 DEF Read, Got

\* What one piece does inside a raw string.
LEMMA ReadString ==
    ASSUME NEW r \in Readable, NEW p \in Pieces, r.at = "string"
    PROVE  /\ p = "quote" => Read(r, p) =
                 Got("code", r.depth, r.len,
                     Append(r.toks, IF r.len = 0 THEN "emptyRaw" ELSE "raw"))
           /\ p # "quote" => Read(r, p) = Got("string", r.depth, r.len + 1, r.toks)
<1>1. r = [at |-> "string", depth |-> r.depth, len |-> r.len, toks |-> r.toks]
  BY GotFacts DEF Got
<1>2. QED
  BY <1>1 DEF Read, Got

\* Nothing is read after an unsupported word or a stray character.
LEMMA ReadEnded ==
    ASSUME NEW r, r.at \in {"unsupported", "stray"}, NEW p
    PROVE  Read(r, p) = r
  BY DEF Read

\* A piece more comes to the like.
LEMMA ReadTyped ==
    ASSUME NEW r \in Readable, NEW p \in Pieces
    PROVE  Read(r, p) \in Readable
<1>0. /\ r.depth \in Int /\ r.len \in Int /\ r.toks \in Seq(Tokens)
      /\ r.depth + 1 \in Int /\ r.depth - 1 \in Int /\ r.len + 1 \in Int /\ 0 \in Int /\ 1 \in Int
  BY GotFacts
<1>1. \A t \in Tokens : Append(r.toks, t) \in Seq(Tokens)
  BY <1>0
<1>2. CASE r.at = "code"
  <2>1. CASE p \in Plain
    <3>1. p \in Tokens /\ Read(r, p) = Got("code", r.depth, r.len, Append(r.toks, p))
      BY <1>2, <2>1, PieceIsOne, ReadCode
    <3>2. QED
      BY <1>0, <1>1, <3>1, GotTyped
  <2>2. CASE p = "{"
    <3>1. p \in Tokens /\ Read(r, p) = Got("string", r.depth, 1, Append(r.toks, p))
      BY <1>2, <2>2, PieceIsOne, ReadCode
    <3>2. QED
      BY <1>0, <1>1, <3>1, GotTyped
  <2>3. CASE p \in {"quote", "/*", "*/", "class", "$"}
    <3>1. \E at \in {"comment", "string", "unsupported", "stray"} : \E d, n \in Int :
             Read(r, p) = Got(at, d, n, r.toks)
      BY <1>0, <1>2, <2>3, ReadCode
    <3>2. QED
      BY <1>0, <3>1, GotTyped
  <2>4. QED
    BY <2>1, <2>2, <2>3 DEF Pieces
<1>3. CASE r.at = "comment"
  <2>1. \/ Read(r, p) = r
        \/ \E at \in {"comment", "code"} : \E d \in Int : Read(r, p) = Got(at, d, r.len, r.toks)
    BY <1>0, <1>3, ReadComment
  <2>2. QED
    BY <1>0, <2>1, GotTyped
<1>4. CASE r.at = "string"
  <2> DEFINE t == IF r.len = 0 THEN "emptyRaw" ELSE "raw"
  <2>1. CASE p = "quote"
    <3>1. t \in Tokens
      BY PieceIsOne
    <3>2. Read(r, p) = Got("code", r.depth, r.len, Append(r.toks, t))
      BY <1>4, <2>1, ReadString
    <3> HIDE DEF t
    <3>3. QED
      BY <1>0, <1>1, <3>1, <3>2, GotTyped
  <2>2. CASE p # "quote"
    <3>1. Read(r, p) = Got("string", r.depth, r.len + 1, r.toks)
      BY <1>4, <2>2, ReadString
    <3>2. QED
      BY <1>0, <3>1, GotTyped
  <2>3. QED
    BY <2>1, <2>2
<1>5. CASE r.at \in {"unsupported", "stray"}
  BY <1>5, ReadEnded
<1>6. QED
  BY <1>2, <1>3, <1>4, <1>5, GotFacts

\* And so does every text.
LEMMA ReadingTyped == \A t \in Seq(Pieces) : Reading(t) \in Readable
<1> SUFFICES ASSUME NEW t \in Seq(Pieces) PROVE Reading(t) \in Readable
  OBVIOUS
<1> DEFINE Good == {n \in Nat : Readings(t)[n] \in Readable}
<1>1. 0 \in Good
  <2>1. Blank = Got("code", 0, 0, <<>>) /\ <<>> \in Seq(Tokens)
    BY DEF Blank, Got
  <2>2. Blank \in Readable
    <3>1. 0 \in Int /\ "code" \in {"code", "comment", "string", "unsupported", "stray"}
      OBVIOUS
    <3>2. Got("code", 0, 0, <<>>) \in Readable
      BY <2>1, <3>1, GotTyped
    <3>3. QED
      BY <2>1, <3>2
  <2>3. Readings(t)[0] = Blank
    BY ReadingsUnfold
  <2>4. QED
    BY <2>2, <2>3
<1>2. ASSUME NEW n \in 0 .. Len(t) - 1, n \in Good PROVE n + 1 \in Good
  <2>1. n + 1 \in 1 .. Len(t) /\ (n + 1) - 1 = n /\ n + 1 \in Nat /\ t[n + 1] \in Pieces
    OBVIOUS
  <2>2. Readings(t)[n + 1] = Read(Readings(t)[n], t[n + 1])
    BY <2>1, ReadingsUnfold
  <2>3. QED
    BY <1>2, <2>1, <2>2, ReadTyped
<1>3. \A n \in 0 .. Len(t) : n \in Good
  <2> HIDE DEF Good
  <2>1. Len(t) \in Nat
    OBVIOUS
  <2>2. QED
    BY <1>1, <1>2, <2>1, InductionUpTo
<1>4. QED
  BY <1>3 DEF Reading

-----------------------------------------------------------------------------
\* Programs, token by token

Braces == {"{", "}"}
Inner == {"}", "raw", "emptyRaw"}
Opened(toks) == {k \in DOMAIN toks : toks[k] = "{"}
Shut(toks) == {k \in DOMAIN toks : toks[k] = "}"}

\* Whether the k-th token is between braces, as IsProgram has it and without Max.
LastBrace(toks, k) == Max({0} \cup {j \in 1 .. k - 1 : toks[j] \in Braces})
Within(toks, k) ==
    \E j \in 1 .. k - 1 : toks[j] = "{" /\ \A i \in j + 1 .. k - 1 : toks[i] \notin Braces

\* Raw strings and } are between braces, and nothing else is.
Sound(toks) == \A k \in DOMAIN toks : toks[k] \in Inner <=> Within(toks, k)

\* A set of numbers up to n, with 0, has a greatest one.
LEMMA MaxFacts ==
    ASSUME NEW n \in Nat, NEW T \in SUBSET (1 .. n)
    PROVE  /\ Max({0} \cup T) \in {0} \cup T
           /\ \A x \in T : x <= Max({0} \cup T)
<1> DEFINE S == {0} \cup T
           Over == {m \in Nat : \A x \in S : x <= m}
<1>1. Over \subseteq Nat /\ n \in Over
  OBVIOUS
<1>2. PICK m \in Over : \A k \in Over : m <= k
  <2> HIDE DEF Over
  <2>1. QED
    BY <1>1, LeastNatural
<1>3. m \in S
  <2>1. SUFFICES ASSUME m \notin S PROVE FALSE
    OBVIOUS
  <2>2. m \in Nat /\ \A x \in S : x <= m /\ x \in Nat
    BY <1>2
  <2>3. \A x \in S : x # m
    BY <2>1
  <2>4. 0 \in S
    OBVIOUS
  <2> HIDE DEF S
  <2>5. m # 0
    BY <2>3, <2>4
  <2>6. m - 1 \in Nat /\ \A x \in S : x <= m - 1
    BY <2>2, <2>3, <2>5
  <2>7. m - 1 \in Over
    BY <2>6
  <2>8. QED
    BY <1>2, <2>2, <2>7
<1>4. \A y \in S : m >= y
  BY <1>2
<1>5. \A x \in S : x \in Nat
  OBVIOUS
<1> HIDE DEF S
<1>6. Max(S) \in S /\ \A y \in S : Max(S) >= y
  BY <1>3, <1>4 DEF Max
<1>7. QED
  BY <1>5, <1>6 DEF S

\* The last brace before k is the one that k is within, or not.
LEMMA WithinIs ==
    ASSUME NEW toks \in Seq(Tokens), NEW k \in 1 .. Len(toks) + 1
    PROVE  (LastBrace(toks, k) # 0 /\ toks[LastBrace(toks, k)] = "{") <=> Within(toks, k)
<1> DEFINE T == {j \in 1 .. k - 1 : toks[j] \in Braces}
           last == LastBrace(toks, k)
<1>1. T \in SUBSET (1 .. k - 1) /\ k - 1 \in Nat
  OBVIOUS
<1>2. last \in {0} \cup T /\ \A x \in T : x <= last
  <2> HIDE DEF T
  <2>1. QED
    BY <1>1, MaxFacts DEF LastBrace, T
<1> HIDE DEF last
<1>3. ASSUME last # 0, toks[last] = "{" PROVE Within(toks, k)
  <2>1. last \in 1 .. k - 1
    BY <1>2, <1>3
  <2>2. \A i \in last + 1 .. k - 1 : toks[i] \notin Braces
    <3>1. SUFFICES ASSUME NEW i \in last + 1 .. k - 1, toks[i] \in Braces PROVE FALSE
      OBVIOUS
    <3>2. i \in 1 .. k - 1
      BY <2>1
    <3>3. QED
      BY <1>2, <2>1, <3>1, <3>2
  <2>3. QED
    BY <1>3, <2>1, <2>2 DEF Within
<1>4. ASSUME Within(toks, k) PROVE last # 0 /\ toks[last] = "{"
  <2>1. PICK j \in 1 .. k - 1 : toks[j] = "{" /\ \A i \in j + 1 .. k - 1 : toks[i] \notin Braces
    BY <1>4 DEF Within
  <2>2. j \in T
    BY <2>1 DEF Braces
  <2>3. j <= last /\ last \in T /\ last \in 1 .. k - 1
    <3>1. j <= last
      BY <1>2, <2>2
    <3>2. last \in {0} \cup T /\ last # 0
      BY <1>2, <3>1
    <3>3. QED
      BY <3>1, <3>2
  <2>4. ~ (last \in j + 1 .. k - 1)
    BY <2>1, <2>3 DEF T
  <2>5. j \in Nat /\ last \in Nat /\ last <= k - 1 /\ j <= last
    BY <2>3
  <2>6. last = j
    BY <2>4, <2>5
  <2>7. j # 0
    OBVIOUS
  <2>8. toks[j] = "{"
    BY <2>1, Zenon
  <2>9. QED
    BY <2>6, <2>7, <2>8
<1>5. QED
  BY <1>3, <1>4 DEF last

\* IsProgram in these words.
LEMMA ProgramIs ==
    ASSUME NEW toks \in Seq(Tokens)
    PROVE  IsProgram(toks) <=> /\ toks # <<>> /\ Sound(toks)
                               /\ Cardinality(Opened(toks)) = Cardinality(Shut(toks))
<1>1. \A k \in DOMAIN toks : k \in 1 .. Len(toks) + 1
  OBVIOUS
<1>2. \A k \in DOMAIN toks :
         LET last == Max({0} \cup {j \in 1 .. k - 1 : toks[j] \in {"{", "}"}})
             inside == last # 0 /\ toks[last] = "{"
         IN  inside <=> Within(toks, k)
  BY <1>1, WithinIs DEF LastBrace, Braces
<1>3. Sound(toks) <=>
         \A k \in DOMAIN toks :
            LET last == Max({0} \cup {j \in 1 .. k - 1 : toks[j] \in {"{", "}"}})
                inside == last # 0 /\ toks[last] = "{"
            IN  toks[k] \in {"}", "raw", "emptyRaw"} <=> inside
  BY <1>2, Zenon DEF Sound, Inner
<1>4. QED
  BY <1>3, Zenon DEF IsProgram, Opened, Shut

\* Only what is before a token counts, and a brace more turns things over.
LEMMA WithinGrows ==
    ASSUME NEW toks \in Seq(Tokens), NEW t \in Tokens
    PROVE  LET more == Append(toks, t)
               n == Len(toks)
           IN  /\ \A k \in 1 .. n + 1 : Within(more, k) <=> Within(toks, k)
               /\ Within(more, n + 2) <=> t = "{" \/ (t # "}" /\ Within(toks, n + 1))
<1> DEFINE more == Append(toks, t)
           n == Len(toks)
<1>1. n \in Nat /\ more[n + 1] = t /\ \A k \in 1 .. n : more[k] = toks[k]
  OBVIOUS
<1> HIDE DEF more, n
<1>2. ASSUME NEW k \in 1 .. n + 1 PROVE Within(more, k) <=> Within(toks, k)
  <2>1. \A j \in 1 .. k - 1 : j \in 1 .. n /\ more[j] = toks[j]
    BY <1>1
  <2>2. \A j \in 1 .. k - 1 : \A i \in j + 1 .. k - 1 : i \in 1 .. k - 1
    BY <1>1
  <2>3. QED
    BY <2>1, <2>2 DEF Within
<1>3. CASE t = "{"
  <2>1. n + 1 \in 1 .. (n + 2) - 1 /\ \A i \in (n + 1) + 1 .. (n + 2) - 1 : FALSE
    BY <1>1
  <2>2. Within(more, n + 2)
    BY <1>1, <1>3, <2>1 DEF Within
  <2>3. QED
    BY <1>2, <1>3, <2>2 DEF more, n
<1>4. CASE t = "}"
  <2>1. ASSUME NEW j \in 1 .. (n + 2) - 1, more[j] = "{",
               \A i \in j + 1 .. (n + 2) - 1 : more[i] \notin Braces
        PROVE  FALSE
    <3>1. j # n + 1
      BY <1>1, <1>4, <2>1
    <3>2. n + 1 \in j + 1 .. (n + 2) - 1
      BY <1>1, <3>1
    <3>3. QED
      BY <1>1, <1>4, <2>1, <3>2 DEF Braces
  <2>2. ~Within(more, n + 2)
    BY <2>1 DEF Within
  <2>3. QED
    BY <1>2, <1>4, <2>2 DEF more, n
<1>5. CASE t \notin Braces
  <2>1. ASSUME Within(more, n + 2) PROVE Within(toks, n + 1)
    <3>1. PICK j \in 1 .. (n + 2) - 1 : /\ more[j] = "{"
                                        /\ \A i \in j + 1 .. (n + 2) - 1 : more[i] \notin Braces
      BY <2>1 DEF Within
    <3>2. j # n + 1
      BY <1>1, <1>5, <3>1 DEF Braces
    <3>3. j \in 1 .. (n + 1) - 1 /\ j \in 1 .. n
          /\ \A i \in j + 1 .. (n + 1) - 1 : i \in 1 .. n /\ i \in j + 1 .. (n + 2) - 1
      BY <1>1, <3>2
    <3>4. toks[j] = "{" /\ \A i \in j + 1 .. (n + 1) - 1 : toks[i] \notin Braces
      BY <1>1, <3>1, <3>3
    <3>5. QED
      BY <3>3, <3>4 DEF Within
  <2>2. ASSUME Within(toks, n + 1) PROVE Within(more, n + 2)
    <3>1. PICK j \in 1 .. (n + 1) - 1 : /\ toks[j] = "{"
                                        /\ \A i \in j + 1 .. (n + 1) - 1 : toks[i] \notin Braces
      BY <2>2 DEF Within
    <3>2. j \in 1 .. n /\ j \in 1 .. (n + 2) - 1
      BY <1>1
    <3>3. ASSUME NEW i \in j + 1 .. (n + 2) - 1 PROVE more[i] \notin Braces
      <4>1. CASE i = n + 1
        BY <1>1, <1>5, <4>1
      <4>2. CASE i # n + 1
        <5>1. i \in 1 .. n /\ i \in j + 1 .. (n + 1) - 1
          BY <1>1, <3>2, <4>2
        <5>2. QED
          BY <1>1, <3>1, <5>1
      <4>3. QED
        BY <4>1, <4>2
    <3>4. QED
      BY <1>1, <3>1, <3>2, <3>3 DEF Within
  <2>3. t \notin {"{", "}"}
    BY <1>5 DEF Braces
  <2>4. QED
    BY <1>2, <2>1, <2>2, <2>3 DEF more, n
<1>6. QED
  BY <1>3, <1>4, <1>5 DEF Braces

\* The braces of a token more.
LEMMA BracesGrow ==
    ASSUME NEW toks \in Seq(Tokens), NEW t \in Tokens
    PROVE  LET more == Append(toks, t)
               opened == Cardinality(Opened(toks))
               shut == Cardinality(Shut(toks))
           IN  /\ opened \in Nat /\ shut \in Nat
               /\ Cardinality(Opened(more)) = IF t = "{" THEN opened + 1 ELSE opened
               /\ Cardinality(Shut(more)) = IF t = "}" THEN shut + 1 ELSE shut
<1> DEFINE more == Append(toks, t)
           n == Len(toks)
<1>1. n \in Nat /\ DOMAIN toks = 1 .. n /\ DOMAIN more = 1 .. n + 1 /\ more[n + 1] = t
      /\ \A k \in 1 .. n : more[k] = toks[k]
  OBVIOUS
<1> HIDE DEF more, n
<1>2. Opened(toks) \in SUBSET (1 .. n) /\ Shut(toks) \in SUBSET (1 .. n)
  BY <1>1 DEF Opened, Shut
<1>3. IsFiniteSet(1 .. n)
  BY <1>1, FS_Interval
<1>4. IsFiniteSet(Opened(toks)) /\ IsFiniteSet(Shut(toks))
  BY <1>2, <1>3, FS_Subset
<1>5. Cardinality(Opened(toks)) \in Nat /\ Cardinality(Shut(toks)) \in Nat
  BY <1>4, FS_CardinalityType
<1>6. n + 1 \notin Opened(toks) /\ n + 1 \notin Shut(toks)
  BY <1>1, <1>2
<1>7. \A k : k \in 1 .. n + 1 <=> k \in 1 .. n \/ k = n + 1
  BY <1>1
<1>8. /\ Opened(more) = IF t = "{" THEN Opened(toks) \cup {n + 1} ELSE Opened(toks)
      /\ Shut(more) = IF t = "}" THEN Shut(toks) \cup {n + 1} ELSE Shut(toks)
  <2>1. \A k : /\ k \in Opened(more) <=> k \in Opened(toks) \/ (k = n + 1 /\ t = "{")
               /\ k \in Shut(more) <=> k \in Shut(toks) \/ (k = n + 1 /\ t = "}")
    BY <1>1, <1>7 DEF Opened, Shut
  <2>2. QED
    BY <2>1
<1>9. /\ Cardinality(Opened(toks) \cup {n + 1}) = Cardinality(Opened(toks)) + 1
      /\ Cardinality(Shut(toks) \cup {n + 1}) = Cardinality(Shut(toks)) + 1
  BY <1>4, <1>6, FS_AddElement
<1>10. QED
  BY <1>5, <1>8, <1>9 DEF more

\* What the parser has accepted so far is the beginning of a program.
WellRead(toks) ==
    /\ Sound(toks)
    /\ Cardinality(Opened(toks)) =
          IF Within(toks, Len(toks) + 1) THEN Cardinality(Shut(toks)) + 1
          ELSE Cardinality(Shut(toks))
    /\ Within(toks, Len(toks) + 1) <=>
          ~ (toks = <<>> \/ toks[Len(toks)] \in {"fun", "rand", "bad", "}"})

\* The parser takes exactly the tokens that keep it so.
LEMMA AgreesExactly ==
    ASSUME tree \in Seq(Tokens), WellRead(tree), NEW t \in Tokens
    PROVE  /\ Agrees(t) => WellRead(Append(tree, t))
           /\ ~Agrees(t) => ~Sound(Append(tree, t))
<1> DEFINE more == Append(tree, t)
           n == Len(tree)
           in == Within(tree, n + 1)
<1>1. /\ n \in Nat /\ Len(more) = n + 1 /\ more[n + 1] = t /\ more # <<>>
      /\ DOMAIN more = 1 .. n + 1 /\ DOMAIN tree = 1 .. n
      /\ \A k \in 1 .. n : more[k] = tree[k]
  OBVIOUS
<1>2. /\ \A k \in 1 .. n + 1 : Within(more, k) <=> Within(tree, k)
      /\ Within(more, n + 2) <=> t = "{" \/ (t # "}" /\ in)
  BY WithinGrows
<1>3. Closed <=> ~in
  BY DEF WellRead, Closed
<1>4. Agrees(t) <=> (t \in Inner <=> in)
  BY <1>3 DEF Agrees, Inner, Tokens, Plain
<1>5. /\ Cardinality(Opened(tree)) \in Nat /\ Cardinality(Shut(tree)) \in Nat
      /\ Cardinality(Opened(more)) = IF t = "{" THEN Cardinality(Opened(tree)) + 1
                                     ELSE Cardinality(Opened(tree))
      /\ Cardinality(Shut(more)) = IF t = "}" THEN Cardinality(Shut(tree)) + 1
                                   ELSE Cardinality(Shut(tree))
  BY BracesGrow
<1>6. Cardinality(Opened(tree)) = IF in THEN Cardinality(Shut(tree)) + 1
                                  ELSE Cardinality(Shut(tree))
  BY DEF WellRead
<1> HIDE DEF more, n, in
<1>7. Sound(more) <=> (t \in Inner <=> in)
  <2>1. \A k \in 1 .. n : tree[k] \in Inner <=> Within(tree, k)
    BY <1>1 DEF WellRead, Sound
  <2>2. ASSUME NEW k \in 1 .. n PROVE more[k] \in Inner <=> Within(more, k)
    <3>1. k \in 1 .. n + 1
      BY <1>1
    <3>2. QED
      BY <1>1, <1>2, <2>1, <3>1
  <2>3. n + 1 \in 1 .. n + 1 /\ \A k \in 1 .. n + 1 : k \in 1 .. n \/ k = n + 1
    BY <1>1
  <2>4. Within(more, n + 1) <=> in
    BY <1>2, <2>3 DEF in
  <2>5. QED
    BY <1>1, <2>2, <2>3, <2>4 DEF Sound
<1>8. ASSUME Agrees(t) PROVE WellRead(more)
  <2>1. t \in Inner <=> in
    BY <1>4, <1>8
  <2>2. Within(more, Len(more) + 1) <=> t = "{" \/ (t # "}" /\ in)
    <3>1. Len(more) + 1 = n + 2
      BY <1>1
    <3>2. QED
      BY <1>2, <3>1
  <2>3. t = "{" => ~in
    BY <2>1 DEF Inner
  <2>4. t = "}" => in
    BY <2>1 DEF Inner
  <2>5. Cardinality(Opened(more)) =
           IF t = "{" \/ (t # "}" /\ in) THEN Cardinality(Shut(more)) + 1
           ELSE Cardinality(Shut(more))
    BY <1>5, <1>6, <2>3, <2>4
  <2>6. ~ (more = <<>> \/ more[Len(more)] \in {"fun", "rand", "bad", "}"})
           <=> t = "{" \/ (t # "}" /\ in)
    BY <1>1, <2>1 DEF Inner, Tokens, Plain
  <2>7. QED
    BY <1>7, <2>1, <2>2, <2>5, <2>6 DEF WellRead
<1>9. QED
  BY <1>4, <1>7, <1>8 DEF more

\* The parser accepts exactly the programs.
LEMMA AcceptsPrograms ==
    ASSUME tree \in Seq(Tokens), WellRead(tree)
    PROVE  IsProgram(tree) <=> tree # <<>> /\ Closed
<1>1. Closed <=> ~Within(tree, Len(tree) + 1)
  BY DEF WellRead, Closed
<1>2. Cardinality(Shut(tree)) \in Nat
  <2>1. "fun" \in Tokens
    BY DEF Tokens, Plain
  <2>2. QED
    BY <2>1, BracesGrow
<1>3. IsProgram(tree) <=> /\ tree # <<>> /\ Sound(tree)
                          /\ Cardinality(Opened(tree)) = Cardinality(Shut(tree))
  BY ProgramIs
<1>4. /\ Sound(tree)
      /\ Cardinality(Opened(tree)) = IF Within(tree, Len(tree) + 1)
                                     THEN Cardinality(Shut(tree)) + 1 ELSE Cardinality(Shut(tree))
  BY DEF WellRead
<1>5. Cardinality(Opened(tree)) = Cardinality(Shut(tree)) <=> ~Within(tree, Len(tree) + 1)
  BY <1>2, <1>4
<1>6. QED
  BY <1>1, <1>3, <1>4, <1>5

\* Nothing is the beginning of a program.
LEMMA NothingWellRead == WellRead(<<>>) /\ ~IsProgram(<<>>)
<1>1. <<>> \in Seq(Tokens) /\ DOMAIN <<>> = {} /\ Len(<<>>) = 0
  OBVIOUS
<1>2. Sound(<<>>) /\ ~Within(<<>>, Len(<<>>) + 1) /\ Opened(<<>>) = {} /\ Shut(<<>>) = {}
  BY <1>1 DEF Sound, Within, Opened, Shut
<1>3. Cardinality(Opened(<<>>)) = Cardinality(Shut(<<>>))
  BY <1>2
<1>4. ~IsProgram(<<>>)
  BY <1>1, ProgramIs
<1>5. QED
  BY <1>2, <1>3, <1>4 DEF WellRead

-----------------------------------------------------------------------------
\* Files apart

CleanBefore(i) == \A j \in 1 .. i - 1 : Clean(text[j])

\* Tokens, mode, depth and length are those of r.
IsAt(r, toks, at, depth, len) ==
    /\ r.toks = toks
    /\ at = "INITIAL" => r.at = "code"
    /\ at = "IN_COMMENT" => r.at = "comment" /\ r.depth = depth
    /\ at = "IN_MULTILINE_STRING" => r.at = "string" /\ r.len = len

\* Lexer and parser are where r says.
LexerAgrees(r) == IsAt(r, tree, mode, comment_depth, string_pos)

\* The statics know of the code of all files.
StaticsKnow ==
    /\ seeded <=> \E j \in 1 .. arg : Has(j, "rand")
    /\ strtab <=> \E j \in 1 .. arg : Has(j, "raw")

\* A file after clean ones is read from its beginning.
InFile == step = "parse" /\ CleanBefore(arg) => reading = arg /\ LexerAgrees(Reading(text[arg]))

\* What the passes work on is what the file says.
InPasses ==
    step \in {"collect", "generate", "free"} /\ CleanBefore(arg) =>
        LET r == Reading(text[arg]) IN r.at \in {"code", "string", "stray"} /\ r.toks = tree

\* Behind a clean file the lexer is as it was at the start.
Between == step \notin {"parse", "exited"} /\ CleanBefore(arg + 1) => reading = 0 /\ mode = "INITIAL"

\* Only a file with a stray is left in the buffer.
LeftOver ==
    step # "exited" =>
        \A i \in 1 .. arg : /\ CleanBefore(i) /\ reading = i
                            /\ ~ (i = arg /\ step = "parse")
                            => Reading(text[i]).at = "stray"

\* What a pass has made of the file, or not yet.
InCode ==
    /\ step \in {"parse", "collect", "generate"} => code[arg] = None
    /\ step = "generate" => "bad" \notin Range(tree)
    /\ step = "free" =>
          \/ code[arg] = None /\ "bad" \in Range(tree)
          \/ /\ code[arg] # None /\ "bad" \notin Range(tree)
             /\ code[arg] = [tree  |-> tree,
                             srand |-> /\ Has(arg, "rand")
                                       /\ \A j \in 1 .. arg - 1 : ~Has(j, "rand"),
                             raw   |-> \E j \in 1 .. arg : Has(j, "raw")]

Apart == WellRead(tree) /\ StaticsKnow /\ InFile /\ InPasses /\ Between /\ LeftOver /\ InCode
         /\ FilesApart

\* No text changes but, after an earlier file with a stray, that one's.
TextsKept ==
    /\ \A i \in 1 .. arg : CleanBefore(i)' <=> CleanBefore(i)
    /\ \A i \in 1 .. arg - 1 : CleanBefore(i) => Reading(text'[i]) = Reading(text[i])

\* A piece more in the file in the buffer.
LEMMA PieceGrows ==
    ASSUME TypeOK, Apart, NEW p \in Pieces, Piece(p)
    PROVE  /\ TextsKept
           /\ Reading(text'[reading]) = Read(Reading(text[reading]), p)
           /\ Reading(text[reading]) \in Readable
<1>1. /\ reading \in 1 .. arg /\ arg \in Nat /\ step = "parse"
      /\ text \in Seq(Seq(Pieces)) /\ Len(text) = arg
  BY DEF TypeOK, Piece, arg
<1>2. text[reading] \in Seq(Pieces) /\ text' = [text EXCEPT ![reading] = Append(text[reading], p)]
  BY <1>1 DEF Piece
<1>3. text'[reading] = Append(text[reading], p) /\ \A i \in 1 .. arg : i # reading => text'[i] = text[i]
  BY <1>1, <1>2
<1>4. Reading(text'[reading]) = Read(Reading(text[reading]), p)
  BY <1>2, <1>3, ReadingGrows
<1>5. ASSUME reading < arg, CleanBefore(reading)
      PROVE  Reading(text[reading]).at = "stray" /\ Reading(text'[reading]) = Reading(text[reading])
  <2>1. Reading(text[reading]).at = "stray"
    BY <1>1, <1>5 DEF Apart, LeftOver
  <2>2. QED
    BY <1>4, <2>1, ReadEnded
<1>6. ASSUME NEW i \in 1 .. arg PROVE CleanBefore(i)' <=> CleanBefore(i)
  <2>1. \A j \in 1 .. i - 1 : j \in 1 .. arg
    BY <1>1
  <2>2. CASE i <= reading
    <3>1. \A j \in 1 .. i - 1 : text'[j] = text[j]
      BY <1>1, <1>3, <2>1, <2>2
    <3>2. QED
      BY <3>1 DEF CleanBefore
  <2>3. CASE i > reading /\ CleanBefore(reading)
    <3>1. Reading(text'[reading]) = Reading(text[reading])
      BY <1>1, <1>5, <2>3
    <3>2. \A j \in 1 .. i - 1 : Reading(text'[j]) = Reading(text[j])
      BY <1>3, <2>1, <3>1
    <3>3. QED
      BY <3>2 DEF CleanBefore, Clean
  <2>4. CASE i > reading /\ ~CleanBefore(reading)
    <3>1. PICK j \in 1 .. reading - 1 : ~Clean(text[j])
      BY <2>4 DEF CleanBefore
    <3>2. j \in 1 .. i - 1 /\ j \in 1 .. arg /\ j # reading
      BY <1>1, <2>4
    <3>3. text'[j] = text[j]
      BY <1>3, <3>2
    <3>4. QED
      BY <3>1, <3>2, <3>3 DEF CleanBefore
  <2>5. QED
    BY <1>1, <2>2, <2>3, <2>4
<1>7. ASSUME NEW i \in 1 .. arg - 1, CleanBefore(i) PROVE Reading(text'[i]) = Reading(text[i])
  <2>1. i \in 1 .. arg /\ i < arg
    BY <1>1
  <2>2. CASE i = reading
    BY <1>5, <1>7, <2>1, <2>2
  <2>3. CASE i # reading
    BY <1>3, <2>1, <2>3
  <2>4. QED
    BY <2>2, <2>3
<1>8. QED
  BY <1>2, <1>4, <1>6, <1>7, ReadingTyped DEF TextsKept

\* The lexer's state says what its next step owes a file after clean ones.
LexerTells ==
    CleanBefore(arg) =>
        LET r == Reading(text'[arg])
        IN  /\ step' = "parse" => reading' = arg /\ IsAt(r, tree', mode', comment_depth', string_pos')
            /\ step' = "collect" => /\ r.at \in {"code", "string", "stray"} /\ r.toks = tree'
                                    /\ r.at = "code" => reading' = 0 /\ mode' = "INITIAL"
                                    /\ reading' # 0 => r.at = "stray"
            /\ step' = "exited" /\ status' # Abort => Program(text'[arg]) = None

\* The tree is the beginning of a program, whatever the step.
TreeTells == WellRead(tree) => WellRead(tree')

\* A token more, which the parser takes or not.
LEMMA ParseTells ==
    ASSUME TypeOK, NEW r \in Readable, WellRead(tree), NEW t \in Tokens, Parse(t), step = "parse",
           r.toks = Append(tree, t)
    PROVE  /\ WellRead(tree')
           /\ \/ step' = "parse" /\ r.toks = tree'
              \/ step' = "exited" /\ (status' = Abort \/ ~IsProgram(r.toks))
<1>1. tree \in Seq(Tokens)
  BY DEF TypeOK
<1>2. CASE Agrees(t) /\ tree' = Append(tree, t) /\ step' = step
  BY <1>1, <1>2, AgreesExactly
<1>3. CASE ~Agrees(t) /\ Fail(2) /\ UNCHANGED tree
  <2>1. ~Sound(Append(tree, t)) /\ Append(tree, t) \in Seq(Tokens)
    BY <1>1, <1>3, AgreesExactly
  <2>2. ~IsProgram(r.toks)
    BY <2>1, ProgramIs
  <2>3. QED
    BY <1>3, <2>2 DEF Fail, Exit
<1>4. CASE Undefined /\ UNCHANGED tree
  BY <1>4 DEF Undefined, Fail, Exit
<1>5. QED
  BY <1>2, <1>3, <1>4 DEF Parse

\* The end of a program, or of something else.
LEMMA AcceptTells ==
    ASSUME TypeOK, NEW r \in Readable, WellRead(tree), Accept, r.toks = tree
    PROVE  step' = "collect" \/ (step' = "exited" /\ ~IsProgram(r.toks))
<1>1. tree \in Seq(Tokens)
  BY DEF TypeOK
<1>2. QED
  BY <1>1, AcceptsPrograms DEF Accept, Fail, Exit

\* Without a program in it, a text is none.
LEMMA NoProgram ==
    ASSUME NEW t, ~IsProgram(Reading(t).toks) \/ Reading(t).at \in {"comment", "unsupported"}
    PROVE  Program(t) = None
  BY DEF Program

\* The state before a rule of the lexer, in a file after clean ones.
LEMMA LexerStarts ==
    ASSUME TypeOK, Apart, step = "parse", CleanBefore(arg), Busy
    PROVE  /\ reading = arg /\ Reading(text[arg]) \in Readable
           /\ IsAt(Reading(text[arg]), tree, mode, comment_depth, string_pos)
           /\ WellRead(tree) /\ tree \in Seq(Tokens)
<1>1. text \in Seq(Seq(Pieces)) /\ Len(text) = arg /\ arg \in Nat /\ arg # 0
  BY DEF TypeOK, arg, Busy
<1>2. text[arg] \in Seq(Pieces)
  BY <1>1
<1>3. QED
  BY <1>2, ReadingTyped DEF Apart, InFile, LexerAgrees, TypeOK

\* A piece that is no token.
LEMMA SkippedTells ==
    ASSUME TypeOK, Apart, Busy, NEW p \in Pieces, Piece(p), Skip,
           \A r \in Readable : IsAt(r, tree, mode, comment_depth, string_pos) =>
                IsAt(Read(r, p), tree, mode', comment_depth', string_pos')
    PROVE  TextsKept /\ TreeTells /\ LexerTells
<1>1. step = "parse" /\ step' = "parse" /\ tree' = tree /\ reading' = reading
  BY DEF Piece, Skip
<1>2. /\ TextsKept /\ Reading(text'[reading]) = Read(Reading(text[reading]), p)
  BY PieceGrows
<1>3. ASSUME CleanBefore(arg) PROVE LexerTells
  <2>1. /\ reading = arg /\ Reading(text[arg]) \in Readable
        /\ IsAt(Reading(text[arg]), tree, mode, comment_depth, string_pos)
    BY <1>1, <1>3, LexerStarts
  <2>2. IsAt(Reading(text'[arg]), tree, mode', comment_depth', string_pos')
    BY <1>2, <2>1
  <2>3. QED
    BY <1>1, <2>1, <2>2 DEF LexerTells
<1>4. QED
  BY <1>1, <1>2, <1>3 DEF LexerTells, TreeTells

\* A piece that is the token t, or ends it.
LEMMA TakenTells ==
    ASSUME TypeOK, Apart, Busy, NEW p \in Pieces, Piece(p), NEW t \in Tokens, Parse(t),
           \A r \in Readable : IsAt(r, tree, mode, comment_depth, string_pos) =>
                IsAt(Read(r, p), Append(tree, t), mode', comment_depth', string_pos')
    PROVE  TextsKept /\ TreeTells /\ LexerTells
<1>1. step = "parse" /\ reading' = reading
  BY DEF Piece
<1>2. TextsKept /\ Reading(text'[reading]) = Read(Reading(text[reading]), p)
  BY PieceGrows
<1>3. TreeTells
  <2>1. SUFFICES ASSUME WellRead(tree) PROVE WellRead(tree')
    BY DEF TreeTells
  <2>2. tree \in Seq(Tokens)
    BY DEF TypeOK
  <2>3. QED
    BY <2>1, <2>2, AgreesExactly DEF Parse
<1>4. ASSUME CleanBefore(arg) PROVE LexerTells
  <2>1. /\ reading = arg /\ Reading(text[arg]) \in Readable
        /\ IsAt(Reading(text[arg]), tree, mode, comment_depth, string_pos) /\ WellRead(tree)
    BY <1>1, <1>4, LexerStarts
  <2> DEFINE r == Reading(text'[arg])
  <2>2. r \in Readable /\ IsAt(r, Append(tree, t), mode', comment_depth', string_pos')
    BY <1>2, <2>1, ReadTyped
  <2> HIDE DEF r
  <2>3. \/ step' = "parse" /\ r.toks = tree'
        \/ step' = "exited" /\ (status' = Abort \/ ~IsProgram(r.toks))
    BY <1>1, <2>1, <2>2, ParseTells DEF IsAt
  <2>4. CASE step' = "parse" /\ r.toks = tree'
    <3>1. IsAt(r, tree', mode', comment_depth', string_pos')
      BY <2>2, <2>4 DEF IsAt
    <3>2. QED
      BY <1>1, <2>1, <2>4, <3>1 DEF LexerTells, r
  <2>5. CASE step' = "exited" /\ (status' = Abort \/ ~IsProgram(r.toks))
    BY <2>5, NoProgram DEF LexerTells, r
  <2>6. QED
    BY <2>3, <2>4, <2>5
<1>5. QED
  BY <1>2, <1>3, <1>4 DEF LexerTells

\* What the text says the lexer is told, rule by rule.
LEMMA LexerFaithful ==
    TypeOK /\ Apart /\ Busy /\ yylex => TextsKept /\ TreeTells /\ LexerTells
<1> SUFFICES ASSUME TypeOK, Apart, Busy, yylex PROVE TextsKept /\ TreeTells /\ LexerTells
  OBVIOUS
<1>0. /\ mode \in {"INITIAL", "IN_COMMENT", "IN_MULTILINE_STRING"}
      /\ comment_depth \in Nat /\ (mode = "IN_COMMENT" <=> comment_depth > 0)
  BY DEF TypeOK
<1>1. ASSUME NEW p \in Plain, Token(p) PROVE TextsKept /\ TreeTells /\ LexerTells
  <2>1. p \in Pieces /\ p \in Tokens /\ Piece(p) /\ Parse(p) /\ mode = "INITIAL" /\ mode' = "INITIAL"
    BY <1>1, PieceIsOne DEF Token, lexer
  <2>2. ASSUME NEW r \in Readable, IsAt(r, tree, mode, comment_depth, string_pos)
        PROVE  IsAt(Read(r, p), Append(tree, p), mode', comment_depth', string_pos')
    <3>1. r.at = "code" /\ r.toks = tree
      BY <2>1, <2>2 DEF IsAt
    <3>2. Read(r, p) = Got("code", r.depth, r.len, Append(tree, p))
      BY <2>1, <3>1, ReadCode
    <3>3. QED
      BY <2>1, <3>2 DEF IsAt, Got
  <2>3. QED
    BY <2>1, <2>2, TakenTells
<1>2. CASE CommentBegins
  <2>1. "/*" \in Pieces /\ Piece("/*") /\ Skip /\ mode = "INITIAL" /\ mode' = "IN_COMMENT"
        /\ comment_depth' = 1
    BY <1>2, PieceIsOne DEF CommentBegins
  <2>2. ASSUME NEW r \in Readable, IsAt(r, tree, mode, comment_depth, string_pos)
        PROVE  IsAt(Read(r, "/*"), tree, mode', comment_depth', string_pos')
    <3>1. r.at = "code" /\ r.toks = tree
      BY <2>1, <2>2 DEF IsAt
    <3>2. Read(r, "/*") = Got("comment", 1, r.len, tree)
      BY <2>1, <3>1, ReadCode
    <3>3. QED
      BY <2>1, <3>2 DEF IsAt, Got
  <2>3. QED
    BY <2>1, <2>2, SkippedTells
<1>3. CASE StringBegins
  <2>1. mode = "INITIAL" /\ mode' = "IN_MULTILINE_STRING"
    BY <1>3 DEF StringBegins
  <2>2. CASE Piece("quote") /\ Skip /\ string_pos' = 0
    <3>1. "quote" \in Pieces
      BY PieceIsOne
    <3>2. ASSUME NEW r \in Readable, IsAt(r, tree, mode, comment_depth, string_pos)
          PROVE  IsAt(Read(r, "quote"), tree, mode', comment_depth', string_pos')
      <4>1. r.at = "code" /\ r.toks = tree
        BY <2>1, <3>2 DEF IsAt
      <4>2. Read(r, "quote") = Got("string", r.depth, 0, tree)
        BY <3>1, <4>1, ReadCode
      <4>3. QED
        BY <2>1, <2>2, <4>2 DEF IsAt, Got
    <3>3. QED
      BY <2>2, <3>1, <3>2, SkippedTells
  <2>3. CASE Piece("{") /\ Parse("{") /\ string_pos' = 1
    <3>1. "{" \in Pieces /\ "{" \in Tokens
      BY PieceIsOne
    <3>2. ASSUME NEW r \in Readable, IsAt(r, tree, mode, comment_depth, string_pos)
          PROVE  IsAt(Read(r, "{"), Append(tree, "{"), mode', comment_depth', string_pos')
      <4>1. r.at = "code" /\ r.toks = tree
        BY <2>1, <3>2 DEF IsAt
      <4> DEFINE more == Append(tree, "{")
                 r1 == Read(r, "{")
      <4>2. r1 = Got("string", r.depth, 1, more)
        BY <3>1, <4>1, ReadCode
      <4> HIDE DEF more, r1
      <4>3. IsAt(r1, more, mode', comment_depth', string_pos')
        BY <2>1, <2>3, <4>2 DEF IsAt, Got
      <4>4. QED
        BY <4>3 DEF more, r1
    <3>3. QED
      BY <2>3, <3>1, <3>2, TakenTells
  <2>4. QED
    BY <1>3, <2>2, <2>3 DEF StringBegins
<1>4. CASE Unsupported
  <2>1. "class" \in Pieces /\ Piece("class") /\ Fail(1) /\ mode = "INITIAL" /\ tree' = tree
        /\ step = "parse"
    BY <1>4, PieceIsOne DEF Unsupported, Piece
  <2>2. TextsKept /\ Reading(text'[reading]) = Read(Reading(text[reading]), "class")
    BY <2>1, PieceGrows
  <2>3. ASSUME CleanBefore(arg) PROVE Program(text'[arg]) = None
    <3>1. /\ reading = arg /\ Reading(text[arg]) \in Readable /\ Reading(text[arg]).at = "code"
      BY <2>1, <2>3, LexerStarts DEF IsAt
    <3> DEFINE r == Reading(text[arg])
    <3>2. Read(r, "class") = Got("unsupported", r.depth, r.len, r.toks)
      BY <2>1, <3>1, ReadCode
    <3>3. Reading(text'[arg]) = Read(r, "class")
      BY <2>2, <3>1
    <3> HIDE DEF r
    <3>4. Reading(text'[arg]).at = "unsupported"
      BY <3>2, <3>3 DEF Got
    <3>5. QED
      BY <3>4, NoProgram
  <2>4. step' = "exited"
    BY <2>1 DEF Fail, Exit
  <2>5. QED
    BY <2>1, <2>2, <2>3, <2>4 DEF LexerTells, TreeTells
<1>5. ASSUME NEW p \in InComment, Comment(p) PROVE TextsKept /\ TreeTells /\ LexerTells
  <2>1. p \in Pieces /\ Piece(p) /\ Skip /\ mode = "IN_COMMENT"
    BY <1>5, PieceIsOne DEF Comment
  <2>2. ASSUME NEW r \in Readable, IsAt(r, tree, mode, comment_depth, string_pos)
        PROVE  IsAt(Read(r, p), tree, mode', comment_depth', string_pos')
    <3>1. r.at = "comment" /\ r.toks = tree /\ r.depth = comment_depth /\ comment_depth \in Nat \ {0}
      BY <1>0, <2>1, <2>2 DEF IsAt
    <3>2. CASE p = "/*"
      <4>1. Read(r, p) = Got("comment", comment_depth + 1, r.len, tree)
        BY <2>1, <3>1, <3>2, ReadComment
      <4>2. mode' = "IN_COMMENT" /\ comment_depth' = comment_depth + 1
        BY <1>5, <3>1, <3>2, <2>1 DEF Comment
      <4>3. QED
        BY <4>1, <4>2 DEF IsAt, Got
    <3>3. CASE p = "*/"
      <4>1. Read(r, p) = Got(IF comment_depth = 1 THEN "code" ELSE "comment",
                             comment_depth - 1, r.len, tree)
        BY <2>1, <3>1, <3>3, ReadComment
      <4>2. comment_depth' = comment_depth - 1
        BY <1>5, <3>3 DEF Comment
      <4>3. mode' = IF comment_depth = 1 THEN "INITIAL" ELSE "IN_COMMENT"
        BY <1>5, <2>1, <3>1, <4>2 DEF Comment
      <4>4. QED
        BY <4>1, <4>2, <4>3 DEF IsAt, Got
    <3>4. CASE p \notin {"/*", "*/"}
      <4>1. Read(r, p) = r
        BY <2>1, <3>1, <3>4, ReadComment
      <4>2. mode' = "IN_COMMENT" /\ comment_depth' = comment_depth
        BY <1>5, <2>1, <3>1, <3>4 DEF Comment
      <4>3. QED
        BY <3>1, <4>1, <4>2 DEF IsAt
    <3>5. QED
      BY <3>2, <3>3, <3>4
  <2>3. QED
    BY <2>1, <2>2, SkippedTells
<1>6. ASSUME NEW p \in InString, String(p) PROVE TextsKept /\ TreeTells /\ LexerTells
  <2>1. p \in Pieces /\ Piece(p) /\ Skip /\ mode = "IN_MULTILINE_STRING" /\ mode' = mode
        /\ p # "quote" /\ string_pos' = string_pos + 1
    BY <1>6, PieceIsOne DEF String, InString
  <2>2. ASSUME NEW r \in Readable, IsAt(r, tree, mode, comment_depth, string_pos)
        PROVE  IsAt(Read(r, p), tree, mode', comment_depth', string_pos')
    <3>1. r.at = "string" /\ r.toks = tree /\ r.len = string_pos
      BY <2>1, <2>2 DEF IsAt
    <3>2. Read(r, p) = Got("string", r.depth, string_pos + 1, tree)
      BY <2>1, <3>1, ReadString
    <3>3. QED
      BY <2>1, <3>2 DEF IsAt, Got
  <2>3. QED
    BY <2>1, <2>2, SkippedTells
<1>7. CASE StringEnds
  <2> DEFINE t == IF string_pos = 0 THEN "emptyRaw" ELSE "raw"
  <2>1. "quote" \in Pieces /\ t \in Tokens /\ Piece("quote") /\ Parse(t)
        /\ mode = "IN_MULTILINE_STRING" /\ mode' = "INITIAL"
    BY <1>7, PieceIsOne DEF StringEnds
  <2>2. ASSUME NEW r \in Readable, IsAt(r, tree, mode, comment_depth, string_pos)
        PROVE  IsAt(Read(r, "quote"), Append(tree, t), mode', comment_depth', string_pos')
    <3>1. r.at = "string" /\ r.toks = tree /\ r.len = string_pos
      BY <2>1, <2>2 DEF IsAt
    <3>2. Read(r, "quote") = Got("code", r.depth, r.len, Append(tree, t))
      BY <2>1, <3>1, ReadString
    <3> HIDE DEF t
    <3>3. QED
      BY <2>1, <3>2 DEF IsAt, Got
  <2> HIDE DEF t
  <2>3. QED
    BY <2>1, <2>2, TakenTells
<1>8. ASSUME NEW p \in {"*/", "$"}, Stray(p) PROVE TextsKept /\ TreeTells /\ LexerTells
  <2>1. p \in Pieces /\ Piece(p) /\ Accept /\ mode = "INITIAL" /\ tree' = tree /\ step = "parse"
        /\ reading' = reading
    BY <1>8, PieceIsOne DEF Stray, Piece
  <2>2. TextsKept /\ Reading(text'[reading]) = Read(Reading(text[reading]), p)
    BY <2>1, PieceGrows
  <2>3. ASSUME CleanBefore(arg) PROVE LexerTells
    <3> DEFINE r == Reading(text'[arg])
    <3>1. /\ reading = arg /\ Reading(text[arg]) \in Readable /\ Reading(text[arg]).at = "code"
          /\ Reading(text[arg]).toks = tree /\ WellRead(tree)
      BY <2>1, <2>3, LexerStarts DEF IsAt
    <3>2. r.at = "stray" /\ r.toks = tree
      <4> DEFINE before == Reading(text[arg])
      <4>1. Read(before, p) = Got("stray", before.depth, before.len, tree)
        BY <2>1, <3>1, ReadCode
      <4>2. r = Read(before, p)
        BY <2>2, <3>1
      <4> HIDE DEF before, r
      <4>3. QED
        BY <4>1, <4>2 DEF Got
    <3>3. r \in Readable
      BY <2>1, <2>2, <3>1, ReadTyped
    <3> HIDE DEF r
    <3>4. step' = "collect" \/ (step' = "exited" /\ ~IsProgram(r.toks))
      BY <2>1, <3>1, <3>2, <3>3, AcceptTells
    <3>5. CASE step' = "collect"
      BY <2>1, <3>2, <3>5 DEF LexerTells, r
    <3>6. CASE step' = "exited" /\ ~IsProgram(r.toks)
      BY <3>6, NoProgram DEF LexerTells, r
    <3>7. QED
      BY <3>4, <3>5, <3>6
  <2>4. QED
    BY <2>1, <2>2, <2>3 DEF LexerTells, TreeTells
<1>9. CASE BufferEnds
  <2>1. step = "parse" /\ reading # arg /\ UNCHANGED <<text, tree, args>>
    BY <1>9 DEF BufferEnds
  <2>2. ~CleanBefore(arg)
    BY <2>1 DEF Apart, InFile
  <2>3. QED
    BY <2>1, <2>2 DEF LexerTells, TreeTells, TextsKept, CleanBefore
<1>10. CASE Eof
  <2>1. step = "parse" /\ reading = arg /\ UNCHANGED <<text, tree, args, lexer>> /\ reading' = 0
    BY <1>10 DEF Eof
  <2>2. ASSUME CleanBefore(arg) PROVE LexerTells
    <3> DEFINE r == Reading(text[arg])
    <3>1. /\ r \in Readable /\ WellRead(tree)
          /\ IsAt(r, tree, mode, comment_depth, string_pos)
      BY <2>1, <2>2, LexerStarts
    <3> HIDE DEF r
    <3>2. CASE comment_depth > 0 /\ Fail(1)
      <4>1. r.at = "comment" /\ step' = "exited"
        BY <1>0, <3>1, <3>2 DEF IsAt, Fail, Exit
      <4>2. QED
        BY <2>1, <4>1, NoProgram DEF LexerTells, r
    <3>3. CASE comment_depth = 0 /\ Accept
      <4>1. mode # "IN_COMMENT"
        BY <1>0, <3>3
      <4>2. r.toks = tree /\ r.at \in {"code", "string"} /\ (r.at = "code" => mode = "INITIAL")
        BY <1>0, <3>1, <4>1 DEF IsAt
      <4>3. step' = "collect" \/ (step' = "exited" /\ ~IsProgram(r.toks))
        BY <3>1, <3>3, <4>2, AcceptTells
      <4>4. CASE step' = "collect"
        BY <2>1, <4>2, <4>4 DEF LexerTells, r, lexer
      <4>5. CASE step' = "exited" /\ ~IsProgram(r.toks)
        BY <2>1, <4>5, NoProgram DEF LexerTells, r
      <4>6. QED
        BY <4>3, <4>4, <4>5
    <3>4. QED
      BY <1>10, <3>2, <3>3 DEF Eof
  <2>3. QED
    BY <2>1, <2>2 DEF LexerTells, TreeTells, TextsKept, CleanBefore
<1>11. QED
  BY <1>1, <1>2, <1>3, <1>4, <1>5, <1>6, <1>7, <1>8, <1>9, <1>10 DEF yylex

\* FilesApart, file by file.
FileApart(i) ==
    IF code[i] = None THEN i \in failed /\ Program(text[i]) = None
    ELSE code[i] = [tree  |-> Program(text[i]),
                    srand |-> Has(i, "rand") /\ \A j \in 1 .. i - 1 : ~Has(j, "rand"),
                    raw   |-> \E j \in 1 .. i : Has(j, "raw")]

\* The property, file by file.
LEMMA FilesApartIs ==
    FilesApart <=> \A i \in 1 .. arg : Dealt(i) /\ CleanBefore(i) => FileApart(i)
  BY DEF FilesApart, CleanBefore, FileApart

\* What is said of a file goes by its text, and by the code of the files so far.
LEMMA FileApartStays ==
    ASSUME NEW i \in Nat, FileApart(i), failed \subseteq failed',
           Program(text'[i]) = Program(text[i]), \A j \in 1 .. i : code'[j] = code[j], i # 0
    PROVE  FileApart(i)'
<1>1. /\ \A j \in 1 .. i : \A t : Has(j, t)' <=> Has(j, t)
      /\ \A j \in 1 .. i - 1 : j \in 1 .. i
      /\ i \in 1 .. i
  BY DEF Has
<1>2. /\ Has(i, "rand")' <=> Has(i, "rand")
      /\ (\A j \in 1 .. i - 1 : ~Has(j, "rand")') <=> (\A j \in 1 .. i - 1 : ~Has(j, "rand"))
      /\ (\E j \in 1 .. i : Has(j, "raw")') <=> (\E j \in 1 .. i : Has(j, "raw"))
  BY <1>1
<1>3. code'[i] = code[i]
  BY <1>1
<1>4. CASE code[i] = None
  BY <1>3, <1>4 DEF FileApart
<1>5. CASE code[i] # None
  <2> DEFINE first == Has(i, "rand") /\ \A j \in 1 .. i - 1 : ~Has(j, "rand")
             some == \E j \in 1 .. i : Has(j, "raw")
  <2>1. code[i] = [tree |-> Program(text[i]), srand |-> first, raw |-> some]
    BY <1>5 DEF FileApart
  <2>2. first' = first /\ some' = some
    BY <1>2
  <2>3. code'[i] = [tree |-> Program(text'[i]), srand |-> first', raw |-> some']
    BY <1>3, <2>1, <2>2
  <2>4. QED
    BY <1>3, <1>5, <2>3 DEF FileApart
<1>6. QED
  BY <1>4, <1>5

\* The lexer leaves the other files apart, and this one if it comes to its end.
LEMMA LexerApart == TypeOK /\ Busy /\ Apart /\ yylex => Apart'
<1> SUFFICES ASSUME TypeOK, Busy, Apart, yylex PROVE Apart'
  OBVIOUS
<1>1. TextsKept /\ TreeTells /\ LexerTells
  BY LexerFaithful
<1>2. LexFrame /\ ReadingOK'
  BY LexerStep DEF LexOK
<1>3. /\ step = "parse" /\ UNCHANGED <<args, seeded, strtab, code>> /\ arg' = arg
      /\ arg \in Nat \ {0} /\ arg \in 1 .. arg /\ failed \subseteq failed'
      /\ step' \in {"parse", "collect", "exited"}
      /\ step' = "exited" => arg \in failed'
  BY <1>2 DEF LexFrame, arg, Fail, Exit, TypeOK, Busy
<1>4. CleanBefore(arg)' <=> CleanBefore(arg)
  BY <1>1, <1>3 DEF TextsKept
<1>5. WellRead(tree')
  BY <1>1 DEF TreeTells, Apart
<1>6. StaticsKnow'
  BY <1>3 DEF Apart, StaticsKnow, Has
<1>7. InFile'
  BY <1>1, <1>3, <1>4 DEF LexerTells, InFile, LexerAgrees
<1>8. InPasses'
  BY <1>1, <1>3, <1>4 DEF LexerTells, InPasses
<1>9. Between'
  <2>1. SUFFICES ASSUME step' = "collect", \A j \in 1 .. arg : Clean(text'[j])
                 PROVE  reading' = 0 /\ mode' = "INITIAL"
    <3>1. (arg + 1) - 1 = arg /\ arg' + 1 = arg + 1
      BY <1>3
    <3>2. QED
      BY <1>3, <3>1 DEF Between, CleanBefore
  <2>2. \A j \in 1 .. arg - 1 : j \in 1 .. arg
    BY <1>3
  <2>3. CleanBefore(arg)' /\ Clean(text'[arg])
    BY <1>3, <2>1, <2>2 DEF CleanBefore
  <2>4. QED
    BY <1>1, <1>4, <2>1, <2>3 DEF LexerTells, Clean
<1>10. LeftOver'
  <2>1. SUFFICES ASSUME step' # "exited", NEW i \in 1 .. arg, CleanBefore(i)', reading' = i,
                        ~ (i = arg /\ step' = "parse")
                 PROVE  Reading(text'[i]).at = "stray"
    BY <1>3 DEF LeftOver
  <2>2. CleanBefore(i)
    BY <1>1, <2>1 DEF TextsKept
  <2>3. CASE i = arg
    BY <1>1, <1>3, <2>1, <2>2, <2>3 DEF LexerTells
  <2>4. CASE i # arg
    <3>1. i \in 1 .. arg - 1
      BY <1>3, <2>4
    <3>2. reading = i
      <4>1. reading' \in {0, arg, reading}
        BY DEF yylex, Token, CommentBegins, StringBegins, Unsupported, StringEnds, Comment, String,
               Stray, BufferEnds, Eof, Piece
      <4>2. QED
        BY <2>1, <2>4, <3>1, <4>1
    <3>3. Reading(text[i]).at = "stray"
      BY <1>3, <2>2, <2>4, <3>2 DEF Apart, LeftOver
    <3>4. QED
      BY <1>1, <2>2, <3>1, <3>3 DEF TextsKept
  <2>5. QED
    BY <2>3, <2>4
<1>11. InCode'
  BY <1>3 DEF Apart, InCode
<1>12. FilesApart'
  <2>1. SUFFICES ASSUME NEW i \in 1 .. arg, Dealt(i)', CleanBefore(i)' PROVE FileApart(i)'
    BY <1>3 DEF FilesApart, CleanBefore, FileApart
  <2>2. CleanBefore(i)
    BY <1>1, <2>1 DEF TextsKept
  <2>3. CASE i < arg
    <3>1. FileApart(i)
      BY <2>2, <2>3, FilesApartIs DEF Apart, Dealt
    <3>2. Program(text'[i]) = Program(text[i])
      BY <1>1, <1>3, <2>2, <2>3 DEF TextsKept, Program
    <3>3. QED
      BY <1>3, <3>1, <3>2, FileApartStays
  <2>4. CASE i = arg
    <3>1. step' = "exited" /\ status' # Abort
      BY <1>3, <2>1, <2>4 DEF Dealt
    <3>2. Program(text'[arg]) = None
      BY <1>1, <2>2, <2>4, <3>1 DEF LexerTells
    <3>3. code'[arg] = None
      BY <1>3 DEF Apart, InCode
    <3>4. QED
      BY <1>3, <2>4, <3>1, <3>2, <3>3 DEF FileApart
  <2>5. QED
    BY <1>3, <2>3, <2>4
<1>13. QED
  BY <1>5, <1>6, <1>7, <1>8, <1>9, <1>10, <1>11, <1>12 DEF Apart

\* Where no text changes and no pass is begun anew, the rest is to be shown of the code.
LEMMA QuietApart ==
    ASSUME Apart, SameTexts, step \notin {"parse", "exited"}, step' # "parse",
           step' \in {"collect", "generate", "free"} => step \in {"collect", "generate", "free"},
           StaticsKnow', InCode', FilesApart'
    PROVE  Apart'
<1>1. /\ arg' = arg /\ UNCHANGED <<args, text, reading, mode, tree>>
  BY DEF SameTexts, arg
<1>2. \A i : CleanBefore(i)' <=> CleanBefore(i)
  BY <1>1 DEF CleanBefore
<1>3. WellRead(tree') /\ InFile' /\ InPasses' /\ Between'
  BY <1>1, <1>2 DEF Apart, InFile, InPasses, Between, CleanBefore
<1>4. LeftOver'
  BY <1>1, <1>2 DEF Apart, LeftOver
<1>5. QED
  BY <1>3, <1>4 DEF Apart

\* And where the code is the same, of the argument at hand when it is done.
LEMMA SameCodeApart ==
    ASSUME TypeOK, Apart, SameTexts, code' = code, failed \subseteq failed',
           arg # 0 /\ Dealt(arg)' /\ CleanBefore(arg) => Dealt(arg) \/ FileApart(arg)'
    PROVE  FilesApart'
<1>1. arg' = arg /\ UNCHANGED <<args, text>> /\ arg \in Nat
  BY DEF SameTexts, arg, TypeOK
<1>2. SUFFICES ASSUME NEW i \in 1 .. arg, Dealt(i)', CleanBefore(i)' PROVE FileApart(i)'
  BY <1>1 DEF FilesApart, CleanBefore, FileApart
<1>3. CleanBefore(i)
  BY <1>1, <1>2 DEF CleanBefore
<1>4. CASE Dealt(i)
  <2>1. FileApart(i)
    BY <1>3, <1>4, FilesApartIs DEF Apart
  <2>2. i \in Nat /\ i # 0 /\ Program(text'[i]) = Program(text[i])
    BY <1>1
  <2>3. QED
    BY <2>1, <2>2, FileApartStays
<1>5. CASE ~Dealt(i)
  <2>1. i = arg /\ arg # 0 /\ arg' = arg
    BY <1>1, <1>5 DEF Dealt
  <2>2. Dealt(arg)'
    BY <1>2, <2>1 DEF Dealt
  <2>3. FileApart(arg)'
    BY <1>3, <1>5, <2>1, <2>2
  <2>4. QED
    BY <2>1, <2>3 DEF FileApart, Has
<1>6. QED
  BY <1>4, <1>5

\* The first pass finds names nobody declared, or not.
LEMMA CollectApart == TypeOK /\ Busy /\ Apart /\ printsyms => Apart'
<1> SUFFICES ASSUME TypeOK, Busy, Apart, printsyms PROVE Apart'
  OBVIOUS
<1>1. /\ step = "collect" /\ SameTexts /\ UNCHANGED <<code, seeded, strtab>> /\ arg' = arg
      /\ failed \subseteq failed' /\ arg \in Nat
  BY DEF printsyms, SameTexts, lexer, disk, Undefined, Fail, Exit, arg, TypeOK
<1>2. \/ step' = IF "bad" \in Range(tree) THEN "free" ELSE "generate"
      \/ step' = "exited" /\ status' = Abort
  BY DEF printsyms, Undefined, Fail, Exit
<1>3. StaticsKnow'
  BY <1>1 DEF Apart, StaticsKnow, Has
<1>4. code[arg] = None /\ tree' = tree
  BY <1>1 DEF Apart, InCode, SameTexts
<1>5. InCode'
  BY <1>1, <1>2, <1>4 DEF InCode
<1>6. ~Dealt(arg)'
  BY <1>1, <1>2 DEF Dealt
<1>7. FilesApart'
  BY <1>1, <1>6, SameCodeApart
<1>8. QED
  BY <1>1, <1>2, <1>3, <1>5, <1>7, QuietApart

\* Code is made for the argument at hand, and nothing of what was made before changes.
LEMMA GenerateApart == TypeOK /\ Busy /\ Apart /\ generate_code => Apart'
<1> SUFFICES ASSUME TypeOK, Busy, Apart, generate_code PROVE Apart'
  OBVIOUS
<1> DEFINE new == [tree |-> tree, raw |-> strtab', srand |-> "rand" \in Range(tree) /\ ~seeded]
<1>1. /\ step = "generate" /\ step' = "free" /\ SameTexts /\ UNCHANGED <<failed, status>> /\ arg' = arg
      /\ arg \in Nat \ {0} /\ arg \in 1 .. arg /\ tree' = tree
      /\ seeded' = (seeded \/ "rand" \in Range(tree)) /\ strtab' = (strtab \/ "raw" \in Range(tree))
      /\ seeded \in BOOLEAN /\ strtab \in BOOLEAN
  BY DEF generate_code, SameTexts, lexer, arg, TypeOK, Busy
<1>2. /\ code' = [code EXCEPT ![arg] = new]
      /\ code \in Seq({None} \cup Compiled) /\ Len(code) = arg /\ tree \in Seq(Tokens)
  BY <1>1 DEF generate_code, TypeOK, Compiled
<1>3. new # None
  <2>1. strtab' \in BOOLEAN /\ ("rand" \in Range(tree) /\ ~seeded) \in BOOLEAN
    BY <1>1
  <2>2. new \in [tree : Seq(Tokens), raw : BOOLEAN, srand : BOOLEAN]
    BY <1>2, <2>1
  <2>3. QED
    BY <2>2, NoneIsNoProgram
<1>4. /\ code'[arg] = new /\ \A i \in 1 .. arg : i # arg => code'[i] = code[i]
      /\ code[arg] = None /\ "bad" \notin Range(tree)
  BY <1>1, <1>2 DEF Apart, InCode
<1>5. /\ new.tree = tree /\ new.raw = strtab' /\ new.srand = ("rand" \in Range(tree) /\ ~seeded)
  OBVIOUS
<1> HIDE DEF new
<1>6. /\ \A t : Has(arg, t)' <=> t \in Range(tree)
      /\ \A t : ~Has(arg, t)
      /\ \A j \in 1 .. arg : j # arg => \A t : Has(j, t)' <=> Has(j, t)
  <2>1. ASSUME NEW t PROVE (Has(arg, t)' <=> t \in Range(tree)) /\ ~Has(arg, t)
    <3>1. code'[arg'] # None /\ code'[arg'].tree = tree /\ code[arg] = None
      BY <1>1, <1>3, <1>4, <1>5
    <3>2. QED
      BY <3>1 DEF Has
  <2>2. ASSUME NEW j \in 1 .. arg, j # arg, NEW t PROVE Has(j, t)' <=> Has(j, t)
    BY <1>4, <2>2 DEF Has
  <2>3. QED
    BY <2>1, <2>2
<1>7. /\ seeded <=> \E j \in 1 .. arg - 1 : Has(j, "rand")
      /\ strtab <=> \E j \in 1 .. arg - 1 : Has(j, "raw")
  <2>1. \A j \in 1 .. arg : j = arg \/ j \in 1 .. arg - 1
    BY <1>1
  <2>2. \A j \in 1 .. arg - 1 : j \in 1 .. arg
    BY <1>1
  <2>3. QED
    BY <1>6, <2>1, <2>2 DEF Apart, StaticsKnow
<1>8. /\ \A t : (\E j \in 1 .. arg : Has(j, t)') <=> (t \in Range(tree) \/ \E j \in 1 .. arg - 1 : Has(j, t))
      /\ \A t : (\A j \in 1 .. arg - 1 : ~Has(j, t)') <=> (\A j \in 1 .. arg - 1 : ~Has(j, t))
  <2>1. \A j \in 1 .. arg : j = arg \/ j \in 1 .. arg - 1
    BY <1>1
  <2>2. \A j \in 1 .. arg - 1 : j \in 1 .. arg /\ j # arg
    BY <1>1
  <2>3. QED
    BY <1>1, <1>6, <2>1, <2>2
<1>9. StaticsKnow'
  BY <1>1, <1>7, <1>8 DEF StaticsKnow
<1>10. InCode'
  <2> DEFINE first == Has(arg, "rand")' /\ \A j \in 1 .. arg - 1 : ~Has(j, "rand")'
             some == \E j \in 1 .. arg : Has(j, "raw")'
  <2>1. new.srand = first
    BY <1>1, <1>5, <1>6, <1>7, <1>8
  <2>2. new.raw = some
    BY <1>1, <1>5, <1>7, <1>8
  <2>3. new = [tree |-> tree, srand |-> new.srand, raw |-> new.raw]
    BY <1>5 DEF new
  <2>4. new = [tree |-> tree, srand |-> first, raw |-> some]
    BY <2>1, <2>2, <2>3
  <2>5. code'[arg] # None /\ "bad" \notin Range(tree')
    BY <1>1, <1>3, <1>4
  <2>6. code'[arg] = [tree |-> tree', srand |-> first, raw |-> some]
    BY <1>1, <1>4, <2>4
  <2>7. QED
    BY <1>1, <2>5, <2>6 DEF InCode
<1>11. FilesApart'
  <2>1. SUFFICES ASSUME NEW i \in 1 .. arg, Dealt(i)', CleanBefore(i)' PROVE FileApart(i)'
    BY <1>1 DEF FilesApart, CleanBefore, FileApart
  <2>2. i < arg /\ i \in Nat /\ i # 0 /\ text' = text
    BY <1>1, <2>1 DEF Dealt, SameTexts
  <2>3. CleanBefore(i) /\ Dealt(i)
    BY <2>1, <2>2 DEF CleanBefore, Dealt
  <2>4. FileApart(i)
    BY <2>3, FilesApartIs DEF Apart
  <2>5. \A j \in 1 .. i : code'[j] = code[j]
    BY <1>1, <1>4, <2>2
  <2>6. QED
    BY <1>1, <2>2, <2>4, <2>5, FileApartStays
<1>12. QED
  BY <1>1, <1>9, <1>10, <1>11, QuietApart

\* The argument at hand is done, as its text has it.
LEMMA EndApart == TypeOK /\ Busy /\ Apart /\ process_fileEnd => Apart'
<1> SUFFICES ASSUME TypeOK, Busy, Apart, process_fileEnd PROVE Apart'
  OBVIOUS
<1>1. /\ step = "free" /\ SameTexts /\ UNCHANGED <<code, seeded, strtab>> /\ arg' = arg
      /\ failed \subseteq failed' /\ arg \in Nat \ {0} /\ arg \in 1 .. arg
      /\ step' \in {"main", "assemble", "exited"} /\ text' = text
  BY DEF process_fileEnd, SameTexts, lexer, disk, Undefined, Fail, Exit, arg, TypeOK, Busy
<1>2. StaticsKnow'
  BY <1>1 DEF Apart, StaticsKnow, Has
<1>3. InCode'
  BY <1>1 DEF InCode
<1>4. CASE Undefined
  <2>1. ~Dealt(arg)'
    BY <1>1, <1>4 DEF Dealt, Undefined, Fail, Exit
  <2>2. FilesApart'
    BY <1>1, <2>1, SameCodeApart
  <2>3. QED
    BY <1>1, <1>2, <1>3, <2>2, QuietApart
<1>5. CASE code[arg] = None => arg \in failed'
  <2>1. ASSUME CleanBefore(arg) PROVE FileApart(arg)'
    <3> DEFINE r == Reading(text[arg])
    <3>1. r.at \in {"code", "string", "stray"} /\ r.toks = tree
      BY <1>1, <2>1 DEF Apart, InPasses
    <3>2. IsProgram(tree)
      BY <1>1, AcceptsPrograms DEF TypeOK, Apart
    <3>3. Program(text[arg]) = IF "bad" \in Range(tree) THEN None ELSE tree
      BY <3>1, <3>2 DEF Program
    <3>4. CASE code[arg] = None
      <4>1. "bad" \in Range(tree)
        BY <1>1, <3>4 DEF Apart, InCode
      <4>2. QED
        BY <1>1, <1>5, <3>3, <3>4, <4>1 DEF FileApart
    <3>5. CASE code[arg] # None
      <4> DEFINE first == Has(arg, "rand") /\ \A j \in 1 .. arg - 1 : ~Has(j, "rand")
                 some == \E j \in 1 .. arg : Has(j, "raw")
      <4>1. "bad" \notin Range(tree) /\ code[arg] = [tree |-> tree, srand |-> first, raw |-> some]
        BY <1>1, <3>5 DEF Apart, InCode
      <4>2. Program(text[arg]) = tree
        BY <3>3, <4>1
      <4>3. code[arg] = [tree |-> Program(text[arg]), srand |-> first, raw |-> some]
        BY <4>1, <4>2
      <4>4. FileApart(arg)
        BY <3>5, <4>3 DEF FileApart
      <4>5. QED
        BY <1>1, <4>4, FileApartStays
    <3>6. QED
      BY <3>4, <3>5
  <2>2. FilesApart'
    BY <1>1, <2>1, SameCodeApart
  <2>3. QED
    BY <1>1, <1>2, <1>3, <2>2, QuietApart
<1>6. QED
  BY <1>4, <1>5 DEF process_fileEnd, Return

\* What as, cc and the end of main do comes after.
LEMMA ToolsApart == TypeOK /\ Busy /\ Apart /\ (assemble \/ link \/ mainReturn) => Apart'
<1> SUFFICES ASSUME TypeOK, Busy, Apart, assemble \/ link \/ mainReturn PROVE Apart'
  OBVIOUS
<1>1. /\ step \in {"assemble", "link", "main"} /\ SameTexts /\ UNCHANGED <<code, seeded, strtab>>
      /\ arg' = arg /\ failed \subseteq failed' /\ arg \in Nat
      /\ step' \in {"link", "main", "exited"}
  BY DEF assemble, link, mainReturn, SameTexts, lexer, globals, Fail, Exit, arg, TypeOK
<1>2. StaticsKnow'
  BY <1>1 DEF Apart, StaticsKnow, Has
<1>3. InCode'
  BY <1>1 DEF InCode
<1>4. status # Abort
  <2>1. status = None
    BY <1>1 DEF TypeOK
  <2>2. Abort \in Nat
    BY DEF Abort
  <2>3. QED
    BY <2>1, <2>2, DriverAssumption DEF DriverAssumption
<1>5. Dealt(arg)
  BY <1>1, <1>4 DEF Dealt
<1>6. FilesApart'
  BY <1>1, <1>5, SameCodeApart
<1>7. QED
  BY <1>1, <1>2, <1>3, <1>6, QuietApart

\* A new argument is read from its beginning, unless an earlier one's stray keeps it;
\* one that is not there counts as failed, and says nothing.
LEMMA OpenApart ==
    ASSUME TypeOK, Busy, Apart, NEW a \in Args, Open(a)
    PROVE  Apart'
<1>1. /\ step = "main" /\ arg \in Nat /\ arg' = arg + 1 /\ arg + 1 # 0
      /\ tree' = <<>> /\ UNCHANGED <<mode, comment_depth, string_pos, seeded, strtab, status>>
      /\ text' = Append(text, <<>>) /\ code' = Append(code, None)
      /\ failed \subseteq failed'
  BY OpenTypes DEF Open, OpenFrame, TypeOK, arg, lexer, globals
<1>2. /\ \A i \in 1 .. arg : text'[i] = text[i] /\ code'[i] = code[i]
      /\ text'[arg + 1] = <<>> /\ code'[arg + 1] = None
  BY <1>1, Grows DEF TypeOK
<1>3. /\ \A i \in 1 .. arg + 1 : i \in 1 .. arg \/ i = arg + 1
      /\ \A i \in 1 .. arg : i \in 1 .. arg + 1 /\ i # arg + 1 /\ i < arg + 1
      /\ \A i \in 1 .. arg + 1 : \A j \in 1 .. i - 1 : j \in 1 .. arg
      /\ arg + 1 \in 1 .. arg + 1 /\ (arg + 1) - 1 = arg
  BY <1>1
<1>4. \A i \in 1 .. arg + 1 : CleanBefore(i)' <=> CleanBefore(i)
  <2>1. ASSUME NEW i \in 1 .. arg + 1 PROVE CleanBefore(i)' <=> CleanBefore(i)
    <3>1. \A j \in 1 .. i - 1 : text'[j] = text[j]
      BY <1>2, <1>3
    <3>2. (\A j \in 1 .. i - 1 : Clean(text'[j])) <=> (\A j \in 1 .. i - 1 : Clean(text[j]))
      BY <3>1
    <3>3. QED
      BY <3>2 DEF CleanBefore
  <2>2. QED
    BY <2>1
<1>5. CleanBefore(arg + 1) => reading = 0 /\ mode = "INITIAL"
  BY <1>1 DEF Apart, Between
<1>6. \/ step' = "main" /\ arg + 1 \in failed' /\ reading' = reading
      \/ step' = "parse" /\ reading' = IF reading = 0 THEN arg + 1 ELSE reading
  BY DEF Open
<1>7. WellRead(tree')
  BY <1>1, NothingWellRead
<1>8. StaticsKnow'
  <2>1. \A j \in 1 .. arg : \A t : Has(j, t)' <=> Has(j, t)
    BY <1>2 DEF Has
  <2>2. \A t : ~ (code'[arg + 1] # None /\ t \in Range(code'[arg + 1].tree))
    BY <1>2
  <2>3. ASSUME NEW t PROVE (\E j \in 1 .. arg' : Has(j, t)') <=> \E j \in 1 .. arg : Has(j, t)
    BY <1>1, <1>3, <2>1, <2>2 DEF Has
  <2>4. QED
    BY <1>1, <2>3 DEF Apart, StaticsKnow
<1>9. InFile'
  <2>1. SUFFICES ASSUME step' = "parse", \A j \in 1 .. arg : Clean(text'[j])
                 PROVE  /\ reading' = arg + 1
                        /\ IsAt(Reading(text'[arg + 1]), tree', mode', comment_depth', string_pos')
    <3>1. arg' - 1 = arg
      BY <1>1
    <3>2. QED
      BY <1>1, <3>1 DEF InFile, LexerAgrees, CleanBefore
  <2>2. CleanBefore(arg + 1)
    BY <1>2, <1>3, <2>1 DEF CleanBefore
  <2>3. reading' = arg + 1 /\ mode' = "INITIAL"
    BY <1>1, <1>5, <1>6, <2>1, <2>2
  <2>4. Reading(text'[arg + 1]) = Blank
    BY <1>2, ReadingOfNothing
  <2>5. Blank.at = "code" /\ Blank.toks = <<>>
    BY DEF Blank
  <2>6. QED
    BY <1>1, <2>3, <2>4, <2>5 DEF IsAt
<1>10. InPasses' /\ InCode'
  BY <1>1, <1>2, <1>6 DEF InPasses, InCode
<1>11. Between'
  <2>1. SUFFICES ASSUME step' = "main", \A j \in 1 .. arg + 1 : Clean(text'[j])
                 PROVE  reading' = 0 /\ mode' = "INITIAL"
    <3>1. (arg' + 1) - 1 = arg + 1
      BY <1>1
    <3>2. QED
      BY <1>6, <3>1 DEF Between, CleanBefore
  <2>2. \A j \in 1 .. arg : Clean(text[j])
    BY <1>2, <1>3, <2>1
  <2>3. CleanBefore(arg + 1)
    BY <1>3, <2>2 DEF CleanBefore
  <2>4. QED
    BY <1>1, <1>5, <1>6, <2>1, <2>3
<1>12. LeftOver'
  <2>1. SUFFICES ASSUME NEW i \in 1 .. arg + 1, CleanBefore(i)', reading' = i,
                        ~ (i = arg + 1 /\ step' = "parse")
                 PROVE  Reading(text'[i]).at = "stray"
    BY <1>1 DEF LeftOver
  <2>2. reading \in 0 .. arg
    BY DEF TypeOK
  <2>3. i \in 1 .. arg /\ reading = i
    BY <1>1, <1>3, <1>6, <2>1, <2>2
  <2>4. CleanBefore(i)
    BY <1>4, <2>1
  <2>5. QED
    BY <1>1, <1>2, <2>3, <2>4 DEF Apart, LeftOver
<1>13. FilesApart'
  <2>1. SUFFICES ASSUME NEW i \in 1 .. arg + 1, Dealt(i)', CleanBefore(i)' PROVE FileApart(i)'
    BY <1>1 DEF FilesApart, CleanBefore, FileApart
  <2>2. CASE i \in 1 .. arg
    <3>1. status # Abort
      <4>1. status = None
        BY <1>1 DEF TypeOK
      <4>2. Abort \in Nat
        BY DEF Abort
      <4>3. QED
        BY <4>1, <4>2, DriverAssumption DEF DriverAssumption
    <3>2. Dealt(i)
      BY <1>1, <2>2, <3>1 DEF Dealt
    <3>3. FileApart(i)
      BY <1>4, <2>1, <2>2, <3>2, FilesApartIs DEF Apart
    <3>4. i \in Nat /\ i # 0 /\ \A j \in 1 .. i : j \in 1 .. arg
      BY <1>1, <2>2
    <3>5. Program(text'[i]) = Program(text[i]) /\ \A j \in 1 .. i : code'[j] = code[j]
      BY <1>2, <2>2, <3>4
    <3>6. QED
      BY <1>1, <3>3, <3>4, <3>5, FileApartStays
  <2>3. CASE i = arg + 1
    <3>1. arg + 1 \in failed'
      BY <1>1, <1>6, <2>1, <2>3 DEF Dealt
    <3>2. Program(text'[arg + 1]) = None
      BY <1>2, NoProgram, ReadingOfNothing, NothingWellRead DEF Blank
    <3>3. QED
      BY <1>2, <2>3, <3>1, <3>2 DEF FileApart
  <2>4. QED
    BY <1>3, <2>2, <2>3
<1>14. QED
  BY <1>7, <1>8, <1>9, <1>10, <1>11, <1>12, <1>13 DEF Apart

\* Before the first argument there is nothing to say.
LEMMA ApartInit == Init => Apart
<1> SUFFICES ASSUME Init PROVE Apart
  OBVIOUS
<1>1. arg = 0 /\ 1 .. arg = {} /\ step = "main" /\ reading = 0 /\ mode = "INITIAL" /\ tree = <<>>
      /\ seeded = FALSE /\ strtab = FALSE
  BY DEF Init, arg
<1>2. WellRead(tree)
  BY <1>1, NothingWellRead
<1>3. StaticsKnow /\ InFile /\ InPasses /\ Between /\ LeftOver /\ InCode
  BY <1>1 DEF StaticsKnow, InFile, InPasses, Between, LeftOver, InCode
<1>4. FilesApart
  BY <1>1 DEF FilesApart
<1>5. QED
  BY <1>2, <1>3, <1>4 DEF Apart

\* And every step keeps it.
LEMMA ApartNext == IInv /\ Apart /\ [Next]_vars => Apart'
<1> SUFFICES ASSUME TypeOK, Busy, Apart, [Next]_vars PROVE Apart'
  BY DEF IInv, Outcome
<1>1. CASE yylex
  BY <1>1, LexerApart
<1>2. ASSUME NEW a \in Args, Open(a) PROVE Apart'
  BY <1>2, OpenApart
<1>3. CASE printsyms
  BY <1>3, CollectApart
<1>4. CASE generate_code
  BY <1>4, GenerateApart
<1>5. CASE process_fileEnd
  BY <1>5, EndApart
<1>6. CASE assemble \/ link \/ mainReturn
  BY <1>6, ToolsApart
<1>7. CASE UNCHANGED vars
  <2>1. UNCHANGED <<args, status, step, text, reading, mode, comment_depth, string_pos, tree,
                    seeded, strtab, code, failed>>
    BY <1>7 DEF vars, lexer, globals
  <2>2. arg' = arg
    BY <2>1 DEF arg
  <2>3. \A i : CleanBefore(i)' <=> CleanBefore(i)
    BY <2>1 DEF CleanBefore
  <2>4. StaticsKnow' /\ InCode'
    BY <2>1, <2>2 DEF Apart, StaticsKnow, InCode, Has
  <2>5. InFile' /\ InPasses' /\ WellRead(tree')
    BY <2>1, <2>2, <2>3 DEF Apart, InFile, InPasses, LexerAgrees
  <2>6. Between' /\ LeftOver'
    BY <2>1, <2>2, <2>3 DEF Apart, Between, LeftOver, CleanBefore
  <2>7. FilesApart'
    BY <2>1, <2>2 DEF Apart, FilesApart, Dealt, Has
  <2>8. QED
    BY <2>4, <2>5, <2>6, <2>7 DEF Apart
<1>8. QED
  BY <1>1, <1>2, <1>3, <1>4, <1>5, <1>6, <1>7 DEF Next, Exited

\* For any number of files of any length: as long as the files before a file ended
\* in no raw string and before no stray character, what process_file makes of it is
\* what its text alone says (main.c:347): it is compiled exactly if it is a program,
\* to that program, with the raw strings of the files so far and with srand where
\* none of them has it.
THEOREM FilesStandApart == Spec => []FilesApart
<1>1. Apart => FilesApart
  BY DEF Apart
<1>2. Init => Apart
  BY ApartInit
<1>3. IInv /\ Apart /\ [Next]_vars => Apart'
  BY ApartNext
<1>4. QED
  BY <1>1, <1>2, <1>3, Invariance, PTL DEF Spec
=============================================================================
