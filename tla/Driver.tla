-------------------------------- MODULE Driver --------------------------------
(***************************************************************************)
(* main.c and k0lex.l: the files of a command line, one after the other,   *)
(* through one lexer whose start condition, comment depth and buffer       *)
(* outlive a file, the passes with the statics they keep, and the programs *)
(* as and cc.                                                              *)
(*                                                                         *)
(* A file is a sequence of pieces, made up as the lexer comes to them; the *)
(* grammar is that of functions and raw strings:                           *)
(*   "fun"     a function                                                  *)
(*   "rand"    one that calls nextInt                                      *)
(*   "bad"     one with a name nobody declared                             *)
(*   "{", "}"  one with raw strings for statements: up to the first        *)
(*             character of the first string, and its end                  *)
(*   "quote"   three quotation marks           "/*", "*/"                  *)
(*   "class"   a word k0 does not support      "$"  no rule of the lexer   *)
(* Each file fits flex's buffer (8192 bytes).                              *)
(*                                                                         *)
(* Bounds: MaxPieces[i] pieces of file i, one file for each.               *)
(***************************************************************************)
EXTENDS Naturals, FiniteSets, SequencesExt

CONSTANTS Flags,      \* of "-s", "-c", and "" to link
          Stems,      \* file names without what follows the last dot
          None, Old,  \* no file; one an earlier invocation left
          Before,     \* of these, what the .s files may be at the start
          MaxPieces

ASSUME DriverAssumption ==
    /\ Flags \subseteq {"-s", "-c", ""}
    /\ Before \subseteq {None, Old} /\ MaxPieces \in Seq(Nat)
    /\ None \notin Nat

Plain == {"fun", "rand", "bad", "}"}
Pieces == Plain \cup {"{", "quote", "/*", "*/", "class", "$"}
Tokens == Plain \cup {"{", "raw", "emptyRaw"}

\* In a comment or a string the other pieces are like these.
InComment == {"/*", "*/", "$"}
InString == {"/*"}

\* An argument: a.kt and a are the same; dotted is a.b, whose file is a.b.kt.
Args == [stem : Stems, dotted : BOOLEAN]

VARIABLES
    flag,
    args,       \* the arguments so far
    status,     \* what the process ends with
    exit_code,
    step,       \* where process_file or main is with the last argument
    text,       \* what the lexer has read of each file
    reading,    \* the file in flex's buffer, the last one or an older one; 0: none
    mode, comment_depth, string_pos,
    tree,       \* the tokens of the file, if the parser agrees to them
    list,       \* func_list_head of printsyms
    seeded,
    strtab,     \* it has a raw text
    code,       \* what each file was compiled to
    asm, obj, exe,  \* the files written: which argument they come from
    failed,     \* arguments that did not get through
    unwritten   \* those whose .s could not be opened

lexer == <<mode, comment_depth, string_pos>>
globals == <<list, seeded, strtab>>
disk == <<asm, obj, exe, unwritten>>
vars == <<flag, args, status, exit_code, step, text, reading, lexer, tree, globals,
          code, disk, failed>>

arg == Len(args)
This == args[arg]
Abort == 134

Init ==
    /\ flag \in Flags
    /\ args = <<>> /\ text = <<>> /\ code = <<>>
    /\ status = None /\ exit_code = 0 /\ step = "main"
    /\ reading = 0
    /\ mode = "INITIAL" /\ comment_depth = 0 /\ string_pos = 0
    /\ tree = <<>>
    /\ list = "empty" /\ seeded = FALSE /\ strtab = FALSE
    /\ \E s \in Before : asm = [f \in Args |-> s]
    /\ obj = [s \in Stems |-> None] /\ exe = [s \in Stems |-> None]
    /\ failed = {} /\ unwritten = {}

Exit(n) == status' = n /\ step' = "exited"

Fail(n) == Exit(n) /\ failed' = failed \cup {arg}

\* What follows a use of freed memory: the process is aborted, or nothing.
Undefined == list = "freed" /\ Fail(Abort)

-----------------------------------------------------------------------------
\* k0lex.l

\* The next piece, of the file flex still has in its buffer.
Piece(p) ==
    /\ step = "parse"
    /\ Len(text[reading]) < MaxPieces[reading]
    /\ text' = [text EXCEPT ![reading] = Append(@, p)]
    /\ UNCHANGED <<flag, args, exit_code, reading, globals, code, disk>>

\* yyparse takes a token, or exits with a syntax error.  A name is looked up from
\* currentFunctionSymtab, a table of an earlier file whose parent has been freed.
Closed == tree = <<>> \/ tree[Len(tree)] \in {"fun", "rand", "bad", "}"}
Agrees(t) == IF Closed THEN t \in {"fun", "rand", "bad", "{"} ELSE t \in {"}", "raw", "emptyRaw"}

Parse(t) ==
    \/ /\ Agrees(t)
       /\ tree' = Append(tree, t)
       /\ UNCHANGED <<status, step, failed>>
    \/ /\ ~Agrees(t)
       /\ Fail(2) /\ UNCHANGED tree
    \/ Agrees(t) /\ t \in {"rand", "bad"} /\ Undefined /\ UNCHANGED tree

Skip == UNCHANGED <<tree, status, step, failed>>

Token(p) ==
    /\ mode = "INITIAL" /\ Piece(p) /\ Parse(p)
    /\ UNCHANGED lexer

CommentBegins ==
    /\ mode = "INITIAL" /\ Piece("/*") /\ Skip
    /\ mode' = "IN_COMMENT" /\ comment_depth' = 1
    /\ UNCHANGED string_pos

StringBegins ==
    /\ mode = "INITIAL"
    /\ \/ Piece("quote") /\ Skip /\ string_pos' = 0
       \/ Piece("{") /\ Parse("{") /\ string_pos' = 1
    /\ mode' = "IN_MULTILINE_STRING"
    /\ UNCHANGED comment_depth

\* exit(1) in the rule.
Unsupported ==
    /\ mode = "INITIAL" /\ Piece("class")
    /\ Fail(1)
    /\ UNCHANGED <<lexer, tree>>

\* Fault: the first */ ends the comment, and the depth does not know.
CommentFlat(p) ==
    /\ mode = "IN_COMMENT" /\ Piece(p) /\ Skip
    /\ comment_depth' = CASE p = "/*" -> comment_depth + 1
                          [] p = "*/" -> comment_depth - 1
                          [] OTHER -> comment_depth
    /\ mode' = IF p = "*/" THEN "INITIAL" ELSE mode
    /\ UNCHANGED string_pos

Comment(p) ==
    /\ mode = "IN_COMMENT" /\ Piece(p) /\ Skip
    /\ comment_depth' = CASE p = "/*" -> comment_depth + 1
                          [] p = "*/" -> comment_depth - 1
                          [] OTHER -> comment_depth
    /\ mode' = IF comment_depth' = 0 THEN "INITIAL" ELSE mode
    /\ UNCHANGED string_pos

String(p) ==
    /\ mode = "IN_MULTILINE_STRING" /\ Piece(p) /\ Skip
    /\ string_pos' = string_pos + 1
    /\ UNCHANGED <<mode, comment_depth>>

StringEnds ==
    /\ mode = "IN_MULTILINE_STRING" /\ Piece("quote")
    /\ mode' = "INITIAL"
    /\ Parse(IF string_pos = 0 THEN "emptyRaw" ELSE "raw")
    /\ UNCHANGED <<comment_depth, string_pos>>

\* What the parser makes of the end of its input.
Accept ==
    IF tree # <<>> /\ Closed
    THEN step' = "collect" /\ UNCHANGED <<status, failed>>
    ELSE Fail(2)

\* A message, and return 0: to the parser the file ends here, and flex goes on
\* from here when it is called for the next file.
Stray(p) ==
    /\ mode = "INITIAL" /\ Piece(p) /\ Accept
    /\ UNCHANGED <<lexer, tree>>

\* The buffer is used up; yyin is another file by now.
BufferEnds ==
    /\ step = "parse" /\ reading # arg
    /\ reading' = arg
    /\ UNCHANGED <<flag, args, status, exit_code, step, text, lexer, tree, globals,
                   code, disk, failed>>

\* Fault: the end of the file is skipped like what else is in a comment.
EofInComment ==
    /\ step = "parse" /\ reading = arg
    /\ reading' = IF comment_depth > 0 THEN reading ELSE 0
    /\ IF comment_depth > 0 THEN Skip ELSE Accept /\ UNCHANGED tree
    /\ UNCHANGED <<flag, args, exit_code, text, lexer, globals, code, disk>>

\* <<EOF>>: the end of the file is the end of the input, also in a raw string.
Eof ==
    /\ step = "parse" /\ reading = arg
    /\ reading' = 0
    /\ \/ comment_depth > 0 /\ Fail(1)
       \/ comment_depth = 0 /\ Accept
    /\ UNCHANGED <<flag, args, exit_code, text, lexer, tree, globals, code, disk>>

yylex ==
    \/ \E p \in Plain : Token(p)
    \/ CommentBegins \/ StringBegins \/ Unsupported \/ StringEnds
    \/ (\E p \in InComment : Comment(p)) \/ (\E p \in InString : String(p))
    \/ \E p \in {"*/", "$"} : Stray(p)
    \/ BufferEnds \/ Eof

-----------------------------------------------------------------------------
\* process_file

\* Fault: every file sets the exit code.
ReturnAlways(r) == exit_code' = r

\* The result, in main: the last one that is not 0 stays.
Return(r) == exit_code' = IF r = 0 THEN exit_code ELSE r

\* There is no such file, or it is opened.
Open(a) ==
    /\ step = "main" /\ arg < Len(MaxPieces)
    /\ args' = Append(args, a) /\ text' = Append(text, <<>>) /\ code' = Append(code, None)
    /\ tree' = <<>>
    /\ \/ /\ Return(1) /\ failed' = failed \cup {arg + 1}
          /\ UNCHANGED <<step, reading>>
       \/ /\ step' = "parse"
          /\ reading' = IF reading = 0 THEN arg + 1 ELSE reading
          /\ UNCHANGED <<exit_code, failed>>
    /\ UNCHANGED <<flag, status, lexer, globals, disk>>

\* Fault: the errors of the files before count.
ErrorsStay ==
    /\ step = "collect"
    /\ \/ /\ list' = IF list = "empty" THEN "live" ELSE list
          /\ step' = IF "bad" \in Range(tree) \/ failed # {} THEN "free" ELSE "generate"
          /\ UNCHANGED <<status, failed>>
       \/ Undefined /\ UNCHANGED list
    /\ UNCHANGED <<flag, args, exit_code, text, reading, lexer, tree, seeded, strtab,
                   code, disk>>

\* printsyms hangs the tables of the functions on its static list; with errors
\* no code is generated.
printsyms ==
    /\ step = "collect"
    /\ \/ /\ list' = IF list = "empty" THEN "live" ELSE list
          /\ step' = IF "bad" \in Range(tree) THEN "free" ELSE "generate"
          /\ UNCHANGED <<status, failed>>
       \/ Undefined /\ UNCHANGED list
    /\ UNCHANGED <<flag, args, exit_code, text, reading, lexer, tree, seeded, strtab,
                   code, disk>>

\* generate_code, and write_asm_file, which returns when it cannot open its file.
\* The string table is that of all files so far; only the first nextInt seeds.
generate_code ==
    /\ step = "generate"
    /\ seeded' = (seeded \/ "rand" \in Range(tree))
    /\ strtab' = (strtab \/ "raw" \in Range(tree))
    /\ code' = [code EXCEPT ![arg] = [tree |-> tree, raw |-> strtab',
                                     srand |-> "rand" \in Range(tree) /\ ~seeded]]
    /\ \/ asm' = [asm EXCEPT ![This] = arg] /\ UNCHANGED unwritten
       \/ unwritten' = unwritten \cup {arg} /\ UNCHANGED asm
    /\ step' = "free"
    /\ UNCHANGED <<flag, args, status, exit_code, text, reading, lexer, tree, list,
                   obj, exe, failed>>

\* free_func_symtab_list and the result: the head of the list is left as it is.
process_fileEnd ==
    /\ step = "free"
    /\ \/ /\ list' = "freed"
          /\ IF code[arg] = None
             THEN Return(3) /\ failed' = failed \cup {arg} /\ step' = "main"
             ELSE /\ Return(0)
                  /\ step' = IF flag = "-s" THEN "main" ELSE "assemble"
                  /\ UNCHANGED failed
          /\ UNCHANGED status
       \/ Undefined /\ UNCHANGED <<list, exit_code>>
    /\ UNCHANGED <<flag, args, text, reading, lexer, tree, seeded, strtab, code, disk>>

-----------------------------------------------------------------------------
\* finish_and_emit, with the stem of the argument

\* The string a raw text became is not one to as.
Assembles(c) == c # None /\ (c # Old => ~code[c].raw)

Source == asm[[stem |-> This.stem, dotted |-> FALSE]]

\* Fault: a message, and no exit.
AssembleOrNot ==
    /\ step = "assemble"
    /\ \/ /\ Assembles(Source)
          /\ obj' = [obj EXCEPT ![This.stem] = Source]
          /\ step' = IF flag = "-c" THEN "main" ELSE "link"
       \/ step' = "main" /\ UNCHANGED obj
    /\ UNCHANGED <<flag, args, status, exit_code, text, reading, lexer, tree, globals,
                   code, asm, exe, unwritten, failed>>

assemble ==
    /\ step = "assemble"
    /\ \/ /\ Assembles(Source)
          /\ obj' = [obj EXCEPT ![This.stem] = Source]
          /\ step' = IF flag = "-c" THEN "main" ELSE "link"
          /\ UNCHANGED <<status, failed>>
       \/ Fail(1) /\ UNCHANGED obj
    /\ UNCHANGED <<flag, args, exit_code, text, reading, lexer, tree, globals, code,
                   asm, exe, unwritten>>

link ==
    /\ step = "link"
    /\ \/ /\ exe' = [exe EXCEPT ![This.stem] = obj[This.stem]]
          /\ step' = "main"
          /\ UNCHANGED <<status, failed>>
       \/ Fail(1) /\ UNCHANGED exe
    /\ UNCHANGED <<flag, args, exit_code, text, reading, lexer, tree, globals, code,
                   asm, obj, unwritten>>

\* All arguments are done.
mainReturn ==
    /\ step = "main" /\ Exit(exit_code)
    /\ UNCHANGED <<flag, args, exit_code, text, reading, lexer, tree, globals, code,
                   disk, failed>>

Exited == step = "exited" /\ UNCHANGED vars

Next ==
    \/ yylex
    \/ \E a \in Args : Open(a)
    \/ printsyms \/ generate_code \/ process_fileEnd
    \/ assemble \/ link
    \/ mainReturn \/ Exited

\* One thread, which runs on.
Spec == Init /\ [][Next]_vars /\ WF_vars(Next)
=============================================================================
