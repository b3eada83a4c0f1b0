------------------------------ MODULE DriverRules ------------------------------
(***************************************************************************)
(* What each file of a command line means, said of its text alone, and     *)
(* what the driver owes it whatever came before.                           *)
(***************************************************************************)
EXTENDS Driver

\* The mark for no program is not one.
ASSUME NoneIsNoProgram ==
    None \notin [tree : Seq(Tokens), raw : BOOLEAN, srand : BOOLEAN]

\* One file at a time: modes and depth agree, what is compiled was parsed, and
\* flex reads the last file or one whose end it has not seen.
TypeOK ==
    /\ args \in Seq(Args) /\ arg <= Len(MaxPieces)
    /\ text \in Seq(Seq(Pieces)) /\ Len(text) = arg
    /\ code \in Seq({None} \cup [tree : Seq(Tokens), raw : BOOLEAN, srand : BOOLEAN])
    /\ Len(code) = arg /\ exit_code \in Nat
    /\ mode \in {"INITIAL", "IN_COMMENT", "IN_MULTILINE_STRING"}
    /\ comment_depth \in Nat /\ string_pos \in Nat
    /\ mode = "IN_COMMENT" <=> comment_depth > 0
    /\ reading \in 0 .. arg /\ (step = "parse" => reading # 0)
    /\ tree \in Seq(Tokens)
    /\ list \in {"empty", "live", "freed"} /\ seeded \in BOOLEAN /\ strtab \in BOOLEAN
    /\ asm \in [Args -> {None, Old} \cup 1 .. arg]
    /\ obj \in [Stems -> {None, Old} \cup 1 .. arg] /\ exe \in [Stems -> {None, Old} \cup 1 .. arg]
    /\ failed \subseteq 1 .. arg /\ unwritten \subseteq 1 .. arg
    /\ step = "exited" <=> status # None
    /\ step \in {"collect", "generate", "free", "assemble", "link"} => tree # <<>> /\ Closed

-----------------------------------------------------------------------------
\* A text by itself

Blank == [at |-> "code", depth |-> 0, len |-> 0, toks |-> <<>>]

\* What one more piece adds; after a stray or an unsupported word nothing does.
Read(r, p) ==
    CASE r.at = "code" ->
            CASE p = "/*" -> [r EXCEPT !.at = "comment", !.depth = 1]
              [] p = "quote" -> [r EXCEPT !.at = "string", !.len = 0]
              [] p = "{" -> [r EXCEPT !.at = "string", !.len = 1, !.toks = Append(@, p)]
              [] p \in Plain -> [r EXCEPT !.toks = Append(@, p)]
              [] OTHER -> [r EXCEPT !.at = IF p = "class" THEN "unsupported" ELSE "stray"]
      [] r.at = "comment" /\ p = "/*" -> [r EXCEPT !.depth = @ + 1]
      [] r.at = "comment" /\ p = "*/" ->
            [r EXCEPT !.depth = @ - 1, !.at = IF r.depth = 1 THEN "code" ELSE @]
      [] r.at = "string" /\ p = "quote" ->
            [r EXCEPT !.at = "code",
                      !.toks = Append(@, IF r.len = 0 THEN "emptyRaw" ELSE "raw")]
      [] r.at = "string" /\ p # "quote" -> [r EXCEPT !.len = @ + 1]
      [] OTHER -> r

\* What has been read of t after each of its pieces, and in the end.
Readings(t) ==
    LET R[n \in 0 .. Len(t)] == IF n = 0 THEN Blank ELSE Read(R[n - 1], t[n])
    IN  R

Reading(t) == Readings(t)[Len(t)]

\* Whole functions, or braces with strings and nothing else between.
IsProgram(toks) ==
    /\ toks # <<>>
    /\ \A k \in DOMAIN toks :
          LET last == Max({0} \cup {j \in 1 .. k - 1 : toks[j] \in {"{", "}"}})
              inside == last # 0 /\ toks[last] = "{"
          IN  toks[k] \in {"}", "raw", "emptyRaw"} <=> inside
    /\ Cardinality({k \in DOMAIN toks : toks[k] = "{"}) = Cardinality({k \in DOMAIN toks : toks[k] = "}"})

\* The program the compiler makes of a text, None if there is none in it.
Program(t) ==
    LET r == Reading(t)
    IN  IF r.at \in {"code", "string", "stray"} /\ IsProgram(r.toks) /\ "bad" \notin Range(r.toks)
        THEN r.toks ELSE None

\* Files whose end the lexer met in no string and before no stray.
Clean(t) == Reading(t).at \notin {"string", "stray"}

-----------------------------------------------------------------------------
Dealt(i) ==
    \/ i < arg
    \/ i = arg /\ step \notin {"parse", "collect", "generate", "free"} /\ status # Abort

Has(j, t) == code[j] # None /\ t \in Range(code[j].tree)

\* As long as the earlier files were clean, a file is compiled exactly if it is a
\* program by itself, and to that program, with the strings of all files so far and
\* with srand unless an earlier one has it (main.c:502, k0lex.l:203).
FilesApart ==
    \A i \in 1 .. arg :
        Dealt(i) /\ (\A j \in 1 .. i - 1 : Clean(text[j])) =>
            IF code[i] = None THEN i \in failed /\ Program(text[i]) = None
            ELSE code[i] = [tree  |-> Program(text[i]),
                            srand |-> Has(i, "rand") /\ \A j \in 1 .. i - 1 : ~Has(j, "rand"),
                            raw   |-> \E j \in 1 .. i : Has(j, "raw")]

\* A process ends with 0 if and only if every argument was opened, compiled,
\* assembled and linked; an error in one file does not hide behind a later one.
StatusTruthful == step = "exited" => (status = 0 <=> failed = {})

\* After a successful link, the executable of a file comes from that file and this
\* invocation, unless its .s could not be written (codegen.c:1436 returns without a
\* word to main) or has another dot in its name.
SuccessIsFresh ==
    status = 0 /\ flag = "" =>
        \A i \in 1 .. arg :
            /\ ~args[i].dotted /\ i \notin unwritten
            /\ \A j \in i + 1 .. arg : args[j] # args[i]
            => exe[args[i].stem] = i

\* No text keeps the compiler from coming to an end.
Ends == <>(step = "exited")
=============================================================================
