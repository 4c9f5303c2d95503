----------------------------- MODULE MCCompiler -----------------------------
(***************************************************************************)
(* Vocabularies for m4_compile.                                            *)
(***************************************************************************)
EXTENDS Compiler

(* Every word that opens, closes or leaves something.                      *)
ControlWords == {":", ";", "exit", "recurse", "if", "then", "else", "do", "loop",
                 "begin", "until", "while", "repeat", "again", "i", "j", "w"}

(* Every word that looks a name up or enters one, with two names that the  *)
(* program and the compiler may disagree on: type, which a dot-quote uses, *)
(* and dup, a builtin.                                                     *)
NameWords == {":", ";", "(", ".\"", "s\"", "variable", "constant", "'", "c'", "exit",
              "execute", "thread-create", "thread-join", "unloop", "\\", "1",
              "type", "dup", "w"}

StackComments == {<<0, 0>>, <<1, 1>>, <<9, 2>>, <<33, 4>>}

StringLength(s) == IF s = "ab" THEN 2 ELSE IF s = "c" THEN 1 ELSE 0
=============================================================================
