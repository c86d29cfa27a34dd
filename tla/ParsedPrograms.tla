----------------------------- MODULE ParsedPrograms -----------------------------
(***************************************************************************)
(* What the grammar rules promise together: which sources they accept and  *)
(* how they end.                                                           *)
(***************************************************************************)
EXTENDS Parser, Grammar

\* The source as a word of the grammar: names are all alike.
Word == [i \in 1..(Len(read) - 1) |-> IF read[i] \in Identifiers THEN "IDENTIFIER" ELSE read[i]]

\* A source is compiled only if it is a program, give or take the slips of the lenient
\* grammar, whatever errors the rules have passed over.
AcceptsOnlyPrograms == status = "compiled" => InGrammar(Word, TRUE)

\* An error of syntax is the first to be shown only for a source that is no program.
AcceptsPrograms ==
  status = "failed" /\ first_error = "syntax" => ~InGrammar(Word, FALSE)

\* Where the rules go round without reading on: in the body of a class before anything
\* but a method, and in an initializer before "return".
Stuck ==
  \/ /\ Doing("until") /\ Item.name = "method"
     /\ ~Is(current_token, "IDENTIFIER") /\ current_token \notin Item.types
  \/ Doing("not in") /\ Item.type = Cur.function_type /\ Item.type = "INITIALIZER"

\* Everywhere else every rule returns, and every source given to the compiler is done with.
Terminates == status = "parsing" ~> status \in {"compiled", "failed", "aborted"} \/ Stuck
================================================================================
