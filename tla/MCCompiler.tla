------------------------------- MODULE MCCompiler -------------------------------
(***************************************************************************)
(* Families of programs for TLC: what the compiler may read, position by   *)
(* position.                                                               *)
(***************************************************************************)
EXTENDS CompiledCode

CONSTANT Identifiers  \* model values, exchangeable
IdentifierSymmetry == Permutations(Identifiers)

Each(n, constructs) == [i \in 1..n |-> constructs]

\* Branches and loops in each other, over locals.
Control == [
  names |-> {"a"}, members |-> {}, idioms |-> {"else"}, parameters |-> 0, functions |-> 1,
  source |-> Each(5, {"var", "block", "if", "while", "for", "expression", "variable", "assign",
                      "and", "or"})]

\* Functions and variables of the same names at all depths, and two uses.
Scopes == [
  names |-> Identifiers, members |-> {}, idioms |-> {"local_recursion", "captured_parameter"},
  parameters |-> 1, functions |-> 3,
  source |-> <<{"block", "fun"}, {"var", "fun"}, {"fun", "block"}, {"var", "fun"},
               {"expression"}, {"variable"}, {"expression", "assign"}, {"variable"}>>]

\* Classes, methods, and what refers to this.
Classes == [
  names |-> {"a"}, members |-> {"init", "m"},
  idioms |-> {"return_from_scope", "captured_parameter"}, parameters |-> 1, functions |-> 3,
  source |-> <<{"class", "block"}, {"class", "method"}>>
               \o Each(3, {"class", "method", "fun", "this", "expression", "dot", "assign",
                           "return", "variable", "call"})
               \o <<{"variable", "this"}>>]

\* Every operator, on every kind of operand.
Operators == {"bang_equal", "equal_equal", "greater", "greater_equal", "less", "less_equal",
              "plus", "minus", "star", "slash", "and", "or", "OP_NEGATE", "OP_NOT"}
Operations == [
  names |-> {"a"}, members |-> {}, idioms |-> {}, parameters |-> 0, functions |-> 1,
  source |-> <<{"print", "expression"}>>
               \o Each(4, Operators \cup {"number", "OP_TRUE", "OP_FALSE", "OP_NIL",
                                          "grouping", "variable", "assign"})]

\* class a { m() {} }
OneMethod == [
  names |-> {"a"}, members |-> {"m"}, idioms |-> {}, parameters |-> 0, functions |-> 2,
  source |-> <<{"class"}, {"method"}>>]

Programs      == {Control, Scopes, Classes, Operations}
MethodPrograms == {OneMethod}
================================================================================
