---------------------------------- MODULE MCLox ----------------------------------
(***************************************************************************)
(* Families of programs for TLC: what the compiler may read, position by   *)
(* position.                                                               *)
(***************************************************************************)
EXTENDS Lox

CONSTANTS Identifiers, Pair  \* model values, exchangeable
IdentifierSymmetry == Permutations(Identifiers) \cup Permutations(Pair)

Each(n, constructs) == [i \in 1..n |-> constructs]

\* A scope, two declarations in it, and what uses them while it is open.
Closures == [
  names |-> Pair, members |-> {}, idioms |-> {}, parameters |-> 0, functions |-> 2,
  source |-> <<{"block"}, {"var", "fun"}, {"fun", "var"}>>
               \o Each(3, {"fun", "expression", "variable", "assign"})
               \o Each(3, {"expression", "variable", "call"})]

\* A closure that outlives the block of what it captured: var g; { captures g = f; } g();
Escape(captures) == [
  names |-> Identifiers, members |-> {}, idioms |-> {}, parameters |-> 0, functions |-> 2,
  source |-> <<{"var"}, {"block"}>> \o captures
               \o <<{"expression"}, {"variable", "assign"}, {"variable"},
                    {"expression"}, {"variable"}, {"call"}>>]
EscapeWrite == Escape(<<{"var"}, {"fun"}, {"expression"}, {"variable", "assign"}, {"variable"}>>)
EscapeRead  == Escape(<<{"var"}, {"var"}, {"fun"}, {"expression"}, {"variable"}>>)

\* Functions, their parameters, and calls of them.
Calls == [
  names |-> {"f", "a"}, members |-> {}, idioms |-> {}, parameters |-> 1, functions |-> 2,
  source |-> <<{"fun"}, {"fun", "return", "expression"}, {"fun", "return", "expression"}>>
               \o Each(3, {"expression", "variable", "call", "return", "print"})]

\* Loops and branches over locals.
Control == [
  names |-> {"a"}, members |-> {}, idioms |-> {"else"}, parameters |-> 0, functions |-> 1,
  source |-> <<{"block", "var"}, {"var", "for"}>>
               \o Each(3, {"var", "block", "if", "while", "for", "expression", "variable",
                           "assign", "and", "or"})]

\* A class with one method, an instance of it, and its properties.
Classes == [
  names |-> {"C"}, members |-> {"init", "m"}, idioms |-> {}, parameters |-> 1, functions |-> 2,
  source |-> <<{"class"}, {"method"}, {"expression", "return"}, {"this", "variable"},
               {"dot", "call", "expression"}, {"dot", "expression", "OP_NIL", "variable"},
               {"expression", "variable", "call"}, {"call", "variable"}, {"dot", "call"},
               {"call"}>>]

\* Every operator, on every kind of operand; native functions, compared and called.
Operators == {"bang_equal", "equal_equal", "greater", "greater_equal", "less", "less_equal",
              "plus", "minus", "star", "slash", "and", "or", "OP_NEGATE", "OP_NOT"}
Operations == [
  names |-> {"Echo"}, members |-> {}, idioms |-> {}, parameters |-> 0, functions |-> 1,
  source |-> <<{"print", "expression"}>>
               \o Each(4, Operators \cup {"number", "OP_TRUE", "OP_NIL", "grouping", "variable"})]
Natives == [
  names |-> {"Echo", "SystemTimeNow"}, members |-> {}, idioms |-> {}, parameters |-> 2,
  functions |-> 1,
  source |-> <<{"print"}, {"variable"}, {"call"}, {"number", "OP_TRUE", "OP_FALSE", "plus"},
               {"number", "equal_equal", "less"}, {"number"}>>]

\* { var a; var b; fun f() { b; a; } fun g() { b; } }
CaptureOrder == [
  names |-> Identifiers, members |-> {}, idioms |-> {}, parameters |-> 0, functions |-> 2,
  source |-> <<{"block"}, {"var"}, {"var"}, {"fun"}, {"expression"}, {"variable"},
               {"expression"}, {"variable"}, {"fun"}, {"expression"}, {"variable"}>>]

\* fun f() { var a; return; } f();
ReturnFromScope == [
  names |-> {"a", "f"}, members |-> {}, idioms |-> {"return_from_scope"}, parameters |-> 0,
  functions |-> 2,
  source |-> <<{"fun"}, {"var", "block"}, {"var", "return"}, {"return", "expression"},
               {"expression", "variable"}, {"variable", "call"}, {"call"}>>]

Programs                == {Control, Operations, Natives, Calls, Classes}
ClosurePrograms         == {Closures, EscapeWrite, EscapeRead}
CaptureOrderPrograms    == {CaptureOrder}
ReturnFromScopePrograms == {ReturnFromScope}
================================================================================
