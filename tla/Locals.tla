--------------------------------- MODULE Locals ---------------------------------
(***************************************************************************)
(* The local variables of the functions under compilation, declared and    *)
(* resolved as in src/compiler.cpp: the part of a Compiler that decides    *)
(* whether a program is accepted (Parser) and which code is emitted for it *)
(* (Compiler).                                                             *)
(***************************************************************************)
EXTENDS Integers, SequencesExt, FiniteSetsExt

VARIABLE compilers \* the Compilers at work, each the m_parent_compiler of the next

Cur         == Last(compilers)
WithLast(c) == [compilers EXCEPT ![Len(compilers)] = c]

Uninitialised == -1

Local(name, depth) ==
  [identifier_name |-> name, local_scope_depth |-> depth, is_captured |-> FALSE]

\* The constructor: slot 0 holds the receiver of a method, else the function called.
FirstLocal(function_type) == Local(IF function_type = "METHOD" THEN "this" ELSE "", 0)

BeginScope(c) == [c EXCEPT !.current_scope_depth = @ + 1]

\* The locals deeper than the scope returned to are popped from the back.
\* Mutant: the depth is compared before it is decremented.
LocalsKeptAtDepth(c) ==
  Max({0} \cup {i \in DOMAIN c.locals : c.locals[i].local_scope_depth <= c.current_scope_depth})
LocalsKept(c) ==
  Max({0} \cup {i \in DOMAIN c.locals : c.locals[i].local_scope_depth < c.current_scope_depth})

PopScope(c) ==
  [c EXCEPT !.current_scope_depth = @ - 1, !.locals = SubSeq(@, 1, LocalsKept(c))]

\* declareVariable refuses a second variable of the name in the same scope.
InScope(c, i) == \A j \in i..Len(c.locals) :
  \/ c.locals[j].local_scope_depth = Uninitialised
  \/ c.locals[j].local_scope_depth >= c.current_scope_depth
Redeclares(c, name) ==
  /\ c.current_scope_depth > 0
  /\ \E i \in DOMAIN c.locals : c.locals[i].identifier_name = name /\ InScope(c, i)

DeclareVariable(c, name) ==
  IF c.current_scope_depth = 0 THEN c
  ELSE [c EXCEPT !.locals = Append(@, Local(name, Uninitialised))]

MarkInitialized(c) ==
  IF c.current_scope_depth = 0 THEN c
  ELSE [c EXCEPT !.locals[Len(c.locals)].local_scope_depth = c.current_scope_depth]

\* The index of a local in Compiler::locals, which is also its slot.
Declares(c, name) == \E i \in DOMAIN c.locals : c.locals[i].identifier_name = name
ResolveVariable(c, name) ==
  Max({i \in DOMAIN c.locals : c.locals[i].identifier_name = name}) - 1

\* The innermost compiler with a local of that name; 0 if the name is global.
Owner(name) == Max({0} \cup {k \in DOMAIN compilers : Declares(compilers[k], name)})

ReadInItsInitializer(name) ==
  /\ Owner(name) > 0
  /\ LET c == compilers[Owner(name)]
     IN  c.locals[ResolveVariable(c, name) + 1].local_scope_depth = Uninitialised
================================================================================
