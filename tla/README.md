# Verification of lox-cpp

lox-cpp compiles Lox source to byte code and interprets it on a stack machine
with a mark-and-sweep garbage collector. This directory holds TLA+ models of
its parts, translated from `src/src/*.cpp`, the TLC instances that check them,
and proofs checked by TLAPS.

## The system

| part | source | state | operations | interacts with |
|---|---|---|---|---|
| Source | `source.cpp/h` | the source text | read from a file, append | read by scanner, compiler, error reports |
| Scanner | `scanner.cpp/h` | start, current, line | GetNextToken, Reset | called by ParserState |
| ParserState | `parser_state.cpp/h` | previous and current token, panic, encountered_error | Initialize, Advance, Consume, Match, ReportError | called by every Compiler of a compilation; scanner |
| Compiler | `compiler.cpp/h` | one per function under compilation: function, locals with depth and capture flag, upvalue descriptors, scope depth; linked by m_parent_compiler | one method per grammar rule, emission, scopes, resolution, jump patching, error synchronisation | ParserState; allocates on the Heap, which roots its functions; resolution writes into the enclosing compilers |
| Chunk | `chunk.cpp/h` | byte code, lines, constants | disassembly (debug output) | written by the compiler, read by the virtual machine |
| VirtualMachine | `virtual_machine.cpp/h` | value stack, call frames, globals, open upvalues | Interpret, one case per opcode, call, captureUpvalue, closeUpvalues | allocates on the Heap, whose roots are its members |
| Heap | `heap.cpp/h`, `object.h` | list of objects, mark bits, grey stack, counters, threshold, current compiler | Allocate..., collectGarbage, reset | reads the virtual machine and the compilers as roots |
| Native functions | `native_function.cpp/h` | none | SystemTimeNow, Echo | called by the virtual machine |
| Values, errors, formatting, main | `value.*`, `value_formatter.h`, `error.*`, `main.cpp` | none | comparison, printing, asserting | used everywhere |

The program has one thread and persists nothing. What makes it hard is of
another kind: an allocation anywhere may run a collection, which must see every
pointer that is still in use; compile-time scope bookkeeping must predict the
run-time layout of the value stack; upvalues alias stack slots until they are
closed; functions under compilation write to each other; and errors unwind
grammar rules and opcodes half-way.

What makes each part correct:

- **Heap**: nothing reachable is freed, all that is unreachable is, the list and
  the counters agree with the objects, tracing terminates on cycles, memory is
  bounded by the threshold.
- **Compiler**: a name resolves to the variable the scopes say; a captured
  variable is closed when its scope ends; the code leaves on the stack what the
  scopes promise.
- **VirtualMachine**: a call leaves exactly its result; a variable captured
  twice is one cell; the open upvalues are sorted, as closing assumes.
- **Parser**: what is compiled is a program, what is refused for its syntax is none,
  an error leaves scopes and flags as they should be, and parsing terminates.
- **Scanner**: a token is the longest lexeme at its place, of the right kind and line;
  nothing of the source is lost between tokens.
- **Interpret**: one call leaves a machine that the next can run on.

## Modules

| module | models |
|---|---|
| `ObjectModel` | the object types of `object.h`, their pointer fields and which of them `blackenObject` follows |
| `GarbageCollector` | abstract specification: a collection removes the unreachable nodes of a graph in one step |
| `Heap` | `heap.cpp` step by step, with the client's writes as environment |
| `MCHeap` | instances of `Heap` for TLC |
| `HeapProofs` | inductive invariant of `Heap`, proved |
| `HeapRefinement` | `Heap` implements `GarbageCollector`; allocation is bounded; proved |
| `HeapAccounting` | the counters of `Heap` agree with its objects; proved |
| `Chunk` | byte code as the compiler writes and the machine reads it, constants, values; the table of compiled functions, `functions` |
| `Locals` | the locals of the functions under compilation: declaration, initialisation, scopes, resolution; used by `Compiler` and `Parser` |
| `Compiler` | `compiler.cpp` for well-formed programs: grammar rules, scopes, resolution of names, emission and patching |
| `CompiledCode` | what the emitted code promises, checked without running it |
| `CompilerProofs` | inductive invariant of `Compiler`: types, scopes, captures, `this`; proved |
| `CodeProofs` | inductive invariant of the emitted code: operands are valid, jumps land; proved |
| `InductionLemmas` | least elements and induction over the naturals, from the well-foundedness of `<`; proved |
| `VirtualMachine` | `virtual_machine.cpp`: one action per opcode, calls, upvalues, errors |
| `Lox` | `Interpret`: `Compiler` and `VirtualMachine` composed through `functions` |
| `Session` | several calls of `Interpret` on one machine |
| `Scanner` | `scanner.cpp`: from a position in the source to the next token or error |
| `ParserState` | `parser_state.cpp`: look-ahead, panic mode, the error flag |
| `TokenStream` | `ParserState::Advance` over `Scanner`, and the lexical grammar they are checked against |
| `TokenStreamProofs` | all that `TokenStream` promises, liveness apart; proved |
| `Parser` | `compiler.cpp` for any sequence of tokens: grammar rules, errors, early returns, recovery |
| `ParserProofs` | what is refused and why, where assertions can fail, that scopes are restored; proved |
| `Grammar` | the grammar of Lox and a membership test, independent of the compiler |
| `ParsedPrograms` | what `Parser` promises, with the help of `Grammar` |
| `MCHeap`, `MCCompiler`, `MCLox`, `MCSession`, `MCTokenStream`, `MCParser` | instances for TLC |

`Compiler` and `Parser` model the same file from two sides. `Compiler` follows what is
emitted and leaves malformed programs out; `Parser` follows the tokens, with every
malformed program, and emits nothing. They share `Locals`, since scopes decide both.

### Heap

`phase` stands for the program counter inside `allocateObject` and `reset`:
`AllocateObject` is the entry and the decision to collect, `MarkRoots`,
`BlackenObject`, `BeginSweep`, `SweepMarked`, `SweepUnmarked`, `EndCollection`
are the collector, `Construct` is the rest of `allocateObject` with
`insertAtHead` and the caller's first use of the pointer, `BeginReset`,
`ResetObject`, `EndReset` are the destructor. Objects are numbered in allocation
order and numbers are not reused, so a pointer to a freed object remains
recognisable. The grey stack is a set, since the order of tracing does not
matter to any property.

The client (virtual machine and compilers) is an environment that roots and
unroots what it can reach, writes fields, closes upvalues and allocates. It
handles only objects it can reach along traced fields: that the callers of `Allocate...`
root what they pass is assumed here, not checked. The one place where the
code follows another field is `OP_GET_PROPERTY`, which takes a method from
`class_` of an instance; the constant `ClassesStayReachable` says that the
program keeps the classes of its instances reachable. Without it the collector
is wrong, and the run `heap_dangling` shows how.

### Compiler

The variable `compilers` is the chain of `Compiler` objects linked by
`m_parent_compiler`, innermost last; each is a record of the members that
`compiler.h` gives it. Helpers that work on one compiler (`Emit`, `EmitJump`,
`PatchJump`, `BeginScope`, `EndScope`, `DeclareVariable`, `AddUpvalue`, ...) are
functions from a record to a record, named as in the code. `NamedVariable` and
`ResolveUpvalue` return the whole chain, since resolution writes into the
enclosing compilers.

The C++ call stack of the grammar rules is the variable `rules`: what the rules
entered still have to do, with the local variables they will need (`offset`,
`loop_start`, ...). An action is a piece of a rule between two decisions that
depend on the next token: `IfStatement` runs to the condition, `Then` from there to
the branch, `Else` from there to the end of the branch not taken. The token itself
is chosen: `grammar`, one of the constant set `Grammars`, says which constructs a
program may use at each position, with which names, and how deep. So one behaviour
is one program, and TLC compiles every program of a family. `current` is the one
token of look-ahead that decides between going on with an infix operator and
returning from `parsePrecedence`.

Programs are well-formed: a missing operand is read as `nil` and a missing
statement as `{}` (what happens otherwise is in `Parser`). The errors of scope (a name
declared twice, a variable read in its own initializer, `return` in the script or in an
initializer, `this` outside a class) end the compilation. `heights` is a history
variable: it notes how many locals the compiler counts where a statement begins.

### Virtual machine

One action per opcode; `Instruction` is the `switch` of `run()`. `IndexAt`, `Ip` and
`NextIp` decode the bytes the compiler emitted. `status` is `"aborted"` where the
code would fail an assertion or a range-checked `at()`: `Asserting(ok, action)`
marks each such place. Objects are numbered in allocation order and are never
freed here; that no object still needed is freed is what the heap part shows.
Numbers have no values (arithmetic yields any number of `Numbers`, comparison either
truth value), so both branches of every condition are followed. Strings as values
are left out. Where the code reads memory that was never written, the line of a
negation's error in the empty `Chunk::lines`, the model may end the process or go on. `in_order` is a history variable: every new upvalue so far was for a
slot above all the open ones, the only case in which `captureUpvalue` inserts
correctly.

An error ends in one of two ways: `Throw` leaves the value stack and the instruction
pointer where the case of the opcode left them, `RuntimeError` moves the instruction
pointer to the end of the code, as `runtimeError` does. What it leaves matters to the
next call of `Interpret`.

`Lox` runs the compiler to its end and then the machine, as `Interpret` does. `Session`
adds `NextSource`, the compiler and the machine going on with all they have left, and
`EndOfCode`, which is what `run` does in a frame without instructions; the top-level
function is replaced by one whose code only grows, as the top-level chunk does.

### Scanner and token stream

A source is a sequence of characters, `m_current_index` and `m_start` count from 0 as in
the code. The loops over characters are written as the place where they stop
(`EndOfRun`, `FirstOf`, `AfterBlanks`); `Scanned` is what `GetNextToken` returns and
the action `GetNextToken` how it moves the scanner. Keywords keep, each, the number of
letters the code compares, since that is where they can be wrong. `"aborted"` is
`LOX_ASSERT` in `peek` behind the end of the source.

`TokenStream` has a step for each round of the loop of `Advance` (`AdvanceLoop`); the rest
of the parser is an environment that reads on, or does not, and leaves panic mode when it
likes. There is one source: `Initialize` keeps the tokens of the source before, so an error
shown at such a stale token is outside `ShownLineInSource`. `tokens`
and `rejected` are history variables. An error before the first token makes
`ReportError` read an empty optional, which is undefined: the step may abort or go on.

### Parser

`rules` is the call stack of the grammar rules. A frame is a sequence of *items*, what
the rule has still to do; `Body` writes each rule down as its items, in the order of its
code. There is one item per way a rule uses a token: `Optional` is `Match`, `Expect` is
`Consume` whose failure is reported and passed over, `Require` is `Consume` whose
failure makes the rule return early, `Unless` and `Until` are the tests and loops on
`current_token`. One action interprets each kind of item, so an early return drops
whatever the frame still held, the restoring of scopes and flags included.

Tokens are chosen as they are read: a source of a family has a fixed `prefix`, which
leads to the rules in question, and then any tokens of a set, up to a length. A family
may have several sources, given to the same compiler one after the other, and errors of
the scanner before any token. Whether two tokens touch is not part of a source, and one
rule depends on it: `number` has `strtod` read the text again, which takes `1e5` or `0x1F`
for one number where the scanner made a number and a name. `Exponents` are the names that
may be read so, and `MisreadNumber` is the assertion that then fails. The scanner's own abort is left to `TokenStream`, and the
reports about a count above its limit are left out. `read`, `first_error` and `erred`
are history variables.

### Idioms

Some ways to combine constructs lead straight into one of the defects below, after
which nothing else can be said about the run. The passing runs therefore say nothing of
them. A grammar lists in `idioms` which of
them its programs may use, so that the passing runs cover everything else and a
violation run shows each defect alone:

| idiom | what it allows | why it is not in the passing runs of `Lox` |
|---|---|---|
| `branch_declaration` | a declaration as the branch of an `if` (`compiler.cpp:903`) | the local exists on one path only, while `endScope` pops it on both: `{ if (nil) var a; }` pops an empty stack |
| `return_from_scope` | `return` while locals are in scope | `OP_RETURN` pops arity + 1 values (`virtual_machine.cpp:81`), not the frame |
| `local_recursion` | a function of a block that refers to itself | `OP_CLOSURE` captures before it pushes, and the assertion at `virtual_machine.cpp:629` fails |
| `captured_parameter` | a closure over a parameter or `this` | no `endScope` and no closing at return: the upvalue still refers to a slot that is gone |
| `else` | an `else` branch | it is, where branches matter; left out elsewhere to keep families small |

Two more are conditions of properties, since no construct can be named that leads to
them: captures out of order (`in_order`) and functions that declare a class with
methods (`AddsMethods`).

## Runs

All runs of `MCHeap` use small distinct object sizes, bound the number of
objects ever allocated (`MaxAllocations`) and the live objects of each type
(`MaxLive`). Two of each type are enough for sharing, cycles, and unlinking at
the head, in the middle and at the tail of the list; five or six allocations
give a second and third collection over survivors of the first.

- `heap_closures`: collection on every allocation; functions under compilation,
  closures and upvalues.
- `heap_classes`: the build without `STRESS_TEST_GC`, with classes, instances, bound methods
  and cycles through fields; the inductive invariant of the proofs; the destructor.
- `heap_dangling`: an instance outlives its class.

No run allocates strings or native functions: to the collector they are functions without
references, and the proofs, for all object types, include them.

The runs of `MCCompiler` and `MCLox` enumerate families of programs; a family is
bounded by the constructs at each position, which its definition lists.

- `compiler`: `Control` nests two levels of branches and loops over a local, with
  every form of `for`; `Scopes` nests three functions over two names, so that a
  variable of the outermost is captured through the middle one, shadowed at every
  level, and used twice; `Classes` has methods, initializers, nested classes and
  functions, and `this` everywhere; `Operations` has expressions of up to five
  operands and operators at all precedences.
- `lox_programs`: the same kinds of programs, run, plus `Calls` (functions that call
  each other, two deep, with a parameter, and recursion up to `MaxFrames`), `Natives`
  and `Classes` (one class with a method or an initializer, fields, bound methods).
- `lox_closures`: `Closures` makes and calls closures over two variables while their
  block is open, `EscapeWrite` and `EscapeRead` call one through a global after the block
  has ended and its variables were closed.
- `compiler_methods`, `lox_capture_order`, `lox_return_from_scope`: one defect each.
- `session`: three calls of `Interpret` on one machine; functions that fail when called.
- `scanner`: every text of up to four characters over nine that make names, numbers,
  operators and errors; of up to five over those of comments, lines and strings; every pair
  of characters; every keyword with a letter changed, added or left out. No decision of the
  scanner looks further than two characters ahead except for keywords and the ends of
  runs, so nothing new begins at six.
- `parser`: every source of two tokens, over all token types; behind prefixes into
  expressions, declarations in a block, loops, branches, parameters, bodies of functions,
  methods and initializers, three to five tokens more, over the tokens the rules there look
  at; and a second source after one with errors of the scanner. One of the names may be read
  as the exponent of a number. `AcceptsOnlyPrograms`
  and `AcceptsPrograms` ask `Grammar` about each source that ends.

Fairness is weak throughout and belongs to a single thread that runs until it is done:
`Heap` has it on the steps of an allocation, a collection or a reset once begun, and the
client owes nothing; `TokenStream` on the loop inside `Advance` and on nothing else, since
whether the parser reads on is up to its rules (those at `compiler.cpp:362` and `:404` can
stop reading for ever), so `AdvanceReturns` says of each call that it ends; `Parser` on the
rules, once `Initialize` has begun a source.

`MaxFrames` and `MaxObjects` cut runs off where recursion or loops would go on for
ever. `CHECK_DEADLOCK FALSE` throughout: programs, sources, and the destroyed heap, end. The
identifiers of `Scopes`, `Closures`, `EscapeWrite`, `EscapeRead` and `CaptureOrder` are
exchangeable model values, and those runs check invariants and action properties only, so
symmetry is sound.

## Findings

PROJECT.json quotes the line each one contradicts.

1. `blackenObject` does not follow `class_` of an instance (`heap_dangling`).
2. The closure of a method stays on the stack, so the `OP_POP` meant for the class
   pops the closure; locals declared later are off by one, and a second method fails
   an assertion (`compiler_methods`).
3. `captureUpvalue` inserts before the last upvalue above the slot, so the list is not
   sorted, variables are no longer shared, and closing can run off the stack
   (`lox_capture_order`).
4. `OP_RETURN` pops by arity, not to the frame (`lox_return_from_scope`).
5. A second `Interpret` runs the first program again, since the top-level chunk only grows,
   and may return into the frame an earlier error left, where an assertion fails
   (`session`).

Met while modelling, without a run of their own:

- a declaration as a branch, a local recursive function, a captured parameter or `this`
  (*Idioms* above);
- comparing two closures, classes or instances ends in `LOX_ASSERT(false)`
  (`value.cpp:118`), `Echo` called with no argument asserts, and the error of negating
  anything but a number (`virtual_machine.cpp:99`) indexes `Chunk::lines`, which `emitByte`
  (`compiler.cpp:158`) never fills; `AbortsOnValuesOnly` allows these three;
- `number` (`compiler.cpp:237`) asserts that `strtod` reads one token, and fails on `1e5` and
  `0x1F`, which are two;
- a class declared in a method resets `m_within_class` as it ends (`compiler.cpp:350`), and
  `this` further down in that method is refused; `ThisIsReceiver` is about the programs that
  are accepted and has nothing to say of this;
- `m_heap` is destroyed first, not last (`virtual_machine.h:84`);
- the parser accepts `var` without a name, parameters left empty, and `var var a;` as the
  initializer of a loop; the lenient form of `Grammar` is Lox with these three;
- it does not end on a class body that holds anything but a method, nor on `return` in
  an initializer (`Stuck`), and fails an assertion on `fun (`;
- `synchronizeError` (`compiler.cpp:551`) says it stops at a keyword that begins a
  statement and leaves out `class`; what follows `class` is then read as statements;
- after one refused source, a compiler refuses every later one;
- the last letters of `true` and `false` are not compared, so `trux` is `true`; an operator
  that could go on with `=` is refused as the last character; an unterminated string
  literal fails an assertion; newlines inside string literals are not counted; the line
  shown with an error lacks its first character if it is the first line.

The properties of the passing runs are stated around these, each exception spelled out.

## Proofs

`HeapProofs` proves `Spec => []Inv` for all values of the constants, assuming
`ClassesStayReachable`. `NoTracedDangling`, what one wants, is not inductive: a
sweep in progress keeps it only because what it has passed and what is still
marked is closed under tracing (`Survivors`), which needs `Tricolor` at the end
of tracing, which needs clean marks at its start (`MarksClear`), which needs the
previous sweep to have visited the whole list (`ListHoldsLive`, `CursorsInList`).
`MarksAccessible` gives the other direction, that nothing unreachable survives.
`HeapRefinement` derives that every step of the heap is a step of
`GarbageCollector` or invisible to it: the collection takes effect at
`BeginSweep`.

`HeapAccounting` proves that the counters equal what the objects on the list add up to.
The sum is taken by type (`BytesLive`): an allocation or a deletion changes the cardinality
of one of eight sets by one, and the type of a live object never changes, so what
`freeObject` takes off is what `allocateObject` added. That an empty list means zero
counters, and that the destructor empties it, follows.

`ParserProofs` proves `RefusedForAReason` for any sources. It is inductive with one more fact,
that a panic implies an earlier error (`FlagsAgree`): this is why an error that
`ReportError` drops in a panic cannot be the only one.

It also proves `AbortsOnlyHere`. Several rules take a name from the previous token, and some
do so after an error they did not return for. `AbortInv` says of every pending rule, and of
every item in it, that what takes a name comes right behind the item that reads it, except in
the definition of a function; and that there is a previous token once any has been read.

And it proves `ScopesRestored`. A rule that returns early leaves out its `endScope` and the
rest of its marks on locals, so what holds after it depends on the rules below. `Waits` says
of all pending rules that they follow from each other: each has a state (which function, how
deep, whether the last local still wants its mark, whether the script is in a class), and
`Runs` that the items still to do lead from the state a rule goes on with to the state the
rule below waits for, or that the rule may be cut off there. The innermost state is that of
the current compiler (`Meets`), and the compiler of a suspended function meets the state
that the rule above it leads back to. Each body of `Body` is shown to run from where it is
called to where its caller goes on, each item to keep this, and `FunctionsCounted` and
`DepthsCounted` then count, by induction over the stack, the functions and scopes that the
property speaks of. Three cases are outside (`Structure`): an earlier source was refused, a
function has no name (the assertion above), or the source ended within a block (`Lost`);
then the error is known, and no further declaration comes, because the end of the source
stays the current token (`Ahead`, `Drained`). Before the proof TLC checked the invariant, in
a form that computes the states, on those of `Parser.cfg`.

All three theorems assume `ParserConstants`: that the absent token is no token, that no
name is a keyword, and that what `strtod` reads on into is a name.

`TokenStreamProofs` proves all six invariants of `TokenStream`, for sources of any length.
`AbortsKnown` assumes only that the absent token is no token; `LongestMatch` assumes
`CharacterClasses`, that letters, digits and punctuation are different characters, as
`<cctype>` has them. The argument has three layers:

- where the loops stop (`FirstOfFound`, `RunEnds`, `Skipped`). `AfterBlanks` is defined by
  a recursive function; `SkipsAll` shows by induction from the end of the source that there
  is one, and `Skipped` that it passes over blanks only and as far as it can;
- what one call of `GetNextToken` returns, in each case of its `switch` (`TokenCases`,
  `TokenEnds`, `TokenScanned`). `TokenLongest` compares each case with the lexical grammar:
  the first character tells the four kinds of lexeme apart (`OneKindOfLexeme`), the tables of
  operators agree (`OperatorTable`), and a word spells one keyword at most, though not all
  letters are compared (`OneKeyword`);
- what holds between the calls. `Tiled` needs to know the stretch behind the last token
  before the next token closes it (`Pieces`); `LinesCounted` that `m_line` has counted the
  newlines outside the tokens so far (`CountedSoFar`), which fails behind the end of the
  source, where `m_start` is stale, but no token follows there; `ShownLineInSource` that
  `m_start` never is the end of a line once there is a token.

`CompilerProofs` proves `TypeOK`, `LocalsScoped`, `UpvaluesResolve` and `ThisIsReceiver`
for every grammar, so for programs of any length, nesting and number of names. It assumes
what `CompilerConstants` says of grammars; `this` is no name and no member there, because
the scanner makes it a keyword. None of the four is inductive. Whether `EndScope` may pop,
or the end of a function may drop a compiler, depends on which rule runs, and that on what
the rules below it on the stack left. `CompilerInv` therefore describes the stack:
`Situation` is where a rule is reached (in which compiler, how deep in its scopes, among
statements, in the definition of a variable or in a class body), `Accepts` what a rule
requires of it, and `Leads` to which situation of the next rule it gives way. `RulesNest`
says that the situations of all pending rules chain up to the script at the bottom, and
that the compiler under construction fits the first. `Fits` is also where
a class body is told from a method, which keeps `this` out of the constants, and
`EnclosingSettled` (only the innermost function has a variable without its value) is what
resolution needs to hand a captured variable inwards. The lemmas about the stack
(`EndRule`, `Step` and their kin) are proved once; each action is then a replacement of the
first rules of the stack. Before the proof TLC checked the invariant, in a form that
computes the situations, on 794,897 states of the families of `MCCompiler`.

`CodeProofs` proves `OperandsValid` and `JumpsLand` for every grammar, under the limits the
code states: no function has more constants than `addConstant` and `identifierConstant`
assert (`ConstantsFit`), and for `JumpsLand` none has more than 65535 bytes of code
(`CodeFits`), which keeps every jump within what `patchJump` accepts without an error and
`emitLoop` asserts. `Compiler` lets operands wrap there, as `emitIndex` does, so without the
limits both are false of the model; of upvalues none is needed, because an index that wraps
only gets smaller. Neither is inductive, for two reasons.

- Code is bytes, and where its instructions begin depends on all that precede. `Decoded`
  says that a set of addresses is the decoding of a function: it holds 0 and the end, each
  instruction is valid and leads to the next, nothing begins inside one. There is one such
  set at most (`DecodedContains`), and it is what the recursive function `InstructionStarts`
  computes (`InstructionStartsAre`, by induction from the end of the code). What the
  compiler appends is a whole instruction, so the decoding grows at its end; patching
  changes an operand and no decoding (`Follows`, `Grows` and their lemmas). An
  `OP_CLOSURE` is as long as the function it names has upvalues, so functions once compiled
  must not change, apart from the script, which no closure names (`AmongMore`).
- While a function is compiled some jumps do not land yet. `Promises` says that each of these
  (`Open`) is the one that a pending rule of that function will patch (`Pending`), and
  that what a rule will patch, jump back to or emit is there. `Placed` tells which function
  each pending rule belongs to, so that the end of a function finds none of its own
  (`NothingOpen`); and as `EndCompiler` emits `OP_RETURN` last, every jump that went to the
  end of the code lands on an instruction (`EndsFinished`).

Each action is then a sequence of `Grows` steps of the innermost compiler, with rules that
end and begin (`CodeStep`). TLC checked `CodeInv` on the same 794,897 states first.

`InductionLemmas` derives induction from the well-foundedness of `<` on the naturals, for
sets instead of predicates, and what the proofs need of `Max`, `Min` and `FlattenSeq`.

Only model-checked:

- all liveness (`AllocationServed`, `Terminates`, `AdvanceReturns`);
- `PlainStackBalanced`: `Height` is a fold over the instructions, so a proof has to find a
  height for each instruction, as `CodeInv` does with their addresses;
- everything about `VirtualMachine` and `Lox`: the machine runs the emitted code, so its
  invariants need the theorems of `CodeProofs` and those heights first;
- membership in `Grammar`, which is `RECURSIVE`, and with it the two properties of
  `ParsedPrograms` that compare the parser with it.

## Not modelled

- Strings as values. Concatenation appends to its left operand in place
  (`virtual_machine.cpp:450`), so variables and constants that hold the same string change
  with it; a model would need the table of constants to be mutable, and no line of the
  code says otherwise.
- String literals in `Compiler`, and the reports when a count exceeds its limit (65535
  constants, upvalues, parameters, bytes of a jump), which need programs far larger than
  TLC can enumerate. Likewise stacks deeper than 65535 slots.
- Floating-point arithmetic: any result is possible, so every branch is followed.
- `source.cpp` (reading files), `main.cpp`, `value_formatter.h`, the disassembler of
  `chunk.cpp`, texts of errors: input and output without state.
- In the stress build the threshold doubles with every collection and wraps to 0 after 54
  of them; that build never reads it.

## Plan

1. An abstract specification of variables, environments in which a closure shares its
   variables with the block around it, which `Lox` implements while captures are in
   order; `OnlyAssignmentChangesVariable` is its core.
2. Strings: concatenation in place, the table of names, string constants under the
   collector.
3. `Compiler` and `Parser` shown to agree: on well-formed programs both declare and resolve
   the same locals in the same order.
4. Proofs: `PlainStackBalanced` on top of `CodeInv`; on top of both, that the list of
   upvalues stays sorted under captures in order.
