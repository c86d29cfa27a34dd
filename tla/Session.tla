-------------------------------- MODULE Session --------------------------------
(***************************************************************************)
(* Several calls of VirtualMachine::Interpret on one machine, each with a  *)
(* source of its own.  The compiler and the machine carry on with all that *)
(* the calls before have left: the top-level chunk, the value stack, the   *)
(* frames, the globals and the open upvalues.                              *)
(***************************************************************************)
EXTENDS Lox

CONSTANT MaxSources \* bound on the calls of Interpret

VARIABLE sources \* how many sources were given so far

sessionVars == <<vars, sources>>

SessionInit == LoxInit /\ sources = 1

\* CompileSource again, with the compiler as it is.
NextSource ==
  /\ status \in {"returned", "error"} /\ sources < MaxSources
  /\ sources' = sources + 1 /\ status' = "ready"
  /\ rules' = <<Rule("script")>> /\ current' = "other" /\ length' = 0
  /\ compilation' = "compiling" /\ grammar' \in Grammars
  /\ UNCHANGED <<functions, compilers, m_value_stack, m_frames, m_globals, m_open_upvalues,
                 objects, in_order>>

\* run() in a frame with no instruction left.
EndOfCode ==
  /\ status = "running" /\ Machine!IsAtEnd
  /\ status' = IF m_value_stack = <<>> THEN "returned" ELSE "aborted"
  /\ UNCHANGED <<m_value_stack, m_frames, m_globals, m_open_upvalues, objects, in_order>>

SessionNext ==
  \/ LoxNext /\ UNCHANGED sources
  \/ NextSource
  \/ EndOfCode /\ UNCHANGED <<compilerVars, sources>>

SessionSpec == SessionInit /\ [][SessionNext]_sessionVars

-------------------------------------------------------------------------------
\* run() asserts that a frame without instructions left finds the value stack empty.
\* It is run again when a frame that ended in an error is returned to.
EmptyAtEnd == Running /\ Machine!IsAtEnd => m_value_stack = <<>>
================================================================================
