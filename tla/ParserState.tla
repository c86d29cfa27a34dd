------------------------------ MODULE ParserState ------------------------------
(***************************************************************************)
(* src/parser_state.cpp: one token of look-ahead and panic mode, which     *)
(* keeps the parser quiet from one error to the next synchronisation.      *)
(* Tokens come from the scanner, in TokenStream as it finds them in the    *)
(* source and in Parser as chosen by the model.                            *)
(***************************************************************************)
CONSTANT NoToken \* an optional without a value

VARIABLES previous_token, current_token, m_panic, encountered_error

errorVars       == <<m_panic, encountered_error>>
parserStateVars == <<previous_token, current_token, m_panic, encountered_error>>

ParserStateInit ==
  /\ previous_token = NoToken /\ current_token = NoToken
  /\ m_panic = FALSE /\ encountered_error = FALSE

\* Mutant: the panic is entered, the error forgotten.
ReportOnlyPanics ==
  /\ m_panic' = TRUE
  /\ UNCHANGED encountered_error
ReportError ==
  /\ m_panic' = TRUE
  /\ encountered_error' = (m_panic => encountered_error)

ResetPanicState == m_panic' = FALSE /\ UNCHANGED encountered_error

\* Advance, at its beginning and at its end.
Shift          == previous_token' = current_token
Deliver(token) == current_token' = token
================================================================================
