------------------------------- MODULE MCSession -------------------------------
(***************************************************************************)
(* Programs for several calls of Interpret: functions that may run into an *)
(* error, and the empty program.                                           *)
(***************************************************************************)
EXTENDS Session

\* fun f() { g; } f();
Failing == [
  names |-> {"f", "g"}, members |-> {}, idioms |-> {}, parameters |-> 0, functions |-> 2,
  source |-> <<{"fun"}, {"expression"}, {"variable"}, {"expression"}, {"variable"}, {"call"}>>]
SessionPrograms == {Failing}
================================================================================
