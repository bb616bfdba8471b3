---------------------------- MODULE MCStickSelect ----------------------------
(* Model-checking instance of StickSelect.                                 *)
EXTENDS StickSelect
==============================================================================
