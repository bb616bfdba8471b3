---------------------------- MODULE MCRadioAccess ----------------------------
(* RadioAccess for TLC; the bounds are set in the .cfg files.              *)
EXTENDS RadioAccess
==============================================================================
