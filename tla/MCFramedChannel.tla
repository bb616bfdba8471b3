-------------------------- MODULE MCFramedChannel --------------------------
(***************************************************************************)
(* TLC instances of FramedChannel.                                         *)
(***************************************************************************)
EXTENDS FramedChannel
=============================================================================
