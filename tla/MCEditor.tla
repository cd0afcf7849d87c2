------------------------------- MODULE MCEditor -------------------------------
(***************************************************************************)
(* A small instance of Editor for TLC.                                     *)
(***************************************************************************)
EXTENDS Editor
=============================================================================
