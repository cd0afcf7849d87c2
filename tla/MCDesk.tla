-------------------------------- MODULE MCDesk --------------------------------
(***************************************************************************)
(* Small instances of Desk for TLC.                                        *)
(***************************************************************************)
EXTENDS Desk

Everything == Kinds
=============================================================================
