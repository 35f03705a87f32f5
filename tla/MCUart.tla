------------------------------- MODULE MCUart -------------------------------
(***************************************************************************)
(* The serial driver for model checking.                                   *)
(***************************************************************************)
EXTENDS Uart

=============================================================================
