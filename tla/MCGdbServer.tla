---------------------------- MODULE MCGdbServer ----------------------------
(***************************************************************************)
(* GdbServer with two targets and semihosting calls nested two deep.       *)
(***************************************************************************)
EXTENDS GdbServer

=============================================================================
