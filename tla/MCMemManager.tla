---------------------------- MODULE MCMemManager ----------------------------
(***************************************************************************)
(* MemManager with three pools of one or two blocks and two tasks that ask *)
(* for sizes below, at and above the block sizes.                          *)
(***************************************************************************)
EXTENDS MemManager

MCBufSize == <<16, 64, 128>>

MCBufCount == <<2, 1, 1>>

MCRequests == {12, 16, 17, 64, 65, 129}
=============================================================================
