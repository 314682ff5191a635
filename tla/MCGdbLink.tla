----------------------------- MODULE MCGdbLink ------------------------------
(***************************************************************************)
(* Two requests: one that begins like a remote packet and contains '$' and *)
(* EOT, answered with output and a reply; and 'c'.  An answer fits into    *)
(* the transmit FIFO when that is empty.                                   *)
(***************************************************************************)
EXTENDS GdbLink

MCRequests == << <<33, 36, 4>>, <<99>> >>

MCAnswers == <<2, 1>>
=============================================================================
