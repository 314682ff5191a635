---------------------------- MODULE MCBreakwatch ----------------------------
(***************************************************************************)
(* A breakpoint above the code region, which aliases into it, two          *)
(* watchpoints and a software breakpoint, which the driver refuses.        *)
(***************************************************************************)
EXTENDS Breakwatch

CONSTANTS FpbComps, DwtComps, FpbSlots, DwtSlots

MCComps == [u \in {"fpb", "dwt"} |-> IF u = "fpb" THEN FpbComps ELSE DwtComps]
MCMaxSlots == [u \in {"fpb", "dwt"} |-> IF u = "fpb" THEN FpbSlots ELSE DwtSlots]

Req(t, a, s) == [type |-> t, addr |-> a, size |-> s]

MCRequests ==
    {Req("BREAK_HARD", 6, 2),
     Req("WATCH_WRITE", 6, 4), Req("WATCH_ACCESS", 8, 1),
     Req("BREAK_SOFT", 2, 2)}
=============================================================================
