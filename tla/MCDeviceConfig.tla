--------------------------- MODULE MCDeviceConfig ---------------------------
(***************************************************************************)
(* Three pages, a setting inside one page and one that spans two, as the   *)
(* second target frequency does.                                           *)
(***************************************************************************)
EXTENDS DeviceConfig

MCDefault == [p \in 1..PageCount |-> 1]
MCSettings == {{1}, {2, 3}}
=============================================================================
