--------------------------- MODULE MCFlashBuffer ----------------------------
(***************************************************************************)
(* Two adjacent regions, the first in the list being the upper one, as     *)
(* target_add_flash pushes to the front: one sector above two sectors.     *)
(***************************************************************************)
EXTENDS FlashBuffer

MCRegions == <<[start |-> 4, length |-> 2], [start |-> 0, length |-> 4]>>
=============================================================================
