---------------------------- MODULE MC_FlashEep ----------------------------
(***************************************************************************)
(* A small bank for TLC: an object of one byte with two contents that      *)
(* alternate, and one of two bytes; their identifiers share a byte of      *)
(* buf_id, as those of the firmware do (0 and 1, 0x10 to 0x12, ...), and   *)
(* a sector for three records.  A torn size byte reads as a possible size  *)
(* or as more than MaxObj.                                                 *)
(***************************************************************************)
EXTENDS FlashEepProofs, TLC

CONSTANTS a, b, v1, v2

MCSizeOf == a :> 1 @@ b :> 2
MCByteOf == a :> 0 @@ b :> 0
MCWritten == a :> {v1, v2} @@ b :> {v1}
=============================================================================
