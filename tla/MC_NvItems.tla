----------------------------- MODULE MC_NvItems -----------------------------
(* Two items of different sizes; three bytes next to an alignment of two make
   the unrounded test of nv_flashWriteNewHandler pass where nv_write_item
   fails, and three small items fill the table before the contents. *)
EXTENDS NvItems, TLC

CONSTANTS a, b, x, y
MCSizeOf == a :> 3 @@ b :> 2
MCWritten == a :> {x, y} @@ b :> {x}
=============================================================================
