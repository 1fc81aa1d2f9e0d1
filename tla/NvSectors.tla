----------------------------- MODULE NvSectors -----------------------------
(***************************************************************************)
(* The two sectors of a module of non-volatile items, and how drv_nv.c     *)
(* chooses between them.  The flag of a sector is "none" (erased, or with  *)
(* a checksum that fails), "ready" while an exchange makes it the current  *)
(* one, "valid", and "invalid" when it has been exchanged for the other.   *)
(***************************************************************************)
EXTENDS Naturals

Sectors == {1, 2}
Other(s) == 3 - s
Flags == {"none", "ready", "valid", "invalid"}

\* The sectors that nv_sector_read may choose; it takes the first of them.
Live(h) == {s \in Sectors : h[s] \in {"ready", "valid"}}
Found(h) == CHOOSE s \in Live(h) : \A t \in Live(h) : s <= t

\* It found a sector, and an exchange that is to be finished.
FoundReady(h) == Live(h) # {} /\ h[Found(h)] = "ready"
FoundValid(h) == Live(h) # {} /\ h[Found(h)] = "valid"
=============================================================================
