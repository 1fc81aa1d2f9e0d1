------------------------------ MODULE NvItems ------------------------------
(***************************************************************************)
(* The non-volatile items of the SDK, drv_nv.c: one module of two sectors  *)
(* with single items.  A sector has a header, a table of indices and the   *)
(* contents they point to.  A full sector is exchanged for the other one.  *)
(*                                                                         *)
(* Every program and erase of the flash is a step of its own, and the      *)
(* power may fail between any two.  Coarser than the code are              *)
(*   - the data of an item and the header in front of them: nobody looks   *)
(*     at them before the index is marked valid;                           *)
(*   - the copy of one item by an exchange: its sector has no header yet.  *)
(* Offsets count from the start of the contents of a sector.               *)
(***************************************************************************)
EXTENDS NvSectors, Sequences

CONSTANTS
  Ids,       \* items of the module
  Vals,      \* contents an item may have
  Written,   \* what callers write under each item
  None,      \* NV_ITEM_NOT_FOUND, or contents that are not programmed yet
  NoReq,     \* no nv_flashWriteNew in progress
  NoHalf,    \* see NvStore
  SizeOf,    \* idxInfo.size: the header of an item and its data
  IdxNum,    \* MODULE_IDX_NUM
  Space,     \* bytes of a sector behind the table of indices
  Align      \* contents start at multiples of this

ASSUME ConstantsAssumption ==
  /\ None \notin Vals /\ Written \in [Ids -> SUBSET Vals]
  /\ NoReq \notin Ids \X Vals
  /\ NoHalf \notin [Ids -> Vals \cup {None}]
  /\ IdxNum \in Nat \ {0} /\ Space \in Nat /\ Align \in Nat \ {0}
  /\ SizeOf \in [Ids -> 1 .. Space]

VARIABLES
  hdr,     \* usedFlag of each sector
  idx,     \* the index table of each sector, with the contents
  pc,      \* the flash operation that is next
  req,     \* the item and the contents nv_flashWriteNew was called with
  force,   \* forceChgSec: the second try of nv_flashWriteNew
  sec,     \* the sector nv_sector_read found (opSect, then oldSect)
  xch,     \* sectorUpdate: the write goes to the other sector
  rd       \* the index of the old sector that the exchange looks at

flash == <<hdr, idx>>
vars == <<hdr, idx, pc, req, force, sec, xch, rd>>

Data == Vals \cup {None}
Index == [at : Nat, id : Ids, size : Nat, val : Data,
          used : {"operation", "single", "invalid", "torn"}]

-----------------------------------------------------------------------------
(* The table of indices *)

\* nv_index_read: the last valid index of an item, none or one.
nv_index_read(L, id) ==
  {i \in 1 .. Len(L) :
     /\ L[i].id = id /\ L[i].used = "single"
     /\ \A j \in i + 1 .. Len(L) : ~(L[j].id = id /\ L[j].used = "single")}

Latest(L, id) ==
  LET found == nv_index_read(L, id)
  IN IF found = {} THEN None ELSE L[CHOOSE i \in found : TRUE].val

Contents(L) == [id \in Ids |-> Latest(L, id)]

RoundUp(n) == ((n + Align - 1) \div Align) * Align
NextAt(L) ==
  IF L = <<>> THEN 0 ELSE RoundUp(L[Len(L)].at + L[Len(L)].size)

\* Seeded fault: the end of the table is not looked at.
ItemFits_Table(L, id) == NextAt(L) + SizeOf[id] <= Space

\* The end of the table, and ITEM_OFT_CHECK of the place nv_write_item has
\* computed.
ItemFits(L, id) == Len(L) < IdxNum /\ NextAt(L) + SizeOf[id] <= Space

\* The test before nv_write_item, which does not round: the table is full, the
\* contents are, or the last index was not programmed to its end.
NeedsExchange(L, id) ==
  L # <<>> /\ LET last == L[Len(L)]
              IN \/ Len(L) = IdxNum
                 \/ last.at + last.size + SizeOf[id] > Space
                 \/ last.used = "torn"

IndexOf(L, id, used, v) ==
  [at |-> NextAt(L), id |-> id, size |-> SizeOf[id], used |-> used, val |-> v]

-----------------------------------------------------------------------------
(* Calls *)

Return ==
  /\ pc' = "idle" /\ req' = NoReq
  /\ force' = FALSE /\ sec' = 1 /\ xch' = FALSE /\ rd' = 1

Init ==
  /\ hdr = [s \in Sectors |-> "none"]
  /\ idx = [s \in Sectors |-> <<>>]
  /\ pc = "idle" /\ req = NoReq
  /\ force = FALSE /\ sec = 1 /\ xch = FALSE /\ rd = 1

nv_flashWriteNew(id, v) ==
  /\ pc = "idle"
  /\ pc' = "find"
  /\ req' = <<id, v>>
  /\ UNCHANGED <<flash, force, sec, xch, rd>>

\* A read changes the flash only when it finds an exchange to be finished.
nv_flashReadNew ==
  /\ pc = "idle"
  /\ FoundReady(hdr)
  /\ pc' = "find"
  /\ UNCHANGED <<flash, req, force, sec, xch, rd>>

-----------------------------------------------------------------------------
(* nv_sector_read *)

\* A sector is ready: the power failed in an exchange.  The other one is no
\* longer valid ...
FinishOld ==
  /\ pc = "find"
  /\ FoundReady(hdr)
  /\ hdr' = [hdr EXCEPT ![Other(Found(hdr))] = "invalid"]
  /\ pc' = "finish"
  /\ UNCHANGED <<idx, req, force, sec, xch, rd>>

\* ... and this one is.
FinishNew ==
  /\ pc = "finish"
  /\ hdr' = [hdr EXCEPT ![Found(hdr)] = "valid"]
  /\ pc' = "find"
  /\ UNCHANGED <<idx, req, force, sec, xch, rd>>

ReadDone ==
  /\ pc = "find" /\ req = NoReq
  /\ FoundValid(hdr)
  /\ Return
  /\ UNCHANGED flash

\* nv_flashWriteNewHandler finds no sector and erases the first one ...
EraseFirst ==
  /\ pc = "find" /\ req # NoReq
  /\ Live(hdr) = {}
  /\ hdr' = [hdr EXCEPT ![1] = "none"]
  /\ idx' = [idx EXCEPT ![1] = <<>>]
  /\ sec' = 1 /\ xch' = FALSE
  /\ pc' = "index"
  /\ UNCHANGED <<req, force, rd>>

\* ... or looks for a place in the one it found.
Place ==
  /\ pc = "find" /\ req # NoReq
  /\ FoundValid(hdr)
  /\ sec' = Found(hdr)
  /\ xch' = (force \/ NeedsExchange(idx[Found(hdr)], req[1]))
  /\ pc' = IF xch' THEN "erase" ELSE "index"
  /\ UNCHANGED <<flash, req, force, rd>>

-----------------------------------------------------------------------------
(* The exchange, up to the item to be written *)

Target == IF xch THEN Other(sec) ELSE sec

\* Seeded fault: of several flash sectors only the first one is erased.
EraseNew_Header ==
  /\ pc = "erase"
  /\ hdr' = [hdr EXCEPT ![Target] = "none"]
  /\ rd' = 1
  /\ pc' = "dedupe"
  /\ UNCHANGED <<idx, req, force, sec, xch>>

EraseNew ==
  /\ pc = "erase"
  /\ hdr' = [hdr EXCEPT ![Target] = "none"]
  /\ idx' = [idx EXCEPT ![Target] = <<>>]
  /\ rd' = 1
  /\ pc' = "dedupe"
  /\ UNCHANGED <<req, force, sec, xch>>

\* Valid indices with a later one of the same item.
Older(L) ==
  {i \in 1 .. Len(L) : L[i].used = "single" /\ i \notin nv_index_read(L, L[i].id)}

\* What nv_exceptionDataHandler deletes.
Duplicates(L) == Older(L)

\* nv_exceptionDataHandler, from the end of the table.
Dedupe ==
  /\ pc = "dedupe"
  /\ Duplicates(idx[sec]) # {}
  /\ LET i == CHOOSE i \in Duplicates(idx[sec]) :
                \A j \in Duplicates(idx[sec]) : j <= i
     IN idx' = [idx EXCEPT ![sec] = [@ EXCEPT ![i].used = "invalid"]]
  /\ UNCHANGED <<hdr, pc, req, force, sec, xch, rd>>

\* It has come to the start of the table, or got no buffer.
DedupeDone ==
  /\ pc = "dedupe"
  /\ pc' = "copy"
  /\ UNCHANGED <<flash, req, force, sec, xch, rd>>

\* nv_write_item has failed: nv_flashWriteNew tries once more, and exchanges
\* the sectors whatever it finds.
TryAgain ==
  IF force THEN Return
  ELSE /\ pc' = "find" /\ force' = TRUE
       /\ UNCHANGED <<req, sec, xch, rd>>

\* Valid items are copied, but for the one that is about to be written.
Copied(r) == r.used = "single" /\ r.id # req[1]

\* The table ends, or an index that was not programmed to its end ends it.
Scanned == rd <= Len(idx[sec]) => idx[sec][rd].used = "torn"

Copy ==
  /\ pc = "copy" /\ ~Scanned
  /\ LET r == idx[sec][rd]
     IN IF ~Copied(r)
        THEN rd' = rd + 1 /\ UNCHANGED <<idx, pc, req, force, sec, xch>>
        ELSE IF ItemFits(idx[Target], r.id)
        THEN /\ idx' = [idx EXCEPT ![Target] =
                          Append(@, IndexOf(@, r.id, "single", r.val))]
             /\ rd' = rd + 1
             /\ UNCHANGED <<pc, req, force, sec, xch>>
        ELSE TryAgain /\ UNCHANGED idx
  /\ UNCHANGED hdr

\* NV_NOT_ENOUGH_SAPCE, or on to the new item.
CopyDone ==
  /\ pc = "copy" /\ Scanned
  /\ IF ItemFits(idx[Target], req[1])
     THEN pc' = "index" /\ UNCHANGED <<req, force, sec, xch, rd>>
     ELSE Return
  /\ UNCHANGED flash

-----------------------------------------------------------------------------
(* nv_write_item, and what makes it count *)

\* Seeded fault: the index is programmed as valid.
WriteIndex_Valid ==
  /\ pc = "index"
  /\ IF ItemFits(idx[Target], req[1])
     THEN /\ idx' = [idx EXCEPT ![Target] =
                       Append(@, IndexOf(@, req[1], "single", None))]
          /\ pc' = "data"
          /\ UNCHANGED <<req, force, sec, xch, rd>>
     ELSE TryAgain /\ UNCHANGED idx
  /\ UNCHANGED hdr

WriteIndex ==
  /\ pc = "index"
  /\ IF ItemFits(idx[Target], req[1])
     THEN /\ idx' = [idx EXCEPT ![Target] =
                       Append(@, IndexOf(@, req[1], "operation", None))]
          /\ pc' = "data"
          /\ UNCHANGED <<req, force, sec, xch, rd>>
     ELSE TryAgain /\ UNCHANGED idx
  /\ UNCHANGED hdr

WriteData ==
  /\ pc = "data"
  /\ idx' = [idx EXCEPT ![Target] = [@ EXCEPT ![Len(@)].val = req[2]]]
  /\ pc' = "mark"
  /\ UNCHANGED <<hdr, req, force, sec, xch, rd>>

MarkItem ==
  /\ pc = "mark"
  /\ idx' = [idx EXCEPT ![Target] = [@ EXCEPT ![Len(@)].used = "single"]]
  /\ pc' = "delete"
  /\ UNCHANGED <<hdr, req, force, sec, xch, rd>>

\* The index of the item that was the last one before this write.
Previous(L, id) == nv_index_read(SubSeq(L, 1, Len(L) - 1), id)

\* The new item replaces the last one; a sector gets its header.
DeleteOld ==
  /\ pc = "delete"
  /\ idx' = [idx EXCEPT ![Target] =
       [i \in DOMAIN @ |-> IF i \in Previous(@, req[1])
                           THEN [@[i] EXCEPT !.used = "invalid"] ELSE @[i]]]
  /\ IF xch \/ Len(idx[Target]) = 1
     THEN pc' = "header" /\ UNCHANGED <<req, force, sec, xch, rd>>
     ELSE Return
  /\ UNCHANGED hdr

\* The header of a first sector makes it valid at once.
FirstHeader ==
  /\ pc = "header" /\ ~xch
  /\ hdr' = [hdr EXCEPT ![Target] = "valid"]
  /\ Return
  /\ UNCHANGED idx

ReadyNew ==
  /\ pc = "header" /\ xch
  /\ hdr' = [hdr EXCEPT ![Target] = "ready"]
  /\ pc' = "old"
  /\ UNCHANGED <<idx, req, force, sec, xch, rd>>

InvalidateOld ==
  /\ pc = "old"
  /\ hdr' = [hdr EXCEPT ![sec] = "invalid"]
  /\ pc' = "new"
  /\ UNCHANGED <<idx, req, force, sec, xch, rd>>

ValidateNew ==
  /\ pc = "new"
  /\ hdr' = [hdr EXCEPT ![Target] = "valid"]
  /\ Return
  /\ UNCHANGED idx

-----------------------------------------------------------------------------
(* nv_resetModule, and the power failing *)

nv_resetModule ==
  /\ pc = "idle"
  /\ hdr' = [hdr EXCEPT ![1] = "none"]
  /\ idx' = [idx EXCEPT ![1] = <<>>]
  /\ pc' = "reset"
  /\ UNCHANGED <<req, force, sec, xch, rd>>

ResetSecond ==
  /\ pc = "reset"
  /\ hdr' = [hdr EXCEPT ![2] = "none"]
  /\ idx' = [idx EXCEPT ![2] = <<>>]
  /\ Return

Crash ==
  /\ pc # "idle"
  /\ Return
  /\ UNCHANGED flash

\* The power fails while the eight bytes of an index are programmed.
CrashTorn ==
  /\ pc = "index" /\ ItemFits(idx[Target], req[1])
  /\ idx' = [idx EXCEPT ![Target] =
               Append(@, IndexOf(@, req[1], "torn", None))]
  /\ Return
  /\ UNCHANGED hdr

-----------------------------------------------------------------------------
Next ==
  \/ \E id \in Ids : \E v \in Written[id] : nv_flashWriteNew(id, v)
  \/ nv_flashReadNew \/ FinishOld \/ FinishNew \/ ReadDone
  \/ EraseFirst \/ Place
  \/ EraseNew \/ Dedupe \/ DedupeDone \/ Copy \/ CopyDone
  \/ WriteIndex \/ WriteData \/ MarkItem \/ DeleteOld
  \/ FirstHeader \/ ReadyNew \/ InvalidateOld \/ ValidateNew
  \/ nv_resetModule \/ ResetSecond
  \/ Crash \/ CrashTorn

Spec == Init /\ [][Next]_vars

-----------------------------------------------------------------------------
(* Properties *)

Pcs == {"idle", "find", "finish", "erase", "dedupe", "copy", "index", "data",
        "mark", "delete", "header", "old", "new", "reset"}

\* The driver is between two flash operations, with tables that do not exceed
\* their sector (drv_nv.c).
TypeOK ==
  /\ hdr \in [Sectors -> Flags]
  /\ idx \in [Sectors -> Seq(Index)]
  /\ \A s \in Sectors : Len(idx[s]) <= IdxNum
  /\ pc \in Pcs
  /\ req \in (Ids \X Vals) \cup {NoReq}
  /\ force \in BOOLEAN /\ sec \in Sectors /\ xch \in BOOLEAN
  /\ rd \in 1 .. IdxNum + 1

\* An exchange has room for all it copies, rounded up and with the duplicates
\* that were not deleted for want of a buffer: nv_write_item never fails in
\* the loop, whose break would leave the items behind it behind.
CopiesFit ==
  pc = "copy" /\ ~Scanned /\ Copied(idx[sec][rd])
    => ItemFits(idx[Target], idx[sec][rd].id)

\* The module as its callers see it is the abstract store of items, wherever
\* the power fails in a write, an exchange, the end of one after a restart, or
\* a reset.
Stored == [id \in Ids |-> IF Live(hdr) = {} THEN None
                          ELSE Latest(idx[Found(hdr)], id)]

\* The write in progress has taken effect.
Applied ==
  \/ pc = "delete" /\ hdr[Target] = "valid"
  \/ pc = "old" /\ Found(hdr) = Target
  \/ pc = "new"

Half ==
  IF Live(hdr) = Sectors THEN Contents(idx[Other(Found(hdr))]) ELSE NoHalf

Nv == INSTANCE NvStore
        WITH kv <- Stored, pend <- IF Applied THEN NoReq ELSE req, half <- Half

ImplementsNvStore == Nv!Spec
=============================================================================
