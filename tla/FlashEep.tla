------------------------------ MODULE FlashEep ------------------------------
(***************************************************************************)
(* The settings store of the firmware, flash_eep.c: one bank of NSect      *)
(* flash sectors.  A sector starts with a header word and holds a log of   *)
(* records; the last record of an identifier is its value.  A full sector  *)
(* is packed into the next one, which then takes over.                     *)
(*                                                                         *)
(* Every program and erase of the flash is a step of its own, and the      *)
(* power may fail between any two of them.  Two things are coarser:        *)
(*   - an erase is atomic;                                                 *)
(*   - one turn of the loop of pack_eep_fmem is one step: what it writes   *)
(*     is in a sector without a header, which is erased before any use.    *)
(*                                                                         *)
(* A record without its identifier yet has the id NoId (byte 0xff); what   *)
(* data it has nobody reads, so its val is None.                           *)
(***************************************************************************)
EXTENDS Naturals, Sequences

CONSTANTS
  Ids,         \* identifiers stored in this bank
  Vals,        \* contents an object may have
  Written,     \* what callers write under an identifier: Vals, and None for
               \* an empty object
  None,        \* contents of a deleted or never written object
  NoId,        \* the identifier byte of a record that is not finished
  NoReq,       \* no flash_write_cfg in progress
  SizeOf,      \* bytes of an object: the firmware writes one size per id
  ByteOf,      \* id >> 3: the byte of buf_id that holds the flag of an id
  NSect,       \* sectors of a bank, 1 << FMEMORY_EEP_BANKS_SHL
  SectorSize,  \* FLASH_SECTOR_SIZE
  MaxObj,      \* MAX_FOBJ_SIZE
  TornSizes    \* what a size byte may read as after an interrupted program

Hdr == 2       \* sizeof(fobj_head_t)

ASSUME ConstantsAssumption ==
  /\ Written \in [Ids -> SUBSET (Vals \cup {None})]
  /\ None \notin Vals /\ NoId \notin Ids
  /\ NoReq \notin Ids \X (Vals \cup {None})
  /\ NSect \in Nat \ {0, 1}
  /\ SectorSize \in Nat /\ SectorSize > Hdr /\ MaxObj \in Nat
  /\ SizeOf \in [Ids -> 1 .. MaxObj]
  /\ ByteOf \in [Ids -> Nat]
  /\ TornSizes \subseteq Nat

VARIABLES
  hdr,    \* header word of each sector: 0xffff, 0x00ff or 0x0000
  log,    \* records of each sector, in address order
  pc,     \* the flash operation that is next
  req,    \* the id and the data flash_write_cfg was called with
  sec,    \* the sector flash_write_cfg works on (saddr)
  rd,     \* pack_eep_fmem: record of sec it looks at (rdaddr)
  flags,  \* pack_eep_fmem: identifiers flagged in buf_id
  health  \* history: "torn" since a size byte was left that reads as more
          \* than MaxObj, "lost" since a pack went by it into data

flash == <<hdr, log>>
vars == <<hdr, log, pc, req, sec, rd, flags, health>>

Sectors == 1 .. NSect
Data == Vals \cup {None}
Record == [at : Nat, id : Ids \cup {NoId}, size : Nat, val : Data]
Sizes(id, v) == IF v = None THEN 0 ELSE SizeOf[id]

-----------------------------------------------------------------------------
(* Searching a sector *)

\* Address after a record, for the two searches: a size that cannot be right
\* is stepped over as the largest object.
EndOf(r) == r.at + Hdr + (IF r.size <= MaxObj THEN r.size ELSE MaxObj)

Next_wrobj(L) == IF L = <<>> THEN Hdr ELSE EndOf(L[Len(L)])

\* Address of the first free header; 0 when the search leaves the sector.
get_addr_wrobj(L) == IF Next_wrobj(L) < SectorSize THEN Next_wrobj(L) ELSE 0

\* The last record of an identifier at or after position i: none, or one.
get_addr_idobj(L, i, id) ==
  {j \in 1 .. Len(L) :
     /\ j >= i
     /\ L[j].id = id
     /\ \A k \in 1 .. Len(L) : k > j => L[k].id # id}

LatestFrom(L, i, id) ==
  LET found == get_addr_idobj(L, i, id)
  IN IF found = {} THEN None ELSE L[CHOOSE j \in found : TRUE].val

\* What flash_read_cfg finds.
Lookup(L, id) == LatestFrom(L, 1, id)

\* The current sector of the bank is the last one with the current header.
Current(h) == {s \in Sectors : h[s] = "current"}
get_addr_bscfg(h) == CHOOSE s \in Current(h) : \A t \in Current(h) : t <= s

NextSector(s) == IF s = NSect THEN 1 ELSE s + 1

\* Seeded fault: the header of the new record is not counted.
Fits_NoHeader(L, id, v) ==
  get_addr_wrobj(L) # 0 /\ get_addr_wrobj(L) + Sizes(id, v) < SectorSize

\* flash_write_cfg: room for one more record in a sector.
Fits(L, id, v) ==
  /\ get_addr_wrobj(L) # 0
  /\ get_addr_wrobj(L) + Sizes(id, v) + Hdr < SectorSize

\* flash_write_cfg: the object is stored already with these contents.
Same(L, id, v) == get_addr_idobj(L, 1, id) # {} /\ Lookup(L, id) = v

-----------------------------------------------------------------------------
(* Calls, and the first use of a bank *)

\* The local variables of the functions are gone.
NoLocals == sec' = 1 /\ rd' = 1 /\ flags' = {}

Return ==
  /\ pc' = "idle"
  /\ req' = NoReq
  /\ NoLocals

Init ==
  /\ hdr = [s \in Sectors |-> "free"]
  /\ log = [s \in Sectors |-> <<>>]
  /\ pc = "idle"
  /\ req = NoReq
  /\ sec = 1
  /\ rd = 1
  /\ flags = {}
  /\ health = "sound"

flash_write_cfg(id, v) ==
  /\ pc = "idle"
  /\ pc' = "select"
  /\ req' = <<id, v>>
  /\ UNCHANGED <<flash, sec, rd, flags, health>>

\* A read changes nothing once the bank has a current sector.
flash_read_cfg ==
  /\ pc = "idle"
  /\ Current(hdr) = {}
  /\ pc' = "select"
  /\ UNCHANGED <<flash, req, sec, rd, flags, health>>

\* get_addr_bscfg finds no current sector: erase the first one ...
InitErase ==
  /\ pc = "select"
  /\ Current(hdr) = {}
  /\ hdr' = [hdr EXCEPT ![1] = "free"]
  /\ log' = [log EXCEPT ![1] = <<>>]
  /\ pc' = "initmark"
  /\ UNCHANGED <<req, sec, rd, flags, health>>

\* ... and mark it current.
InitMark ==
  /\ pc = "initmark"
  /\ hdr' = [hdr EXCEPT ![1] = "current"]
  /\ pc' = "select"
  /\ UNCHANGED <<log, req, sec, rd, flags, health>>

ReadDone ==
  /\ pc = "select"
  /\ Current(hdr) # {}
  /\ req = NoReq
  /\ Return
  /\ UNCHANGED <<flash, health>>

-----------------------------------------------------------------------------
(* flash_write_cfg: equal data, room in the sector, or pack first *)

AlreadyStored ==
  /\ pc = "select"
  /\ Current(hdr) # {}
  /\ req # NoReq
  /\ Same(log[get_addr_bscfg(hdr)], req[1], req[2])
  /\ Return
  /\ UNCHANGED <<flash, health>>

Select ==
  /\ pc = "select"
  /\ Current(hdr) # {}
  /\ req # NoReq
  /\ ~Same(log[get_addr_bscfg(hdr)], req[1], req[2])
  /\ sec' = get_addr_bscfg(hdr)
  /\ pc' = IF Fits(log[get_addr_bscfg(hdr)], req[1], req[2]) THEN "program" ELSE "erase"
  /\ UNCHANGED <<flash, req, rd, flags, health>>

\* Seeded fault: the identifier is programmed together with the data.
Program_IdFirst ==
  /\ pc = "program"
  /\ log' = [log EXCEPT ![sec] = Append(@,
       [at |-> get_addr_wrobj(@), id |-> req[1],
        size |-> Sizes(req[1], req[2]), val |-> req[2]])]
  /\ pc' = "programid"
  /\ UNCHANGED <<hdr, req, sec, rd, flags, health>>

\* _flash_write_obj, first program: the size and the data.
Program ==
  /\ pc = "program"
  /\ log' = [log EXCEPT ![sec] = Append(@,
       [at |-> get_addr_wrobj(@), id |-> NoId,
        size |-> Sizes(req[1], req[2]), val |-> None])]
  /\ pc' = "programid"
  /\ UNCHANGED <<hdr, req, sec, rd, flags, health>>

\* _flash_write_obj, second program: the identifier makes the record valid.
ProgramId ==
  /\ pc = "programid"
  /\ log' = [log EXCEPT ![sec] =
                 [@ EXCEPT ![Len(@)].id = req[1], ![Len(@)].val = req[2]]]
  /\ Return
  /\ UNCHANGED <<hdr, health>>

-----------------------------------------------------------------------------
(* pack_eep_fmem *)

New == NextSector(sec)
Old == log[sec]

EraseNew ==
  /\ pc = "erase"
  /\ hdr' = [hdr EXCEPT ![New] = "free"]
  /\ log' = [log EXCEPT ![New] = <<>>]
  /\ rd' = 1
  /\ flags' = {}
  /\ pc' = "copy"
  /\ UNCHANGED <<req, sec, health>>

\* Where the loop continues after a record it skips by its size byte.  The two
\* searches step over a wrong size by MaxObj, this loop by the size as it
\* reads: it may land beyond the records that follow, or inside one, and then
\* takes data for headers until it meets a record again, or the end.  What it
\* copies until then is whatever the data say, and not modelled: nothing is
\* claimed of a bank from there on, until all of it is erased.
AfterSkipped(i) ==
  LET land == Old[i].at + Hdr + Old[i].size
      later == {j \in i + 1 .. Len(Old) : Old[j].at >= land}
  IN IF Old[i].size <= MaxObj
     THEN {i + 1}
     ELSE IF \E j \in later : Old[j].at = land
          THEN {j \in later : Old[j].at = land}
          ELSE later \cup {Len(Old) + 1}

\* An empty record, or one whose identifier was not written.
PackSkip ==
  /\ pc = "copy"
  /\ rd <= Len(Old)
  /\ Old[rd].size = 0 \/ Old[rd].id = NoId
  /\ rd' \in AfterSkipped(rd)
  /\ health' = IF Old[rd].size > MaxObj /\ rd < Len(Old) THEN "lost" ELSE health
  /\ UNCHANGED <<flash, pc, req, sec, flags>>

\* check_flag_eep_id assigns (&=): looking at the flag of one identifier
\* clears the flags of the others in its byte.
FlagsAfterCheck(id) == {f \in flags : ByteOf[f] # ByteOf[id] \/ f = id}

PackSeen ==
  /\ pc = "copy"
  /\ rd <= Len(Old)
  /\ Old[rd].size # 0 /\ Old[rd].id # NoId
  /\ Old[rd].id \in flags
  /\ flags' = FlagsAfterCheck(Old[rd].id)
  /\ rd' = rd + 1
  /\ UNCHANGED <<flash, pc, req, sec, health>>

\* Seeded fault: the first data are copied.
Packed_First(id) ==
  Append(log[New], [at |-> Next_wrobj(log[New]), id |-> id,
                    size |-> Old[rd].size, val |-> Old[rd].val])

\* The record pack writes for an identifier: its latest data, unless deleted.
Packed(id) ==
  LET v == LatestFrom(Old, rd, id)
  IN IF v = None THEN log[New]
     ELSE Append(log[New], [at |-> Next_wrobj(log[New]), id |-> id,
                            size |-> Sizes(id, v), val |-> v])

PackCopy ==
  /\ pc = "copy"
  /\ rd <= Len(Old)
  /\ Old[rd].size # 0 /\ Old[rd].id # NoId
  /\ Old[rd].id \notin flags
  /\ flags' = FlagsAfterCheck(Old[rd].id) \cup {Old[rd].id}
  /\ log' = [log EXCEPT ![New] = Packed(Old[rd].id)]
  /\ rd' = rd + 1
  /\ pc' = IF Next_wrobj(Packed(Old[rd].id)) >= SectorSize THEN "mark" ELSE "copy"
  /\ UNCHANGED <<hdr, req, sec, health>>

\* Seeded fault: the new sector is not marked.
PackEnd_Unmarked ==
  /\ pc = "copy"
  /\ rd > Len(Old)
  /\ pc' = "close"
  /\ UNCHANGED <<flash, req, sec, rd, flags, health>>

PackEnd ==
  /\ pc = "copy"
  /\ rd > Len(Old)
  /\ pc' = "mark"
  /\ UNCHANGED <<flash, req, sec, rd, flags, health>>

MarkNew ==
  /\ pc = "mark"
  /\ hdr' = [hdr EXCEPT ![New] = "current"]
  /\ pc' = "close"
  /\ UNCHANGED <<log, req, sec, rd, flags, health>>

\* Close the old sector; flash_write_cfg then writes to the new one, or
\* returns FMEM_OVERFLOW.
CloseOld ==
  /\ pc = "close"
  /\ hdr' = [hdr EXCEPT ![sec] = "closed"]
  /\ IF Fits(log[New], req[1], req[2])
     THEN /\ pc' = "program"
          /\ sec' = New
          /\ rd' = 1
          /\ flags' = {}
          /\ UNCHANGED req
     ELSE Return
  /\ UNCHANGED <<log, health>>

-----------------------------------------------------------------------------
(* flash_erase_all_cfg, and the power failing *)

flash_erase_all_cfg ==
  /\ pc = "idle"
  /\ pc' = "eraseall"
  /\ rd' = 1
  /\ UNCHANGED <<flash, req, sec, flags, health>>

EraseOne ==
  /\ pc = "eraseall"
  /\ hdr' = [hdr EXCEPT ![rd] = "free"]
  /\ log' = [log EXCEPT ![rd] = <<>>]
  /\ rd' = IF rd = NSect THEN 1 ELSE rd + 1
  /\ pc' = IF rd = NSect THEN "idle" ELSE "eraseall"
  /\ health' = IF rd = NSect THEN "sound" ELSE health
  /\ UNCHANGED <<req, sec, flags>>

Crash ==
  /\ pc # "idle"
  /\ Return
  /\ UNCHANGED <<flash, health>>

\* The power fails while the size byte is programmed: it reads as something
\* else, and no data followed it.
CrashTorn ==
  /\ pc = "program"
  /\ \E t \in TornSizes :
       /\ log' = [log EXCEPT ![sec] = Append(@,
            [at |-> get_addr_wrobj(@), id |-> NoId, size |-> t, val |-> None])]
       /\ health' = IF t > MaxObj /\ health = "sound" THEN "torn" ELSE health
  /\ Return
  /\ UNCHANGED hdr

-----------------------------------------------------------------------------
Next ==
  \/ \E id \in Ids : \E v \in Written[id] : flash_write_cfg(id, v)
  \/ flash_read_cfg \/ InitErase \/ InitMark \/ ReadDone
  \/ AlreadyStored \/ Select \/ Program \/ ProgramId
  \/ EraseNew \/ PackSkip \/ PackSeen \/ PackCopy \/ PackEnd
  \/ MarkNew \/ CloseOld
  \/ flash_erase_all_cfg \/ EraseOne
  \/ Crash \/ CrashTorn

Spec == Init /\ [][Next]_vars

-----------------------------------------------------------------------------
(* Properties *)

PackPcs == {"copy", "mark", "close"}
Pcs == {"idle", "select", "initmark", "program", "programid", "erase",
        "eraseall"} \cup PackPcs

\* The store is in one of the places between two flash operations, with
\* records of known identifiers and sizes (flash_eep.c).
TypeOK ==
  /\ hdr \in [Sectors -> {"free", "current", "closed"}]
  /\ log \in [Sectors -> Seq(Record)]
  /\ pc \in Pcs
  /\ req \in (Ids \X Data) \cup {NoReq}
  /\ sec \in Sectors
  /\ rd \in Nat
  /\ flags \subseteq Ids
  /\ health \in {"sound", "torn", "lost"}

\* The records of a sector follow each other from the header on without gap or
\* overlap, and no finished record reaches the end of its sector: neither a
\* write nor pack_eep_fmem ever programs the neighbouring sector.
WellFormed(L) ==
  \A i \in 1 .. Len(L) :
    /\ L[i].at = IF i = 1 THEN Hdr ELSE EndOf(L[i - 1])
    /\ L[i].id # NoId => L[i].size = Sizes(L[i].id, L[i].val)
                         /\ L[i].at + Hdr + L[i].size < SectorSize

\* What flash_write_cfg and pack_eep_fmem program stays inside its sector,
\* whatever size bytes the power failures leave, as long as no pack went by one
\* of them.
InsideSector == health # "lost" => \A s \in Sectors : WellFormed(log[s])

\* While pack_eep_fmem copies: what it wrote is the latest data of its
\* identifier, and every identifier it has passed has its latest data in the
\* new sector, although identifiers that share a byte of buf_id clear each
\* other's flags and are copied again.  Size bytes above MaxObj that it has not
\* reached yet do not matter.
PackFaithful ==
  pc = "copy" /\ health # "lost" =>
    /\ \A i \in 1 .. Len(log[New]) :
         log[New][i].id # NoId => log[New][i].val = Lookup(Old, log[New][i].id)
    /\ \A i \in 1 .. Len(Old) :
         i < rd /\ Old[i].id # NoId /\ Old[i].size # 0
           => Lookup(log[New], Old[i].id) = Lookup(Old, Old[i].id)

\* From the first of its two header programs on, the new sector of a pack
\* reads as the old one does: it makes no difference which of the two a
\* restart finds current.  It does not hold of a pack that went by a size byte
\* that reads as more than MaxObj.
HandOverAlways ==
  pc \in {"mark", "close"} =>
    \A id \in Ids : Lookup(log[New], id) = Lookup(Old, id)

\* The hand-over as it does hold.
HandOver == health # "lost" => HandOverAlways

\* Once a bank has a current sector it never is without one, in the middle of
\* a pack or after a restart either; only flash_erase_all_cfg takes it away.
NeverHeadless == [][Current(hdr) # {} /\ pc # "eraseall" => Current(hdr') # {}]_vars

\* The bank as its callers see it is the abstract store: reads find the last
\* completed write, a write happens as a whole or not at all, and no other
\* object changes, wherever the power fails.  Only a pack that goes by a size
\* byte above MaxObj loses contents, and only flash_erase_all_cfg mends that.
Stored(h, l) ==
  [id \in Ids |-> IF Current(h) = {} THEN None ELSE Lookup(l[get_addr_bscfg(h)], id)]

Kv == INSTANCE KvStore WITH kv <- Stored(hdr, log), pend <- req, health <- health

ImplementsKvStore == Kv!Spec
=============================================================================
