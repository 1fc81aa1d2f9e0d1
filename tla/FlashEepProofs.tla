--------------------------- MODULE FlashEepProofs ---------------------------
(***************************************************************************)
(* The settings store keeps what it promises for every set of identifiers, *)
(* contents and sizes, and every sector size: the invariants of FlashEep   *)
(* and its refinement of KvStore.  One condition is needed: a bank has two *)
(* sectors, as in this firmware; with more, one that a restart between     *)
(* MarkNew and CloseOld left current is not erased by the next pack and    *)
(* may be taken for the current one much later.                            *)
(***************************************************************************)
EXTENDS FlashEep, TLAPS

ASSUME TwoSectors == NSect = 2

-----------------------------------------------------------------------------
(* Searching: what the last record of an identifier is after a program *)

\* An identifier without a record is not found.
LEMMA LookupNone ==
  ASSUME NEW L, NEW id, \A i \in 1 .. Len(L) : L[i].id # id
  PROVE  Lookup(L, id) = None
BY DEF Lookup, LatestFrom, get_addr_idobj

\* The last record of an identifier is what the search finds.
LEMMA LookupAt ==
  ASSUME NEW L, NEW id, NEW j \in get_addr_idobj(L, 1, id), Len(L) \in Nat
  PROVE  Lookup(L, id) = L[j].val
<1> DEFINE S == get_addr_idobj(L, 1, id)
<1>1. ASSUME NEW k \in S PROVE k = j
  <2>1. ~(k < j) /\ ~(j < k)
    BY DEF get_addr_idobj
  <2> QED
    BY <2>1 DEF get_addr_idobj
<1>2. (CHOOSE k \in S : TRUE) \in S
  OBVIOUS
<1>3. (CHOOSE k \in S : TRUE) = j
  BY <1>1, <1>2
<1> QED
  BY <1>3 DEF Lookup, LatestFrom

\* Searching from a record of the identifier on finds what a search of the
\* whole sector does.
LEMMA LookupFromRecord ==
  ASSUME NEW L, Len(L) \in Nat, NEW i \in 1 .. Len(L)
  PROVE  LatestFrom(L, i, L[i].id) = Lookup(L, L[i].id)
<1>1. get_addr_idobj(L, i, L[i].id) = get_addr_idobj(L, 1, L[i].id)
  <2>1. ASSUME NEW j \in get_addr_idobj(L, 1, L[i].id) PROVE j >= i
    BY <2>1 DEF get_addr_idobj
  <2> QED
    BY <2>1 DEF get_addr_idobj
<1> QED
  BY <1>1 DEF Lookup, LatestFrom

\* The search depends on nothing but the records of its identifier.
LEMMA LookupSame ==
  ASSUME NEW L, NEW M, NEW id, Len(L) \in Nat, Len(M) \in Nat,
         \A i \in Nat : (i \in 1 .. Len(L) /\ L[i].id = id)
                          <=> (i \in 1 .. Len(M) /\ M[i].id = id),
         \A i \in 1 .. Len(L) : L[i].id = id => M[i].val = L[i].val
  PROVE  Lookup(M, id) = Lookup(L, id)
<1> DEFINE S == get_addr_idobj(L, 1, id)
<1>1. get_addr_idobj(M, 1, id) = S
  BY DEF get_addr_idobj
<1>2. \A j \in S : M[j].val = L[j].val
  BY DEF get_addr_idobj
<1>3. CASE S = {}
  BY <1>3, <1>1 DEF Lookup, LatestFrom
<1>4. CASE S # {}
  <2>1. (CHOOSE k \in S : TRUE) \in S
    BY <1>4
  <2>2. M[CHOOSE k \in S : TRUE].val = L[CHOOSE k \in S : TRUE].val
    BY <2>1, <1>2
  <2> QED
    BY <1>4, <2>2, <1>1 DEF Lookup, LatestFrom
<1> QED
  BY <1>3, <1>4

\* A record at the end of a sector replaces its identifier, and no other.
LEMMA LookupAppend ==
  ASSUME NEW L \in Seq(Record), NEW r \in Record, NEW id
  PROVE  Lookup(Append(L, r), id) = IF r.id = id THEN r.val ELSE Lookup(L, id)
<1> DEFINE M == Append(L, r)
<1>1. /\ Len(L) \in Nat /\ Len(M) = Len(L) + 1
      /\ M[Len(L) + 1] = r
      /\ \A i \in 1 .. Len(L) : M[i] = L[i]
  OBVIOUS
<1> HIDE DEF M
<1>2. CASE r.id = id
  <2>1. Len(L) + 1 \in get_addr_idobj(M, 1, id)
    BY <1>1, <1>2 DEF get_addr_idobj
  <2>2. Lookup(M, id) = M[Len(L) + 1].val
    BY <1>1, <2>1, LookupAt
  <2> QED
    BY <1>1, <1>2, <2>2 DEF M
<1>3. CASE r.id # id
  <2>1. Lookup(M, id) = Lookup(L, id)
    BY <1>1, <1>3, LookupSame
  <2> QED
    BY <1>3, <2>1 DEF M
<1> QED
  BY <1>2, <1>3

\* Programming the identifier of the unfinished record at the end of a sector
\* replaces this identifier, and no other.
LEMMA LookupFinish ==
  ASSUME NEW L \in Seq(Record), NEW M, NEW x \in Ids, NEW v \in Data, NEW id \in Ids,
         Len(L) # 0, L[Len(L)].id = NoId,
         Len(M) = Len(L), M[Len(L)].id = x, M[Len(L)].val = v,
         \A i \in 1 .. Len(L) : i # Len(L) => M[i] = L[i]
  PROVE  Lookup(M, id) = IF id = x THEN v ELSE Lookup(L, id)
<1>1. Len(L) \in Nat \ {0}
  OBVIOUS
<1>2. CASE id = x
  <2>1. Len(L) \in get_addr_idobj(M, 1, id)
    BY <1>1, <1>2 DEF get_addr_idobj
  <2>2. Lookup(M, id) = M[Len(L)].val
    BY <1>1, <2>1, LookupAt
  <2> QED
    BY <1>1, <1>2, <2>2
<1>3. CASE id # x
  <2>1. id # NoId
    BY ConstantsAssumption
  <2>2. ASSUME NEW i \in Nat
        PROVE  (i \in 1 .. Len(L) /\ L[i].id = id) <=> (i \in 1 .. Len(M) /\ M[i].id = id)
    BY <1>1, <1>3, <2>1
  <2>3. \A i \in 1 .. Len(L) : L[i].id = id => M[i].val = L[i].val
    BY <1>1, <2>1
  <2>4. Lookup(M, id) = Lookup(L, id)
    BY <1>1, <2>2, <2>3, LookupSame
  <2> QED
    BY <1>3, <2>4
<1> QED
  BY <1>2, <1>3

\* The current sector of a bank is the last one that is marked current.
LEMMA CurrentSector ==
  ASSUME NEW h, NEW s \in Current(h), \A t \in Current(h) : t <= s
  PROVE  get_addr_bscfg(h) = s
<1>1. Current(h) \subseteq Nat
  BY ConstantsAssumption DEF Current, Sectors
<1>2. \A t \in Current(h) : (\A u \in Current(h) : u <= t) => t = s
  BY <1>1
<1> QED
  BY <1>2 DEF get_addr_bscfg

-----------------------------------------------------------------------------
(* The inductive invariant *)

\* No sector after s is marked current.
LastCurrent(s) == \A t \in Current(hdr) : t <= s

\* As long as no power failure left a wrong size byte, no record claims more
\* than the largest object.
SizesOK ==
  health = "sound" =>
    \A s \in Sectors : \A i \in 1 .. Len(log[s]) : log[s][i].size <= MaxObj

\* What holds at each flash operation of a call.
Working ==
  /\ pc \in {"idle", "eraseall"} => req = NoReq
  /\ pc = "initmark" => Current(hdr) = {} /\ log[1] = <<>>
  /\ pc \in {"program", "programid", "erase", "copy", "mark", "close"}
       => req # NoReq /\ hdr[sec] = "current"
  /\ pc \in {"program", "programid", "erase", "copy", "mark"} => LastCurrent(sec)
  /\ pc = "program" => Fits(log[sec], req[1], req[2])
  /\ pc = "programid" =>
       /\ log[sec] # <<>>
       /\ Old[Len(Old)].id = NoId
       /\ Old[Len(Old)].size = Sizes(req[1], req[2])
       /\ Old[Len(Old)].at + Hdr + Old[Len(Old)].size < SectorSize
  /\ pc = "copy" => rd \in 1 .. Len(Old) + 1
  /\ pc = "close" => hdr[New] = "current"
  /\ pc = "eraseall" =>
       /\ rd \in Sectors
       /\ \A s \in Sectors : s < rd => hdr[s] = "free" /\ log[s] = <<>>

\* pack_eep_fmem: the new sector never is longer than what was read of the old
\* one, holds finished objects only, and has the latest data of every
\* identifier that is flagged.
Copying ==
  pc = "copy" /\ health # "lost" =>
    /\ Next_wrobj(log[New]) <= IF rd <= Len(Old) THEN Old[rd].at ELSE Next_wrobj(Old)
    /\ \A i \in 1 .. Len(log[New]) : log[New][i].id \in Ids /\ log[New][i].val # None
    /\ \A f \in flags : Lookup(log[New], f) = Lookup(Old, f)

IInv ==
  TypeOK /\ InsideSector /\ SizesOK /\ Working /\ Copying /\ PackFaithful /\ HandOver

-----------------------------------------------------------------------------
(* Types *)

LEMMA TwoSectorBank ==
  ASSUME sec \in Sectors
  PROVE  /\ Sectors = {1, 2}
         /\ New \in Sectors /\ New # sec
         /\ \A s \in Sectors : s = sec \/ s = New
BY TwoSectors DEF Sectors, New, NextSector

LEMMA SearchTypes ==
  ASSUME NEW L \in Seq(Record)
  PROVE  /\ Next_wrobj(L) \in Nat /\ get_addr_wrobj(L) \in Nat
         /\ \A i, id : LatestFrom(L, i, id) \in Data
<1>1. Next_wrobj(L) \in Nat
  <2>1. CASE L = <<>>
    BY <2>1 DEF Next_wrobj, Hdr
  <2>2. CASE L # <<>>
    <3>1. L[Len(L)] \in Record
      BY <2>2
    <3>2. EndOf(L[Len(L)]) \in Nat
      BY <3>1, ConstantsAssumption DEF EndOf, Record, Hdr
    <3> QED
      BY <2>2, <3>2 DEF Next_wrobj
  <2> QED
    BY <2>1, <2>2
<1>2. ASSUME NEW i, NEW id PROVE LatestFrom(L, i, id) \in Data
  <2> DEFINE S == get_addr_idobj(L, i, id)
  <2>1. CASE S = {}
    BY <2>1 DEF LatestFrom, Data
  <2>2. CASE S # {}
    <3>1. (CHOOSE j \in S : TRUE) \in 1 .. Len(L)
      BY <2>2 DEF get_addr_idobj
    <3>2. L[CHOOSE j \in S : TRUE] \in Record
      BY <3>1
    <3>3. L[CHOOSE j \in S : TRUE].val \in Data
      BY <3>2 DEF Record
    <3> QED
      BY <2>2, <3>3 DEF LatestFrom
  <2> QED
    BY <2>1, <2>2
<1> QED
  BY <1>1, <1>2 DEF get_addr_wrobj

LEMMA SizesType ==
  ASSUME NEW id \in Ids, NEW v \in Data
  PROVE  Sizes(id, v) \in 0 .. MaxObj /\ (v # None => Sizes(id, v) # 0)
BY ConstantsAssumption DEF Sizes

LEMMA PackedType ==
  ASSUME TypeOK, NEW id \in Ids
  PROVE  Packed(id) \in Seq(Record)
<1>1. LatestFrom(Old, rd, id) \in Data /\ log[New] \in Seq(Record)
  BY SearchTypes, TwoSectorBank DEF TypeOK, Old
<1>2. Next_wrobj(log[New]) \in Nat
  BY <1>1, SearchTypes
<1> DEFINE v == LatestFrom(Old, rd, id)
           r == [at |-> Next_wrobj(log[New]), id |-> id, size |-> Sizes(id, v), val |-> v]
<1>3. Sizes(id, v) \in Nat
  BY <1>1, SizesType, ConstantsAssumption
<1>4. r \in Record
  BY <1>1, <1>2, <1>3 DEF Record
<1>5. Append(log[New], r) \in Seq(Record)
  BY <1>1, <1>4
<1> QED
  BY <1>1, <1>5 DEF Packed

\* A skipped record takes the pack loop forward, and to the next record unless
\* its size byte leads it into data.
LEMMA Skipping ==
  ASSUME TypeOK, Working, PackSkip
  PROVE  /\ rd \in 1 .. Len(Old)
         /\ rd' \in rd + 1 .. Len(Old) + 1
         /\ health' # "lost" => rd' = rd + 1
<1>1. Old \in Seq(Record) /\ rd \in 1 .. Len(Old) /\ rd' \in AfterSkipped(rd)
  BY DEF TypeOK, Working, Old, PackSkip
<1>2. rd' \in rd + 1 .. Len(Old) + 1
  <2>1. CASE Old[rd].size <= MaxObj
    BY <1>1, <2>1 DEF AfterSkipped
  <2>2. CASE ~(Old[rd].size <= MaxObj)
    BY <1>1, <2>2 DEF AfterSkipped
  <2> QED
    BY <2>1, <2>2
<1>3. ASSUME health' # "lost" PROVE rd' = rd + 1
  <2>1. Old[rd].size \in Nat /\ MaxObj \in Nat
    <3>1. Old[rd] \in Record
      BY <1>1
    <3> QED
      BY <3>1, ConstantsAssumption DEF Record
  <2>2. Old[rd].size <= MaxObj \/ rd = Len(Old)
    BY <1>1, <1>3, <2>1 DEF PackSkip
  <2>3. CASE Old[rd].size <= MaxObj
    BY <1>1, <2>3 DEF AfterSkipped
  <2>4. CASE rd = Len(Old)
    BY <1>1, <1>2, <2>4
  <2> QED
    BY <2>2, <2>3, <2>4
<1> QED
  BY <1>1, <1>2, <1>3

LEMMA TypeStep == IInv /\ [Next]_vars => TypeOK'
<1> SUFFICES ASSUME IInv, [Next]_vars PROVE TypeOK'
  OBVIOUS
<1> USE ConstantsAssumption DEF IInv, flash, Return, NoLocals, Pcs, PackPcs
<1>0. TypeOK /\ Working
  OBVIOUS
<1>s. 1 \in Sectors
  BY DEF Sectors
<1>1. ASSUME NEW id \in Ids, NEW v \in Written[id], flash_write_cfg(id, v) PROVE TypeOK'
  BY <1>1 DEF TypeOK, flash_write_cfg, Data
<1>2. CASE flash_read_cfg
  BY <1>2 DEF TypeOK, flash_read_cfg
<1>3. CASE InitErase
  BY <1>3, <1>s DEF TypeOK, InitErase
<1>4. CASE InitMark
  BY <1>4 DEF TypeOK, InitMark
<1>5. CASE ReadDone \/ AlreadyStored
  BY <1>5, <1>s DEF TypeOK, ReadDone, AlreadyStored
<1>6. CASE Select
  <2>1. get_addr_bscfg(hdr) \in Sectors
    <3>1. Current(hdr) # {} /\ Current(hdr) \subseteq {1, 2}
      BY <1>6, TwoSectors DEF Select, Current, Sectors
    <3>2. PICK s \in Current(hdr) : \A t \in Current(hdr) : t <= s
      <4>1. CASE 2 \in Current(hdr)
        BY <3>1, <4>1
      <4>2. CASE 2 \notin Current(hdr)
        BY <3>1, <4>2
      <4> QED
        BY <4>1, <4>2
    <3> QED
      BY <3>2, CurrentSector DEF Current
  <2> QED
    BY <1>6, <2>1 DEF TypeOK, Select
<1>7. CASE Program
  <2>1. log[sec] \in Seq(Record) /\ req[1] \in Ids /\ req[2] \in Data
    BY <1>7, <1>0 DEF TypeOK, Working, Program
  <2>2. [at |-> get_addr_wrobj(log[sec]), id |-> NoId,
         size |-> Sizes(req[1], req[2]), val |-> None] \in Record
    <3>1. Sizes(req[1], req[2]) \in Nat /\ get_addr_wrobj(log[sec]) \in Nat
      BY <2>1, SearchTypes, SizesType
    <3> QED
      BY <3>1 DEF Record, Data
  <2> QED
    BY <1>7, <2>1, <2>2 DEF TypeOK, Program
<1>8. CASE ProgramId
  <2>1. log[sec] \in Seq(Record) /\ log[sec] # <<>> /\ req[1] \in Ids /\ req[2] \in Data
    BY <1>8, <1>0 DEF TypeOK, Working, ProgramId, Old
  <2>2. [log[sec] EXCEPT ![Len(log[sec])].id = req[1],
                         ![Len(log[sec])].val = req[2]] \in Seq(Record)
    <3> DEFINE L == log[sec]
               r == [[L[Len(L)] EXCEPT !.id = req[1]] EXCEPT !.val = req[2]]
    <3>1. Len(L) \in 1 .. Len(L) /\ L[Len(L)] \in Record
      BY <2>1
    <3>2. r \in Record
      BY <2>1, <3>1 DEF Record
    <3>3. [L EXCEPT ![Len(L)] = r] \in Seq(Record)
      BY <2>1, <3>1, <3>2
    <3>4. [L EXCEPT ![Len(L)].id = req[1], ![Len(L)].val = req[2]]
            = [L EXCEPT ![Len(L)] = r]
      BY <2>1, <3>1
    <3> QED
      BY <3>3, <3>4
  <2> QED
    BY <1>8, <2>1, <2>2, <1>s DEF TypeOK, ProgramId
<1>9. CASE EraseNew
  BY <1>9, TwoSectorBank DEF TypeOK, EraseNew
<1>10. CASE PackSkip
  <2>1. rd' \in Nat
    BY <1>10, Skipping, <1>0 DEF TypeOK
  <2> QED
    BY <1>10, <2>1 DEF TypeOK, PackSkip
<1>11. CASE PackSeen
  BY <1>11 DEF TypeOK, PackSeen, FlagsAfterCheck
<1>12. CASE PackCopy
  <2>1. Old \in Seq(Record) /\ Old[rd].id \in Ids
    <3>1. Old \in Seq(Record) /\ rd \in 1 .. Len(Old)
      BY <1>12, <1>0 DEF TypeOK, Working, PackCopy, Old
    <3>2. Old[rd] \in Record
      BY <3>1
    <3> QED
      BY <1>12, <3>1, <3>2 DEF PackCopy, Record
  <2>2. Packed(Old[rd].id) \in Seq(Record)
    BY <2>1, PackedType
  <2>3. FlagsAfterCheck(Old[rd].id) \subseteq Ids
    BY DEF FlagsAfterCheck, TypeOK
  <2> QED
    <3>1. log' \in [Sectors -> Seq(Record)]
      BY <1>12, <2>2, TwoSectorBank DEF TypeOK, PackCopy
    <3>2. flags' \subseteq Ids /\ rd' \in Nat
      BY <1>12, <2>1, <2>3 DEF TypeOK, PackCopy
    <3> QED
      BY <1>12, <3>1, <3>2 DEF TypeOK, PackCopy
<1>13. CASE PackEnd
  BY <1>13 DEF TypeOK, PackEnd
<1>14. CASE MarkNew
  BY <1>14 DEF TypeOK, MarkNew
<1>15. CASE CloseOld
  BY <1>15, <1>s, TwoSectorBank DEF TypeOK, CloseOld
<1>16. CASE flash_erase_all_cfg
  BY <1>16 DEF TypeOK, flash_erase_all_cfg
<1>17. CASE EraseOne
  BY <1>17, <1>0 DEF TypeOK, Working, Sectors, EraseOne
<1>18. CASE Crash
  BY <1>18, <1>s DEF TypeOK, Crash
<1>19. CASE CrashTorn
  <2>1. PICK t \in TornSizes :
          log' = [log EXCEPT ![sec] = Append(@,
            [at |-> get_addr_wrobj(@), id |-> NoId, size |-> t, val |-> None])]
    BY <1>19 DEF CrashTorn
  <2>3. health' \in {"sound", "torn", "lost"}
    BY <1>19 DEF CrashTorn, TypeOK
  <2>2. [at |-> get_addr_wrobj(log[sec]), id |-> NoId, size |-> t, val |-> None] \in Record
    BY SearchTypes DEF TypeOK, Record, Data
  <2> QED
    BY <1>19, <2>1, <2>2, <2>3, <1>s DEF TypeOK, CrashTorn
<1>20. CASE UNCHANGED vars
  BY <1>20 DEF TypeOK, vars
<1> QED
  BY <1>1, <1>2, <1>3, <1>4, <1>5, <1>6, <1>7, <1>8, <1>9, <1>10, <1>11, <1>12,
     <1>13, <1>14, <1>15, <1>16, <1>17, <1>18, <1>19, <1>20 DEF Next

-----------------------------------------------------------------------------
(* The layout of a sector *)

\* One more record at the end of a sector.
LEMMA AppendLayout ==
  ASSUME NEW L \in Seq(Record), NEW r \in Record, WellFormed(L),
         r.at = Next_wrobj(L),
         r.id # NoId => /\ r.size = Sizes(r.id, r.val)
                        /\ r.at + Hdr + r.size < SectorSize
  PROVE  WellFormed(Append(L, r))
<1> DEFINE M == Append(L, r)
<1>1. /\ Len(L) \in Nat /\ Len(M) = Len(L) + 1
      /\ M[Len(L) + 1] = r
      /\ \A i \in 1 .. Len(L) : M[i] = L[i]
  OBVIOUS
<1>2. L = <<>> <=> Len(L) = 0
  OBVIOUS
<1> HIDE DEF M
<1> SUFFICES ASSUME NEW i \in 1 .. Len(M)
             PROVE  /\ M[i].at = IF i = 1 THEN Hdr ELSE EndOf(M[i - 1])
                    /\ M[i].id # NoId => /\ M[i].size = Sizes(M[i].id, M[i].val)
                                         /\ M[i].at + Hdr + M[i].size < SectorSize
  BY DEF WellFormed, M
<1>3. CASE i \in 1 .. Len(L)
  <2>1. M[i] = L[i] /\ (i # 1 => M[i - 1] = L[i - 1])
    BY <1>1, <1>3
  <2> QED
    BY <2>1, <1>3 DEF WellFormed
<1>4. CASE i = Len(L) + 1
  <2>1. M[i] = r /\ (i # 1 => M[i - 1] = L[Len(L)])
    BY <1>1, <1>4
  <2>2. r.at = IF i = 1 THEN Hdr ELSE EndOf(M[i - 1])
    BY <2>1, <1>1, <1>2, <1>4 DEF Next_wrobj
  <2> QED
    BY <2>1, <2>2
<1> QED
  BY <1>1, <1>3, <1>4

\* Programming the identifier of the last record leaves the layout alone.
LEMMA FinishLayout ==
  ASSUME NEW L \in Seq(Record), L # <<>>, WellFormed(L),
         NEW x \in Ids, NEW v \in Data,
         L[Len(L)].size = Sizes(x, v),
         L[Len(L)].at + Hdr + L[Len(L)].size < SectorSize
  PROVE  WellFormed([L EXCEPT ![Len(L)].id = x, ![Len(L)].val = v])
<1> DEFINE M == [L EXCEPT ![Len(L)].id = x, ![Len(L)].val = v]
<1>1. /\ Len(L) \in Nat \ {0} /\ Len(M) = Len(L)
      /\ M[Len(L)].id = x /\ M[Len(L)].val = v
      /\ \A i \in 1 .. Len(L) : i # Len(L) => M[i] = L[i]
      /\ \A i \in 1 .. Len(L) : M[i].at = L[i].at /\ M[i].size = L[i].size
  BY DEF Record
<1> HIDE DEF M
<1>2. \A i \in 1 .. Len(L) : EndOf(M[i]) = EndOf(L[i])
  BY <1>1 DEF EndOf
<1> SUFFICES ASSUME NEW i \in 1 .. Len(M)
             PROVE  /\ M[i].at = IF i = 1 THEN Hdr ELSE EndOf(M[i - 1])
                    /\ M[i].id # NoId => /\ M[i].size = Sizes(M[i].id, M[i].val)
                                         /\ M[i].at + Hdr + M[i].size < SectorSize
  BY DEF WellFormed, M
<1>3. M[i].at = IF i = 1 THEN Hdr ELSE EndOf(M[i - 1])
  <2>1. i # 1 => i - 1 \in 1 .. Len(L) /\ EndOf(M[i - 1]) = EndOf(L[i - 1])
    BY <1>1, <1>2
  <2> QED
    BY <2>1, <1>1 DEF WellFormed
<1>4. M[i].id # NoId => /\ M[i].size = Sizes(M[i].id, M[i].val)
                        /\ M[i].at + Hdr + M[i].size < SectorSize
  <2>1. CASE i = Len(L)
    BY <2>1, <1>1
  <2>2. CASE i # Len(L)
    BY <2>2, <1>1 DEF WellFormed
  <2> QED
    BY <2>1, <2>2
<1> QED
  BY <1>3, <1>4

\* Writing the number and the value of a record leaves the others, and its size.
LEMMA FinishedRecord ==
  ASSUME NEW L \in Seq(Record), L # <<>>, NEW x \in Ids, NEW v \in Data
  PROVE  LET M == [L EXCEPT ![Len(L)].id = x, ![Len(L)].val = v]
         IN /\ Len(M) = Len(L) /\ Len(L) \in Nat /\ Len(L) # 0
            /\ M[Len(L)].id = x /\ M[Len(L)].val = v
            /\ \A i \in 1 .. Len(L) : i # Len(L) => M[i] = L[i]
            /\ \A i \in 1 .. Len(L) : M[i].size = L[i].size
<1> DEFINE M == [L EXCEPT ![Len(L)].id = x, ![Len(L)].val = v]
           r == [L[Len(L)] EXCEPT !.id = x, !.val = v]
<1>1. Len(L) \in Nat /\ Len(L) # 0 /\ Len(L) \in 1 .. Len(L)
  OBVIOUS
<1>2. L[Len(L)] \in Record
  BY <1>1
<1>3. r.id = x /\ r.val = v /\ r.size = L[Len(L)].size
  BY <1>2 DEF Record
<1>4. M = [L EXCEPT ![Len(L)] = r]
  BY <1>1
<1> HIDE DEF r
<1>5. Len(M) = Len(L) /\ M[Len(L)] = r /\ \A i \in 1 .. Len(L) : i # Len(L) => M[i] = L[i]
  <2> DEFINE K == [L EXCEPT ![Len(L)] = r]
  <2>1. Len(K) = Len(L) /\ K[Len(L)] = r /\ \A i \in 1 .. Len(L) : i # Len(L) => K[i] = L[i]
    BY <1>1
  <2> QED
    BY <1>4, <2>1
<1> HIDE DEF M
<1> QED
  BY <1>1, <1>3, <1>5

\* The write position after an appended record is that record's end.
LEMMA AppendEnd ==
  ASSUME NEW L \in Seq(Record), NEW x \in Record
  PROVE  Next_wrobj(Append(L, x)) = EndOf(x)
<1> DEFINE M == Append(L, x)
<1>1. M # <<>> /\ M[Len(M)] = x
  OBVIOUS
<1> HIDE DEF M
<1>2. Next_wrobj(M) = EndOf(x)
  BY <1>1 DEF Next_wrobj
<1> QED
  BY <1>2 DEF M

\* What pack_eep_fmem does with the record it looks at: it stays below that
\* record's end, so that a packed object never reaches the end of its sector.
LEMMA PackedLayout ==
  ASSUME IInv, PackCopy, health # "lost"
  PROVE  /\ WellFormed(Packed(Old[rd].id))
         /\ Next_wrobj(Packed(Old[rd].id)) <= EndOf(Old[rd])
         /\ EndOf(Old[rd]) < SectorSize
         /\ SizesOK /\ health = "sound" =>
              \A i \in 1 .. Len(Packed(Old[rd].id)) : Packed(Old[rd].id)[i].size <= MaxObj
<1> USE ConstantsAssumption
<1> DEFINE id == Old[rd].id
           v == LatestFrom(Old, rd, id)
           N == log[New]
           r == [at |-> Next_wrobj(N), id |-> id, size |-> Sizes(id, v), val |-> v]
<1>1. pc = "copy" /\ rd <= Len(Old) /\ Old[rd].size # 0 /\ Old[rd].id # NoId
  BY DEF PackCopy
<1>2. /\ TypeOK /\ InsideSector /\ SizesOK /\ Working /\ Copying
      /\ sec \in Sectors /\ New \in Sectors
  BY TwoSectorBank DEF IInv, TypeOK
<1>3. /\ Old \in Seq(Record) /\ N \in Seq(Record) /\ rd \in 1 .. Len(Old)
      /\ Old[rd] \in Record /\ id \in Ids /\ v \in Data
  <2>1. Old \in Seq(Record) /\ N \in Seq(Record) /\ rd \in 1 .. Len(Old)
    BY <1>1, <1>2 DEF TypeOK, Working, Old
  <2>2. Old[rd] \in Record
    BY <2>1
  <2> QED
    BY <1>1, <2>1, <2>2, SearchTypes DEF Record
<1>4. /\ Old[rd].size = Sizes(id, Old[rd].val)
      /\ Old[rd].at + Hdr + Old[rd].size < SectorSize
      /\ Old[rd].size <= MaxObj
  <2>1. /\ Old[rd].size = Sizes(id, Old[rd].val)
        /\ Old[rd].at + Hdr + Old[rd].size < SectorSize
    BY <1>1, <1>2, <1>3 DEF InsideSector, WellFormed, Old
  <2>2. Old[rd].val \in Data
    BY <1>3 DEF Record
  <2> QED
    BY <1>3, <2>1, <2>2, SizesType
<1>5. EndOf(Old[rd]) = Old[rd].at + Hdr + Old[rd].size
  BY <1>4 DEF EndOf
<1>6. Next_wrobj(N) \in Nat /\ Next_wrobj(N) <= Old[rd].at
  BY <1>1, <1>2, <1>3, SearchTypes DEF Copying
<1>7. Old[rd].at \in Nat /\ Old[rd].size \in Nat
  BY <1>3 DEF Record
<1>8. CASE v = None
  <2>1. Packed(id) = N
    BY <1>8 DEF Packed
  <2> QED
    BY <2>1, <1>2, <1>5, <1>4, <1>6, <1>7 DEF InsideSector, SizesOK, Hdr
<1>9. CASE v # None
  <2>1. Packed(id) = Append(N, r)
    BY <1>9 DEF Packed
  <2>2. Sizes(id, v) = Old[rd].size
    BY <1>1, <1>4, <1>9 DEF Sizes
  <2>3. r \in Record
    BY <1>3, <1>6, <1>7, <2>2 DEF Record
  <2>4. r.at + Hdr + r.size <= EndOf(Old[rd])
    BY <1>5, <1>6, <1>7, <2>2 DEF Hdr
  <2>5. WellFormed(Append(N, r))
    <3>1. WellFormed(N)
      BY <1>2 DEF InsideSector
    <3>2. r.at = Next_wrobj(N) /\ r.size = Sizes(r.id, r.val)
      OBVIOUS
    <3>3. r.at + Hdr + r.size < SectorSize
      BY <1>4, <1>6, <1>7, <2>2 DEF Hdr
    <3> HIDE DEF r
    <3> QED
      BY <1>3, <2>3, <3>1, <3>2, <3>3, AppendLayout
  <2>6. /\ Len(Append(N, r)) = Len(N) + 1 /\ Len(N) \in Nat
        /\ Append(N, r)[Len(N) + 1] = r
        /\ \A i \in 1 .. Len(N) : Append(N, r)[i] = N[i]
    BY <1>3, <2>3
  <2>7. Next_wrobj(Append(N, r)) = EndOf(r)
    <3> HIDE DEF r
    <3> QED
      BY <1>3, <2>3, AppendEnd
  <2>8. EndOf(r) = r.at + Hdr + r.size
    BY <1>4, <2>2 DEF EndOf
  <2>9. health = "sound" =>
          \A i \in 1 .. Len(Append(N, r)) : Append(N, r)[i].size <= MaxObj
    BY <1>2, <1>4, <2>2, <2>6 DEF SizesOK
  <2> QED
    BY <1>4, <1>5, <2>1, <2>4, <2>5, <2>7, <2>8, <2>9
<1> QED
  BY <1>8, <1>9

LEMMA LayoutStep == IInv /\ [Next]_vars => InsideSector' /\ SizesOK'
<1> SUFFICES ASSUME IInv, [Next]_vars PROVE InsideSector' /\ SizesOK'
  OBVIOUS
<1> USE ConstantsAssumption
<1>0. TypeOK /\ InsideSector /\ SizesOK /\ Working /\ sec \in Sectors
  BY DEF IInv, TypeOK
<1>e. WellFormed(<<>>)
  BY DEF WellFormed
\* One sector changes, and stays well formed.
<1>c. ASSUME NEW s \in Sectors, NEW L, log' = [log EXCEPT ![s] = L],
             health' = health \/ (health = "sound" /\ health' = "torn"),
             health # "lost" => WellFormed(L),
             health' = "sound" => \A i \in 1 .. Len(L) : L[i].size <= MaxObj
      PROVE  InsideSector' /\ SizesOK'
  <2>1. health' # "lost" => health # "lost"
    BY <1>c
  <2>2. health' = "sound" => health = "sound"
    BY <1>c
  <2>3. log'[s] = L /\ \A t \in Sectors : t # s => log'[t] = log[t]
    BY <1>0, <1>c DEF TypeOK
  <2>4. InsideSector'
    BY <1>0, <1>c, <2>1, <2>3 DEF InsideSector
  <2>5. SizesOK'
    BY <1>0, <1>c, <2>2, <2>3 DEF SizesOK
  <2> QED
    BY <2>4, <2>5
<1>z. ASSUME NEW s \in Sectors, log' = [log EXCEPT ![s] = <<>>], health' = health
      PROVE  InsideSector' /\ SizesOK'
  <2>1. \A i \in 1 .. Len(<<>>) : <<>>[i].size <= MaxObj
    OBVIOUS
  <2> QED
    BY <1>z, <1>e, <2>1, <1>c
<1>u. ASSUME UNCHANGED log, health' \in {health, "lost"} PROVE InsideSector' /\ SizesOK'
  BY <1>0, <1>u DEF InsideSector, SizesOK
\* A record without its identifier is programmed where the search ended.
<1>a. ASSUME pc = "program", NEW n \in Nat, health' = "sound" => n <= MaxObj,
             health' = health \/ (health = "sound" /\ health' = "torn"),
             log' = [log EXCEPT ![sec] = Append(@,
               [at |-> get_addr_wrobj(@), id |-> NoId, size |-> n, val |-> None])]
      PROVE  InsideSector' /\ SizesOK'
  <2> DEFINE L == log[sec]
             r == [at |-> get_addr_wrobj(L), id |-> NoId, size |-> n, val |-> None]
  <2>1. L \in Seq(Record) /\ (health # "lost" => WellFormed(L))
    BY <1>0 DEF TypeOK, InsideSector
  <2>2. get_addr_wrobj(L) = Next_wrobj(L) /\ get_addr_wrobj(L) \in Nat
    BY <1>0, <1>a, <2>1, SearchTypes DEF Working, Fits, get_addr_wrobj
  <2>3. r \in Record
    BY <2>2 DEF Record, Data
  <2>4. health # "lost" => WellFormed(Append(L, r))
    <3>1. r.at = Next_wrobj(L) /\ r.id = NoId
      BY <2>2
    <3> HIDE DEF r
    <3> QED
      BY <2>1, <2>3, <3>1, AppendLayout
  <2>5. health' = "sound" =>
          \A i \in 1 .. Len(Append(L, r)) : Append(L, r)[i].size <= MaxObj
    <3>1. /\ Len(Append(L, r)) = Len(L) + 1 /\ Len(L) \in Nat
          /\ Append(L, r)[Len(L) + 1] = r
          /\ \A i \in 1 .. Len(L) : Append(L, r)[i] = L[i]
      BY <2>1, <2>3
    <3>2. /\ r.size = n /\ L = log[sec] /\ sec \in Sectors
          /\ health' = "sound" => n <= MaxObj /\ health = "sound"
      BY <1>0, <1>a DEF TypeOK, Working
    <3>3. health' = "sound" => \A i \in 1 .. Len(L) : L[i].size <= MaxObj
      BY <1>0, <3>2 DEF SizesOK
    <3> HIDE DEF L, r
    <3> QED
      BY <3>1, <3>2, <3>3
  <2> QED
    BY <1>0, <1>a, <1>c, <2>4, <2>5
<1>1. CASE UNCHANGED log /\ health' \in {health, "lost"}
  BY <1>1, <1>u
<1>2. CASE InitErase
  <2>1. 1 \in Sectors
    BY DEF Sectors
  <2> QED
    BY <1>2, <2>1, <1>z DEF InitErase
<1>3. CASE Program
  <2>1. req[1] \in Ids /\ req[2] \in Data
    BY <1>0, <1>3 DEF TypeOK, Working, Program
  <2>2. Sizes(req[1], req[2]) \in Nat /\ Sizes(req[1], req[2]) <= MaxObj
    BY <2>1, SizesType
  <2> QED
    BY <1>3, <1>a, <2>2 DEF Program
<1>4. CASE ProgramId
  <2>1. /\ req[1] \in Ids /\ req[2] \in Data /\ log[sec] \in Seq(Record)
        /\ health # "lost" => WellFormed(log[sec])
    BY <1>0, <1>4 DEF TypeOK, InsideSector, Working, ProgramId
  <2> DEFINE M == [log[sec] EXCEPT ![Len(log[sec])].id = req[1],
                                   ![Len(log[sec])].val = req[2]]
  <2>2. health # "lost" => WellFormed(M)
    BY <1>0, <1>4, <2>1, FinishLayout DEF Working, ProgramId, Old
  <2>3. health = "sound" => \A i \in 1 .. Len(M) : M[i].size <= MaxObj
    <3>1. log[sec] # <<>>
      BY <1>0, <1>4 DEF Working, ProgramId
    <3>2. Len(M) = Len(log[sec]) /\ \A i \in 1 .. Len(M) : M[i].size = log[sec][i].size
      BY <2>1, <3>1, FinishedRecord
    <3> HIDE DEF M
    <3> QED
      BY <1>0, <3>2 DEF SizesOK
  <2> QED
    BY <1>0, <1>4, <1>c, <2>2, <2>3 DEF ProgramId
<1>5. CASE EraseNew
  BY <1>0, <1>5, <1>z, TwoSectorBank DEF EraseNew
<1>6. CASE PackCopy
  BY <1>0, <1>6, <1>c, PackedLayout, TwoSectorBank DEF PackCopy
<1>7. CASE EraseOne
  <2>1. rd \in Sectors /\ log' = [log EXCEPT ![rd] = <<>>]
    BY <1>0, <1>7 DEF EraseOne, Working
  <2>2. CASE rd # NSect
    BY <1>7, <1>z, <2>1, <2>2 DEF EraseOne
  <2>3. CASE rd = NSect
    <3>1. \A s \in Sectors : log'[s] = <<>>
      BY <1>0, <1>7, <2>1, <2>3 DEF EraseOne, Working, TypeOK, Sectors
    <3> QED
      BY <1>e, <3>1 DEF InsideSector, SizesOK
  <2> QED
    BY <2>2, <2>3
<1>8. CASE CrashTorn
  <2>1. PICK t \in TornSizes :
          /\ log' = [log EXCEPT ![sec] = Append(@,
               [at |-> get_addr_wrobj(@), id |-> NoId, size |-> t, val |-> None])]
          /\ health' = IF t > MaxObj /\ health = "sound" THEN "torn" ELSE health
    BY <1>8 DEF CrashTorn
  <2>2. t \in Nat /\ (health' = "sound" => t <= MaxObj)
    BY <2>1
  <2>3. health' = health \/ (health = "sound" /\ health' = "torn")
    BY <2>1
  <2> QED
    BY <1>8, <1>a, <2>1, <2>2, <2>3 DEF CrashTorn
<1> QED
  <2>1. \/ UNCHANGED log /\ health' \in {health, "lost"}
        \/ InitErase \/ Program \/ ProgramId \/ EraseNew \/ PackCopy \/ EraseOne \/ CrashTorn
    BY DEF Next, vars, flash, flash_write_cfg, flash_read_cfg, InitMark, ReadDone,
           AlreadyStored, Select, PackSkip, PackSeen, PackEnd, MarkNew, CloseOld,
           flash_erase_all_cfg, Crash
  <2> QED
    BY <2>1, <1>1, <1>2, <1>3, <1>4, <1>5, <1>6, <1>7, <1>8

-----------------------------------------------------------------------------
(* Where a call is *)

LEMMA WorkingStep == IInv /\ [Next]_vars => Working'
<1> SUFFICES ASSUME IInv, [Next]_vars PROVE Working'
  OBVIOUS
<1> USE ConstantsAssumption
<1>0. TypeOK /\ Working /\ sec \in Sectors /\ Sectors = {1, 2}
  BY TwoSectorBank DEF IInv, TypeOK
<1>i. ASSUME pc' = "idle", req' = NoReq PROVE Working'
  BY <1>i DEF Working
<1>1. ASSUME NEW id \in Ids, NEW v \in Written[id], flash_write_cfg(id, v) PROVE Working'
  BY <1>1 DEF flash_write_cfg, Working
<1>2. CASE flash_read_cfg
  BY <1>2 DEF flash_read_cfg, Working
<1>3. CASE InitErase
  <2>1. Current(hdr') = {} /\ log'[1] = <<>>
    BY <1>0, <1>3 DEF InitErase, Current, TypeOK
  <2> QED
    BY <1>3, <2>1 DEF InitErase, Working
<1>4. CASE InitMark
  BY <1>4 DEF InitMark, Working
<1>5. CASE ReadDone \/ AlreadyStored \/ ProgramId \/ Crash \/ CrashTorn
  BY <1>5, <1>i DEF ReadDone, AlreadyStored, ProgramId, Crash, CrashTorn, Return
<1>6. CASE Select
  <2>1. PICK s \in Current(hdr) : \A t \in Current(hdr) : t <= s
    <3>1. Current(hdr) # {} /\ Current(hdr) \subseteq {1, 2}
      BY <1>0, <1>6 DEF Select, Current
    <3>2. CASE 2 \in Current(hdr)
      BY <3>1, <3>2
    <3>3. CASE 2 \notin Current(hdr)
      BY <3>1, <3>3
    <3> QED
      BY <3>2, <3>3
  <2>2. sec' = s
    BY <1>6, <2>1, CurrentSector DEF Select
  <2>3. hdr'[sec'] = "current" /\ LastCurrent(sec)'
    BY <1>6, <2>1, <2>2 DEF Select, flash, LastCurrent, Current
  <2>4. pc' = "program" => Fits(log[sec'], req[1], req[2])
    BY <1>6 DEF Select
  <2> QED
    BY <1>6, <2>3, <2>4 DEF Select, flash, Working
<1>7. CASE Program
  <2> DEFINE L == log[sec]
             r == [at |-> get_addr_wrobj(L), id |-> NoId,
                   size |-> Sizes(req[1], req[2]), val |-> None]
  <2>1. L \in Seq(Record) /\ req[1] \in Ids /\ req[2] \in Data
    BY <1>0, <1>7 DEF TypeOK, Working, Program
  <2>2. Sizes(req[1], req[2]) \in Nat /\ get_addr_wrobj(L) \in Nat
    BY <2>1, SearchTypes, SizesType
  <2>3. log'[sec] = Append(L, r)
    BY <1>0, <1>7 DEF TypeOK, Program
  <2>4. r \in Record
    BY <2>2 DEF Record, Data
  <2>5. log'[sec] # <<>> /\ log'[sec][Len(log'[sec])] = r
    <3> HIDE DEF r, L
    <3>1. /\ Len(Append(L, r)) = Len(L) + 1 /\ Len(L) \in Nat
          /\ Append(L, r)[Len(L) + 1] = r
      BY <2>1, <2>4
    <3>2. log'[sec] # <<>>
      <4>1. Len(log'[sec]) # 0
        BY <2>3, <3>1
      <4> QED
        BY <4>1
    <3> QED
      BY <2>3, <3>1, <3>2
  <2>6. r.at + Hdr + r.size < SectorSize
    BY <1>0, <1>7, <2>2 DEF Working, Program, Fits, Hdr
  <2> QED
    BY <1>0, <1>7, <2>5, <2>6 DEF Working, Program, LastCurrent, Old
<1>8. CASE EraseNew
  <2>1. hdr'[sec] = hdr[sec] /\ Current(hdr') \subseteq Current(hdr)
    BY <1>0, <1>8, TwoSectorBank DEF EraseNew, TypeOK, Current
  <2>2. Len(log'[sec]) \in Nat
    BY <1>0, <1>8, TwoSectorBank DEF EraseNew, TypeOK
  <2> QED
    <3>1. LastCurrent(sec)'
      BY <1>0, <1>8, <2>1 DEF EraseNew, Working, LastCurrent
    <3>2. (rd \in 1 .. Len(Old) + 1)'
      BY <1>8, <2>2 DEF EraseNew, Old
    <3> QED
      BY <1>0, <1>8, <2>1, <3>1, <3>2 DEF EraseNew, Working
<1>9. CASE PackSkip
  <2>1. rd' \in 1 .. Len(Old) + 1
    BY <1>0, <1>9, Skipping DEF TypeOK
  <2> QED
    BY <1>0, <1>9, <2>1 DEF PackSkip, flash, Working, TypeOK, LastCurrent, Old
<1>10. CASE PackSeen
  <2>1. /\ pc = "copy" /\ rd <= Len(Old) /\ rd' = rd + 1
        /\ UNCHANGED <<hdr, log, pc, req, sec>>
    BY <1>10 DEF PackSeen, flash
  <2>2. Len(Old) \in Nat /\ rd \in Nat /\ rd \in 1 .. Len(Old) + 1
    BY <1>0, <2>1 DEF Working, TypeOK, Old
  <2>3. UNCHANGED <<Old, Current(hdr)>>
    BY <2>1 DEF Old, Current
  <2>4. rd' \in 1 .. Len(Old) + 1
    BY <2>1, <2>2
  <2> QED
    BY <1>0, <2>1, <2>3, <2>4 DEF Working, LastCurrent
<1>11. CASE PackCopy
  <2>1. log'[sec] = log[sec]
    BY <1>0, <1>11, TwoSectorBank DEF PackCopy, TypeOK
  <2> QED
    BY <1>0, <1>11, <2>1 DEF PackCopy, Working, TypeOK, LastCurrent, Old
<1>12. CASE PackEnd
  BY <1>0, <1>12 DEF PackEnd, flash, Working, LastCurrent
<1>13. CASE MarkNew
  BY <1>0, <1>13, TwoSectorBank DEF MarkNew, Working, TypeOK, New
<1>14. CASE CloseOld
  <2>1. CASE pc' = "idle"
    BY <1>14, <2>1, <1>i DEF CloseOld, Return
  <2>2. CASE pc' = "program"
    <3>1. /\ Fits(log[New], req[1], req[2]) /\ sec' = New
          /\ hdr'[New] = "current" /\ hdr'[sec] = "closed"
      BY <1>0, <1>14, <2>2, TwoSectorBank DEF CloseOld, Return, Working, TypeOK
    <3>2. LastCurrent(sec)'
      BY <1>0, <3>1, TwoSectorBank DEF LastCurrent, Current
    <3> QED
      BY <1>0, <1>14, <2>2, <3>1, <3>2 DEF CloseOld, Return, Working
  <2> QED
    BY <1>14, <2>1, <2>2 DEF CloseOld, Return
<1>15. CASE flash_erase_all_cfg
  BY <1>0, <1>15 DEF flash_erase_all_cfg, Working
<1>16. CASE EraseOne
  BY <1>0, <1>16, TwoSectors DEF EraseOne, Working, TypeOK
<1>17. CASE UNCHANGED vars
  BY <1>0, <1>17 DEF vars, Working, LastCurrent, Old, New
<1> QED
  BY <1>1, <1>2, <1>3, <1>4, <1>5, <1>6, <1>7, <1>8, <1>9, <1>10, <1>11, <1>12,
     <1>13, <1>14, <1>15, <1>16, <1>17 DEF Next

-----------------------------------------------------------------------------
(* Packing keeps the contents *)

\* A sector of finished objects that agrees with the old one wherever it has
\* an object has nothing of an identifier that is deleted or absent there.
LEMMA NothingOfDeleted ==
  ASSUME NEW N, NEW O, NEW id, Lookup(O, id) = None,
         \A i \in 1 .. Len(N) : N[i].val # None /\ N[i].val = Lookup(O, N[i].id)
  PROVE  Lookup(N, id) = None
BY LookupNone

\* Behind the last record of the old sector nothing is left to copy.
LEMMA PackComplete ==
  ASSUME IInv, pc = "copy", rd > Len(Old), health # "lost"
  PROVE  \A id \in Ids : Lookup(log[New], id) = Lookup(Old, id)
<1> USE ConstantsAssumption
<1> SUFFICES ASSUME NEW id \in Ids PROVE Lookup(log[New], id) = Lookup(Old, id)
  OBVIOUS
<1>1. /\ TypeOK /\ InsideSector /\ PackFaithful /\ Copying
      /\ sec \in Sectors /\ Old \in Seq(Record)
  BY DEF IInv, TypeOK, Old
<1>2. \A i \in 1 .. Len(log[New]) :
        log[New][i].val # None /\ log[New][i].val = Lookup(Old, log[New][i].id)
  BY <1>1 DEF Copying, PackFaithful
<1>3. CASE Lookup(Old, id) = None
  BY <1>2, <1>3, NothingOfDeleted
<1>4. CASE Lookup(Old, id) # None
  <2>1. get_addr_idobj(Old, 1, id) # {}
    BY <1>4 DEF Lookup, LatestFrom
  <2>2. PICK j \in get_addr_idobj(Old, 1, id) : TRUE
    BY <2>1
  <2>3. j \in 1 .. Len(Old) /\ Old[j].id = id /\ Old[j].val # None
    <3>1. Len(Old) \in Nat
      BY <1>1
    <3>2. Lookup(Old, id) = Old[j].val
      BY <2>2, <3>1, LookupAt
    <3> QED
      BY <1>4, <2>2, <3>2 DEF get_addr_idobj
  <2>4. Old[j].val \in Data
    <3>1. Old[j] \in Record
      BY <1>1, <2>3
    <3> QED
      BY <3>1 DEF Record
  <2>5. Old[j].id # NoId /\ Old[j].size # 0
    BY <1>1, <2>3, <2>4, SizesType DEF InsideSector, WellFormed, Old
  <2>6. j < rd
    BY <1>1, <2>3 DEF TypeOK
  <2> QED
    BY <1>1, <2>3, <2>5, <2>6 DEF PackFaithful
<1> QED
  BY <1>3, <1>4

\* One turn of the pack loop that copies: the new sector has the latest data
\* of this identifier now, and of the others what it had.
LEMMA CopyStep ==
  ASSUME IInv, PackCopy, health # "lost"
  PROVE  /\ log'[New] = Packed(Old[rd].id) /\ log'[sec] = log[sec]
         /\ \A id \in Ids : Lookup(log'[New], id) =
              IF id = Old[rd].id THEN Lookup(Old, id) ELSE Lookup(log[New], id)
         /\ \A i \in 1 .. Len(log'[New]) :
              /\ log'[New][i].id \in Ids /\ log'[New][i].val # None
              /\ log'[New][i].val = Lookup(Old, log'[New][i].id)
<1> USE ConstantsAssumption
<1> DEFINE x == Old[rd].id
           v == LatestFrom(Old, rd, x)
           N == log[New]
           r == [at |-> Next_wrobj(N), id |-> x, size |-> Sizes(x, v), val |-> v]
<1>1. /\ TypeOK /\ Working /\ Copying /\ PackFaithful /\ pc = "copy"
      /\ sec \in Sectors /\ New \in Sectors /\ New # sec
  BY TwoSectorBank DEF IInv, TypeOK, PackCopy
<1>2. log'[New] = Packed(x) /\ log'[sec] = log[sec]
  BY <1>1 DEF PackCopy, TypeOK
<1>3. Old \in Seq(Record) /\ N \in Seq(Record) /\ rd \in 1 .. Len(Old) /\ x \in Ids
  <2>1. Old \in Seq(Record) /\ N \in Seq(Record) /\ rd \in 1 .. Len(Old)
    BY <1>1 DEF TypeOK, Working, Old, PackCopy
  <2>2. Old[rd] \in Record /\ Old[rd].id # NoId
    BY <2>1 DEF PackCopy
  <2> QED
    BY <2>1, <2>2 DEF Record
<1>4. v = Lookup(Old, x)
  <2>1. Len(Old) \in Nat
    BY <1>3
  <2> QED
    BY <1>3, <2>1, LookupFromRecord
<1>5. \A i \in 1 .. Len(N) :
        N[i].id \in Ids /\ N[i].val # None /\ N[i].val = Lookup(Old, N[i].id)
  BY <1>1 DEF Copying, PackFaithful
<1>6. CASE v = None
  <2>1. Packed(x) = N
    BY <1>6 DEF Packed
  <2>2. Lookup(N, x) = None
    <3>1. Lookup(Old, x) = None
      BY <1>4, <1>6
    <3>2. \A i \in 1 .. Len(N) : N[i].id # x
      BY <1>5, <3>1
    <3> HIDE DEF N, x
    <3> QED
      BY <3>2, LookupNone
  <2> QED
    BY <1>2, <1>4, <1>5, <1>6, <2>1, <2>2
<1>7. CASE v # None
  <2>1. Packed(x) = Append(N, r)
    BY <1>7 DEF Packed
  <2>2. r \in Record /\ r.id = x /\ r.val = v
    <3>1. Next_wrobj(N) \in Nat /\ v \in Data
      BY <1>3, SearchTypes
    <3>2. Sizes(x, v) \in Nat
      BY <1>3, <3>1, SizesType
    <3> QED
      BY <1>3, <3>1, <3>2 DEF Record
  <2> HIDE DEF r
  <2>3. \A id \in Ids : Lookup(Append(N, r), id) =
          IF id = x THEN Lookup(Old, id) ELSE Lookup(N, id)
    BY <1>3, <1>4, <2>2, LookupAppend
  <2>4. /\ Len(Append(N, r)) = Len(N) + 1 /\ Len(N) \in Nat
        /\ Append(N, r)[Len(N) + 1] = r
        /\ \A i \in 1 .. Len(N) : Append(N, r)[i] = N[i]
    BY <1>3, <2>2
  <2>5. ASSUME NEW i \in 1 .. Len(Append(N, r))
        PROVE  /\ Append(N, r)[i].id \in Ids /\ Append(N, r)[i].val # None
               /\ Append(N, r)[i].val = Lookup(Old, Append(N, r)[i].id)
    <3>1. CASE i \in 1 .. Len(N)
      BY <1>5, <2>4, <3>1
    <3>2. CASE i = Len(N) + 1
      BY <1>3, <1>4, <1>7, <2>2, <2>4, <3>2
    <3> QED
      BY <2>4, <3>1, <3>2
  <2> QED
    BY <1>2, <2>1, <2>3, <2>5
<1> QED
  BY <1>6, <1>7

\* A record ends where the next one, or the free space, begins.
LEMMA NextIsEnd ==
  ASSUME TypeOK, InsideSector, health # "lost", rd \in 1 .. Len(Old)
  PROVE  EndOf(Old[rd]) = IF rd + 1 <= Len(Old) THEN Old[rd + 1].at ELSE Next_wrobj(Old)
<1>1. Old \in Seq(Record) /\ WellFormed(Old)
  BY DEF TypeOK, InsideSector, Old
<1>2. CASE rd + 1 <= Len(Old)
  BY <1>1, <1>2 DEF WellFormed
<1>3. CASE rd = Len(Old)
  BY <1>1, <1>3 DEF Next_wrobj
<1> QED
  BY <1>1, <1>2, <1>3

LEMMA PackStep == IInv /\ [Next]_vars => Copying' /\ PackFaithful' /\ HandOver'
<1> SUFFICES ASSUME IInv, [Next]_vars PROVE Copying' /\ PackFaithful' /\ HandOver'
  OBVIOUS
<1> USE ConstantsAssumption
<1>0. /\ TypeOK /\ InsideSector /\ SizesOK /\ Working
      /\ Copying /\ PackFaithful /\ HandOver
      /\ sec \in Sectors /\ New \in Sectors /\ New # sec
  BY TwoSectorBank DEF IInv, TypeOK
<1>o. ASSUME pc' \notin PackPcs PROVE Copying' /\ PackFaithful' /\ HandOver'
  BY <1>o DEF Copying, PackFaithful, HandOver, HandOverAlways, PackPcs
<1>l. ASSUME health' = "lost" PROVE Copying' /\ PackFaithful' /\ HandOver'
  BY <1>l DEF Copying, PackFaithful, HandOver
<1>1. CASE EraseNew /\ health # "lost"
  <2>1. /\ log'[New] = <<>> /\ log'[sec] = log[sec] /\ sec' = sec
        /\ rd' = 1 /\ flags' = {} /\ pc' = "copy" /\ Old \in Seq(Record)
    BY <1>0, <1>1 DEF EraseNew, TypeOK, Old
  <2>2. New' = New /\ Old' = Old
    BY <2>1 DEF New, Old
  <2>3. Next_wrobj(<<>>) = Hdr
    BY DEF Next_wrobj
  <2>4. Hdr <= IF 1 <= Len(Old) THEN Old[1].at ELSE Next_wrobj(Old)
    <3>1. CASE Old = <<>>
      BY <3>1 DEF Next_wrobj, Hdr
    <3>2. CASE Old # <<>>
      BY <3>2, <1>0, <1>1, <2>1 DEF InsideSector, WellFormed, Old, Hdr
    <3> QED
      BY <3>1, <3>2
  <2>5. Copying'
    BY <2>1, <2>2, <2>3, <2>4 DEF Copying
  <2>6. PackFaithful' /\ HandOver'
    BY <2>1, <2>2 DEF PackFaithful, HandOver, HandOverAlways
  <2> QED
    BY <2>5, <2>6
<1>2. CASE (PackSkip \/ PackSeen) /\ health # "lost" /\ health' # "lost"
  <2>1. /\ rd' = rd + 1 /\ rd \in 1 .. Len(Old)
        /\ log' = log /\ sec' = sec /\ pc' = "copy" /\ pc = "copy" /\ flags' \subseteq flags
    BY <1>0, <1>2, Skipping
       DEF PackSkip, PackSeen, flash, FlagsAfterCheck, Working, TypeOK, Old
  <2>2. New' = New /\ Old' = Old /\ log'[New] = log[New]
    BY <2>1 DEF New, Old
  <2>3. Old[rd].size = 0 \/ Old[rd].id = NoId \/ Old[rd].id \in flags
    BY <1>2 DEF PackSkip, PackSeen
  <2>4. Copying'
    <3>1. Next_wrobj(log[New]) <= Old[rd].at /\ Next_wrobj(log[New]) \in Nat
      BY <1>0, <1>2, <2>1, SearchTypes DEF Copying, TypeOK
    <3>2. Old[rd].at <= EndOf(Old[rd]) /\ EndOf(Old[rd]) \in Nat /\ Old[rd].at \in Nat
      <4>1. Old[rd] \in Record
        BY <1>0, <2>1 DEF TypeOK, Old
      <4> QED
        BY <4>1 DEF EndOf, Record, Hdr
    <3>3. EndOf(Old[rd]) = IF rd + 1 <= Len(Old) THEN Old[rd + 1].at ELSE Next_wrobj(Old)
      BY <1>0, <1>2, <2>1, NextIsEnd
    <3> QED
      BY <1>0, <1>2, <2>1, <2>2, <3>1, <3>2, <3>3 DEF Copying
  <2>5. PackFaithful'
    BY <1>0, <1>2, <2>1, <2>2, <2>3 DEF PackFaithful, Copying
  <2> QED
    BY <2>1, <2>4, <2>5 DEF HandOver, HandOverAlways
<1>3. CASE PackCopy /\ health # "lost"
  <2>1. /\ log'[New] = Packed(Old[rd].id) /\ log'[sec] = log[sec]
        /\ \A id \in Ids : Lookup(log'[New], id) =
             IF id = Old[rd].id THEN Lookup(Old, id) ELSE Lookup(log[New], id)
        /\ \A i \in 1 .. Len(log'[New]) :
             /\ log'[New][i].id \in Ids /\ log'[New][i].val # None
             /\ log'[New][i].val = Lookup(Old, log'[New][i].id)
    BY <1>3, CopyStep
  <2>2. /\ Next_wrobj(Packed(Old[rd].id)) <= EndOf(Old[rd])
        /\ EndOf(Old[rd]) < SectorSize
    BY <1>3, PackedLayout
  <2>3. /\ rd' = rd + 1 /\ rd \in 1 .. Len(Old) /\ sec' = sec /\ pc = "copy"
        /\ flags' \subseteq flags \cup {Old[rd].id}
        /\ Old[rd].id # NoId /\ Old \in Seq(Record)
    BY <1>0, <1>3 DEF PackCopy, FlagsAfterCheck, Working, TypeOK, Old
  <2>4. Old[rd].id \in Ids /\ Old[rd].at \in Nat /\ EndOf(Old[rd]) \in Nat
    <3>1. Old[rd] \in Record
      BY <2>3
    <3>2. EndOf(Old[rd]) \in Nat
      BY <3>1 DEF EndOf, Record, Hdr
    <3> QED
      BY <2>3, <3>1, <3>2 DEF Record
  <2>5. Packed(Old[rd].id) \in Seq(Record)
    BY <1>0, <2>4, PackedType
  <2>6. Next_wrobj(Packed(Old[rd].id)) \in Nat
    BY <2>5, SearchTypes
  <2>7. pc' = "copy"
    BY <1>3, <2>2, <2>4, <2>6 DEF PackCopy
  <2>8. New' = New /\ Old' = Old
    BY <2>1, <2>3 DEF New, Old
  <2>9. \A f \in flags' : Lookup(log'[New], f) = Lookup(Old, f)
    BY <1>0, <1>3, <2>1, <2>3, <2>4 DEF Copying, TypeOK
  <2>10. Copying'
    <3>1. EndOf(Old[rd]) = IF rd + 1 <= Len(Old) THEN Old[rd + 1].at ELSE Next_wrobj(Old)
      BY <1>0, <1>3, <2>3, NextIsEnd
    <3> QED
      BY <2>1, <2>2, <2>3, <2>8, <2>9, <3>1 DEF Copying
  <2>11. PackFaithful'
    <3>1. ASSUME NEW i \in 1 .. Len(Old), i < rd + 1, Old[i].id # NoId, Old[i].size # 0
          PROVE  Lookup(log'[New], Old[i].id) = Lookup(Old, Old[i].id)
      <4>1. Old[i] \in Record
        BY <2>3
      <4>2. Old[i].id \in Ids
        BY <3>1, <4>1 DEF Record
      <4>3. CASE Old[i].id = Old[rd].id
        BY <2>1, <4>2, <4>3
      <4>4. CASE Old[i].id # Old[rd].id
        BY <1>0, <1>3, <2>1, <2>3, <3>1, <4>2, <4>4 DEF PackFaithful
      <4> QED
        BY <4>3, <4>4
    <3> QED
      BY <2>1, <2>3, <2>8, <3>1 DEF PackFaithful
  <2> QED
    BY <2>7, <2>10, <2>11 DEF HandOver, HandOverAlways
<1>4. CASE PackEnd /\ health # "lost"
  <2>1. \A id \in Ids : Lookup(log[New], id) = Lookup(Old, id)
    BY <1>4, PackComplete DEF PackEnd
  <2> QED
    BY <1>4, <2>1 DEF PackEnd, flash, Copying, PackFaithful, HandOver, HandOverAlways, New, Old
<1>5. CASE MarkNew
  BY <1>0, <1>5 DEF MarkNew, Copying, PackFaithful, HandOver, HandOverAlways, New, Old
<1>6. CASE UNCHANGED vars
  BY <1>0, <1>6 DEF vars, Copying, PackFaithful, HandOver, HandOverAlways, New, Old
<1> QED
  <2>1. \/ pc' \notin PackPcs
        \/ EraseNew \/ PackSkip \/ PackSeen \/ PackCopy \/ PackEnd \/ MarkNew
        \/ UNCHANGED vars
    BY DEF Next, flash_write_cfg, flash_read_cfg, InitErase, InitMark, ReadDone,
           AlreadyStored, Select, Program, ProgramId, CloseOld, flash_erase_all_cfg,
           EraseOne, Crash, CrashTorn, Return, PackPcs
  <2>2. health = "lost" =>
          \/ health' = "lost"
          \/ pc' \notin PackPcs
    BY DEF Next, vars, flash_write_cfg, flash_read_cfg, InitErase, InitMark, ReadDone,
           AlreadyStored, Select, Program, ProgramId, EraseNew, PackSkip, PackSeen,
           PackCopy, PackEnd, MarkNew, CloseOld, flash_erase_all_cfg, EraseOne, Crash,
           CrashTorn, PackPcs
  <2> QED
    BY <2>1, <2>2, <1>o, <1>l, <1>1, <1>2, <1>3, <1>4, <1>5, <1>6

-----------------------------------------------------------------------------
(* The theorems *)

\* The inductive invariant: what a call is doing, the layout of the sectors and
\* the progress of pack_eep_fmem belong together in every reachable state.
THEOREM Invariance == Spec => []IInv
<1>1. Init => IInv
  <2> SUFFICES ASSUME Init PROVE IInv
    OBVIOUS
  <2> USE ConstantsAssumption
  <2>1. TypeOK
    BY DEF Init, TypeOK, Sectors, Pcs
  <2>2. \A s \in Sectors : log[s] = <<>>
    BY DEF Init
  <2>3. InsideSector /\ SizesOK
    BY <2>2 DEF InsideSector, SizesOK, WellFormed
  <2>4. Working /\ Copying /\ PackFaithful /\ HandOver
    BY DEF Init, Working, Copying, PackFaithful, HandOver, HandOverAlways
  <2> QED
    BY <2>1, <2>3, <2>4 DEF IInv
<1>2. IInv /\ [Next]_vars => IInv'
  BY TypeStep, LayoutStep, WorkingStep, PackStep DEF IInv
<1> QED
  BY <1>1, <1>2, PTL DEF Spec

\* Variables of flash_eep.c never leave their ranges, whatever the constants.
THEOREM TypeCorrect == Spec => []TypeOK
<1>1. IInv => TypeOK
  BY DEF IInv
<1> QED
  BY <1>1, Invariance, PTL

\* Records never overlap and never reach the end of their sector, whatever
\* size bytes power failures leave behind, until a pack goes by one of them.
THEOREM SectorLayout == Spec => []InsideSector
<1>1. IInv => InsideSector
  BY DEF IInv
<1> QED
  BY <1>1, Invariance, PTL

\* pack_eep_fmem copies the latest data of every identifier it passes, although
\* it copies some of them several times, until it meets a size byte that reads
\* as more than the largest object.
THEOREM PackCopiesLatest == Spec => []PackFaithful
<1>1. IInv => PackFaithful
  BY DEF IInv
<1> QED
  BY <1>1, Invariance, PTL

\* When pack_eep_fmem marks the new sector, it reads as the old one does, if it
\* went by no size byte that reads as more than the largest object.
THEOREM PackHandsOver == Spec => []HandOver
<1>1. IInv => HandOver
  BY DEF IInv
<1> QED
  BY <1>1, Invariance, PTL

\* Only flash_erase_all_cfg takes the current sector of a bank away.
THEOREM KeepsCurrent == Spec => NeverHeadless
<1>1. IInv /\ [Next]_vars =>
        [Current(hdr) # {} /\ pc # "eraseall" => Current(hdr') # {}]_vars
  <2> SUFFICES ASSUME IInv, Next, Current(hdr) # {}, pc # "eraseall"
               PROVE  Current(hdr') # {}
    OBVIOUS
  <2>1. TypeOK /\ Working /\ sec \in Sectors /\ New \in Sectors /\ New # sec
    BY TwoSectorBank DEF IInv, TypeOK
  <2>2. CASE UNCHANGED hdr
    BY <2>2
  <2>3. CASE InitErase \/ EraseOne
    BY <2>3 DEF InitErase, EraseOne
  <2>4. CASE InitMark
    BY <2>1, <2>4 DEF InitMark, Working
  <2>5. CASE EraseNew
    <3>1. hdr'[sec] = "current"
      BY <2>1, <2>5 DEF EraseNew, Working, TypeOK
    <3> QED
      BY <2>1, <3>1 DEF Current
  <2>6. CASE MarkNew \/ CloseOld
    <3>1. hdr'[New] = "current"
      BY <2>1, <2>6 DEF MarkNew, CloseOld, Working, TypeOK
    <3> QED
      BY <2>1, <3>1 DEF Current
  <2> QED
    BY <2>2, <2>3, <2>4, <2>5, <2>6
       DEF Next, flash, flash_write_cfg, flash_read_cfg, ReadDone, AlreadyStored, Select,
           Program, ProgramId, PackSkip, PackSeen, PackCopy, PackEnd,
           flash_erase_all_cfg, Crash, CrashTorn
<1> QED
  BY <1>1, Invariance, PTL DEF Spec, NeverHeadless

-----------------------------------------------------------------------------
(* The refinement of KvStore *)

\* Sector s is the last one marked current.
IsLast(h, s) == s \in Current(h) /\ \A t \in Current(h) : t <= s

LEMMA StoredOfSector ==
  \A h, l, s : IsLast(h, s) => Stored(h, l) = [id \in Ids |-> Lookup(l[s], id)]
<1> SUFFICES ASSUME NEW h, NEW l, NEW s, IsLast(h, s)
             PROVE  Stored(h, l) = [id \in Ids |-> Lookup(l[s], id)]
  OBVIOUS
<1>1. get_addr_bscfg(h) = s
  BY CurrentSector DEF IsLast
<1> QED
  BY <1>1 DEF Stored, IsLast

LEMMA StoredNothing ==
  ASSUME NEW h, NEW l, Current(h) = {} PROVE Stored(h, l) = [id \in Ids |-> None]
BY DEF Stored

\* A sector that reads as before keeps the stored contents.
LEMMA StoredKept ==
  \A h, l, s, g, m, t :
    IsLast(h, s) /\ IsLast(g, t) /\ (\A id \in Ids : Lookup(m[t], id) = Lookup(l[s], id))
      => Stored(g, m) = Stored(h, l)
<1> SUFFICES ASSUME NEW h, NEW l, NEW s, NEW g, NEW m, NEW t, IsLast(h, s), IsLast(g, t),
                    \A id \in Ids : Lookup(m[t], id) = Lookup(l[s], id)
             PROVE  Stored(g, m) = Stored(h, l)
  OBVIOUS
<1>1. Stored(h, l) = [id \in Ids |-> Lookup(l[s], id)]
  BY StoredOfSector
<1>2. Stored(g, m) = [id \in Ids |-> Lookup(m[t], id)]
  BY StoredOfSector
<1> QED
  BY <1>1, <1>2

\* Every step of the store is a step of the abstract store, or none.
LEMMA KvStep == IInv /\ [Next]_vars => [Kv!Next]_Kv!vars
<1> SUFFICES ASSUME IInv, [Next]_vars PROVE [Kv!Next]_Kv!vars
  OBVIOUS
<1> USE ConstantsAssumption
<1> DEFINE kv == Stored(hdr, log)
           kvn == Stored(hdr', log')
<1>0. /\ TypeOK /\ Working /\ HandOver /\ SizesOK /\ Sectors = {1, 2}
      /\ sec \in Sectors /\ New \in Sectors /\ New # sec
      /\ \A s \in Sectors : s = sec \/ s = New
  BY TwoSectorBank DEF IInv, TypeOK
<1>s. ASSUME kvn = kv, req' = req, health' = health PROVE [Kv!Next]_Kv!vars
  BY <1>s DEF Kv!vars
<1>g. ASSUME kvn = kv, req' = NoReq, health' = health PROVE [Kv!Next]_Kv!vars
  BY <1>g DEF Kv!vars, Kv!Next, Kv!GiveUp
\* Nothing is promised of a bank that a pack went astray in.
<1>l. ASSUME health = "lost", health' = "lost" PROVE [Kv!Next]_Kv!vars
  <2>1. TypeOK'
    BY TypeStep
  <2>2. kvn \in [Ids -> Vals \cup {None}]
    <3>1. ASSUME NEW s \in Sectors, NEW id PROVE Lookup(log'[s], id) \in Data
      BY <2>1, <3>1, SearchTypes DEF TypeOK, Lookup
    <3>2. CASE Current(hdr') = {}
      BY <3>2, StoredNothing DEF Data
    <3>3. CASE Current(hdr') # {}
      <4>1. PICK s \in Sectors : IsLast(hdr', s)
        <5>1. CASE 2 \in Current(hdr')
          BY <1>0, <5>1 DEF IsLast, Current
        <5>2. CASE 2 \notin Current(hdr')
          BY <1>0, <3>3, <5>2 DEF IsLast, Current
        <5> QED
          BY <5>1, <5>2
      <4>2. kvn = [id \in Ids |-> Lookup(log'[s], id)]
        BY <4>1, StoredOfSector
      <4> QED
        BY <3>1, <4>2 DEF Data
    <3> QED
      BY <3>2, <3>3
  <2>3. Kv!Stray
    BY <1>l, <2>1, <2>2 DEF Kv!Stray, TypeOK, Data
  <2> QED
    BY <2>3 DEF Kv!Next
<1>f. ASSUME UNCHANGED flash PROVE kvn = kv
  BY <1>f DEF flash
\* The sector a write works on is the current one.
<1>k. ASSUME pc \in {"program", "programid", "erase", "copy", "mark"}
      PROVE  IsLast(hdr, sec)
  BY <1>0, <1>k DEF Working, LastCurrent, Current, IsLast
\* A record without identifier is not found.
<1>a. ASSUME pc = "program", NEW n \in Nat, UNCHANGED hdr,
             log' = [log EXCEPT ![sec] = Append(@,
               [at |-> get_addr_wrobj(@), id |-> NoId, size |-> n, val |-> None])]
      PROVE  kvn = kv
  <2> DEFINE r == [at |-> get_addr_wrobj(log[sec]), id |-> NoId, size |-> n, val |-> None]
  <2>1. log[sec] \in Seq(Record) /\ log'[sec] = Append(log[sec], r)
    BY <1>0, <1>a DEF TypeOK
  <2>2. get_addr_wrobj(log[sec]) \in Nat
    BY <2>1, SearchTypes
  <2>3. r \in Record /\ r.id = NoId
    BY <2>2 DEF Record, Data
  <2> HIDE DEF r
  <2>4. \A id \in Ids : Lookup(log'[sec], id) = Lookup(log[sec], id)
    BY <2>1, <2>3, LookupAppend
  <2>5. IsLast(hdr, sec)
    BY <1>a, <1>k
  <2>6. IsLast(hdr', sec)
    BY <1>a, <2>5
  <2> QED
    BY <2>4, <2>5, <2>6, StoredKept
<1>1. ASSUME NEW id \in Ids, NEW v \in Written[id], flash_write_cfg(id, v)
      PROVE  [Kv!Next]_Kv!vars
  <2>1. Kv!Begin(id, v)
    BY <1>0, <1>1, <1>f DEF flash_write_cfg, Working, Kv!Begin
  <2> QED
    BY <2>1 DEF Kv!Next
<1>2. CASE flash_read_cfg \/ Select \/ PackSeen \/ PackEnd \/ flash_erase_all_cfg
  <2>1. UNCHANGED flash /\ UNCHANGED <<req, health>>
    BY <1>2 DEF flash_read_cfg, Select, PackSeen, PackEnd, flash_erase_all_cfg
  <2> QED
    BY <2>1, <1>f, <1>s
\* A pack that goes by a wrong size byte loses contents; there is one only in a
\* bank that is torn.
<1>14. CASE PackSkip
  <2>1. UNCHANGED flash /\ UNCHANGED req /\ kvn = kv
    BY <1>14, <1>f DEF PackSkip
  <2>2. CASE health' = health
    BY <2>1, <2>2, <1>s
  <2>3. CASE health' # health
    <3>1. Old[rd].size > MaxObj /\ health' = "lost" /\ rd \in 1 .. Len(Old)
      BY <1>0, <1>14, <2>3, Skipping DEF PackSkip
    <3>2. Old[rd].size \in Nat /\ MaxObj \in Nat
      <4>1. Old[rd] \in Record
        BY <1>0, <3>1 DEF TypeOK, Old
      <4> QED
        BY <4>1 DEF Record
    <3>3. health = "torn"
      BY <1>0, <2>3, <3>1, <3>2 DEF SizesOK, TypeOK, Old
    <3>4. Kv!Lose
      BY <2>1, <3>1, <3>3 DEF Kv!Lose
    <3> QED
      BY <3>4 DEF Kv!Next
  <2> QED
    BY <2>2, <2>3
<1>3. CASE ReadDone \/ AlreadyStored \/ Crash
  <2>1. UNCHANGED <<flash, health>> /\ req' = NoReq
    BY <1>3 DEF ReadDone, AlreadyStored, Crash, Return
  <2> QED
    BY <2>1, <1>f, <1>g
<1>4. CASE InitErase
  <2>1. Current(hdr) = {} /\ Current(hdr') = {}
    BY <1>0, <1>4 DEF InitErase, Current, TypeOK
  <2> QED
    BY <1>4, <2>1, StoredNothing, <1>s DEF InitErase
<1>5. CASE InitMark
  <2>1. Current(hdr) = {} /\ Current(hdr') = {1} /\ log'[1] = <<>>
    BY <1>0, <1>5 DEF InitMark, Working, Current, TypeOK
  <2>2. kvn = [id \in Ids |-> Lookup(log'[1], id)]
    <3>1. IsLast(hdr', 1)
      BY <2>1 DEF IsLast
    <3> QED
      BY <3>1, StoredOfSector
  <2>3. \A id \in Ids : Lookup(<<>>, id) = None
    BY LookupNone
  <2>4. kvn = kv
    BY <2>1, <2>2, <2>3, StoredNothing
  <2> QED
    BY <1>5, <2>4, <1>s DEF InitMark
<1>6. CASE Program
  <2>1. req[1] \in Ids /\ req[2] \in Data
    BY <1>0, <1>6 DEF TypeOK, Working, Program
  <2>2. Sizes(req[1], req[2]) \in Nat
    BY <2>1, SizesType
  <2> QED
    BY <1>6, <2>2, <1>a, <1>s DEF Program
<1>7. CASE ProgramId
  <2>1. /\ req \in Ids \X Data /\ req # NoReq
        /\ req[1] \in Ids /\ req[2] \in Data
        /\ log[sec] \in Seq(Record) /\ log[sec] # <<>> /\ log[sec][Len(log[sec])].id = NoId
    BY <1>0, <1>7 DEF TypeOK, Working, ProgramId, Old
  <2>2. log'[sec] = [log[sec] EXCEPT ![Len(log[sec])].id = req[1],
                                     ![Len(log[sec])].val = req[2]]
    BY <1>0, <1>7 DEF ProgramId, TypeOK
  <2>3. \A id \in Ids : Lookup(log'[sec], id) =
          IF id = req[1] THEN req[2] ELSE Lookup(log[sec], id)
    <3> SUFFICES ASSUME NEW id \in Ids
                 PROVE  Lookup(log'[sec], id) =
                          IF id = req[1] THEN req[2] ELSE Lookup(log[sec], id)
      OBVIOUS
    <3> DEFINE L == log[sec]
               x == req[1]
               v == req[2]
    <3>1. /\ L \in Seq(Record) /\ L # <<>> /\ L[Len(L)].id = NoId
          /\ x \in Ids /\ v \in Data
          /\ log'[sec] = [L EXCEPT ![Len(L)].id = x, ![Len(L)].val = v]
      BY <2>1, <2>2
    <3> DEFINE M == log'[sec]
    <3> HIDE DEF L, x, v
    <3>2. /\ Len(L) # 0 /\ Len(M) = Len(L)
          /\ M[Len(L)].id = x /\ M[Len(L)].val = v
          /\ \A i \in 1 .. Len(L) : i # Len(L) => M[i] = L[i]
      BY <3>1, FinishedRecord
    <3> HIDE DEF M
    <3>3. Lookup(M, id) = IF id = x THEN v ELSE Lookup(L, id)
      BY <3>1, <3>2, LookupFinish
    <3> QED
      BY <3>3 DEF L, M, x, v
  <2>4. IsLast(hdr, sec)
    BY <1>7, <1>k DEF ProgramId
  <2>5. IsLast(hdr', sec)
    BY <1>7, <2>4 DEF ProgramId
  <2>6. kv = [id \in Ids |-> Lookup(log[sec], id)]
    BY <2>4, StoredOfSector
  <2>7. kvn = [id \in Ids |-> Lookup(log'[sec], id)]
    BY <2>5, StoredOfSector
  <2>8. kvn = [kv EXCEPT ![req[1]] = req[2]]
    BY <2>3, <2>6, <2>7
  <2>9. Kv!Apply
    BY <1>7, <2>1, <2>8 DEF ProgramId, Return, Kv!Apply
  <2> QED
    BY <2>9 DEF Kv!Next
<1>8. CASE EraseNew \/ PackCopy
  <2>1. IsLast(hdr, sec)
    BY <1>8, <1>k DEF EraseNew, PackCopy
  <2>2. log'[sec] = log[sec] /\ hdr'[sec] = hdr[sec] /\ Current(hdr') \subseteq Current(hdr)
    BY <1>0, <1>8 DEF EraseNew, PackCopy, TypeOK, Current
  <2>3. IsLast(hdr', sec)
    BY <2>1, <2>2 DEF Current, IsLast
  <2>4. kvn = kv
    BY <2>1, <2>2, <2>3, StoredKept
  <2> QED
    BY <1>8, <2>4, <1>s DEF EraseNew, PackCopy
<1>9. CASE MarkNew /\ health # "lost"
  <2>1. /\ IsLast(hdr, sec)
        /\ \A id \in Ids : Lookup(log[New], id) = Lookup(log[sec], id)
    BY <1>0, <1>9, <1>k DEF MarkNew, HandOver, HandOverAlways, Old
  <2>2. IsLast(hdr', 2) /\ log' = log
    <3>1. Current(hdr') = {1, 2}
      BY <1>0, <1>9, <2>1 DEF MarkNew, Current, TypeOK, IsLast
    <3>2. IsLast(hdr', 2)
      BY <3>1 DEF IsLast
    <3> QED
      BY <1>9, <3>2 DEF MarkNew
  <2>3. \A id \in Ids : Lookup(log'[2], id) = Lookup(log[sec], id)
    BY <1>0, <2>1, <2>2
  <2>4. kvn = kv
    BY <2>1, <2>2, <2>3, StoredKept
  <2> QED
    BY <1>9, <2>4, <1>s DEF MarkNew
<1>10. CASE CloseOld /\ health # "lost"
  <2>1. /\ Current(hdr) = {1, 2} /\ Current(hdr') = {New} /\ log' = log
        /\ \A id \in Ids : Lookup(log[New], id) = Lookup(log[sec], id)
    BY <1>0, <1>10 DEF CloseOld, Working, HandOver, HandOverAlways, Current, TypeOK, Old
  <2>2. \A id \in Ids : Lookup(log'[New], id) = Lookup(log[2], id)
    BY <1>0, <2>1
  <2>3. IsLast(hdr, 2) /\ IsLast(hdr', New)
    BY <1>0, <2>1 DEF IsLast
  <2>4. kvn = kv
    BY <2>2, <2>3, StoredKept
  <2> QED
    BY <1>10, <2>4, <1>s, <1>g DEF CloseOld, Return
<1>11. CASE EraseOne
  <2>1. /\ req = NoReq /\ req' = req /\ rd \in {1, 2}
        /\ \A s \in Sectors : s < rd => hdr[s] = "free"
        /\ hdr' = [hdr EXCEPT ![rd] = "free"] /\ log' = [log EXCEPT ![rd] = <<>>]
        /\ health' = IF rd = 2 THEN "sound" ELSE health
    BY TwoSectors, <1>0, <1>11 DEF EraseOne, Working
  <2>2. CASE rd = 1 /\ hdr[2] = "current"
    <3>1. IsLast(hdr, 2) /\ IsLast(hdr', 2) /\ log'[2] = log[2]
      BY <1>0, <2>1, <2>2 DEF Current, TypeOK, IsLast
    <3>2. kvn = kv
      BY <3>1, StoredKept
    <3> QED
      BY <2>1, <2>2, <3>2, <1>s
  <2>3. CASE ~(rd = 1 /\ hdr[2] = "current")
    <3>1. Current(hdr') = {}
      BY <1>0, <2>1, <2>3 DEF Current, TypeOK
    <3>2. Kv!Clear
      <4>1. kvn = [id \in Ids |-> None]
        BY <3>1, StoredNothing
      <4>2. health' \in {health, "sound"}
        BY <2>1
      <4> QED
        BY <2>1, <4>1, <4>2 DEF Kv!Clear, Kv!Empty
    <3> QED
      BY <3>2 DEF Kv!Next
  <2> QED
    BY <2>2, <2>3
<1>12. CASE CrashTorn
  <2>1. PICK t \in TornSizes :
          /\ log' = [log EXCEPT ![sec] = Append(@,
               [at |-> get_addr_wrobj(@), id |-> NoId, size |-> t, val |-> None])]
          /\ health' = IF t > MaxObj /\ health = "sound" THEN "torn" ELSE health
    BY <1>12 DEF CrashTorn
  <2>2. kvn = kv /\ req # NoReq /\ req' = NoReq
    BY <1>0, <1>12, <2>1, <1>a DEF CrashTorn, Return, Working
  <2>3. CASE health' = health
    BY <2>2, <2>3, <1>g
  <2>4. CASE health' # health
    <3>1. Kv!Tear
      BY <2>1, <2>2, <2>4 DEF Kv!Tear
    <3> QED
      BY <3>1 DEF Kv!Next
  <2> QED
    BY <2>3, <2>4
<1>13. CASE UNCHANGED vars
  BY <1>13, <1>f, <1>s DEF vars, flash
<1>15. MarkNew \/ CloseOld => health' = health
  BY DEF MarkNew, CloseOld
<1> QED
  BY <1>1, <1>2, <1>3, <1>4, <1>5, <1>6, <1>7, <1>8, <1>9, <1>10, <1>11, <1>12,
     <1>13, <1>14, <1>15, <1>l DEF Next

\* The store with its sectors, its pack loop and its power failures implements
\* the store that writes one object as a whole or not at all, and that may lose
\* its contents only after a power failure inside a write has torn it.
THEOREM Refinement == Spec => ImplementsKvStore
<1>1. Init => Kv!Init
  <2> SUFFICES ASSUME Init PROVE /\ Stored(hdr, log) = [id \in Ids |-> None]
                                   /\ req = NoReq /\ health = "sound"
    BY DEF Kv!Init, Kv!Empty
  <2>1. Current(hdr) = {}
    BY DEF Init, Current
  <2> QED
    BY <2>1, StoredNothing DEF Init
<1>2. IInv /\ [Next]_vars => [Kv!Next]_Kv!vars
  BY KvStep
<1> QED
  BY <1>1, <1>2, Invariance, PTL DEF Spec, ImplementsKvStore, Kv!Spec
=============================================================================
