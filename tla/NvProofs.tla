------------------------------ MODULE NvProofs ------------------------------
(***************************************************************************)
(* Proofs about the non-volatile items of the SDK, drv_nv.c, wherever the  *)
(* power fails.                                                            *)
(*                                                                         *)
(* A module of items (NvItems), for every set of items, sizes, contents    *)
(* and alignment and every size of the table: an exchange of the sectors   *)
(* has room for what it copies, and the module implements NvStore.         *)
(***************************************************************************)
EXTENDS NvItems, SequenceTheorems, WellFoundedInduction, TLAPS

\* Every index follows the one before it, and its contents end in the sector.
InLine(L) ==
  /\ Len(L) <= IdxNum
  /\ \A i \in 1 .. Len(L) :
       /\ L[i].size = SizeOf[L[i].id]
       /\ L[i].at = IF i = 1 THEN 0 ELSE RoundUp(L[i - 1].at + L[i - 1].size)
       /\ L[i].at + L[i].size <= Space

\* An index that was not programmed to its end is the last one.
TornLast(L) == \A i \in 1 .. Len(L) : L[i].used = "torn" => i = Len(L)

Tables == \A s \in Sectors : InLine(idx[s]) /\ TornLast(idx[s])

\* A sector that may be chosen has an index.
LiveHaveIndex == \A s \in Live(hdr) : idx[s] # <<>>

Busy == {"erase", "dedupe", "copy", "index", "data", "mark", "delete",
         "header", "old", "new"}

\* Calls.
Calls ==
  /\ pc \in {"idle", "reset"} => req = NoReq
  /\ pc \in Busy => req # NoReq
  /\ pc \in {"erase", "dedupe", "copy", "old", "new"} => xch
  /\ pc = "finish" => FoundReady(hdr) /\ hdr[Other(Found(hdr))] = "invalid"
  /\ pc = "erase" => FoundValid(hdr) /\ sec = Found(hdr)

\* The headers while an exchange goes on, ...
Exchange ==
  xch =>
    /\ pc \in {"dedupe", "copy", "index", "data", "mark", "delete", "header"} =>
         hdr[sec] = "valid" /\ hdr[Target] = "none"
    /\ pc = "old" => hdr[sec] = "valid" /\ hdr[Target] = "ready"
    /\ pc = "new" => hdr[sec] = "invalid" /\ hdr[Target] = "ready"

\* ... or a write to the sector that was found, or to the first one.
First == sec = 1 /\ Live(hdr) = {}

InPlace ==
  ~xch =>
    /\ pc \in {"index", "data", "mark", "delete"} =>
         \/ First
         \/ /\ FoundValid(hdr) /\ sec = Found(hdr)
            /\ pc # "index" => Len(idx[sec]) > 1
    /\ First =>
         /\ pc = "index" => idx[1] = <<>>
         /\ pc \in {"data", "mark", "delete"} => Len(idx[1]) = 1
    /\ pc = "header" => First /\ Len(idx[1]) = 1

LastOf(L) == L[Len(L)]

\* The index at the end of the table while it is written.
AtEnd ==
  /\ pc \in {"copy", "index"} => \A i \in 1 .. Len(idx[Target]) : idx[Target][i].used # "torn"
  /\ pc \in {"data", "mark", "delete", "header"} =>
       /\ idx[Target] # <<>>
       /\ LastOf(idx[Target]).id = req[1]
       /\ LastOf(idx[Target]).used = IF pc \in {"data", "mark"} THEN "operation" ELSE "single"
       /\ pc # "data" => LastOf(idx[Target]).val = req[2]

\* What the exchange has copied.
CopiedSoFar ==
  /\ pc = "dedupe" => idx[Target] = <<>> /\ rd = 1
  /\ pc = "copy" =>
       /\ rd <= Len(idx[sec]) + 1
       /\ Len(idx[Target]) < rd
       /\ rd <= Len(idx[sec]) => NextAt(idx[Target]) <= idx[sec][rd].at
       /\ \A id \in Ids :
            id # req[1] => Latest(idx[Target], id) = Latest(SubSeq(idx[sec], 1, rd - 1), id)

CopiedAll ==
  xch /\ pc \in {"index", "data", "mark", "delete", "header", "old"} =>
    /\ \A id \in Ids : id # req[1] => Latest(idx[Target], id) = Latest(idx[sec], id)
    /\ pc = "old" => Latest(idx[Target], req[1]) = req[2]

Control == Calls /\ Exchange /\ InPlace /\ AtEnd /\ CopiedSoFar /\ CopiedAll

\* The inductive invariant.
IInv == TypeOK /\ Tables /\ LiveHaveIndex /\ Control

-----------------------------------------------------------------------------
(* Numbers and sectors *)

LEMMA OtherOf ==
  /\ Other(1) = 2 /\ Other(2) = 1
  /\ \A s \in Sectors : Other(s) \in Sectors /\ Other(s) # s /\ Other(Other(s)) = s
  /\ \A s, t \in Sectors : t = s \/ t = Other(s)
BY DEF Other, Sectors

\* The sector that nv_sector_read finds is one of those it may choose, and the
\* first of them.
LEMMA FoundOf ==
  ASSUME NEW h
  PROVE  /\ Live(h) \subseteq Sectors
         /\ Live(h) # {} => Found(h) \in Live(h)
         /\ 1 \in Live(h) => Found(h) = 1
         /\ Live(h) # {} /\ 1 \notin Live(h) => Found(h) = 2
<1>1. Live(h) \subseteq Sectors
  BY DEF Live
<1>2. CASE 1 \in Live(h)
  <2>1. \A t \in Live(h) : 1 <= t
    BY <1>1 DEF Sectors
  <2>2. \A s \in Live(h) : (\A t \in Live(h) : s <= t) => s = 1
    BY <1>1, <1>2 DEF Sectors
  <2>3. Found(h) = 1
    BY <1>2, <2>1, <2>2 DEF Found
  <2>4. QED
    BY <1>1, <1>2, <2>3
<1>3. CASE 1 \notin Live(h) /\ Live(h) # {}
  <2>1. Live(h) = {2}
    BY <1>1, <1>3 DEF Sectors
  <2>2. Found(h) = 2
    BY <2>1 DEF Found
  <2>3. QED
    BY <1>1, <1>3, <2>1, <2>2
<1>4. QED
  BY <1>1, <1>2, <1>3

\* Rounding up goes up, and keeps an order.
LEMMA RoundedUp ==
  ASSUME NEW m \in Nat, NEW n \in Nat, m <= n
  PROVE  /\ RoundUp(m) \in Nat /\ RoundUp(n) \in Nat
         /\ n <= RoundUp(n) /\ RoundUp(m) <= RoundUp(n)
<1> DEFINE q(k) == (k + Align - 1) \div Align
<1>1. Align \in Nat /\ Align > 0
  BY ConstantsAssumption
<1>2. ASSUME NEW k \in Nat
      PROVE  /\ q(k) \in Nat
             /\ q(k) * Align <= k + Align - 1
             /\ k + Align - 1 < q(k) * Align + Align
  <2>1. k + Align - 1 \in Nat
    BY <1>1
  <2>2. QED
    BY <1>1, <2>1
<1>3. q(m) <= q(n)
  <2>1. SUFFICES ASSUME q(n) < q(m) PROVE FALSE
    BY <1>2
  <2>2. q(n) + 1 <= q(m) /\ q(n) \in Nat /\ q(m) \in Nat
    BY <1>2, <2>1
  <2> HIDE DEF q
  <2>3. q(n) * Align + Align <= q(m) * Align
    BY <1>1, <2>2
  <2>4. n + Align - 1 < m + Align - 1
    BY <1>1, <1>2, <2>2, <2>3
  <2>5. QED
    BY <1>1, <2>4
<1>4. RoundUp(m) = q(m) * Align /\ RoundUp(n) = q(n) * Align
  BY DEF RoundUp
<1> HIDE DEF q
<1>5. q(m) \in Nat /\ q(n) \in Nat
  BY <1>2
<1>6. q(m) * Align \in Nat /\ q(n) * Align \in Nat /\ q(m) * Align <= q(n) * Align
  BY <1>1, <1>3, <1>5
<1>7. n <= q(n) * Align
  BY <1>1, <1>2, <1>5, <1>6
<1>8. QED
  BY <1>4, <1>6, <1>7

\* A set of positions in a table has a last one.
LEMMA LastIn ==
  ASSUME NEW n \in Nat, NEW S \in SUBSET (1 .. n), S # {}
  PROVE  \E i \in S : \A j \in S : j <= i
<1> DEFINE T == {n - i : i \in S}
<1>1. T \in SUBSET Nat /\ T # {}
  <2>1. \A i \in S : n - i \in Nat
    OBVIOUS
  <2>2. QED
    BY <2>1
<1>2. IsWellFoundedOn(OpToRel(<, Nat), Nat)
  BY NatLessThanWellFounded
<1>3. PICK k \in T : \A l \in T : ~(<<l, k>> \in OpToRel(<, Nat))
  <2> HIDE DEF T
  <2>1. QED
    BY <1>1, <1>2, WFMin
<1>4. \A l \in T : ~(l < k)
  BY <1>1, <1>3 DEF OpToRel
<1>5. PICK i \in S : k = n - i
  OBVIOUS
<1>6. \A j \in S : ~(n - j < n - i)
  BY <1>4, <1>5
<1>7. QED
  BY <1>5, <1>6

-----------------------------------------------------------------------------
(* The table of indices *)

\* A valid index of an item is the last one or has one behind it.
LEMMA LastIndex ==
  ASSUME NEW L \in Seq(Index), NEW id, NEW i \in 1 .. Len(L),
         L[i].id = id, L[i].used = "single"
  PROVE  \E j \in nv_index_read(L, id) : i <= j
<1> DEFINE S == {j \in 1 .. Len(L) : L[j].id = id /\ L[j].used = "single"}
<1>1. Len(L) \in Nat /\ S \in SUBSET (1 .. Len(L)) /\ i \in S
  OBVIOUS
<1>2. PICK j \in S : \A k \in S : k <= j
  BY <1>1, LastIn
<1>3. i <= j
  BY <1>1, <1>2
<1>4. j \in nv_index_read(L, id)
  BY <1>2 DEF nv_index_read
<1>5. QED
  BY <1>3, <1>4

\* What the tables say of an item depends on its valid indices only.
LEMMA SameLatest ==
  ASSUME NEW L, NEW M, NEW id, nv_index_read(L, id) = nv_index_read(M, id),
         \A i \in nv_index_read(L, id) : M[i].val = L[i].val
  PROVE  Latest(M, id) = Latest(L, id)
BY DEF Latest

LEMMA LatestTyped ==
  ASSUME NEW L \in Seq(Index), NEW id
  PROVE  Latest(L, id) \in Data
<1>1. CASE nv_index_read(L, id) = {}
  BY <1>1 DEF Latest, Data
<1>2. CASE nv_index_read(L, id) # {}
  <2>1. PICK i \in nv_index_read(L, id) : Latest(L, id) = L[i].val
    BY <1>2 DEF Latest
  <2>2. i \in 1 .. Len(L)
    BY DEF nv_index_read
  <2>3. L[i] \in Index
    BY <2>2
  <2>4. QED
    BY <2>1, <2>3 DEF Index
<1>3. QED
  BY <1>1, <1>2

\* A valid index at the end is the one that counts, any other none.
LEMMA LatestAtEnd ==
  ASSUME NEW L \in Seq(Index), L # <<>>, LastOf(L).used = "single"
  PROVE  Latest(L, LastOf(L).id) = LastOf(L).val
<1>1. Len(L) \in 1 .. Len(L)
  OBVIOUS
<1>2. nv_index_read(L, LastOf(L).id) = {Len(L)}
  BY <1>1 DEF nv_index_read, LastOf
<1>3. QED
  BY <1>2 DEF Latest, LastOf

LEMMA LatestAppend ==
  ASSUME NEW L \in Seq(Index), NEW r \in Index, NEW id
  PROVE  Latest(Append(L, r), id) =
           IF r.id = id /\ r.used = "single" THEN r.val ELSE Latest(L, id)
<1> DEFINE M == Append(L, r)
<1>1. /\ M \in Seq(Index) /\ Len(M) = Len(L) + 1 /\ M[Len(M)] = r /\ M # <<>>
      /\ \A i \in 1 .. Len(L) : M[i] = L[i]
      /\ Len(L) \in Nat
  OBVIOUS
<1> HIDE DEF M
<1>2. CASE r.id = id /\ r.used = "single"
  BY <1>1, <1>2, LatestAtEnd DEF LastOf, M
<1>3. CASE ~(r.id = id /\ r.used = "single")
  <2>1. nv_index_read(L, id) = nv_index_read(M, id)
    BY <1>1, <1>3 DEF nv_index_read
  <2>2. \A i \in nv_index_read(L, id) : M[i].val = L[i].val
    BY <1>1 DEF nv_index_read
  <2>3. QED
    BY <1>3, <2>1, <2>2, SameLatest DEF M
<1>4. QED
  BY <1>2, <1>3

\* Valid indices may be deleted as long as they do not count.
LEMMA LatestWithout ==
  ASSUME NEW L \in Seq(Index), NEW M \in Seq(Index), Len(M) = Len(L), NEW id,
         \A i \in 1 .. Len(L) :
           /\ M[i].id = L[i].id /\ M[i].val = L[i].val
           /\ M[i].used = "single" => L[i].used = "single"
           /\ L[i].used = "single" /\ M[i].used # "single" =>
                i \notin nv_index_read(L, L[i].id)
  PROVE  Latest(M, id) = Latest(L, id)
<1>1. Len(L) \in Nat
  OBVIOUS
<1>2. ASSUME NEW i \in nv_index_read(L, id) PROVE i \in nv_index_read(M, id)
  BY <1>1 DEF nv_index_read
<1>3. ASSUME NEW i \in nv_index_read(M, id) PROVE i \in nv_index_read(L, id)
  <2>1. i \in 1 .. Len(L) /\ L[i].id = id /\ L[i].used = "single"
    BY DEF nv_index_read
  <2>2. PICK j \in nv_index_read(L, id) : i <= j
    BY <2>1, LastIndex
  <2>3. j \in 1 .. Len(L) /\ M[j].id = id /\ M[j].used = "single"
    BY <1>2 DEF nv_index_read
  <2>4. ~(j \in i + 1 .. Len(M))
    BY <2>3 DEF nv_index_read
  <2>5. i = j
    BY <1>1, <2>1, <2>2, <2>3, <2>4
  <2>6. QED
    BY <2>5
<1>4. \A i \in nv_index_read(L, id) : M[i].val = L[i].val
  BY DEF nv_index_read
<1>5. nv_index_read(L, id) = nv_index_read(M, id)
  BY <1>2, <1>3
<1>6. QED
  BY <1>4, <1>5, SameLatest

\* The table up to index n.
LEMMA UpTo ==
  ASSUME NEW L \in Seq(Index), NEW n \in 1 .. Len(L)
  PROVE  /\ SubSeq(L, 1, n - 1) \in Seq(Index)
         /\ L[n] \in Index
         /\ SubSeq(L, 1, n) = Append(SubSeq(L, 1, n - 1), L[n])
<1>1. n \in Nat /\ n - 1 \in Nat /\ Len(L) \in Nat /\ n <= Len(L) /\ L[n] \in Index
  OBVIOUS
<1>2. SubSeq(L, 1, n - 1) \in Seq(Index) /\ Len(SubSeq(L, 1, n - 1)) = n - 1
  BY <1>1
<1>3. SubSeq(L, 1, n) \in Seq(Index) /\ Len(SubSeq(L, 1, n)) = n
  BY <1>1
<1>4. \A i \in 1 .. n - 1 : SubSeq(L, 1, n - 1)[i] = L[i] /\ SubSeq(L, 1, n)[i] = L[i]
  BY <1>1
<1>5. SubSeq(L, 1, n)[n] = L[n]
  BY <1>1
<1>6. QED
  BY <1>1, <1>2, <1>3, <1>4, <1>5

LEMMA LatestUpTo ==
  ASSUME NEW L \in Seq(Index), NEW id
  PROVE  /\ Latest(SubSeq(L, 1, 0), id) = None
         /\ SubSeq(L, 1, Len(L)) = L
         /\ \A n \in 1 .. Len(L) :
              Latest(SubSeq(L, 1, n), id) =
                IF L[n].id = id /\ L[n].used = "single" THEN L[n].val
                ELSE Latest(SubSeq(L, 1, n - 1), id)
<1>1. Latest(SubSeq(L, 1, 0), id) = None
  <2>1. SubSeq(L, 1, 0) = <<>>
    OBVIOUS
  <2>2. nv_index_read(<<>>, id) = {}
    BY DEF nv_index_read
  <2>3. QED
    BY <2>1, <2>2 DEF Latest
<1>2. SubSeq(L, 1, Len(L)) = L
  OBVIOUS
<1>3. ASSUME NEW n \in 1 .. Len(L)
      PROVE  Latest(SubSeq(L, 1, n), id) =
                IF L[n].id = id /\ L[n].used = "single" THEN L[n].val
                ELSE Latest(SubSeq(L, 1, n - 1), id)
  <2>1. /\ SubSeq(L, 1, n - 1) \in Seq(Index) /\ L[n] \in Index
        /\ SubSeq(L, 1, n) = Append(SubSeq(L, 1, n - 1), L[n])
    BY UpTo
  <2> DEFINE K == SubSeq(L, 1, n - 1)
             r == L[n]
  <2>2. K \in Seq(Index) /\ r \in Index /\ SubSeq(L, 1, n) = Append(K, r)
    BY <2>1
  <2>3. ASSUME NEW k \in Seq(Index), NEW q \in Index
        PROVE  Latest(Append(k, q), id) =
                 IF q.id = id /\ q.used = "single" THEN q.val ELSE Latest(k, id)
    BY LatestAppend
  <2> HIDE DEF K, r
  <2>4. Latest(Append(K, r), id) =
          IF r.id = id /\ r.used = "single" THEN r.val ELSE Latest(K, id)
    BY <2>2, <2>3
  <2>5. QED
    BY <2>2, <2>4 DEF K, r
<1>4. QED
  BY <1>1, <1>2, <1>3

\* A table grows by an index that fits (nv_write_item).
LEMMA Grows ==
  ASSUME NEW L \in Seq(Index), InLine(L), TornLast(L), NEW id \in Ids,
         \A i \in 1 .. Len(L) : L[i].used # "torn",
         NEW used \in {"operation", "single", "invalid", "torn"}, NEW v \in Data,
         ItemFits(L, id), NEW r, r = IndexOf(L, id, used, v)
  PROVE  /\ r \in Index /\ Append(L, r) \in Seq(Index)
         /\ Append(L, r) # <<>> /\ Len(Append(L, r)) = Len(L) + 1
         /\ LastOf(Append(L, r)) = r
         /\ r.id = id /\ r.used = used /\ r.val = v
         /\ InLine(Append(L, r)) /\ TornLast(Append(L, r))
         /\ NextAt(Append(L, r)) = RoundUp(NextAt(L) + SizeOf[id])
<1>1. SizeOf[id] \in Nat /\ IdxNum \in Nat /\ Space \in Nat
  BY ConstantsAssumption
<1>2. NextAt(L) \in Nat
  <2>1. CASE L = <<>>
    BY <2>1 DEF NextAt
  <2>2. CASE L # <<>>
    <3>1. L[Len(L)] \in Index
      BY <2>2
    <3>2. L[Len(L)].at + L[Len(L)].size \in Nat
      BY <3>1 DEF Index
    <3>3. QED
      BY <2>2, <3>2, RoundedUp DEF NextAt
  <2>3. QED
    BY <2>1, <2>2
<1>3. r \in Index /\ r.id = id /\ r.used = used /\ r.val = v /\ r.at = NextAt(L)
      /\ r.size = SizeOf[id]
  BY <1>1, <1>2 DEF IndexOf, Index
<1> DEFINE M == Append(L, r)
<1>4. /\ M \in Seq(Index) /\ M # <<>> /\ Len(M) = Len(L) + 1 /\ M[Len(M)] = r
      /\ \A i \in 1 .. Len(L) : M[i] = L[i]
      /\ Len(L) \in Nat
  BY <1>3
<1> HIDE DEF M
<1>5. Len(M) <= IdxNum
  BY <1>1, <1>4 DEF ItemFits
<1>6. ASSUME NEW i \in 1 .. Len(M)
      PROVE  /\ M[i].size = SizeOf[M[i].id]
             /\ M[i].at = IF i = 1 THEN 0 ELSE RoundUp(M[i - 1].at + M[i - 1].size)
             /\ M[i].at + M[i].size <= Space
             /\ M[i].used = "torn" => i = Len(M)
  <2>1. CASE i <= Len(L)
    <3>1. M[i] = L[i] /\ (i # 1 => M[i - 1] = L[i - 1])
      BY <1>4, <2>1
    <3>2. i \in 1 .. Len(L)
      BY <1>4, <2>1
    <3>3. QED
      BY <3>1, <3>2 DEF InLine
  <2>2. CASE i = Len(M)
    <3>1. M[i] = r
      BY <1>4, <2>2
    <3>2. r.at + r.size <= Space
      BY <1>3 DEF ItemFits
    <3>3. CASE L = <<>>
      BY <1>3, <1>4, <2>2, <3>1, <3>2, <3>3 DEF NextAt
    <3>4. CASE L # <<>>
      <4>1. i # 1 /\ M[i - 1] = L[Len(L)]
        BY <1>4, <2>2, <3>4
      <4>2. QED
        BY <1>3, <2>2, <3>1, <3>2, <3>4, <4>1 DEF NextAt
    <3>5. QED
      BY <3>3, <3>4
  <2>3. QED
    BY <1>4, <2>1, <2>2
<1>7. InLine(M) /\ TornLast(M)
  BY <1>5, <1>6 DEF InLine, TornLast
<1>8. NextAt(M) = RoundUp(NextAt(L) + SizeOf[id])
  BY <1>3, <1>4 DEF NextAt
<1>9. QED
  BY <1>3, <1>4, <1>7, <1>8 DEF LastOf, M

\* Marks do not move an index.
LEMMA Marked ==
  ASSUME NEW L \in Seq(Index), NEW M \in Seq(Index), Len(M) = Len(L), InLine(L), TornLast(L),
         \A i \in 1 .. Len(L) :
           /\ M[i].at = L[i].at /\ M[i].size = L[i].size /\ M[i].id = L[i].id
           /\ M[i].used = "torn" => L[i].used = "torn"
  PROVE  InLine(M) /\ TornLast(M)
<1>1. Len(L) \in Nat
  OBVIOUS
<1>2. ASSUME NEW i \in 1 .. Len(L)
      PROVE  /\ M[i].size = SizeOf[M[i].id]
             /\ M[i].at = IF i = 1 THEN 0 ELSE RoundUp(M[i - 1].at + M[i - 1].size)
             /\ M[i].at + M[i].size <= Space
             /\ M[i].used = "torn" => i = Len(M)
  <2>1. i # 1 => i - 1 \in 1 .. Len(L)
    BY <1>1
  <2>2. QED
    BY <2>1 DEF InLine, TornLast
<1>3. QED
  BY <1>2 DEF InLine, TornLast

\* One index of a table is changed.
LEMMA OneIndex ==
  ASSUME NEW L \in Seq(Index), NEW i \in 1 .. Len(L), NEW r, r \in Index, NEW M,
         M = [L EXCEPT ![i] = r]
  PROVE  /\ M \in Seq(Index) /\ Len(M) = Len(L)
         /\ \A k \in 1 .. Len(L) : M[k] = IF k = i THEN r ELSE L[k]
BY ExceptSeq

-----------------------------------------------------------------------------
(* The state *)

\* What the type invariant says, one by one.
LEMMA Typed ==
  ASSUME TypeOK
  PROVE  /\ \A s \in Sectors : idx[s] \in Seq(Index) /\ Len(idx[s]) \in Nat /\ hdr[s] \in Flags
         /\ sec \in Sectors /\ Target \in Sectors
         /\ xch => Target = Other(sec) /\ Target # sec
         /\ ~xch => Target = sec
         /\ req # NoReq => req[1] \in Ids /\ req[2] \in Vals /\ req[2] \in Data
         /\ rd \in Nat \ {0} /\ IdxNum \in Nat
<1>1. req # NoReq => req[1] \in Ids /\ req[2] \in Vals
  BY DEF TypeOK
<1>2. QED
  BY <1>1, OtherOf, ConstantsAssumption DEF TypeOK, Target, Data

\* A table that is replaced by a good one.
LEMMA Replaced ==
  ASSUME TypeOK, Tables, NEW t \in Sectors, NEW M \in Seq(Index), InLine(M), TornLast(M),
         idx' = [idx EXCEPT ![t] = M]
  PROVE  /\ idx' \in [Sectors -> Seq(Index)]
         /\ \A s \in Sectors : Len(idx'[s]) <= IdxNum
         /\ Tables'
         /\ idx'[t] = M
         /\ \A s \in Sectors : s # t => idx'[s] = idx[s]
<1>1. idx' \in [Sectors -> Seq(Index)] /\ idx'[t] = M
  BY DEF TypeOK
<1>2. \A s \in Sectors : s # t => idx'[s] = idx[s]
  BY DEF TypeOK
<1>3. ASSUME NEW s \in Sectors
      PROVE  InLine(idx'[s]) /\ TornLast(idx'[s])
  BY <1>1, <1>2 DEF Tables
<1>4. \A s \in Sectors : Len(idx'[s]) <= IdxNum
  BY <1>3 DEF InLine
<1>5. QED
  BY <1>1, <1>2, <1>3, <1>4 DEF Tables

\* An empty table is a good one.
LEMMA EmptyTable == <<>> \in Seq(Index) /\ InLine(<<>>) /\ TornLast(<<>>)
BY ConstantsAssumption DEF InLine, TornLast

\* Between two calls, and while a sector is looked for, nothing is going on.
Quiet == pc \in {"idle", "find", "reset"} /\ (pc # "find" => req = NoReq)

LEMMA Between == Quiet => Control
BY DEF Quiet, Control, Calls, Exchange, InPlace, AtEnd, CopiedSoFar, CopiedAll, Busy

LEMMA ReturnTypes ==
  ASSUME Return
  PROVE  /\ pc' \in Pcs /\ req' \in (Ids \X Vals) \cup {NoReq}
         /\ force' \in BOOLEAN /\ sec' \in Sectors /\ xch' \in BOOLEAN
         /\ rd' \in 1 .. IdxNum + 1
         /\ Control'
<1>1. Control'
  <2>1. Quiet'
    BY DEF Quiet, Return
  <2>2. QED
    BY <2>1, Between, PTL
<1>2. 1 \in 1 .. IdxNum + 1
  BY ConstantsAssumption
<1>3. QED
  BY <1>1, <1>2 DEF Return, Pcs, Sectors

-----------------------------------------------------------------------------
(* Steps: calls, and nv_sector_read *)

LEMMA InitHolds == Init => IInv
<1> SUFFICES ASSUME Init PROVE IInv
  OBVIOUS
<1>1. TypeOK
  <2>1. 1 \in 1 .. IdxNum + 1 /\ Len(<<>>) <= IdxNum
    BY ConstantsAssumption
  <2>2. hdr \in [Sectors -> Flags] /\ idx \in [Sectors -> Seq(Index)]
    BY EmptyTable DEF Init, Flags
  <2>3. \A s \in Sectors : Len(idx[s]) <= IdxNum
    BY <2>1 DEF Init
  <2>4. QED
    BY <2>1, <2>2, <2>3 DEF Init, TypeOK, Sectors, Pcs
<1>2. LiveHaveIndex
  BY DEF Init, LiveHaveIndex, Live
<1>3. Control
  BY Between DEF Quiet, Init
<1>4. Tables
  BY EmptyTable DEF Init, Tables
<1>5. QED
  BY <1>1, <1>2, <1>3, <1>4 DEF IInv

LEMMA CallSteps ==
  ASSUME IInv,
         \/ \E id \in Ids : \E v \in Written[id] : nv_flashWriteNew(id, v)
         \/ nv_flashReadNew
         \/ FinishNew
         \/ ReadDone
         \/ Crash
  PROVE  IInv'
<1> USE DEF IInv
<1>1. ASSUME NEW id \in Ids, NEW v \in Written[id], nv_flashWriteNew(id, v)
      PROVE  IInv'
  <2>1. TypeOK'
    BY <1>1, ConstantsAssumption DEF nv_flashWriteNew, TypeOK, flash, Pcs
  <2>2. Control'
    <3>1. Quiet'
      BY <1>1 DEF Quiet, nv_flashWriteNew
    <3>2. QED
      BY <3>1, Between, PTL
  <2>3. QED
    BY <1>1, <2>1, <2>2 DEF nv_flashWriteNew, flash, Tables, LiveHaveIndex
<1>2. CASE nv_flashReadNew
  <2>1. TypeOK'
    BY <1>2 DEF nv_flashReadNew, TypeOK, flash, Pcs
  <2>2. Control'
    <3>1. Quiet'
      BY <1>2 DEF Quiet, nv_flashReadNew
    <3>2. QED
      BY <3>1, Between, PTL
  <2>3. QED
    BY <1>2, <2>1, <2>2 DEF nv_flashReadNew, flash, Tables, LiveHaveIndex
<1>3. CASE FinishNew
  <2>1. Found(hdr) \in Live(hdr) /\ Live(hdr) \subseteq Sectors
    BY <1>3, FoundOf DEF FinishNew, Control, Calls, FoundReady
  <2>2. TypeOK'
    BY <1>3, <2>1 DEF FinishNew, TypeOK, Pcs, Flags
  <2>3. Live(hdr') = Live(hdr)
    BY <1>3, <2>1 DEF FinishNew, TypeOK, Live
  <2>4. Control'
    <3>1. Quiet'
      BY <1>3 DEF Quiet, FinishNew
    <3>2. QED
      BY <3>1, Between, PTL
  <2>5. QED
    BY <1>3, <2>2, <2>3, <2>4 DEF FinishNew, Tables, LiveHaveIndex
<1>4. CASE ReadDone \/ Crash
  <2>1. Return /\ UNCHANGED flash
    BY <1>4 DEF ReadDone, Crash
  <2>2. QED
    BY <2>1, ReturnTypes DEF TypeOK, flash, Tables, LiveHaveIndex
<1>5. QED
  BY <1>1, <1>2, <1>3, <1>4

\* The other sector is given up (FinishOld).
LEMMA FinishOldStep ==
  ASSUME IInv, FinishOld
  PROVE  /\ IInv'
         /\ Live(hdr') = {Found(hdr)} /\ Found(hdr') = Found(hdr)
<1> USE DEF IInv
<1>1. Found(hdr) \in Live(hdr) /\ Found(hdr) \in Sectors
  BY FoundOf DEF FinishOld, FoundReady
<1>2. Other(Found(hdr)) \in Sectors /\ Other(Found(hdr)) # Found(hdr)
      /\ \A t \in Sectors : t = Found(hdr) \/ t = Other(Found(hdr))
  BY <1>1, OtherOf
<1>3. TypeOK'
  BY <1>2 DEF FinishOld, TypeOK, Pcs, Flags
<1>4. hdr'[Other(Found(hdr))] = "invalid" /\ hdr'[Found(hdr)] = "ready"
  BY <1>1, <1>2 DEF FinishOld, FoundReady, TypeOK
<1>5. Live(hdr') = {Found(hdr)}
  BY <1>1, <1>2, <1>4 DEF Live
<1>6. Found(hdr') = Found(hdr)
  BY <1>5, FoundOf
<1>7. Calls'
  BY <1>4, <1>5, <1>6 DEF FinishOld, Calls, FoundReady, Busy
<1>8. Control'
  BY <1>7 DEF FinishOld, Control, Exchange, InPlace, AtEnd, CopiedSoFar, CopiedAll
<1>9. LiveHaveIndex'
  BY <1>1, <1>5 DEF FinishOld, LiveHaveIndex
<1>10. QED
  BY <1>3, <1>5, <1>6, <1>8, <1>9 DEF FinishOld, Tables

\* Both sectors may be erased between two calls (nv_resetModule), and the first
\* one when none is valid (nv_flashWriteNewHandler).
LEMMA ResetSteps ==
  ASSUME IInv, nv_resetModule \/ ResetSecond
  PROVE  IInv'
<1> USE DEF IInv
<1>1. PICK t \in Sectors : /\ hdr' = [hdr EXCEPT ![t] = "none"]
                           /\ idx' = [idx EXCEPT ![t] = <<>>]
  BY DEF nv_resetModule, ResetSecond, Sectors
<1>2. /\ idx' \in [Sectors -> Seq(Index)] /\ \A s \in Sectors : Len(idx'[s]) <= IdxNum
      /\ Tables' /\ \A s \in Sectors : s # t => idx'[s] = idx[s]
  BY <1>1, EmptyTable, Replaced
<1>3. hdr' \in [Sectors -> Flags] /\ Live(hdr') = Live(hdr) \ {t}
  BY <1>1 DEF TypeOK, Flags, Live
<1>4. LiveHaveIndex'
  BY <1>2, <1>3, FoundOf DEF LiveHaveIndex
<1>5. CASE nv_resetModule
  <2>1. Quiet'
    BY <1>5 DEF nv_resetModule, Quiet, Control, Calls
  <2>2. Control'
    BY <2>1, Between, PTL
  <2>3. TypeOK'
    BY <1>2, <1>3, <1>5 DEF nv_resetModule, TypeOK, Pcs
  <2>4. QED
    BY <1>2, <1>4, <2>2, <2>3
<1>6. CASE ResetSecond
  <2>1. Return
    BY <1>6 DEF ResetSecond
  <2>2. QED
    BY <1>2, <1>3, <1>4, <2>1, ReturnTypes DEF TypeOK
<1>7. QED
  BY <1>5, <1>6

LEMMA EraseFirstStep ==
  ASSUME IInv, EraseFirst
  PROVE  IInv' /\ Live(hdr') = {}
<1> USE DEF IInv
<1>1. /\ hdr' = [hdr EXCEPT ![1] = "none"] /\ idx' = [idx EXCEPT ![1] = <<>>]
      /\ 1 \in Sectors /\ sec' = 1 /\ xch' = FALSE /\ pc' = "index"
      /\ req' = req /\ force' = force /\ rd' = rd /\ req # NoReq
  BY DEF EraseFirst, Sectors
<1>2. /\ idx' \in [Sectors -> Seq(Index)] /\ \A s \in Sectors : Len(idx'[s]) <= IdxNum
      /\ Tables' /\ idx'[1] = <<>>
  BY <1>1, EmptyTable, Replaced
<1>3. hdr' \in [Sectors -> Flags] /\ Live(hdr') = {}
  BY <1>1 DEF EraseFirst, TypeOK, Flags, Live
<1>4. TypeOK'
  BY <1>1, <1>2, <1>3 DEF TypeOK, Pcs
<1>5. Target' = 1
  BY <1>1 DEF Target
<1>6. AtEnd'
  BY <1>1, <1>2, <1>5 DEF AtEnd
<1>7. InPlace'
  BY <1>1, <1>2, <1>3 DEF InPlace, First
<1>8. Control'
  BY <1>1, <1>6, <1>7 DEF Control, Calls, Exchange, CopiedSoFar, CopiedAll, Busy
<1>9. QED
  BY <1>2, <1>3, <1>4, <1>8 DEF LiveHaveIndex

\* A sector that has room is written to in place: its last index is whole.
LEMMA PlaceStep ==
  ASSUME IInv, Place
  PROVE  IInv'
<1> USE DEF IInv
<1> DEFINE L == idx[Found(hdr)]
<1>1. Found(hdr) \in Live(hdr) /\ Found(hdr) \in Sectors /\ FoundValid(hdr)
      /\ Live(hdr) # {} /\ sec' = Found(hdr) /\ req' = req /\ req # NoReq
      /\ hdr' = hdr /\ idx' = idx
  BY FoundOf DEF Place, FoundValid, flash
<1>2. xch' \in BOOLEAN /\ pc' = IF xch' THEN "erase" ELSE "index"
  BY DEF Place
<1>3. TypeOK'
  BY <1>1, <1>2 DEF Place, flash, TypeOK, Pcs
<1>4. CASE xch'
  BY <1>1, <1>2, <1>3, <1>4
     DEF Control, Calls, Exchange, InPlace, AtEnd, CopiedSoFar, CopiedAll, Busy, Tables,
         LiveHaveIndex
<1>5. CASE ~xch'
  <2>1. ~NeedsExchange(L, req[1])
    BY <1>5 DEF Place
  <2>2. L # <<>> /\ L \in Seq(Index)
    BY <1>1, Typed DEF LiveHaveIndex
  <2>3. L[Len(L)].used # "torn"
    BY <2>1, <2>2 DEF NeedsExchange
  <2>4. \A i \in 1 .. Len(L) : L[i].used # "torn"
    BY <1>1, <2>3 DEF Tables, TornLast
  <2>5. Target' = Found(hdr)
    BY <1>1, <1>5 DEF Target
  <2>6. AtEnd'
    BY <1>1, <1>2, <1>5, <2>4, <2>5 DEF AtEnd
  <2>7. InPlace'
    BY <1>1, <1>2, <1>5 DEF InPlace, First
  <2>8. Control'
    BY <1>1, <1>2, <1>5, <2>6, <2>7
       DEF Control, Calls, Exchange, CopiedSoFar, CopiedAll, Busy
  <2>9. QED
    BY <1>1, <1>3, <2>8 DEF Tables, LiveHaveIndex
<1>6. QED
  BY <1>2, <1>4, <1>5

-----------------------------------------------------------------------------
(* Steps: the exchange *)

LEMMA EraseNewStep ==
  ASSUME IInv, EraseNew
  PROVE  /\ IInv'
         /\ xch /\ sec = Found(hdr) /\ Live(hdr') = {sec} /\ idx'[sec] = idx[sec]
<1> USE DEF IInv
<1>1. /\ xch /\ sec = Found(hdr) /\ FoundValid(hdr) /\ hdr[sec] = "valid" /\ req # NoReq
      /\ sec \in Live(hdr)
  BY FoundOf DEF EraseNew, Control, Calls, FoundValid, Busy
<1>2. /\ Target \in Sectors /\ Target # sec /\ sec \in Sectors
      /\ \A t \in Sectors : t = sec \/ t = Target
  BY <1>1, Typed, OtherOf
<1>3. /\ hdr' = [hdr EXCEPT ![Target] = "none"] /\ idx' = [idx EXCEPT ![Target] = <<>>]
      /\ rd' = 1 /\ pc' = "dedupe" /\ UNCHANGED <<req, force, sec, xch>>
  BY DEF EraseNew
<1>4. /\ idx' \in [Sectors -> Seq(Index)] /\ \A s \in Sectors : Len(idx'[s]) <= IdxNum
      /\ Tables' /\ idx'[Target] = <<>> /\ idx'[sec] = idx[sec]
  BY <1>2, <1>3, EmptyTable, Replaced
<1>5. hdr' \in [Sectors -> Flags] /\ hdr'[sec] = "valid" /\ hdr'[Target] = "none"
  BY <1>1, <1>2, <1>3 DEF TypeOK, Flags
<1>6. Live(hdr') = {sec}
  BY <1>2, <1>5 DEF Live
<1>7. Target' = Target
  BY <1>3 DEF Target
<1>8. TypeOK'
  <2>1. 1 \in 1 .. IdxNum + 1
    BY ConstantsAssumption
  <2>2. QED
    BY <1>3, <1>4, <1>5, <2>1 DEF TypeOK, Pcs
<1>9. Control'
  BY <1>1, <1>3, <1>4, <1>5, <1>7
     DEF Control, Calls, Exchange, InPlace, AtEnd, CopiedSoFar, CopiedAll, Busy
<1>10. LiveHaveIndex'
  BY <1>1, <1>4, <1>6 DEF LiveHaveIndex
<1>11. QED
  BY <1>1, <1>4, <1>6, <1>8, <1>9, <1>10

\* Deleting an older index changes nothing that is read (nv_exceptionDataHandler).
LEMMA DedupeStep ==
  ASSUME IInv, Dedupe
  PROVE  /\ IInv'
         /\ hdr' = hdr /\ \A s \in Sectors, id \in Ids : Latest(idx'[s], id) = Latest(idx[s], id)
<1> USE DEF IInv
<1> DEFINE L == idx[sec]
           i == CHOOSE k \in Duplicates(L) : \A j \in Duplicates(L) : j <= k
           M == [L EXCEPT ![i].used = "invalid"]
<1>1. /\ pc = "dedupe" /\ pc' = pc /\ hdr' = hdr /\ idx' = [idx EXCEPT ![sec] = M]
      /\ UNCHANGED <<req, force, sec, xch, rd>>
  BY DEF Dedupe
<1>2. xch /\ Target # sec /\ sec \in Sectors /\ Target \in Sectors /\ L \in Seq(Index)
      /\ Len(L) \in Nat
  BY <1>1, Typed DEF Control, Calls
<1>3. i \in 1 .. Len(L) /\ i \notin nv_index_read(L, L[i].id)
  <2>1. Duplicates(L) \in SUBSET (1 .. Len(L)) /\ Duplicates(L) # {}
    BY DEF Dedupe, Duplicates, Older
  <2>2. \E k \in Duplicates(L) : \A j \in Duplicates(L) : j <= k
    BY <1>2, <2>1, LastIn
  <2>3. i \in Duplicates(L)
    BY <2>2
  <2>4. QED
    BY <2>3 DEF Duplicates, Older
<1> HIDE DEF i
<1>4. /\ M \in Seq(Index) /\ Len(M) = Len(L)
      /\ \A k \in 1 .. Len(L) :
           /\ M[k].at = L[k].at /\ M[k].size = L[k].size /\ M[k].id = L[k].id
           /\ M[k].val = L[k].val
           /\ M[k].used = IF k = i THEN "invalid" ELSE L[k].used
  <2> DEFINE r == [L[i] EXCEPT !.used = "invalid"]
  <2>1. L[i] \in Index
    BY <1>2, <1>3
  <2>2. /\ r \in Index /\ r.used = "invalid" /\ r.at = L[i].at /\ r.size = L[i].size
        /\ r.id = L[i].id /\ r.val = L[i].val
    BY <2>1 DEF Index
  <2>3. M = [L EXCEPT ![i] = r]
    OBVIOUS
  <2> HIDE DEF r, M
  <2>4. /\ M \in Seq(Index) /\ Len(M) = Len(L)
        /\ \A k \in 1 .. Len(L) : M[k] = IF k = i THEN r ELSE L[k]
    BY <1>2, <1>3, <2>2, <2>3, OneIndex
  <2>5. QED
    BY <2>2, <2>4
<1> HIDE DEF M
<1>5. InLine(M) /\ TornLast(M)
  BY <1>2, <1>4, Marked DEF Tables
<1>6. ASSUME NEW id \in Ids PROVE Latest(M, id) = Latest(L, id)
  BY <1>2, <1>3, <1>4, LatestWithout
<1>7. /\ idx' \in [Sectors -> Seq(Index)] /\ \A s \in Sectors : Len(idx'[s]) <= IdxNum
      /\ Tables' /\ idx'[sec] = M /\ \A s \in Sectors : s # sec => idx'[s] = idx[s]
  BY <1>1, <1>2, <1>4, <1>5, Replaced
<1>8. TypeOK'
  BY <1>1, <1>7 DEF TypeOK
<1>9. LiveHaveIndex'
  <2>1. L # <<>> => M # <<>>
    BY <1>2, <1>4
  <2>2. QED
    BY <1>1, <1>7, <2>1, FoundOf DEF LiveHaveIndex
<1>10. Target' = Target
  BY <1>1 DEF Target
<1>11. Control'
  BY <1>1, <1>2, <1>7, <1>10
     DEF Control, Calls, Exchange, InPlace, AtEnd, CopiedSoFar, CopiedAll, Busy
<1>12. QED
  BY <1>1, <1>6, <1>7, <1>8, <1>9, <1>11

LEMMA DedupeDoneStep ==
  ASSUME IInv, DedupeDone
  PROVE  IInv'
<1> USE DEF IInv
<1>1. /\ pc = "dedupe" /\ pc' = "copy" /\ hdr' = hdr /\ idx' = idx
      /\ UNCHANGED <<req, force, sec, xch, rd>>
  BY DEF DedupeDone, flash
<1>2. xch /\ sec \in Sectors /\ idx[sec] \in Seq(Index) /\ Len(idx[sec]) \in Nat
      /\ idx[Target] = <<>> /\ rd = 1 /\ Target' = Target
  BY <1>1, Typed DEF Control, Calls, CopiedSoFar, Target
<1>3. \A id \in Ids : Latest(idx[Target], id) = Latest(SubSeq(idx[sec], 1, rd - 1), id)
  <2>1. SubSeq(idx[sec], 1, 0) = <<>>
    BY <1>2
  <2>2. rd - 1 = 0
    BY <1>2
  <2>3. idx[Target] = SubSeq(idx[sec], 1, rd - 1)
    BY <1>2, <2>1, <2>2
  <2>4. QED
    BY <2>3
<1>4. rd <= Len(idx[sec]) => NextAt(idx[Target]) <= idx[sec][rd].at
  BY <1>2 DEF Tables, InLine, NextAt
<1>5. CopiedSoFar'
  BY <1>1, <1>2, <1>3, <1>4 DEF CopiedSoFar
<1>6. Control'
  BY <1>1, <1>2, <1>5 DEF Control, Calls, Exchange, InPlace, AtEnd, CopiedAll, Busy
<1>7. QED
  BY <1>1, <1>6 DEF TypeOK, Pcs, Tables, LiveHaveIndex

LEMMA NextAtNat ==
  ASSUME NEW L \in Seq(Index)
  PROVE  /\ NextAt(L) \in Nat
         /\ L # <<>> => NextAt(L) = RoundUp(L[Len(L)].at + L[Len(L)].size)
<1>1. CASE L = <<>>
  BY <1>1 DEF NextAt
<1>2. CASE L # <<>>
  <2>1. L[Len(L)] \in Index
    BY <1>2
  <2>2. L[Len(L)].at + L[Len(L)].size \in Nat
    BY <2>1 DEF Index
  <2>3. QED
    BY <1>2, <2>2, RoundedUp DEF NextAt
<1>3. QED
  BY <1>1, <1>2

\* The exchange never runs out of room while it copies: the new table is not
\* longer than what has been looked at of the old one.
LEMMA CopyFits == IInv => CopiesFit
<1> SUFFICES ASSUME IInv, pc = "copy", ~Scanned, Copied(idx[sec][rd])
             PROVE  ItemFits(idx[Target], idx[sec][rd].id)
  BY DEF CopiesFit
<1> USE DEF IInv
<1> DEFINE L == idx[sec]
           M == idx[Target]
<1>1. /\ sec \in Sectors /\ Target \in Sectors /\ L \in Seq(Index) /\ M \in Seq(Index)
      /\ Len(L) \in Nat /\ Len(M) \in Nat /\ rd \in Nat \ {0} /\ IdxNum \in Nat
  BY Typed
<1>2. rd <= Len(L) /\ rd \in 1 .. Len(L)
  BY <1>1 DEF Scanned
<1>3. Len(L) <= IdxNum /\ L[rd].size = SizeOf[L[rd].id] /\ L[rd].at + L[rd].size <= Space
      /\ L[rd] \in Index
  BY <1>1, <1>2 DEF Tables, InLine
<1>4. Len(M) < rd /\ NextAt(M) <= L[rd].at /\ NextAt(M) \in Nat
  BY <1>1, <1>2, NextAtNat DEF Control, CopiedSoFar
<1>5. Len(M) < IdxNum
  BY <1>1, <1>2, <1>3, <1>4
<1>6. NextAt(M) + SizeOf[L[rd].id] <= Space
  BY <1>3, <1>4, ConstantsAssumption DEF Index
<1>7. QED
  BY <1>5, <1>6 DEF ItemFits

\* An index does not start before the end of the one before it.
LEMMA NextIndex ==
  ASSUME NEW L \in Seq(Index), InLine(L), NEW n \in 1 .. Len(L), n + 1 <= Len(L)
  PROVE  /\ L[n + 1].at = RoundUp(L[n].at + L[n].size)
         /\ L[n].at <= L[n + 1].at
<1>1. n \in Nat /\ Len(L) \in Nat /\ n + 1 \in 1 .. Len(L) /\ n + 1 # 1 /\ (n + 1) - 1 = n
      /\ L[n] \in Index
  OBVIOUS
<1>2. L[n + 1].at = RoundUp(L[n].at + L[n].size)
  BY <1>1 DEF InLine
<1>3. L[n].at \in Nat /\ L[n].size \in Nat
  BY <1>1 DEF Index
<1>4. L[n].at + L[n].size \in Nat
  BY <1>3
<1>5. /\ L[n].at + L[n].size <= RoundUp(L[n].at + L[n].size)
      /\ RoundUp(L[n].at + L[n].size) \in Nat
  <2> DEFINE m == L[n].at + L[n].size
  <2>1. m \in Nat /\ m <= m
    BY <1>4
  <2> HIDE DEF m
  <2>2. m <= RoundUp(m) /\ RoundUp(m) \in Nat
    BY <2>1, RoundedUp
  <2>3. QED
    BY <2>2 DEF m
<1>6. QED
  BY <1>2, <1>3, <1>5

LEMMA CopyStep ==
  ASSUME IInv, Copy
  PROVE  /\ IInv'
         /\ hdr' = hdr /\ req' = req /\ idx'[sec] = idx[sec]
<1> USE DEF IInv
<1> DEFINE L == idx[sec]
           M == idx[Target]
           r == L[rd]
           n == IndexOf(M, r.id, "single", r.val)
<1>1. pc = "copy" /\ ~Scanned /\ hdr' = hdr /\ xch /\ req # NoReq
  BY DEF Copy, Control, Calls, Busy
<1>2. /\ sec \in Sectors /\ Target \in Sectors /\ Target # sec
      /\ L \in Seq(Index) /\ M \in Seq(Index)
      /\ Len(L) \in Nat /\ Len(M) \in Nat /\ rd \in Nat \ {0} /\ IdxNum \in Nat
      /\ InLine(L) /\ InLine(M) /\ TornLast(M)
  BY <1>1, Typed DEF Tables
<1>3. /\ rd \in 1 .. Len(L) /\ rd <= Len(L) /\ Len(L) <= IdxNum
      /\ r \in Index /\ r.id \in Ids /\ r.val \in Data /\ r.size \in Nat /\ r.at \in Nat
      /\ r.size = SizeOf[r.id]
  <2>1. rd \in 1 .. Len(L) /\ rd <= Len(L) /\ Len(L) <= IdxNum
    BY <1>1, <1>2 DEF Scanned, InLine
  <2>2. r \in Index /\ r.size = SizeOf[r.id]
    BY <1>2, <2>1 DEF InLine
  <2>3. QED
    BY <2>1, <2>2 DEF Index
<1>4. /\ Len(M) < rd /\ NextAt(M) <= r.at /\ NextAt(M) \in Nat
      /\ \A id \in Ids : id # req[1] => Latest(M, id) = Latest(SubSeq(L, 1, rd - 1), id)
      /\ \A i \in 1 .. Len(M) : M[i].used # "torn"
  BY <1>1, <1>2, <1>3, NextAtNat DEF Control, CopiedSoFar, AtEnd
<1>5. \A id : Latest(SubSeq(L, 1, rd), id) =
                IF r.id = id /\ r.used = "single" THEN r.val ELSE Latest(SubSeq(L, 1, rd - 1), id)
  BY <1>2, <1>3, LatestUpTo
<1>6. rd + 1 \in 1 .. IdxNum + 1 /\ (rd + 1) - 1 = rd /\ rd + 1 <= Len(L) + 1 /\ rd < rd + 1
  BY <1>2, <1>3
<1>7. rd + 1 <= Len(L) => L[rd + 1].at = RoundUp(r.at + r.size) /\ r.at <= L[rd + 1].at
                          /\ L[rd + 1].at \in Nat
  <2>1. SUFFICES ASSUME rd + 1 <= Len(L)
                 PROVE  /\ L[rd + 1].at = RoundUp(r.at + r.size) /\ r.at <= L[rd + 1].at
                        /\ L[rd + 1].at \in Nat
    OBVIOUS
  <2>2. L[rd + 1] \in Index
    BY <1>2, <1>3, <2>1
  <2>3. QED
    BY <1>2, <1>3, <2>1, <2>2, NextIndex DEF Index
<1>8. CASE ~Copied(r)
  <2>1. rd' = rd + 1 /\ UNCHANGED <<idx, pc, req, force, sec, xch>> /\ Target' = Target
    BY <1>8 DEF Copy, Target
  <2>2. \A id \in Ids : id # req[1] => Latest(M, id) = Latest(SubSeq(L, 1, rd), id)
    BY <1>4, <1>5, <1>8 DEF Copied
  <2>3. rd + 1 <= Len(L) => NextAt(M) <= L[rd + 1].at
    BY <1>3, <1>4, <1>7
  <2>4. Len(M) < rd + 1
    BY <1>2, <1>4
  <2> HIDE DEF L, M, r, n
  <2>5. CopiedSoFar'
    BY <1>1, <1>6, <2>1, <2>2, <2>3, <2>4 DEF CopiedSoFar, L, M
  <2>6. TypeOK'
    BY <1>1, <1>6, <2>1 DEF TypeOK
  <2>7. Control'
    BY <1>1, <2>1, <2>5 DEF Control, Calls, Exchange, InPlace, AtEnd, CopiedAll, Busy
  <2>8. QED
    BY <1>1, <2>1, <2>6, <2>7 DEF Tables, LiveHaveIndex
<1>9. CASE Copied(r)
  <2>1. ItemFits(M, r.id)
    BY <1>1, <1>9, CopyFits DEF CopiesFit
  <2>2. /\ idx' = [idx EXCEPT ![Target] = Append(M, n)]
        /\ rd' = rd + 1 /\ UNCHANGED <<pc, req, force, sec, xch>> /\ Target' = Target
    BY <1>9, <2>1 DEF Copy, Target
  <2> DEFINE A == Append(M, n)
  <2>3. /\ n \in Index /\ A \in Seq(Index) /\ A # <<>> /\ Len(A) = Len(M) + 1
        /\ LastOf(A) = n
        /\ n.id = r.id /\ n.used = "single" /\ n.val = r.val
        /\ InLine(A) /\ TornLast(A) /\ NextAt(A) = RoundUp(NextAt(M) + SizeOf[r.id])
    <3> HIDE DEF L, M, r
    <3>1. QED
      BY <1>2, <1>3, <1>4, <2>1, Grows
  <2>4. \A id \in Ids : id # req[1] => Latest(A, id) = Latest(SubSeq(L, 1, rd), id)
    <3>1. \A id : Latest(A, id) = IF n.id = id /\ n.used = "single" THEN n.val ELSE Latest(M, id)
      <4> HIDE DEF L, M, r, n
      <4>1. QED
        BY <1>2, <2>3, LatestAppend
    <3> HIDE DEF L, M, r, n, A
    <3>2. QED
      BY <1>4, <1>5, <1>9, <2>3, <3>1 DEF Copied
  <2>5. rd + 1 <= Len(L) => NextAt(A) <= L[rd + 1].at
    <3> HIDE DEF L, M, r, n, A
    <3>1. NextAt(M) + r.size \in Nat /\ r.at + r.size \in Nat
          /\ NextAt(M) + r.size <= r.at + r.size
      BY <1>3, <1>4
    <3>2. RoundUp(NextAt(M) + r.size) <= RoundUp(r.at + r.size)
      BY <3>1, RoundedUp
    <3>3. QED
      BY <1>3, <1>7, <2>3, <3>2
  <2>6. \A i \in 1 .. Len(A) : A[i].used # "torn"
    <3>1. \A i \in 1 .. Len(M) : A[i] = M[i]
      BY <1>2, <2>3
    <3> HIDE DEF L, M, r, n, A
    <3>2. \A i \in 1 .. Len(A) : i \in 1 .. Len(M) \/ A[i] = n
      BY <1>2, <2>3 DEF LastOf
    <3>3. QED
      BY <1>4, <2>3, <3>1, <3>2
  <2> HIDE DEF r, n, A
  <2>7. /\ idx' \in [Sectors -> Seq(Index)] /\ \A s \in Sectors : Len(idx'[s]) <= IdxNum
        /\ Tables' /\ idx'[Target] = A /\ \A s \in Sectors : s # Target => idx'[s] = idx[s]
    BY <1>2, <2>2, <2>3, Replaced DEF A
  <2>8. Len(A) < rd + 1
    BY <1>2, <1>4, <2>3
  <2>9. idx'[sec] = L
    BY <1>2, <2>7
  <2> HIDE DEF L, M
  <2>10. CopiedSoFar'
    BY <1>1, <1>6, <2>2, <2>4, <2>5, <2>7, <2>8, <2>9 DEF CopiedSoFar
  <2>11. AtEnd'
    BY <1>1, <2>2, <2>6, <2>7 DEF AtEnd
  <2>12. TypeOK'
    BY <1>1, <1>6, <2>2, <2>7 DEF TypeOK
  <2>13. Control'
    BY <1>1, <2>2, <2>10, <2>11 DEF Control, Calls, Exchange, InPlace, CopiedAll, Busy
  <2>14. LiveHaveIndex'
    BY <1>1, <2>3, <2>7, FoundOf DEF LiveHaveIndex
  <2>15. QED
    BY <1>1, <2>2, <2>7, <2>9, <2>12, <2>13, <2>14 DEF L
<1>10. QED
  BY <1>8, <1>9

LEMMA AgainStep ==
  ASSUME IInv, TryAgain, UNCHANGED flash, req # NoReq
  PROVE  IInv' /\ (req' = NoReq \/ req' = req) /\ pc' \in {"idle", "find"}
<1> USE DEF IInv
<1>1. CASE Return
  BY <1>1, ReturnTypes DEF TypeOK, flash, Tables, LiveHaveIndex, Return
<1>2. CASE ~Return
  <2>1. pc' = "find" /\ force' = TRUE /\ UNCHANGED <<req, sec, xch, rd, hdr, idx>>
    BY <1>2 DEF TryAgain, flash
  <2>2. Quiet'
    BY <2>1 DEF Quiet
  <2>3. Control'
    BY <2>2, Between, PTL
  <2>4. QED
    BY <2>1, <2>3 DEF TypeOK, Pcs, Tables, LiveHaveIndex
<1>3. QED
  BY <1>1, <1>2

\* What was looked at of the old table is all that counts of it.
LEMMA CopyDoneStep ==
  ASSUME IInv, CopyDone
  PROVE  IInv' /\ UNCHANGED flash /\ (req' = NoReq \/ req' = req) /\ pc' \in {"idle", "index"}
<1> USE DEF IInv
<1> DEFINE L == idx[sec]
<1>1. pc = "copy" /\ Scanned /\ hdr' = hdr /\ idx' = idx /\ xch /\ req # NoReq
  BY DEF CopyDone, Control, Calls, Busy, flash
<1>2. CASE ~ItemFits(idx[Target], req[1])
  <2>1. Return
    BY <1>2 DEF CopyDone
  <2>2. QED
    BY <1>1, <2>1, ReturnTypes DEF TypeOK, flash, Tables, LiveHaveIndex, Return
<1>3. CASE ItemFits(idx[Target], req[1])
  <2>1. pc' = "index" /\ UNCHANGED <<req, force, sec, xch, rd>> /\ Target' = Target
    BY <1>1, <1>3 DEF CopyDone, Target
  <2>2. L \in Seq(Index) /\ Len(L) \in Nat /\ rd \in Nat \ {0} /\ TornLast(L)
    BY Typed DEF Tables
  <2>3. rd <= Len(L) + 1
        /\ \A id \in Ids :
             id # req[1] => Latest(idx[Target], id) = Latest(SubSeq(L, 1, rd - 1), id)
    BY <1>1 DEF Control, CopiedSoFar
  <2>4. \A id \in Ids : id # req[1] => Latest(idx[Target], id) = Latest(L, id)
    <3>1. CASE rd > Len(L)
      <4>1. rd - 1 = Len(L)
        BY <2>2, <2>3, <3>1
      <4>2. SubSeq(L, 1, rd - 1) = L
        BY <2>2, <4>1
      <4>3. QED
        BY <2>3, <4>2
    <3>2. CASE rd <= Len(L)
      <4>1. L[rd].used = "torn" /\ rd \in 1 .. Len(L)
        BY <1>1, <2>2, <3>2 DEF Scanned
      <4>2. rd = Len(L)
        BY <2>2, <4>1 DEF TornLast
      <4>3. \A id : Latest(SubSeq(L, 1, rd), id) = Latest(SubSeq(L, 1, rd - 1), id)
        BY <2>2, <4>1, LatestUpTo
      <4>4. SubSeq(L, 1, rd) = L
        BY <2>2, <4>2
      <4> HIDE DEF L
      <4>5. QED
        BY <2>3, <4>3, <4>4
    <3>3. QED
      BY <2>2, <3>1, <3>2
  <2>5. CopiedAll'
    BY <1>1, <2>1, <2>4 DEF CopiedAll
  <2>6. AtEnd'
    BY <1>1, <2>1 DEF AtEnd, Control
  <2>7. Control'
    BY <1>1, <2>1, <2>5, <2>6 DEF Control, Calls, Exchange, InPlace, CopiedSoFar, Busy
  <2>8. QED
    BY <1>1, <2>1, <2>7 DEF TypeOK, Pcs, Tables, LiveHaveIndex, flash
<1>4. QED
  BY <1>2, <1>3

-----------------------------------------------------------------------------
(* Steps: the item *)

\* The table that is written to, and the one an exchange leaves as it is.
LEMMA WriteTo ==
  ASSUME TypeOK, Tables, LiveHaveIndex, NEW M \in Seq(Index), InLine(M), TornLast(M), M # <<>>,
         hdr' = hdr, sec' = sec, xch' = xch, idx' = [idx EXCEPT ![Target] = M]
  PROVE  /\ idx' \in [Sectors -> Seq(Index)]
         /\ \A s \in Sectors : Len(idx'[s]) <= IdxNum
         /\ Tables' /\ LiveHaveIndex' /\ Target' = Target
         /\ idx'[Target] = M
         /\ \A s \in Sectors : s # Target => idx'[s] = idx[s]
         /\ xch => idx'[sec] = idx[sec]
         /\ ~xch => idx'[sec] = M
<1>1. /\ Target \in Sectors /\ sec \in Sectors
      /\ xch => Target # sec
      /\ ~xch => Target = sec
  BY Typed
<1>2. /\ idx' \in [Sectors -> Seq(Index)]
      /\ \A s \in Sectors : Len(idx'[s]) <= IdxNum
      /\ Tables'
      /\ idx'[Target] = M
      /\ \A s \in Sectors : s # Target => idx'[s] = idx[s]
  BY <1>1, Replaced
<1>3. LiveHaveIndex'
  BY <1>1, <1>2, FoundOf DEF LiveHaveIndex
<1>4. QED
  BY <1>1, <1>2, <1>3, Typed DEF Target

\* An index that is not marked as valid changes nothing that is read.
LEMMA IndexStep ==
  ASSUME IInv, pc = "index", ItemFits(idx[Target], req[1]), NEW used \in {"operation", "torn"},
         hdr' = hdr,
         idx' = [idx EXCEPT ![Target] = Append(@, IndexOf(@, req[1], used, None))]
  PROVE  /\ \A s \in Sectors, id \in Ids : Latest(idx'[s], id) = Latest(idx[s], id)
         /\ sec' = sec /\ xch' = xch /\ req' = req /\ pc' = "data" /\ used = "operation"
            /\ UNCHANGED <<force, rd>> => IInv'
         /\ Return => IInv'
<1> USE DEF IInv
<1> DEFINE L == idx[Target]
           r == IndexOf(L, req[1], used, None)
           M == Append(L, r)
<1>1. /\ Target \in Sectors /\ sec \in Sectors /\ L \in Seq(Index) /\ Len(L) \in Nat
      /\ xch => Target # sec
      /\ ~xch => Target = sec
      /\ req # NoReq /\ req[1] \in Ids /\ InLine(L) /\ TornLast(L) /\ ItemFits(L, req[1])
  BY Typed DEF Control, Calls, Busy, Tables
<1>2. \A i \in 1 .. Len(L) : L[i].used # "torn"
  BY DEF Control, AtEnd
<1>3. /\ r \in Index /\ M \in Seq(Index) /\ M # <<>> /\ Len(M) = Len(L) + 1 /\ LastOf(M) = r
      /\ r.id = req[1] /\ r.used = used /\ r.val = None
      /\ InLine(M) /\ TornLast(M)
  <2>1. None \in Data /\ used \in {"operation", "single", "invalid", "torn"}
    BY DEF Data
  <2> HIDE DEF L
  <2>2. QED
    BY <1>1, <1>2, <2>1, Grows
<1>4. ASSUME NEW id \in Ids PROVE Latest(M, id) = Latest(L, id)
  <2>1. Latest(M, id) = IF r.id = id /\ r.used = "single" THEN r.val ELSE Latest(L, id)
    <3> HIDE DEF L, r
    <3>1. QED
      BY <1>1, <1>3, LatestAppend
  <2> HIDE DEF L, r, M
  <2>2. QED
    BY <1>3, <2>1
<1>5. idx' = [idx EXCEPT ![Target] = M]
  OBVIOUS
<1> HIDE DEF r, M
<1>6. /\ idx' \in [Sectors -> Seq(Index)]
      /\ \A s \in Sectors : Len(idx'[s]) <= IdxNum
      /\ Tables'
      /\ idx'[Target] = M
      /\ \A s \in Sectors : s # Target => idx'[s] = idx[s]
  BY <1>1, <1>3, <1>5, Replaced
<1>7. \A s \in Sectors, id \in Ids : Latest(idx'[s], id) = Latest(idx[s], id)
  BY <1>4, <1>6
<1>8. LiveHaveIndex'
  BY <1>3, <1>6, FoundOf DEF LiveHaveIndex
<1>9. ASSUME Return PROVE IInv'
  BY <1>6, <1>8, <1>9, ReturnTypes DEF TypeOK
<1>10. ASSUME sec' = sec, xch' = xch, req' = req, pc' = "data", used = "operation",
              UNCHANGED <<force, rd>>
       PROVE  IInv'
  <2>1. Target' = Target
    BY <1>10 DEF Target
  <2>2. TypeOK'
    BY <1>6, <1>10 DEF TypeOK, Pcs
  <2>3. AtEnd'
    BY <1>3, <1>6, <1>10, <2>1 DEF AtEnd
  <2>4. InPlace'
    <3>1. CASE xch
      BY <1>10, <3>1 DEF InPlace
    <3>2. CASE ~xch
      <4>1. Target = sec /\ idx'[sec] = M
        BY <1>1, <1>6, <3>2
      <4>2. CASE First
        <5>1. L = <<>> /\ Len(M) = 1 /\ sec = 1
          BY <1>3, <4>1, <4>2, <3>2 DEF First, Control, InPlace
        <5>2. QED
          BY <1>10, <4>1, <4>2, <5>1 DEF InPlace, First
      <4>3. CASE ~First
        <5>1. FoundValid(hdr) /\ sec = Found(hdr)
          BY <3>2, <4>3 DEF Control, InPlace
        <5>2. L # <<>>
          BY <4>1, <5>1, FoundOf DEF LiveHaveIndex, FoundValid
        <5>3. Len(M) > 1
          BY <1>1, <1>3, <5>2
        <5>4. QED
          BY <1>10, <4>1, <4>3, <5>1, <5>3 DEF InPlace, First
      <4>4. QED
        BY <4>2, <4>3
    <3>3. QED
      BY <3>1, <3>2
  <2>5. CopiedAll'
    <3>1. SUFFICES ASSUME xch
                   PROVE  \A id \in Ids :
                            id # req[1] => Latest(idx'[Target], id) = Latest(idx'[sec], id)
      BY <1>10, <2>1 DEF CopiedAll
    <3>2. \A id \in Ids : id # req[1] => Latest(idx[Target], id) = Latest(idx[sec], id)
      BY <3>1 DEF Control, CopiedAll
    <3>3. QED
      BY <1>1, <1>7, <3>2
  <2>6. Control'
    BY <1>1, <1>10, <2>1, <2>3, <2>4, <2>5 DEF Control, Calls, Exchange, CopiedSoFar, Busy
  <2>7. QED
    BY <1>6, <1>8, <2>2, <2>6
<1>11. QED
  BY <1>7, <1>9, <1>10

\* The contents come before the mark, and the mark makes them count.
LEMMA DataStep ==
  ASSUME IInv, WriteData
  PROVE  /\ IInv'
         /\ \A s \in Sectors, id \in Ids : Latest(idx'[s], id) = Latest(idx[s], id)
<1> USE DEF IInv
<1> DEFINE L == idx[Target]
           r == [LastOf(L) EXCEPT !.val = req[2]]
           M == [L EXCEPT ![Len(L)] = r]
<1>1. /\ pc = "data" /\ pc' = "mark" /\ hdr' = hdr /\ UNCHANGED <<req, force, sec, xch, rd>>
      /\ Target' = Target /\ idx' = [idx EXCEPT ![Target] = M]
  BY DEF WriteData, Target, LastOf
<1>2. /\ Target \in Sectors /\ sec \in Sectors /\ L \in Seq(Index) /\ Len(L) \in Nat
      /\ xch => Target # sec
      /\ ~xch => Target = sec
      /\ req # NoReq /\ req[2] \in Vals /\ req[2] \in Data /\ InLine(L) /\ TornLast(L)
  BY <1>1, Typed DEF Control, Calls, Busy, Tables
<1>3. L # <<>> /\ LastOf(L).id = req[1] /\ LastOf(L).used = "operation"
  BY <1>1 DEF Control, AtEnd
<1>4. Len(L) \in 1 .. Len(L) /\ LastOf(L) \in Index
  BY <1>2, <1>3 DEF LastOf
<1>5. /\ r \in Index /\ r.at = LastOf(L).at /\ r.size = LastOf(L).size /\ r.id = LastOf(L).id
      /\ r.val = req[2] /\ r.used = "operation"
  BY <1>2, <1>3, <1>4 DEF Index
<1> HIDE DEF r
<1>6. /\ M \in Seq(Index) /\ Len(M) = Len(L)
      /\ \A k \in 1 .. Len(L) : M[k] = IF k = Len(L) THEN r ELSE L[k]
  BY <1>2, <1>4, <1>5, OneIndex
<1> HIDE DEF M
<1>7. InLine(M) /\ TornLast(M)
  BY <1>2, <1>5, <1>6, Marked DEF LastOf
<1>8. M # <<>> /\ LastOf(M) = r
  BY <1>2, <1>3, <1>4, <1>6 DEF LastOf
<1>9. ASSUME NEW id \in Ids PROVE Latest(M, id) = Latest(L, id)
  <2>1. nv_index_read(L, id) = nv_index_read(M, id)
    BY <1>2, <1>3, <1>5, <1>6 DEF nv_index_read, LastOf
  <2>2. \A i \in nv_index_read(L, id) : M[i].val = L[i].val
    BY <1>2, <1>3, <1>5, <1>6 DEF nv_index_read, LastOf
  <2>3. QED
    BY <2>1, <2>2, SameLatest
<1>10. /\ idx' \in [Sectors -> Seq(Index)]
       /\ \A s \in Sectors : Len(idx'[s]) <= IdxNum
       /\ Tables' /\ idx'[Target] = M
       /\ \A s \in Sectors : s # Target => idx'[s] = idx[s]
       /\ LiveHaveIndex'
       /\ ~xch => idx'[sec] = M
  BY <1>1, <1>2, <1>6, <1>7, <1>8, WriteTo
<1>11. \A s \in Sectors, id \in Ids : Latest(idx'[s], id) = Latest(idx[s], id)
  BY <1>9, <1>10
<1>12. TypeOK'
  BY <1>1, <1>10 DEF TypeOK, Pcs
<1>13. AtEnd'
  BY <1>1, <1>3, <1>5, <1>8, <1>10 DEF AtEnd
<1>14. InPlace'
  <2>1. CASE xch
    BY <1>1, <2>1 DEF InPlace
  <2>2. CASE ~xch
    BY <1>1, <1>2, <1>6, <1>10, <2>2 DEF InPlace, First, Control
  <2>3. QED
    BY <2>1, <2>2
<1>15. CopiedAll'
  BY <1>1, <1>2, <1>11 DEF CopiedAll, Control
<1>16. Control'
  BY <1>1, <1>13, <1>14, <1>15 DEF Control, Calls, Exchange, CopiedSoFar, Busy
<1>17. QED
  BY <1>10, <1>11, <1>12, <1>16

LEMMA MarkStep ==
  ASSUME IInv, MarkItem
  PROVE  /\ IInv'
         /\ \A s \in Sectors, id \in Ids :
              Latest(idx'[s], id) = IF s = Target /\ id = req[1] THEN req[2] ELSE Latest(idx[s], id)
<1> USE DEF IInv
<1> DEFINE L == idx[Target]
           r == [LastOf(L) EXCEPT !.used = "single"]
           M == [L EXCEPT ![Len(L)] = r]
<1>1. /\ pc = "mark" /\ pc' = "delete" /\ hdr' = hdr /\ UNCHANGED <<req, force, sec, xch, rd>>
      /\ Target' = Target /\ idx' = [idx EXCEPT ![Target] = M]
  BY DEF MarkItem, Target, LastOf
<1>2. /\ Target \in Sectors /\ sec \in Sectors /\ L \in Seq(Index) /\ Len(L) \in Nat
      /\ xch => Target # sec
      /\ ~xch => Target = sec
      /\ req # NoReq /\ InLine(L) /\ TornLast(L)
  BY <1>1, Typed DEF Control, Calls, Busy, Tables
<1>3. L # <<>> /\ LastOf(L).id = req[1] /\ LastOf(L).used = "operation" /\ LastOf(L).val = req[2]
  BY <1>1 DEF Control, AtEnd
<1>4. Len(L) \in 1 .. Len(L) /\ LastOf(L) \in Index
  BY <1>2, <1>3 DEF LastOf
<1>5. /\ r \in Index /\ r.at = LastOf(L).at /\ r.size = LastOf(L).size /\ r.id = LastOf(L).id
      /\ r.val = req[2] /\ r.used = "single"
  BY <1>2, <1>3, <1>4 DEF Index
<1> HIDE DEF r
<1>6. /\ M \in Seq(Index) /\ Len(M) = Len(L)
      /\ \A k \in 1 .. Len(L) : M[k] = IF k = Len(L) THEN r ELSE L[k]
  BY <1>2, <1>4, <1>5, OneIndex
<1> HIDE DEF M
<1>7. InLine(M) /\ TornLast(M)
  BY <1>2, <1>5, <1>6, Marked DEF LastOf
<1>8. M # <<>> /\ LastOf(M) = r
  BY <1>2, <1>3, <1>4, <1>6 DEF LastOf
<1>9. ASSUME NEW id \in Ids
      PROVE  Latest(M, id) = IF id = req[1] THEN req[2] ELSE Latest(L, id)
  <2>1. CASE id = req[1]
    BY <1>3, <1>5, <1>6, <1>8, <2>1, LatestAtEnd
  <2>2. CASE id # req[1]
    <3>1. nv_index_read(L, id) = nv_index_read(M, id)
      BY <1>2, <1>3, <1>5, <1>6, <2>2 DEF nv_index_read, LastOf
    <3>2. \A i \in nv_index_read(L, id) : M[i].val = L[i].val
      BY <1>2, <1>3, <1>5, <1>6 DEF nv_index_read, LastOf
    <3>3. QED
      BY <2>2, <3>1, <3>2, SameLatest
  <2>3. QED
    BY <2>1, <2>2
<1>10. /\ idx' \in [Sectors -> Seq(Index)]
       /\ \A s \in Sectors : Len(idx'[s]) <= IdxNum
       /\ Tables' /\ idx'[Target] = M
       /\ \A s \in Sectors : s # Target => idx'[s] = idx[s]
       /\ LiveHaveIndex'
       /\ ~xch => idx'[sec] = M
  BY <1>1, <1>2, <1>6, <1>7, <1>8, WriteTo
<1>11. \A s \in Sectors, id \in Ids :
         Latest(idx'[s], id) = IF s = Target /\ id = req[1] THEN req[2] ELSE Latest(idx[s], id)
  BY <1>9, <1>10
<1>12. TypeOK'
  BY <1>1, <1>10 DEF TypeOK, Pcs
<1>13. AtEnd'
  BY <1>1, <1>3, <1>5, <1>8, <1>10 DEF AtEnd
<1>14. InPlace'
  <2>1. CASE xch
    BY <1>1, <2>1 DEF InPlace
  <2>2. CASE ~xch
    BY <1>1, <1>2, <1>6, <1>10, <2>2 DEF InPlace, First, Control
  <2>3. QED
    BY <2>1, <2>2
<1>15. CopiedAll'
  BY <1>1, <1>2, <1>11 DEF CopiedAll, Control
<1>16. Control'
  BY <1>1, <1>13, <1>14, <1>15 DEF Control, Calls, Exchange, CopiedSoFar, Busy
<1>17. QED
  BY <1>10, <1>11, <1>12, <1>16

\* The index of the item that was there before the write no longer counts.
LEMMA DeleteStep ==
  ASSUME IInv, DeleteOld
  PROVE  /\ IInv' /\ hdr' = hdr
         /\ \A s \in Sectors, id \in Ids : Latest(idx'[s], id) = Latest(idx[s], id)
         /\ \/ pc' = "header" /\ UNCHANGED <<req, sec, xch>> /\ (xch \/ First)
            \/ pc' = "idle" /\ req' = NoReq /\ ~xch /\ ~First
<1> USE DEF IInv
<1> DEFINE L == idx[Target]
           P == Previous(L, req[1])
           M == [i \in DOMAIN L |-> IF i \in P THEN [L[i] EXCEPT !.used = "invalid"] ELSE L[i]]
<1>1. /\ pc = "delete" /\ hdr' = hdr /\ idx' = [idx EXCEPT ![Target] = M]
  BY DEF DeleteOld
<1>2. /\ Target \in Sectors /\ sec \in Sectors /\ L \in Seq(Index) /\ Len(L) \in Nat
      /\ xch => Target # sec
      /\ ~xch => Target = sec
      /\ req # NoReq /\ InLine(L) /\ TornLast(L)
  BY <1>1, Typed DEF Control, Calls, Busy, Tables
<1>3. L # <<>> /\ LastOf(L).id = req[1] /\ LastOf(L).used = "single" /\ LastOf(L).val = req[2]
  BY <1>1 DEF Control, AtEnd
<1>4. Len(L) \in 1 .. Len(L)
  BY <1>2, <1>3
<1>5. ASSUME NEW i \in P
      PROVE  i \in 1 .. Len(L) /\ i # Len(L) /\ i \notin nv_index_read(L, L[i].id)
  <2>1. i \in 1 .. Len(SubSeq(L, 1, Len(L) - 1)) /\ SubSeq(L, 1, Len(L) - 1)[i].id = req[1]
    BY DEF Previous, nv_index_read
  <2>2. Len(SubSeq(L, 1, Len(L) - 1)) = Len(L) - 1
    BY <1>2, <1>4
  <2>3. i \in 1 .. Len(L) - 1 /\ SubSeq(L, 1, Len(L) - 1)[i] = L[i]
    BY <1>2, <2>1, <2>2
  <2>4. L[i].id = req[1] /\ Len(L) \in i + 1 .. Len(L) /\ i \in 1 .. Len(L) /\ i # Len(L)
    BY <1>2, <2>1, <2>3
  <2>5. QED
    BY <1>3, <2>4 DEF nv_index_read, LastOf
<1> HIDE DEF P
<1>6. /\ M \in Seq(Index) /\ Len(M) = Len(L)
      /\ \A i \in 1 .. Len(L) :
           /\ M[i].at = L[i].at /\ M[i].size = L[i].size /\ M[i].id = L[i].id
           /\ M[i].val = L[i].val
           /\ M[i].used = IF i \in P THEN "invalid" ELSE L[i].used
           /\ i \notin P => M[i] = L[i]
  <2>1. DOMAIN L = 1 .. Len(L) /\ \A i \in 1 .. Len(L) : L[i] \in Index
    BY <1>2
  <2>2. \A i \in 1 .. Len(L) :
          /\ M[i] \in Index
          /\ M[i].at = L[i].at /\ M[i].size = L[i].size /\ M[i].id = L[i].id
          /\ M[i].val = L[i].val
          /\ M[i].used = IF i \in P THEN "invalid" ELSE L[i].used
          /\ i \notin P => M[i] = L[i]
    BY <2>1 DEF Index
  <2>3. M = [i \in 1 .. Len(L) |-> M[i]]
    BY <2>1
  <2>4. M \in [1 .. Len(L) -> Index]
    <3> HIDE DEF M
    <3>1. QED
      BY <2>2, <2>3
  <2>5. M \in Seq(Index) /\ Len(M) = Len(L)
    <3> HIDE DEF M
    <3>1. QED
      BY <1>2, <2>4, SeqDef
  <2>6. QED
    BY <2>2, <2>5
<1> HIDE DEF M
<1>7. InLine(M) /\ TornLast(M)
  BY <1>2, <1>6, Marked
<1>8. M # <<>> /\ LastOf(M) = LastOf(L)
  BY <1>2, <1>3, <1>4, <1>5, <1>6 DEF LastOf
<1>9. ASSUME NEW id \in Ids PROVE Latest(M, id) = Latest(L, id)
  <2>1. \A i \in 1 .. Len(L) :
          /\ M[i].id = L[i].id /\ M[i].val = L[i].val
          /\ M[i].used = "single" => L[i].used = "single"
          /\ L[i].used = "single" /\ M[i].used # "single" => i \notin nv_index_read(L, L[i].id)
    BY <1>5, <1>6
  <2>2. QED
    BY <1>2, <1>6, <2>1, LatestWithout
<1>10. /\ idx' \in [Sectors -> Seq(Index)]
       /\ \A s \in Sectors : Len(idx'[s]) <= IdxNum
       /\ Tables' /\ idx'[Target] = M
       /\ \A s \in Sectors : s # Target => idx'[s] = idx[s]
  BY <1>1, <1>2, <1>6, <1>7, Replaced
<1>11. LiveHaveIndex'
  BY <1>1, <1>8, <1>10, FoundOf DEF LiveHaveIndex
<1>12. \A s \in Sectors, id \in Ids : Latest(idx'[s], id) = Latest(idx[s], id)
  BY <1>9, <1>10
<1>13. ~xch => (First <=> Len(L) = 1)
  <2>1. SUFFICES ASSUME ~xch PROVE First <=> Len(L) = 1
    OBVIOUS
  <2>2. Target = sec /\ InPlace
    BY <1>2, <2>1 DEF Control
  <2>3. First => Len(L) = 1
    BY <1>1, <2>1, <2>2 DEF InPlace, First
  <2>4. ~First => Len(L) # 1
    <3>1. SUFFICES ASSUME ~First PROVE Len(L) # 1
      OBVIOUS
    <3>2. Len(idx[sec]) > 1
      BY <1>1, <2>1, <2>2, <3>1 DEF InPlace
    <3>3. Len(L) > 1
      BY <2>2, <3>2
    <3> HIDE DEF L
    <3>4. QED
      BY <3>3
  <2>5. QED
    BY <2>3, <2>4 DEF First
<1>14. CASE ~xch /\ ~First
  <2>1. Return
    BY <1>13, <1>14 DEF DeleteOld
  <2>2. QED
    BY <1>1, <1>10, <1>11, <1>12, <1>14, <2>1, ReturnTypes DEF TypeOK, Return
<1>15. CASE xch \/ First
  <2>1. pc' = "header" /\ UNCHANGED <<req, force, sec, xch, rd>> /\ Target' = Target
    BY <1>13, <1>15 DEF DeleteOld, Target
  <2>2. TypeOK'
    BY <1>1, <1>10, <2>1 DEF TypeOK, Pcs
  <2>3. AtEnd'
    BY <1>3, <1>8, <1>10, <2>1 DEF AtEnd
  <2>4. InPlace'
    <3>1. CASE xch
      BY <2>1, <3>1 DEF InPlace
    <3>2. CASE ~xch
      <4>1. First /\ Len(M) = 1 /\ Target = sec
        BY <1>2, <1>6, <1>13, <1>15, <3>2
      <4>2. QED
        BY <1>1, <1>10, <2>1, <3>2, <4>1 DEF InPlace, First
    <3>3. QED
      BY <3>1, <3>2
  <2>5. CopiedAll'
    BY <1>1, <1>2, <1>12, <2>1 DEF CopiedAll, Control
  <2>6. Control'
    BY <1>1, <2>1, <2>3, <2>4, <2>5 DEF Control, Calls, Exchange, CopiedSoFar, Busy
  <2>7. IInv'
    BY <1>10, <1>11, <2>2, <2>6
  <2>8. QED
    BY <1>1, <1>12, <1>15, <2>1, <2>7
<1>16. QED
  BY <1>14, <1>15

LEMMA WriteIndexStep ==
  ASSUME IInv, WriteIndex
  PROVE  /\ IInv' /\ hdr' = hdr /\ (req' = NoReq \/ req' = req)
         /\ \A s \in Sectors, id \in Ids : Latest(idx'[s], id) = Latest(idx[s], id)
         /\ pc' \in {"idle", "find", "data"}
<1>1. hdr' = hdr /\ pc = "index" /\ req # NoReq
  BY DEF WriteIndex, IInv, Control, Calls, Busy
<1>2. CASE ItemFits(idx[Target], req[1])
  <2>1. /\ idx' = [idx EXCEPT ![Target] = Append(@, IndexOf(@, req[1], "operation", None))]
        /\ pc' = "data" /\ UNCHANGED <<req, force, sec, xch, rd>>
    BY <1>2 DEF WriteIndex
  <2>2. \A used \in {"operation", "torn"} :
          idx' = [idx EXCEPT ![Target] = Append(@, IndexOf(@, req[1], used, None))] =>
            /\ \A s \in Sectors, id \in Ids : Latest(idx'[s], id) = Latest(idx[s], id)
            /\ (sec' = sec /\ xch' = xch /\ req' = req /\ pc' = "data" /\ used = "operation"
               /\ UNCHANGED <<force, rd>> => IInv')
    BY <1>1, <1>2, IndexStep
  <2>3. QED
    BY <1>1, <2>1, <2>2
<1>3. CASE ~ItemFits(idx[Target], req[1])
  <2>1. TryAgain /\ UNCHANGED flash
    BY <1>1, <1>3 DEF WriteIndex, flash
  <2>2. IInv' /\ (req' = NoReq \/ req' = req) /\ pc' \in {"idle", "find"}
    BY <1>1, <2>1, AgainStep
  <2>3. QED
    BY <1>1, <2>1, <2>2 DEF flash
<1>4. QED
  BY <1>2, <1>3

LEMMA CrashTornStep ==
  ASSUME IInv, CrashTorn
  PROVE  /\ IInv' /\ hdr' = hdr /\ req' = NoReq /\ pc' = "idle"
         /\ \A s \in Sectors, id \in Ids : Latest(idx'[s], id) = Latest(idx[s], id)
<1>1. /\ pc = "index" /\ ItemFits(idx[Target], req[1]) /\ hdr' = hdr /\ Return
      /\ idx' = [idx EXCEPT ![Target] = Append(@, IndexOf(@, req[1], "torn", None))]
  BY DEF CrashTorn
<1>2. \A used \in {"operation", "torn"} :
        idx' = [idx EXCEPT ![Target] = Append(@, IndexOf(@, req[1], used, None))] =>
          /\ \A s \in Sectors, id \in Ids : Latest(idx'[s], id) = Latest(idx[s], id)
          /\ (Return => IInv')
  BY <1>1, IndexStep
<1>3. QED
  BY <1>1, <1>2 DEF Return

-----------------------------------------------------------------------------
(* Steps: the headers *)

\* A sector is marked, none of the tables changes.
LEMMA HeaderTypes ==
  ASSUME TypeOK, Tables, LiveHaveIndex, NEW t \in Sectors, idx[t] # <<>>, idx' = idx,
         NEW f \in Flags, hdr' = [hdr EXCEPT ![t] = f]
  PROVE  /\ hdr' \in [Sectors -> Flags] /\ idx' \in [Sectors -> Seq(Index)]
         /\ \A s \in Sectors : Len(idx'[s]) <= IdxNum
         /\ hdr'[t] = f
         /\ \A s \in Sectors : s # t => hdr'[s] = hdr[s]
         /\ Tables' /\ LiveHaveIndex'
<1>1. /\ hdr' \in [Sectors -> Flags] /\ idx' \in [Sectors -> Seq(Index)]
      /\ hdr'[t] = f
      /\ \A s \in Sectors : s # t => hdr'[s] = hdr[s]
  BY DEF TypeOK
<1>2. LiveHaveIndex'
  BY <1>1 DEF LiveHaveIndex, Live
<1>3. QED
  BY <1>1, <1>2 DEF TypeOK, Tables

LEMMA FirstHeaderStep ==
  ASSUME IInv, FirstHeader
  PROVE  /\ IInv' /\ idx' = idx /\ req' = NoReq
         /\ Live(hdr) = {} /\ Live(hdr') = {1} /\ Found(hdr') = 1 /\ Len(idx[1]) = 1
         /\ LastOf(idx[1]).id = req[1] /\ LastOf(idx[1]).used = "single"
         /\ LastOf(idx[1]).val = req[2] /\ req # NoReq
<1> USE DEF IInv
<1>1. pc = "header" /\ ~xch /\ hdr' = [hdr EXCEPT ![Target] = "valid"] /\ Return /\ idx' = idx
  BY DEF FirstHeader
<1>2. First /\ Len(idx[1]) = 1 /\ Target = 1 /\ 1 \in Sectors
  BY <1>1, Typed DEF Control, InPlace, First
<1>3. /\ idx[1] # <<>> /\ LastOf(idx[1]).id = req[1] /\ LastOf(idx[1]).used = "single"
      /\ LastOf(idx[1]).val = req[2] /\ req # NoReq
  BY <1>1, <1>2 DEF Control, AtEnd, Calls, Busy
<1>4. /\ hdr' \in [Sectors -> Flags] /\ idx' \in [Sectors -> Seq(Index)]
      /\ \A s \in Sectors : Len(idx'[s]) <= IdxNum
      /\ hdr'[1] = "valid"
      /\ \A s \in Sectors : s # 1 => hdr'[s] = hdr[s]
      /\ Tables' /\ LiveHaveIndex'
  BY <1>1, <1>2, <1>3, HeaderTypes DEF Flags
<1>5. Live(hdr) = {} /\ Live(hdr') = {1}
  BY <1>2, <1>4 DEF First, Live
<1>6. Found(hdr') = 1
  BY <1>5, FoundOf
<1>7. IInv'
  BY <1>1, <1>4, ReturnTypes DEF TypeOK
<1>8. QED
  BY <1>1, <1>2, <1>3, <1>5, <1>6, <1>7 DEF Return

\* The new sector has everything, before it counts.
LEMMA ReadyStep ==
  ASSUME IInv, ReadyNew
  PROVE  /\ IInv' /\ xch /\ idx' = idx /\ UNCHANGED <<req, sec, xch>> /\ pc' = "old" /\ req # NoReq
         /\ hdr[sec] = "valid" /\ hdr[Target] = "none"
         /\ hdr'[sec] = "valid" /\ hdr'[Target] = "ready"
         /\ \A id \in Ids : Latest(idx[Target], id) =
                              IF id = req[1] THEN req[2] ELSE Latest(idx[sec], id)
<1> USE DEF IInv
<1>1. /\ pc = "header" /\ xch /\ hdr' = [hdr EXCEPT ![Target] = "ready"]
      /\ pc' = "old" /\ UNCHANGED <<idx, req, force, sec, xch, rd>> /\ Target' = Target
  BY DEF ReadyNew, Target
<1>2. /\ Target \in Sectors /\ sec \in Sectors /\ Target # sec /\ idx[Target] \in Seq(Index)
      /\ req # NoReq
  BY <1>1, Typed DEF Control, Calls, Busy
<1>3. hdr[sec] = "valid" /\ hdr[Target] = "none"
  BY <1>1 DEF Control, Exchange
<1>4. /\ idx[Target] # <<>> /\ LastOf(idx[Target]).id = req[1]
      /\ LastOf(idx[Target]).used = "single" /\ LastOf(idx[Target]).val = req[2]
  BY <1>1 DEF Control, AtEnd
<1>5. Latest(idx[Target], req[1]) = req[2]
  BY <1>2, <1>4, LatestAtEnd
<1>6. \A id \in Ids : id # req[1] => Latest(idx[Target], id) = Latest(idx[sec], id)
  BY <1>1 DEF Control, CopiedAll
<1>7. /\ hdr' \in [Sectors -> Flags] /\ idx' \in [Sectors -> Seq(Index)]
      /\ \A s \in Sectors : Len(idx'[s]) <= IdxNum
      /\ hdr'[Target] = "ready"
      /\ \A s \in Sectors : s # Target => hdr'[s] = hdr[s]
      /\ Tables' /\ LiveHaveIndex'
  BY <1>1, <1>2, <1>4, HeaderTypes DEF Flags
<1>8. TypeOK'
  BY <1>1, <1>7 DEF TypeOK, Pcs
<1>9. Exchange'
  BY <1>1, <1>2, <1>3, <1>7 DEF Exchange
<1>10. CopiedAll'
  BY <1>1, <1>5, <1>6 DEF CopiedAll
<1>11. Control'
  BY <1>1, <1>2, <1>9, <1>10 DEF Control, Calls, InPlace, AtEnd, CopiedSoFar, Busy
<1>12. QED
  BY <1>1, <1>2, <1>3, <1>5, <1>6, <1>7, <1>8, <1>11

LEMMA InvalidateStep ==
  ASSUME IInv, InvalidateOld
  PROVE  /\ IInv' /\ xch /\ idx' = idx /\ UNCHANGED <<req, sec, xch>> /\ pc' = "new" /\ req # NoReq
         /\ hdr[sec] = "valid" /\ hdr[Target] = "ready"
         /\ hdr'[sec] = "invalid" /\ hdr'[Target] = "ready"
         /\ \A id \in Ids : Latest(idx[Target], id) =
                              IF id = req[1] THEN req[2] ELSE Latest(idx[sec], id)
<1> USE DEF IInv
<1>1. /\ pc = "old" /\ xch /\ hdr' = [hdr EXCEPT ![sec] = "invalid"]
      /\ pc' = "new" /\ UNCHANGED <<idx, req, force, sec, xch, rd>> /\ Target' = Target
  BY DEF InvalidateOld, Target, Control, Calls
<1>2. Target \in Sectors /\ sec \in Sectors /\ Target # sec /\ req # NoReq
  BY <1>1, Typed DEF Control, Calls, Busy
<1>3. hdr[sec] = "valid" /\ hdr[Target] = "ready"
  BY <1>1 DEF Control, Exchange
<1>4. \A id \in Ids : Latest(idx[Target], id) =
                        IF id = req[1] THEN req[2] ELSE Latest(idx[sec], id)
  BY <1>1 DEF Control, CopiedAll
<1>5. idx[sec] # <<>>
  BY <1>2, <1>3 DEF LiveHaveIndex, Live
<1>6. /\ hdr' \in [Sectors -> Flags] /\ idx' \in [Sectors -> Seq(Index)]
      /\ \A s \in Sectors : Len(idx'[s]) <= IdxNum
      /\ hdr'[sec] = "invalid"
      /\ \A s \in Sectors : s # sec => hdr'[s] = hdr[s]
      /\ Tables' /\ LiveHaveIndex'
  BY <1>1, <1>2, <1>5, HeaderTypes DEF Flags
<1>7. TypeOK'
  BY <1>1, <1>6 DEF TypeOK, Pcs
<1>8. Exchange'
  BY <1>1, <1>2, <1>3, <1>6 DEF Exchange
<1>9. Control'
  BY <1>1, <1>2, <1>8 DEF Control, Calls, InPlace, AtEnd, CopiedSoFar, CopiedAll, Busy
<1>10. QED
  BY <1>1, <1>2, <1>3, <1>4, <1>6, <1>7, <1>9

LEMMA ValidateStep ==
  ASSUME IInv, ValidateNew
  PROVE  /\ IInv' /\ idx' = idx /\ xch /\ req' = NoReq /\ pc' = "idle"
         /\ Live(hdr) = {Target} /\ Live(hdr') = {Target} /\ Target \in Sectors
<1> USE DEF IInv
<1>1. /\ pc = "new" /\ xch /\ hdr' = [hdr EXCEPT ![Target] = "valid"]
      /\ Return /\ idx' = idx
  BY DEF ValidateNew, Control, Calls
<1>2. /\ Target \in Sectors /\ sec \in Sectors /\ Target # sec
      /\ \A t \in Sectors : t = sec \/ t = Target
  BY <1>1, Typed, OtherOf
<1>3. hdr[sec] = "invalid" /\ hdr[Target] = "ready"
  BY <1>1 DEF Control, Exchange
<1>4. idx[Target] # <<>>
  BY <1>2, <1>3 DEF LiveHaveIndex, Live
<1>5. /\ hdr' \in [Sectors -> Flags] /\ idx' \in [Sectors -> Seq(Index)]
      /\ \A s \in Sectors : Len(idx'[s]) <= IdxNum
      /\ hdr'[Target] = "valid"
      /\ \A s \in Sectors : s # Target => hdr'[s] = hdr[s]
      /\ Tables' /\ LiveHaveIndex'
  BY <1>1, <1>2, <1>4, HeaderTypes DEF Flags
<1>6. Live(hdr) = {Target} /\ Live(hdr') = {Target}
  BY <1>2, <1>3, <1>5 DEF Live
<1>7. IInv'
  BY <1>1, <1>5, ReturnTypes DEF TypeOK
<1>8. QED
  BY <1>1, <1>2, <1>6, <1>7 DEF Return

-----------------------------------------------------------------------------
(* The theorems *)

LEMMA Step == IInv /\ [Next]_vars => IInv'
<1> SUFFICES ASSUME IInv, [Next]_vars PROVE IInv'
  OBVIOUS
<1>1. CASE \E id \in Ids : \E v \in Written[id] : nv_flashWriteNew(id, v)
  BY <1>1, CallSteps
<1>2. CASE nv_flashReadNew \/ FinishNew \/ ReadDone \/ Crash
  BY <1>2, CallSteps
<1>3. CASE FinishOld
  BY <1>3, FinishOldStep
<1>4. CASE EraseFirst
  BY <1>4, EraseFirstStep
<1>5. CASE Place
  BY <1>5, PlaceStep
<1>6. CASE EraseNew
  BY <1>6, EraseNewStep
<1>7. CASE Dedupe
  BY <1>7, DedupeStep
<1>8. CASE DedupeDone
  BY <1>8, DedupeDoneStep
<1>9. CASE Copy
  BY <1>9, CopyStep
<1>10. CASE CopyDone
  BY <1>10, CopyDoneStep
<1>11. CASE WriteIndex
  BY <1>11, WriteIndexStep
<1>12. CASE WriteData
  BY <1>12, DataStep
<1>13. CASE MarkItem
  BY <1>13, MarkStep
<1>14. CASE DeleteOld
  BY <1>14, DeleteStep
<1>15. CASE FirstHeader
  BY <1>15, FirstHeaderStep
<1>16. CASE ReadyNew
  BY <1>16, ReadyStep
<1>17. CASE InvalidateOld
  BY <1>17, InvalidateStep
<1>18. CASE ValidateNew
  BY <1>18, ValidateStep
<1>19. CASE nv_resetModule \/ ResetSecond
  BY <1>19, ResetSteps
<1>20. CASE CrashTorn
  BY <1>20, CrashTornStep
<1>21. CASE UNCHANGED vars
  <2>1. IInv
    OBVIOUS
  <2>2. UNCHANGED vars
    BY <1>21
  <2>3. QED
    BY <2>1, <2>2 DEF vars, IInv, TypeOK, Tables, LiveHaveIndex, Control, Calls, Exchange,
       InPlace, First, AtEnd, CopiedSoFar, CopiedAll, Target
<1>22. QED
  BY <1>1, <1>2, <1>3, <1>4, <1>5, <1>6, <1>7, <1>8, <1>9, <1>10, <1>11, <1>12, <1>13,
     <1>14, <1>15, <1>16, <1>17, <1>18, <1>19, <1>20, <1>21 DEF Next

\* The invariant of a module of items: the tables of both sectors are in line,
\* and a call knows what it has found and copied.
THEOREM Invariance == Spec => []IInv
BY InitHolds, Step, PTL DEF Spec

-----------------------------------------------------------------------------
(* What the callers see *)

Pend == IF Applied THEN NoReq ELSE req

\* The items are those of the sector that is found.
LEMMA StoredIs ==
  /\ Live(hdr) = {} => Stored = Nv!Empty
  /\ Live(hdr) # {} => Stored = Contents(idx[Found(hdr)])
BY DEF Stored, Contents, Nv!Empty

LEMMA HalfIs ==
  /\ Live(hdr) # Sectors => Half = NoHalf
  /\ Live(hdr) = Sectors => Half = Contents(idx[2])
<1>1. ASSUME Live(hdr) = Sectors PROVE Other(Found(hdr)) = 2
  BY <1>1, FoundOf, OtherOf DEF Sectors
<1>2. QED
  BY <1>1 DEF Half

\* What is found of both is not the absence of anything to be found.
LEMMA SomeHalf ==
  ASSUME NEW L \in Seq(Index)
  PROVE  Contents(L) # NoHalf
<1>1. \A id \in Ids : Latest(L, id) \in Vals \cup {None}
  BY LatestTyped DEF Data
<1>2. Contents(L) \in [Ids -> Vals \cup {None}]
  BY <1>1 DEF Contents
<1>3. QED
  BY <1>2, ConstantsAssumption

\* The sectors that count are the same, and so is what their tables say.
LEMMA SameSeen ==
  ASSUME Live(hdr') = Live(hdr),
         \A s \in Live(hdr), id \in Ids : Latest(idx'[s], id) = Latest(idx[s], id)
  PROVE  Stored' = Stored /\ Half' = Half
<1>1. Found(hdr') = Found(hdr)
  BY DEF Found
<1>2. Stored' = Stored
  <2>1. CASE Live(hdr) = {}
    BY <2>1 DEF Stored
  <2>2. CASE Live(hdr) # {}
    <3>1. Found(hdr) \in Live(hdr)
      BY <2>2, FoundOf
    <3>2. \A id \in Ids : Latest(idx'[Found(hdr)], id) = Latest(idx[Found(hdr)], id)
      BY <3>1
    <3>3. QED
      BY <1>1, <2>2, <3>2 DEF Stored
  <2>3. QED
    BY <2>1, <2>2
<1>3. Half' = Half
  <2>1. CASE Live(hdr) # Sectors
    BY <2>1 DEF Half
  <2>2. CASE Live(hdr) = Sectors
    <3>1. Found(hdr) \in Live(hdr)
      BY <2>2, FoundOf DEF Sectors
    <3>2. Other(Found(hdr)) \in Live(hdr)
      BY <2>2, <3>1, OtherOf
    <3>3. \A id \in Ids :
            Latest(idx'[Other(Found(hdr))], id) = Latest(idx[Other(Found(hdr))], id)
      BY <3>2
    <3>4. QED
      BY <1>1, <2>2, <3>3 DEF Half, Contents
  <2>3. QED
    BY <2>1, <2>2
<1>4. QED
  BY <1>2, <1>3

\* Nothing that is seen changes, or the write is given up.
LEMMA Unseen ==
  ASSUME Stored' = Stored, Half' = Half, Pend' = Pend \/ Pend' = NoReq
  PROVE  [Nv!Next]_(Nv!vars)
<1>1. CASE Pend' = Pend
  BY <1>1 DEF Nv!vars, Pend
<1>2. CASE Pend # NoReq /\ Pend' = NoReq
  BY <1>2 DEF Nv!Next, Nv!GiveUp, Pend
<1>3. QED
  BY <1>1, <1>2

\* The other sector is no longer anything that could be found.
LEMMA Forgotten ==
  ASSUME Stored' = Stored, Half' = NoHalf, Pend' = Pend
  PROVE  [Nv!Next]_(Nv!vars)
BY DEF Nv!Next, Nv!Forget, Pend

\* The write takes effect.
LEMMA Effect ==
  ASSUME Pend = req, req # NoReq, Pend' = NoReq, Half' \in {Half, Stored, NoHalf},
         \A id \in Ids : Stored'[id] = IF id = req[1] THEN req[2] ELSE Stored[id]
  PROVE  [Nv!Next]_(Nv!vars)
<1>1. Stored' = [Stored EXCEPT ![req[1]] = req[2]]
  BY DEF Stored
<1>2. QED
  BY <1>1 DEF Nv!Next, Nv!Apply, Nv!WriteDone, Pend

-----------------------------------------------------------------------------
(* Steps of the abstract store *)

LEMMA PendIs ==
  /\ pc \notin {"delete", "old", "new"} => Pend = req
  /\ pc = "new" => Pend = NoReq
  /\ pc = "old" => Pend = IF Found(hdr) = Target THEN NoReq ELSE req
  /\ pc = "delete" => Pend = IF hdr[Target] = "valid" THEN NoReq ELSE req
BY DEF Pend, Applied

PendNext ==
  /\ pc \notin {"delete", "old", "new"} => Pend = req
  /\ pc = "new" => Pend = NoReq
  /\ pc = "old" => Pend = IF Found(hdr) = Target THEN NoReq ELSE req
  /\ pc = "delete" => Pend = IF hdr[Target] = "valid" THEN NoReq ELSE req

LEMMA PendIsAfter ==
  /\ PendNext /\ PendNext'
<1>1. PendNext
  BY PendIs DEF PendNext
<1>2. QED
  BY <1>1, PTL

LEMMA NvInit == Init => Nv!Init
<1> SUFFICES ASSUME Init PROVE Nv!Init
  OBVIOUS
<1>1. Live(hdr) = {}
  BY DEF Init, Live
<1>2. Stored = Nv!Empty /\ Half = NoHalf
  BY <1>1, StoredIs, HalfIs DEF Sectors
<1>3. Pend = NoReq
  BY PendIs DEF Init
<1>4. QED
  BY <1>2, <1>3 DEF Nv!Init, Pend

\* The steps that change no sector that counts.
LEMMA NvUnseen ==
  ASSUME IInv,
         \/ nv_flashReadNew \/ FinishNew \/ ReadDone \/ EraseFirst \/ Place
         \/ Dedupe \/ DedupeDone \/ Copy \/ CopyDone \/ WriteIndex \/ WriteData \/ DeleteOld
         \/ ValidateNew \/ Crash \/ CrashTorn \/ UNCHANGED vars
  PROVE  [Nv!Next]_(Nv!vars)
<1> USE DEF IInv
<1>1. ASSUME hdr' = hdr, \A s \in Sectors, id \in Ids : Latest(idx'[s], id) = Latest(idx[s], id),
             Pend' = Pend \/ Pend' = NoReq
      PROVE  [Nv!Next]_(Nv!vars)
  <2>1. Live(hdr') = Live(hdr) /\ Live(hdr) \subseteq Sectors
    BY <1>1, FoundOf
  <2>2. QED
    BY <1>1, <2>1, SameSeen, Unseen
<1>2. CASE nv_flashReadNew \/ ReadDone \/ Place
  <2>1. /\ hdr' = hdr
        /\ idx' = idx
        /\ pc \in {"idle", "find"}
        /\ pc' \in {"idle", "find", "erase", "index"}
    BY <1>2 DEF nv_flashReadNew, ReadDone, Place, Return, flash
  <2>2. req' = req \/ req' = NoReq
    BY <1>2 DEF nv_flashReadNew, ReadDone, Place, Return
  <2>3. Pend = req /\ Pend' = req'
    BY <2>1, PendIsAfter DEF PendNext
  <2>4. QED
    BY <1>1, <2>1, <2>2, <2>3
<1>3. CASE FinishNew
  <2>1. Found(hdr) \in Live(hdr) /\ Live(hdr) \subseteq Sectors
    BY <1>3, FoundOf DEF FinishNew, Control, Calls, FoundReady
  <2>2. Live(hdr') = Live(hdr) /\ idx' = idx
    BY <1>3, <2>1 DEF FinishNew, TypeOK, Live
  <2>3. Pend = req /\ Pend' = req' /\ req' = req
    BY <1>3, PendIsAfter DEF FinishNew, PendNext
  <2>4. QED
    BY <2>2, <2>3, SameSeen, Unseen
<1>4. CASE EraseFirst
  <2>1. Live(hdr') = {} /\ Live(hdr) = {}
    BY <1>4, EraseFirstStep DEF EraseFirst
  <2>2. Pend = req /\ Pend' = req' /\ req' = req
    BY <1>4, PendIsAfter DEF EraseFirst, PendNext
  <2>3. QED
    BY <2>1, <2>2, SameSeen, Unseen
<1>5. CASE Dedupe \/ DedupeDone
  <2>1. hdr' = hdr /\ \A s \in Sectors, id \in Ids : Latest(idx'[s], id) = Latest(idx[s], id)
    BY <1>5, DedupeStep DEF DedupeDone, flash
  <2>2. Pend = req /\ Pend' = req' /\ req' = req
    BY <1>5, PendIsAfter DEF Dedupe, DedupeDone, PendNext
  <2>3. QED
    BY <1>1, <2>1, <2>2
<1>6. CASE Copy
  <2>1. hdr' = hdr /\ req' = req /\ idx'[sec] = idx[sec]
    BY <1>6, CopyStep
  <2>2. xch /\ hdr[sec] = "valid" /\ hdr[Target] = "none"
    BY <1>6 DEF Copy, Control, Calls, Exchange
  <2>3. \A t \in Sectors : t = sec \/ t = Target
    BY <2>2, Typed, OtherOf
  <2>4. Live(hdr') = Live(hdr) /\ \A t \in Live(hdr) : t = sec
    BY <2>1, <2>2, <2>3 DEF Live
  <2>5. \A s \in Live(hdr), id \in Ids : Latest(idx'[s], id) = Latest(idx[s], id)
    BY <2>1, <2>4
  <2>6. Stored' = Stored /\ Half' = Half
    BY <2>4, <2>5, SameSeen
  <2>7. ~TryAgain \/ pc' \in {"idle", "find"}
    BY DEF TryAgain, Return
  <2>8. Pend = req /\ Pend' = req'
    BY <1>6, <2>7, PendIsAfter DEF Copy, PendNext
  <2>9. QED
    BY <2>1, <2>6, <2>8, Unseen
<1>7. CASE CopyDone
  <2>1. hdr' = hdr /\ idx' = idx /\ (req' = NoReq \/ req' = req) /\ pc' \in {"idle", "index"}
    BY <1>7, CopyDoneStep DEF flash
  <2>2. Pend = req /\ Pend' = req'
    BY <1>7, <2>1, PendIsAfter DEF CopyDone, PendNext
  <2>3. QED
    BY <1>1, <2>1, <2>2
<1>8. CASE WriteIndex
  <2>1. /\ hdr' = hdr /\ (req' = NoReq \/ req' = req) /\ pc' \in {"idle", "find", "data"}
        /\ \A s \in Sectors, id \in Ids : Latest(idx'[s], id) = Latest(idx[s], id)
    BY <1>8, WriteIndexStep
  <2>2. Pend = req /\ Pend' = req'
    BY <1>8, <2>1, PendIsAfter DEF WriteIndex, PendNext
  <2>3. QED
    BY <1>1, <2>1, <2>2
<1>9. CASE WriteData
  <2>1. \A s \in Sectors, id \in Ids : Latest(idx'[s], id) = Latest(idx[s], id)
    BY <1>9, DataStep
  <2>2. Pend = req /\ Pend' = req' /\ hdr' = hdr /\ req' = req
    BY <1>9, PendIsAfter DEF WriteData, PendNext
  <2>3. QED
    BY <1>1, <2>1, <2>2
<1>10. CASE DeleteOld
  <2>1. /\ hdr' = hdr
        /\ \A s \in Sectors, id \in Ids : Latest(idx'[s], id) = Latest(idx[s], id)
        /\ \/ pc' = "header" /\ UNCHANGED <<req, sec, xch>> /\ (xch \/ First)
           \/ pc' = "idle" /\ req' = NoReq /\ ~xch /\ ~First
    BY <1>10, DeleteStep
  <2>2. pc = "delete" /\ Target \in Sectors
    BY <1>10, Typed DEF DeleteOld
  <2>3. CASE pc' = "idle" /\ req' = NoReq
    BY <1>1, <2>1, <2>3, PendIsAfter DEF PendNext
  <2>4. CASE pc' = "header" /\ req' = req /\ (xch \/ First)
    <3>1. hdr[Target] # "valid"
      BY <2>2, <2>4 DEF Control, Exchange, First, Live
    <3>2. Pend = req /\ Pend' = req'
      BY <2>2, <2>4, <3>1, PendIsAfter DEF PendNext
    <3>3. QED
      BY <1>1, <2>1, <2>4, <3>2
  <2>5. QED
    BY <2>1, <2>3, <2>4
<1>11. CASE ValidateNew
  <2>1. idx' = idx /\ req' = NoReq /\ pc' = "idle" /\ Live(hdr) = Live(hdr')
    BY <1>11, ValidateStep
  <2>2. Pend' = NoReq
    BY <2>1, PendIsAfter DEF PendNext
  <2>3. QED
    BY <2>1, <2>2, SameSeen, Unseen
<1>12. CASE Crash
  <2>1. hdr' = hdr /\ idx' = idx /\ req' = NoReq /\ pc' = "idle"
    BY <1>12 DEF Crash, Return, flash
  <2>2. Pend' = NoReq
    BY <2>1, PendIsAfter DEF PendNext
  <2>3. QED
    BY <1>1, <2>1, <2>2
<1>13. CASE CrashTorn
  <2>1. /\ hdr' = hdr /\ req' = NoReq /\ pc' = "idle"
        /\ \A s \in Sectors, id \in Ids : Latest(idx'[s], id) = Latest(idx[s], id)
    BY <1>13, CrashTornStep
  <2>2. Pend' = NoReq
    BY <2>1, PendIsAfter DEF PendNext
  <2>3. QED
    BY <1>1, <2>1, <2>2
<1>14. CASE UNCHANGED vars
  <2>1. hdr' = hdr /\ idx' = idx /\ pc' = pc /\ req' = req /\ Target' = Target
    BY <1>14 DEF vars, Target
  <2>2. Pend' = Pend
    BY <2>1 DEF Pend, Applied
  <2>3. QED
    BY <1>1, <2>1, <2>2
<1>15. QED
  BY <1>2, <1>3, <1>4, <1>5, <1>6, <1>7, <1>8, <1>9, <1>10, <1>11, <1>12, <1>13, <1>14

\* An exchange is over, or the next one begins.
LEMMA NvForget ==
  ASSUME IInv, FinishOld \/ EraseNew
  PROVE  [Nv!Next]_(Nv!vars)
<1>1. CASE FinishOld
  <2>1. Live(hdr') = {Found(hdr)} /\ Found(hdr') = Found(hdr) /\ Found(hdr) \in Live(hdr)
    BY <1>1, FinishOldStep, FoundOf DEF FinishOld, FoundReady
  <2>2. idx' = idx /\ req' = req /\ Pend = req /\ Pend' = req'
    BY <1>1, PendIsAfter DEF FinishOld, PendNext
  <2>3. Stored' = Stored
    BY <2>1, <2>2 DEF Stored
  <2>4. Half' = NoHalf
    BY <2>1 DEF Half, Sectors
  <2>5. QED
    BY <2>2, <2>3, <2>4, Forgotten
<1>2. CASE EraseNew
  <2>1. xch /\ sec = Found(hdr) /\ Live(hdr') = {sec} /\ idx'[sec] = idx[sec]
    BY <1>2, EraseNewStep
  <2>2. req' = req /\ Pend = req /\ Pend' = req'
    BY <1>2, PendIsAfter DEF EraseNew, PendNext
  <2>3. Live(hdr) # {} /\ Found(hdr') = sec
    BY <1>2, <2>1, FoundOf DEF EraseNew, IInv, Control, Calls, FoundValid
  <2>4. Stored' = Stored
    BY <2>1, <2>3 DEF Stored
  <2>5. Half' = NoHalf
    BY <2>1 DEF Half, Sectors
  <2>6. QED
    BY <2>2, <2>4, <2>5, Forgotten
<1>3. QED
  BY <1>1, <1>2

LEMMA NvBegin ==
  ASSUME IInv, NEW id \in Ids, NEW v \in Written[id], nv_flashWriteNew(id, v)
  PROVE  [Nv!Next]_(Nv!vars)
<1>1. v \in Vals
  BY ConstantsAssumption
<1>2. hdr' = hdr /\ idx' = idx /\ req' = <<id, v>> /\ Pend = req /\ Pend' = req' /\ req = NoReq
  BY PendIsAfter DEF nv_flashWriteNew, flash, PendNext, IInv, Control, Calls
<1>3. Stored' = Stored /\ Half' = Half
  BY <1>2, SameSeen
<1>4. QED
  BY <1>1, <1>2, <1>3 DEF Nv!Next, Nv!Begin, Pend

\* The mark makes a write in place take effect at once.
LEMMA NvMark ==
  ASSUME IInv, MarkItem
  PROVE  [Nv!Next]_(Nv!vars)
<1> USE DEF IInv
<1>1. /\ pc = "mark" /\ pc' = "delete" /\ hdr' = hdr /\ req' = req /\ Target' = Target
      /\ Pend = req /\ req # NoReq
  BY PendIsAfter DEF MarkItem, PendNext, Control, Calls, Busy, Target
<1>2. \A s \in Sectors, id \in Ids :
        Latest(idx'[s], id) = IF s = Target /\ id = req[1] THEN req[2] ELSE Latest(idx[s], id)
  BY MarkStep
<1>3. Target \in Sectors /\ Live(hdr) \subseteq Sectors
  BY Typed, FoundOf
<1>4. CASE hdr[Target] = "valid"
  <2>1. ~xch
    BY <1>1, <1>4 DEF Control, Exchange
  <2>2. ~First
    BY <1>3, <1>4 DEF First, Live
  <2>3. Live(hdr) # {} /\ Target = Found(hdr) /\ Found(hdr) \in Live(hdr)
    BY <1>1, <2>1, <2>2, FoundOf, Typed DEF Control, InPlace, FoundValid
  <2>4. Pend' = NoReq
    BY <1>1, <1>4, PendIsAfter DEF PendNext
  <2>5. ASSUME NEW id \in Ids PROVE Stored'[id] = IF id = req[1] THEN req[2] ELSE Stored[id]
    <3>1. Stored'[id] = Latest(idx'[Found(hdr)], id) /\ Stored[id] = Latest(idx[Found(hdr)], id)
      BY <1>1, <2>3 DEF Stored
    <3>2. QED
      BY <1>2, <1>3, <2>3, <3>1
  <2>6. Half' = Half
    <3>1. CASE Live(hdr) # Sectors
      BY <1>1, <3>1 DEF Half
    <3>2. CASE Live(hdr) = Sectors
      <4>1. Other(Found(hdr)) \in Sectors /\ Other(Found(hdr)) # Target
        BY <1>3, <2>3, OtherOf
      <4>2. \A id \in Ids :
              Latest(idx'[Other(Found(hdr))], id) = Latest(idx[Other(Found(hdr))], id)
        BY <1>2, <4>1
      <4>3. QED
        BY <1>1, <3>2, <4>2 DEF Half, Contents
    <3>3. QED
      BY <3>1, <3>2
  <2>7. QED
    BY <1>1, <2>4, <2>5, <2>6, Effect
<1>5. CASE hdr[Target] # "valid"
  <2>1. Target \notin Live(hdr)
    <3>1. CASE xch
      BY <1>1, <3>1 DEF Control, Exchange, Live
    <3>2. CASE ~xch
      <4>1. First \/ (FoundValid(hdr) /\ sec = Found(hdr))
        BY <1>1, <3>2 DEF Control, InPlace
      <4>2. Target = sec
        BY <3>2, Typed
      <4>3. QED
        BY <1>5, <4>1, <4>2 DEF First, FoundValid
    <3>3. QED
      BY <3>1, <3>2
  <2>2. \A s \in Live(hdr), id \in Ids : Latest(idx'[s], id) = Latest(idx[s], id)
    BY <1>2, <1>3, <2>1
  <2>3. Pend' = req'
    BY <1>1, <1>5, PendIsAfter DEF PendNext
  <2>4. QED
    BY <1>1, <2>2, <2>3, SameSeen, Unseen
<1>6. QED
  BY <1>4, <1>5

\* The header of a first sector makes its only item count.
LEMMA NvFirst ==
  ASSUME IInv, FirstHeader
  PROVE  [Nv!Next]_(Nv!vars)
<1>1. /\ idx' = idx /\ req' = NoReq
      /\ Live(hdr) = {} /\ Live(hdr') = {1} /\ Found(hdr') = 1 /\ Len(idx[1]) = 1
      /\ LastOf(idx[1]).id = req[1] /\ LastOf(idx[1]).used = "single"
      /\ LastOf(idx[1]).val = req[2] /\ req # NoReq
  BY FirstHeaderStep
<1>2. Pend = req /\ Pend' = NoReq
  BY <1>1, PendIsAfter DEF FirstHeader, PendNext, Return
<1>3. idx[1] \in Seq(Index) /\ idx[1] # <<>>
  <2>1. idx[1] \in Seq(Index)
    BY Typed DEF IInv, Sectors
  <2>2. Len(idx[1]) # Len(<<>>)
    BY <1>1
  <2>3. QED
    BY <2>1, <2>2
<1>4. Half' = NoHalf
  BY <1>1 DEF Half, Sectors
<1>5. ASSUME NEW id \in Ids PROVE Stored'[id] = IF id = req[1] THEN req[2] ELSE Stored[id]
  <2>1. Stored'[id] = Latest(idx[1], id) /\ Stored[id] = None
    BY <1>1 DEF Stored
  <2>2. CASE id = req[1]
    BY <1>1, <1>3, <2>1, <2>2, LatestAtEnd
  <2>3. CASE id # req[1]
    <3>1. \A i \in 1 .. Len(idx[1]) : idx[1][i].id = req[1]
      BY <1>1 DEF LastOf
    <3>2. nv_index_read(idx[1], id) = {}
      BY <2>3, <3>1 DEF nv_index_read
    <3>3. QED
      BY <2>1, <2>3, <3>2 DEF Latest
  <2>4. QED
    BY <2>2, <2>3
<1>6. QED
  BY <1>1, <1>2, <1>4, <1>5, Effect

\* The new sector is found at once when it is the first one, ...
LEMMA NvReady ==
  ASSUME IInv, ReadyNew
  PROVE  [Nv!Next]_(Nv!vars)
<1>1. /\ idx' = idx /\ UNCHANGED <<req, sec, xch>> /\ pc' = "old" /\ req # NoReq
      /\ hdr[sec] = "valid" /\ hdr[Target] = "none"
      /\ hdr'[sec] = "valid" /\ hdr'[Target] = "ready"
      /\ \A id \in Ids : Latest(idx[Target], id) =
                           IF id = req[1] THEN req[2] ELSE Latest(idx[sec], id)
      /\ xch
  BY ReadyStep
<1>2. /\ Target \in Sectors /\ sec \in Sectors /\ Target # sec /\ Target' = Target
      /\ Sectors = {sec, Target} /\ Other(sec) = Target /\ Other(Target) = sec
  BY <1>1, Typed, OtherOf DEF IInv, Target, Sectors
<1>3. Live(hdr) = {sec} /\ Live(hdr') = Sectors
  BY <1>1, <1>2 DEF Live
<1>4. Found(hdr) = sec /\ Half = NoHalf
  BY <1>2, <1>3, FoundOf DEF Half
<1>5. Found(hdr') = 1
  BY <1>3, FoundOf DEF Sectors
<1>6. Pend = req
  BY PendIsAfter DEF ReadyNew, PendNext
<1>7. Stored = Contents(idx[sec])
  BY <1>3, <1>4, StoredIs
<1>8. CASE sec = 1
  <2>1. Stored' = Contents(idx[sec]) /\ Half' = Contents(idx[Target])
    BY <1>1, <1>2, <1>3, <1>5, <1>8 DEF Stored, Half, Contents
  <2>2. Pend' = req
    BY <1>1, <1>2, <1>5, <1>8, PendIsAfter DEF PendNext
  <2>3. Contents(idx[Target]) = [Contents(idx[sec]) EXCEPT ![req[1]] = req[2]]
    BY <1>1 DEF Contents
  <2>4. Nv!Prepare
    BY <1>1, <1>6, <1>7, <2>1, <2>2, <2>3 DEF Nv!Prepare, Nv!WriteDone, Pend
  <2>5. QED
    BY <2>4 DEF Nv!Next
<1>9. CASE sec # 1
  <2>1. Target = 1
    BY <1>2, <1>9 DEF Sectors
  <2>2. Stored' = Contents(idx[Target]) /\ Half' = Contents(idx[sec])
    BY <1>1, <1>2, <1>3, <1>5, <2>1 DEF Stored, Half, Contents
  <2>3. Pend' = NoReq
    BY <1>1, <1>2, <1>5, <2>1, PendIsAfter DEF PendNext
  <2>4. \A id \in Ids : Stored'[id] = IF id = req[1] THEN req[2] ELSE Stored[id]
    BY <1>1, <1>7, <2>2 DEF Contents
  <2>5. QED
    BY <1>1, <1>6, <1>7, <2>2, <2>3, <2>4, Effect
<1>10. QED
  BY <1>8, <1>9

\* ... and when the old one is given up otherwise.
LEMMA NvInvalidate ==
  ASSUME IInv, InvalidateOld
  PROVE  [Nv!Next]_(Nv!vars)
<1>1. /\ idx' = idx /\ UNCHANGED <<req, sec, xch>> /\ pc' = "new" /\ req # NoReq
      /\ hdr[sec] = "valid" /\ hdr[Target] = "ready"
      /\ hdr'[sec] = "invalid" /\ hdr'[Target] = "ready"
      /\ \A id \in Ids : Latest(idx[Target], id) =
                           IF id = req[1] THEN req[2] ELSE Latest(idx[sec], id)
      /\ xch
  BY InvalidateStep
<1>2. /\ Target \in Sectors /\ sec \in Sectors /\ Target # sec
      /\ Sectors = {sec, Target}
  BY <1>1, Typed, OtherOf DEF IInv, Target, Sectors
<1>3. Live(hdr) = Sectors /\ Live(hdr') = {Target}
  BY <1>1, <1>2 DEF Live
<1>4. Found(hdr) = 1
  BY <1>3, FoundOf DEF Sectors
<1>5. Found(hdr') = Target /\ Half' = NoHalf
  BY <1>2, <1>3, FoundOf DEF Half
<1>6. Pend' = NoReq /\ Pend = IF Found(hdr) = Target THEN NoReq ELSE req
  BY <1>1, PendIsAfter DEF InvalidateOld, PendNext
<1>7. \A id \in Ids : Stored'[id] = Latest(idx[Target], id) /\ Stored[id] = Latest(idx[1], id)
  BY <1>1, <1>2, <1>3, <1>4, <1>5 DEF Stored
<1>8. CASE sec = 1
  <2>1. Pend = req
    BY <1>2, <1>4, <1>6, <1>8
  <2>2. \A id \in Ids : Stored'[id] = IF id = req[1] THEN req[2] ELSE Stored[id]
    BY <1>1, <1>7, <1>8
  <2>3. QED
    BY <1>1, <1>5, <1>6, <2>1, <2>2, Effect
<1>9. CASE sec # 1
  <2>1. Target = 1
    BY <1>2, <1>9 DEF Sectors
  <2>2. Stored' = Stored
    BY <1>7, <2>1 DEF Stored
  <2>3. QED
    BY <1>4, <1>5, <1>6, <2>1, <2>2, Forgotten
<1>10. QED
  BY <1>8, <1>9

\* A reset that is cut off may leave the other half of an exchange.
LEMMA NvReset ==
  ASSUME IInv, nv_resetModule \/ ResetSecond
  PROVE  [Nv!Next]_(Nv!vars)
<1> USE DEF IInv
<1>1. PICK t \in Sectors : /\ hdr' = [hdr EXCEPT ![t] = "none"]
                           /\ idx' = [idx EXCEPT ![t] = <<>>]
                           /\ ResetSecond => t = 2
                           /\ nv_resetModule => t = 1
  <2>1. CASE nv_resetModule /\ ~ResetSecond
    BY <2>1 DEF nv_resetModule, Sectors
  <2>2. CASE ResetSecond /\ ~nv_resetModule
    BY <2>2 DEF ResetSecond, Sectors
  <2>3. ~(nv_resetModule /\ ResetSecond)
    BY DEF nv_resetModule, ResetSecond
  <2>4. QED
    BY <2>1, <2>2, <2>3
<1>2. Pend = NoReq /\ Pend' = NoReq
  BY PendIsAfter DEF nv_resetModule, ResetSecond, PendNext, Control, Calls, Return
<1>3. Live(hdr') = Live(hdr) \ {t} /\ Live(hdr) \subseteq Sectors
  BY <1>1 DEF TypeOK, Live
<1>4. \A s \in Sectors : s # t => idx'[s] = idx[s]
  BY <1>1 DEF TypeOK
<1>5. Half' = NoHalf
  BY <1>3 DEF Half
<1>6. CASE t \notin Live(hdr)
  <2>1. /\ Live(hdr') = Live(hdr)
        /\ \A s \in Live(hdr), id \in Ids : Latest(idx'[s], id) = Latest(idx[s], id)
    BY <1>3, <1>4, <1>6
  <2>2. QED
    BY <1>2, <2>1, SameSeen, Unseen
<1>7. CASE Live(hdr) = {t}
  <2>1. Live(hdr') = {}
    BY <1>3, <1>7
  <2>2. Stored' = Nv!Empty
    BY <2>1 DEF Stored, Nv!Empty
  <2>3. QED
    BY <1>2, <1>5, <2>2 DEF Nv!Next, Nv!Clear, Pend
<1>8. CASE t \in Live(hdr) /\ Live(hdr) # {t}
  <2>1. Live(hdr) = Sectors
    BY <1>3, <1>8 DEF Sectors
  <2>2. Found(hdr) = 1 /\ Half = Contents(idx[2])
    BY <2>1, FoundOf, HalfIs DEF Sectors
  <2>3. CASE t = 1
    <3>1. Live(hdr') = {2} /\ idx'[2] = idx[2]
      BY <1>3, <1>4, <2>1, <2>3 DEF Sectors
    <3>2. Found(hdr') = 2
      BY <3>1, FoundOf
    <3>3. Stored' = Half
      BY <2>2, <3>1, <3>2 DEF Stored, Contents
    <3>4. Half # NoHalf
      BY <2>2, Typed, SomeHalf DEF Sectors
    <3>5. QED
      BY <1>2, <1>5, <3>3, <3>4 DEF Nv!Next, Nv!ClearCut, Pend
  <2>4. CASE t = 2
    <3>1. Live(hdr') = {1} /\ idx'[1] = idx[1]
      BY <1>3, <1>4, <2>1, <2>4 DEF Sectors
    <3>2. Found(hdr') = 1
      BY <3>1, FoundOf
    <3>3. Stored' = Stored
      BY <2>1, <2>2, <3>1, <3>2 DEF Stored, Sectors
    <3>4. QED
      BY <1>2, <1>5, <3>3, Forgotten
  <2>5. QED
    BY <2>3, <2>4 DEF Sectors
<1>9. QED
  BY <1>6, <1>7, <1>8

LEMMA NvStep == IInv /\ [Next]_vars => [Nv!Next]_(Nv!vars)
<1> SUFFICES ASSUME IInv, [Next]_vars PROVE [Nv!Next]_(Nv!vars)
  OBVIOUS
<1>1. CASE \E id \in Ids : \E v \in Written[id] : nv_flashWriteNew(id, v)
  BY <1>1, NvBegin
<1>2. CASE FinishOld \/ EraseNew
  BY <1>2, NvForget
<1>3. CASE MarkItem
  BY <1>3, NvMark
<1>4. CASE FirstHeader
  BY <1>4, NvFirst
<1>5. CASE ReadyNew
  BY <1>5, NvReady
<1>6. CASE InvalidateOld
  BY <1>6, NvInvalidate
<1>7. CASE nv_resetModule \/ ResetSecond
  BY <1>7, NvReset
<1>8. CASE \/ nv_flashReadNew \/ FinishNew \/ ReadDone \/ EraseFirst \/ Place
           \/ Dedupe \/ DedupeDone \/ Copy \/ CopyDone \/ WriteIndex \/ WriteData \/ DeleteOld
           \/ ValidateNew \/ Crash \/ CrashTorn \/ UNCHANGED vars
  BY <1>8, NvUnseen
<1>9. QED
  BY <1>1, <1>2, <1>3, <1>4, <1>5, <1>6, <1>7, <1>8 DEF Next

\* nv_flashWriteNew is atomic and durable, a reset that is cut off leaves the
\* other half at most, and nv_flashReadNew finds what was written last.
THEOREM Refinement == Spec => ImplementsNvStore
BY NvInit, NvStep, Invariance, PTL DEF Spec, ImplementsNvStore, Nv!Spec

\* Types of a module of items: offsets and sizes stay in the sector.
THEOREM TypeCorrect == Spec => []TypeOK
BY Invariance, PTL DEF IInv

\* The exchange of the sectors in nv_flashWriteNew always has room for the next
\* item it copies.
THEOREM NothingLeftBehind == Spec => []CopiesFit
BY Invariance, CopyFits, PTL
=============================================================================
