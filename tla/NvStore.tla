------------------------------ MODULE NvStore ------------------------------
(***************************************************************************)
(* What a module of non-volatile items promises to its callers wherever    *)
(* the power fails: one value per item, and writes that happen as a whole  *)
(* or not at all.  It promises less than KvStore in one thing: a reset     *)
(* that the power cuts off may leave, instead of nothing or everything,    *)
(* what was stored before or after the last exchange of sectors, when the  *)
(* power has cut that off as well.                                         *)
(* NvItems implements this specification.                                  *)
(***************************************************************************)
CONSTANTS
  Ids,     \* item identifiers of one module (NV_ITEM_...)
  Vals,    \* contents an item may have
  None,    \* "not found"
  NoReq,   \* no write is in progress
  NoHalf   \* there is nothing else that could be found

VARIABLES
  kv,      \* the items as they are read
  pend,    \* the write in progress, NoReq when there is none
  half     \* contents before or after an exchange of sectors that is not over

vars == <<kv, pend, half>>

Empty == [id \in Ids |-> None]
WriteDone == [kv EXCEPT ![pend[1]] = pend[2]]

Init == kv = Empty /\ pend = NoReq /\ half = NoHalf

Begin(id, v) == pend = NoReq /\ pend' = <<id, v>> /\ UNCHANGED <<kv, half>>

\* An exchange of sectors has everything ready.
Prepare == pend # NoReq /\ half' = WriteDone /\ UNCHANGED <<kv, pend>>

\* The write takes effect on its own item, on all of it, and on no other.
Apply ==
  /\ pend # NoReq
  /\ kv' = WriteDone
  /\ pend' = NoReq
  /\ half' \in {half, kv, NoHalf}

\* The write is given up: there is no room, or the power failed.
GiveUp == pend # NoReq /\ pend' = NoReq /\ UNCHANGED <<kv, half>>

\* An exchange ends, or the next one erases what the one before left.
Forget == half' = NoHalf /\ UNCHANGED <<kv, pend>>

\* A reset empties the module ...
Clear == pend = NoReq /\ kv' = Empty /\ half' = NoHalf /\ UNCHANGED pend

\* ... in two steps, when there is something else to be found after the first.
ClearCut ==
  /\ pend = NoReq /\ half # NoHalf
  /\ kv' = half /\ half' = NoHalf
  /\ UNCHANGED pend

Next ==
  \/ \E id \in Ids, v \in Vals : Begin(id, v)
  \/ Prepare \/ Apply \/ GiveUp \/ Forget \/ Clear \/ ClearCut

Spec == Init /\ [][Next]_vars
=============================================================================
