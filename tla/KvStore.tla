------------------------------ MODULE KvStore ------------------------------
(***************************************************************************)
(* What the settings store of the firmware promises to its callers,        *)
(* whatever the flash underneath looks like and wherever the power fails:  *)
(* one value per identifier, and a write that happens as a whole or not at *)
(* all.  The promise has one hole: a power failure inside a write may leave *)
(* the store torn, and a torn store may lose what it holds at any later     *)
(* time; until it is emptied it then promises nothing.  FlashEep implements *)
(* this specification.                                                     *)
(***************************************************************************)
CONSTANTS
  Ids,    \* object identifiers of one bank (EEP_ID_...)
  Vals,   \* contents an object may have
  None,   \* "never written, or deleted"
  NoReq   \* no write is in progress

VARIABLES
  kv,     \* the stored contents
  pend,   \* the write in progress, NoReq when there is none
  health  \* "sound", "torn" by a power failure, or "lost"

vars == <<kv, pend, health>>

Empty == [id \in Ids |-> None]

\* A value or none is stored for each identifier.
TypeOK ==
  /\ kv \in [Ids -> Vals \cup {None}]
  /\ pend \in (Ids \X (Vals \cup {None})) \cup {NoReq}
  /\ health \in {"sound", "torn", "lost"}

Init == kv = Empty /\ pend = NoReq /\ health = "sound"

\* A caller asks for a write.
Begin(id, v) ==
  /\ pend = NoReq
  /\ pend' = <<id, v>>
  /\ UNCHANGED <<kv, health>>

\* The write takes effect on its own object, on all of it, and on no other.
Apply ==
  /\ pend # NoReq
  /\ kv' = [kv EXCEPT ![pend[1]] = pend[2]]
  /\ pend' = NoReq
  /\ UNCHANGED health

\* The write is given up: the bank is full, or the power failed.
GiveUp ==
  /\ pend # NoReq
  /\ pend' = NoReq
  /\ UNCHANGED <<kv, health>>

\* The power fails inside the write: all contents are there, but the store is
\* torn.
Tear ==
  /\ pend # NoReq
  /\ health = "sound"
  /\ pend' = NoReq
  /\ health' = "torn"
  /\ UNCHANGED kv

\* A torn store stops keeping its promise.
Lose ==
  /\ health = "torn"
  /\ health' = "lost"
  /\ UNCHANGED <<kv, pend>>

\* What a store that lost its contents then holds is anybody's guess.
Stray ==
  /\ health = "lost"
  /\ kv' \in [Ids -> Vals \cup {None}]
  /\ pend' \in (Ids \X (Vals \cup {None})) \cup {NoReq}
  /\ UNCHANGED health

\* The whole bank is emptied (a firmware with another settings layout), which
\* makes it sound again when it is complete.
Clear ==
  /\ pend = NoReq
  /\ kv' = Empty
  /\ health' \in {health, "sound"}
  /\ UNCHANGED pend

Next ==
  \/ \E id \in Ids, v \in Vals \cup {None} : Begin(id, v)
  \/ Apply
  \/ GiveUp
  \/ Tear \/ Lose \/ Stray
  \/ Clear

Spec == Init /\ [][Next]_vars
=============================================================================
