----------------------------- MODULE FrameCount -----------------------------
(***************************************************************************)
(* The frame counter of the network layer in flash, drv_nv.c: a log of     *)
(* words in two sectors.  Neighbours discard frames whose counter is lower *)
(* than one they have seen, so a restart must not go back; and a counter   *)
(* that leaps is used up.                                                  *)
(*                                                                         *)
(* Every program and erase is a step, and the power may fail between any   *)
(* two, or in the middle of a word: what it reads as then has all the bits *)
(* of the word that was meant, and perhaps more (Torn).                    *)
(***************************************************************************)
EXTENDS NvSectors, Sequences

CONSTANTS
  MaxCount,  \* bound: the counter does not grow any further
  Words,     \* FRAMECOUNT_NUM_PER_SECT
  Thres,     \* UPDATE_FRAMECOUNT_THRES
  Torn,      \* what a word may read as when its program was interrupted
  NoReq      \* no word is to be written

ASSUME ConstantsAssumption ==
  /\ MaxCount \in Nat /\ Words \in Nat \ {0, 1} /\ Thres \in Nat \ {0}
  /\ NoReq \notin Nat
  /\ Torn \in [0 .. MaxCount -> SUBSET (0 .. MaxCount)]
  /\ \A c \in 0 .. MaxCount : Torn[c] \subseteq c .. MaxCount

VARIABLES
  hdr,     \* usedFlag of each sector
  log,     \* the words of each sector that are not erased
  pc,      \* the flash operation that is next; "off" after a power failure
  req,     \* the counter to be written
  sec,     \* opSect, or oldSect when the sector changes
  change,  \* why the sector changes: "no", "full" or "repair"
  count,   \* outgoingFrameCounter, in RAM
  saved,   \* observer: the highest counter whose save has returned
  asked    \* observer: the highest counter that was to be saved

flash == <<hdr, log>>
counters == <<count, saved, asked>>
countVars == <<hdr, log, pc, req, sec, change, count, saved, asked>>

Higher(x, y) == IF x >= y THEN x ELSE y
Last(L) == L[Len(L)]

\* Seeded fault: a word that leaps is taken as it is.
Leaps_Never(L) == FALSE

\* The last word is too far from the one before.  Two words are not compared:
\* wAddr must be beyond the second one.
Leaps(L) == Len(L) > 2 /\ Last(L) - L[Len(L) - 1] > Thres

\* The counter nv_nwkFrameCountFromFlash returns.
Recovered(L) == IF Leaps(L) THEN L[Len(L) - 1] + Thres ELSE Last(L)

Target == IF change = "no" THEN sec ELSE Other(sec)

-----------------------------------------------------------------------------
Locals == sec' = 1 /\ change' = "no" /\ req' = NoReq

\* A word has been saved.
Return ==
  /\ pc' = "idle"
  /\ Locals
  /\ saved' = Higher(saved, req)
  /\ UNCHANGED <<count, asked>>

CountInit ==
  /\ hdr = [s \in Sectors |-> "none"]
  /\ log = [s \in Sectors |-> <<>>]
  /\ pc = "idle" /\ req = NoReq /\ sec = 1 /\ change = "no"
  /\ count = 0 /\ saved = 0 /\ asked = 0

\* The stack saves the counter often enough for the repair to be right.
nv_nwkFrameCountSaveToFlash ==
  /\ pc = "idle"
  /\ \E d \in 1 .. Thres :
       /\ count + d <= MaxCount
       /\ req' = count + d
       /\ count' = count + d
       /\ asked' = Higher(asked, count + d)
  /\ pc' = "find"
  /\ UNCHANGED <<flash, sec, change, saved>>

\* The start of the program after a power failure.
nv_nwkFrameCountFromFlash ==
  /\ pc = "off"
  /\ pc' = "find"
  /\ UNCHANGED <<flash, req, sec, change, counters>>

-----------------------------------------------------------------------------
(* nv_sector_read *)

FinishOld ==
  /\ pc = "find" /\ FoundReady(hdr)
  /\ hdr' = [hdr EXCEPT ![Other(Found(hdr))] = "invalid"]
  /\ pc' = "finish"
  /\ UNCHANGED <<log, req, sec, change, counters>>

FinishNew ==
  /\ pc = "finish"
  /\ hdr' = [hdr EXCEPT ![Found(hdr)] = "valid"]
  /\ pc' = "find"
  /\ UNCHANGED <<log, req, sec, change, counters>>

-----------------------------------------------------------------------------
(* nv_nwkFrameCountFromFlash *)

NothingStored ==
  /\ pc = "find" /\ req = NoReq /\ Live(hdr) = {}
  /\ pc' = "idle"
  /\ count' = 0
  /\ UNCHANGED <<flash, req, sec, change, saved, asked>>

\* The last word is right, or it is replaced in the other sector.
Recover ==
  /\ pc = "find" /\ req = NoReq /\ FoundValid(hdr)
  /\ LET L == log[Found(hdr)]
     IN /\ count' = Recovered(L)
        /\ IF Leaps(L)
           THEN /\ pc' = "erase" /\ change' = "repair"
                /\ sec' = Found(hdr) /\ req' = Recovered(L)
           ELSE pc' = "idle" /\ UNCHANGED <<change, sec, req>>
  /\ UNCHANGED <<flash, saved, asked>>

-----------------------------------------------------------------------------
(* nv_nwkFrameCountSaveToFlashHandler *)

\* No sector: both are erased.
EraseBoth ==
  /\ pc = "find" /\ req # NoReq /\ Live(hdr) = {}
  /\ hdr' = [s \in Sectors |-> "none"]
  /\ log' = [s \in Sectors |-> <<>>]
  /\ sec' = 1
  /\ pc' = "word"
  /\ UNCHANGED <<req, change, counters>>

Search ==
  /\ pc = "find" /\ req # NoReq /\ FoundValid(hdr)
  /\ sec' = Found(hdr)
  /\ IF Len(log[Found(hdr)]) = Words
     THEN pc' = "erase" /\ change' = "full"
     ELSE pc' = "word" /\ change' = "no"
  /\ UNCHANGED <<flash, req, counters>>

EraseNew ==
  /\ pc = "erase"
  /\ hdr' = [hdr EXCEPT ![Target] = "none"]
  /\ log' = [log EXCEPT ![Target] = <<>>]
  /\ pc' = IF change = "full" THEN "last" ELSE "word"
  /\ UNCHANGED <<req, sec, change, counters>>

\* The last word goes first, to compare the next one with.
CopyLast ==
  /\ pc = "last"
  /\ log' = [log EXCEPT ![Target] = <<Last(log[sec])>>]
  /\ pc' = "word"
  /\ UNCHANGED <<hdr, req, sec, change, counters>>

\* Only the first word of a sector is followed by a header.
Word ==
  /\ pc = "word"
  /\ log' = [log EXCEPT ![Target] = Append(@, req)]
  /\ IF change # "no" \/ log[Target] = <<>>
     THEN pc' = "ready" /\ UNCHANGED <<req, sec, change, counters>>
     ELSE Return
  /\ UNCHANGED hdr

\* Seeded fault: the old sector is given up before the new one is ready.
ReadyNew_OldFirst ==
  /\ pc = "ready"
  /\ hdr' = [hdr EXCEPT ![IF change = "no" THEN Target ELSE sec] =
               IF change = "no" THEN "ready" ELSE "invalid"]
  /\ IF change = "no" THEN Return
     ELSE pc' = "old" /\ UNCHANGED <<req, sec, change, counters>>
  /\ UNCHANGED log

ReadyNew ==
  /\ pc = "ready"
  /\ hdr' = [hdr EXCEPT ![Target] = "ready"]
  /\ IF change = "no" THEN Return
     ELSE pc' = "old" /\ UNCHANGED <<req, sec, change, counters>>
  /\ UNCHANGED log

InvalidateOld ==
  /\ pc = "old"
  /\ hdr' = [hdr EXCEPT ![sec] = "invalid"]
  /\ pc' = "new"
  /\ UNCHANGED <<log, req, sec, change, counters>>

ValidateNew ==
  /\ pc = "new"
  /\ hdr' = [hdr EXCEPT ![Target] = "valid"]
  /\ Return
  /\ UNCHANGED log

-----------------------------------------------------------------------------
Crash ==
  /\ pc # "off"
  /\ pc' = "off"
  /\ Locals
  /\ count' = 0
  /\ UNCHANGED <<flash, saved, asked>>

CrashTorn ==
  /\ pc = "word"
  /\ \E t \in Torn[req] : log' = [log EXCEPT ![Target] = Append(@, t)]
  /\ pc' = "off"
  /\ Locals
  /\ count' = 0
  /\ UNCHANGED <<hdr, saved, asked>>

CountNext ==
  \/ nv_nwkFrameCountSaveToFlash \/ nv_nwkFrameCountFromFlash
  \/ FinishOld \/ FinishNew
  \/ NothingStored \/ Recover
  \/ EraseBoth \/ Search \/ EraseNew \/ CopyLast \/ Word
  \/ ReadyNew \/ InvalidateOld \/ ValidateNew
  \/ Crash \/ CrashTorn

CountSpec == CountInit /\ [][CountNext]_countVars

-----------------------------------------------------------------------------
(* Properties *)

\* What a restart at this moment would count on from.
AfterRestart == IF Live(hdr) = {} THEN 0 ELSE Recovered(log[Found(hdr)])

\* Whenever the power fails, in a save, a change of sectors or the repair of a
\* torn word, the counter does not go back behind a save that has returned.
NeverBack == AfterRestart >= saved

\* Nor does it leap ahead of what was to be saved by more than the threshold,
\* unless the torn word is the second one of its sector, which is not compared.
NoLeap ==
  Live(hdr) # {} /\ Len(log[Found(hdr)]) # 2 => AfterRestart <= asked + Thres
=============================================================================
