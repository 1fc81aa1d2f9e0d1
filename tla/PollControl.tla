------------------------------ MODULE PollControl ------------------------------
(***************************************************************************)
(* The Poll Control cluster, zcl_EpCb.c, and what it shares with the rest  *)
(* of the application: software timers with a handle each.                 *)
(*                                                                         *)
(* A timer is kept as two facts that the code keeps apart: whether the     *)
(* handle is set, and how many timers of that name run.  A running timer   *)
(* may expire at any time, which is weaker than what Timers promises.      *)
(***************************************************************************)
EXTENDS Integers

CONSTANTS MaxPolls   \* bound: commands and attribute writes to the cluster

\* The timers: of this cluster, of zb_appCb.c, and of bdb.c.
Kind == {"checkIn", "fast", "steer", "rejoin", "key", "delay", "permit", "keyStart"}

VARIABLES
  timers,      \* per timer: its handle is not NULL, timers that run
  isFast,      \* isFastPollMode
  chkIn,       \* chkInInterval # 0
  fastAttr,    \* the attribute fastPollTimeout # 0
  bound,       \* zb_bindingTblSearched(POLL_CONTROL)
  polls        \* commands and writes so far

poll == <<isFast, chkIn, fastAttr, bound, polls>>

Stopped == [handle |-> FALSE, running |-> 0]

Scheduled(ts, k) == [ts EXCEPT ![k] = [handle |-> TRUE, running |-> @.running + 1]]

\* if(handle) TL_ZB_TIMER_CANCEL(&handle)
Cancelled(ts, k) ==
  IF ts[k].handle
  THEN [ts EXCEPT ![k] = [handle |-> FALSE, running |-> @.running - 1]] ELSE ts

\* The callback cleared the handle and returns -1.
Ended(ts, k) == [ts EXCEPT ![k] = [handle |-> FALSE, running |-> @.running - 1]]

PollInit ==
  /\ isFast = FALSE /\ chkIn = TRUE /\ fastAttr = TRUE
  /\ bound \in BOOLEAN /\ polls = 0

PollCommand == polls < MaxPolls /\ polls' = polls + 1

\* app_zclCheckInStart, on the timers ts.
CheckInStarted(ts) ==
  IF bound /\ ~ts["checkIn"].handle THEN Scheduled(ts, "checkIn") ELSE ts

\* A write of chkInInterval; binding the cluster.
WriteCheckIn(on) ==
  /\ PollCommand
  /\ chkIn' = on
  /\ timers' = CheckInStarted(timers)
  /\ UNCHANGED <<isFast, fastAttr, bound>>

\* The same value again, or a binding again, would change nothing.
WriteFastPollTimeout(on) ==
  /\ PollCommand /\ on # fastAttr
  /\ fastAttr' = on
  /\ UNCHANGED <<timers, isFast, chkIn, bound>>

Bind(on) ==
  /\ PollCommand /\ on # bound
  /\ bound' = on
  /\ UNCHANGED <<timers, isFast, chkIn, fastAttr>>

app_zclCheckInTimerCb ==
  /\ timers["checkIn"].running > 0
  /\ ~chkIn
  /\ timers' = Ended(timers, "checkIn")
  /\ UNCHANGED poll

\* A check-in response that starts fast polling; given: it names a time, not
\* above fastPollTimeoutMax.
app_zclPollCtrlChkInRspCmdHandler(given) ==
  LET ts == IF given THEN Cancelled(timers, "fast") ELSE timers
  IN /\ PollCommand
     /\ ~ts["fast"].handle /\ (given \/ fastAttr)
     /\ isFast' = TRUE
     /\ timers' = Scheduled(ts, "fast")
     /\ UNCHANGED <<chkIn, fastAttr, bound>>

\* Seeded fault: the stop command leaves the timer running.
FastPollStopped_Kept == timers

FastPollStopped == Cancelled(timers, "fast")

app_zclPollCtrlFastPollStopCmdHandler ==
  /\ PollCommand
  /\ isFast
  /\ isFast' = FALSE
  /\ timers' = FastPollStopped
  /\ UNCHANGED <<chkIn, fastAttr, bound>>

app_zclFastPollTimeoutCb ==
  /\ timers["fast"].running > 0
  /\ isFast' = FALSE
  /\ timers' = Ended(timers, "fast")
  /\ UNCHANGED <<chkIn, fastAttr, bound, polls>>

PollNext ==
  \/ \E on \in BOOLEAN :
       WriteCheckIn(on) \/ WriteFastPollTimeout(on) \/ Bind(on)
  \/ \E given \in BOOLEAN : app_zclPollCtrlChkInRspCmdHandler(given)
  \/ app_zclPollCtrlFastPollStopCmdHandler

-----------------------------------------------------------------------------
\* Fast polling, which drains a battery and the radio time of BLE, is always
\* timed, and nothing else runs the timer that ends it: responses, stop
\* commands and the expiry cancel and schedule it anew (zcl_EpCb.c).
FastPollTimed == timers["fast"].running = IF isFast THEN 1 ELSE 0
===============================================================================
