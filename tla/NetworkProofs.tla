---------------------------- MODULE NetworkProofs ----------------------------
(***************************************************************************)
(* Proofs about the bridge in its network.                                 *)
(*                                                                         *)
(* Commissioning and poll control (Commissioning, PollControl), for any    *)
(* number of attempts, losses, tasks and poll commands.  First, handles    *)
(* and timers belong together, and fast polling is always timed; then, off *)
(* the network the bridge never stops trying, but for a rejoin timer that  *)
(* ended because the bridge was made new, and back in the network the      *)
(* rejoin timer goes.                                                      *)
(*                                                                         *)
(* The frame counter of the network layer (FrameCount), for every          *)
(* threshold, length of the log and way a word may be torn: wherever the   *)
(* power fails, it neither goes back nor leaps.                            *)
(***************************************************************************)
EXTENDS Commissioning, FrameCount, SequenceTheorems, TLAPS

\* The timers are typed, and of those with a handle one runs exactly while
\* the handle is set.
Proper(ts) ==
  /\ ts \in [Kind -> [handle : BOOLEAN, running : Nat]]
  /\ \A k \in Handled : ts[k].running = IF ts[k].handle THEN 1 ELSE 0

\* The fast poll timer of ts runs exactly if fast.
Timed(ts, fast) == ts["fast"].running = IF fast THEN 1 ELSE 0

\* The inductive invariant.
IInv == TypeOK /\ OneTimer /\ FastPollTimed

-----------------------------------------------------------------------------
(* The three things done to a timer *)

LEMMA ScheduledTimer ==
  ASSUME NEW ts, Proper(ts), NEW k \in Kind, k \in Handled => ~ts[k].handle
  PROVE  /\ Proper(Scheduled(ts, k))
         /\ \A j \in Kind : j # k => Scheduled(ts, k)[j] = ts[j]
         /\ k \in Handled => Scheduled(ts, k)[k].running = 1
<1> DEFINE new == [handle |-> TRUE, running |-> ts[k].running + 1]
<1>1. Scheduled(ts, k) = [ts EXCEPT ![k] = new]
  BY DEF Scheduled
<1>2. ts[k].running \in Nat /\ new \in [handle : BOOLEAN, running : Nat]
  BY DEF Proper
<1>3. k \in Handled => new.running = 1
  BY <1>2 DEF Proper
<1>4. /\ Scheduled(ts, k) \in [Kind -> [handle : BOOLEAN, running : Nat]]
      /\ Scheduled(ts, k)[k] = new
      /\ \A j \in Kind : j # k => Scheduled(ts, k)[j] = ts[j]
  BY <1>1, <1>2 DEF Proper
<1>5. \A j \in Handled : j \in Kind
  BY DEF Handled, Kind
<1> QED
  BY <1>3, <1>4, <1>5 DEF Proper

LEMMA CancelledTimer ==
  ASSUME NEW ts, Proper(ts), NEW k \in Handled
  PROVE  /\ Proper(Cancelled(ts, k))
         /\ \A j \in Kind : j # k => Cancelled(ts, k)[j] = ts[j]
         /\ ~Cancelled(ts, k)[k].handle /\ Cancelled(ts, k)[k].running = 0
<1> DEFINE new == [handle |-> FALSE, running |-> ts[k].running - 1]
<1>0. k \in Kind /\ \A j \in Handled : j \in Kind
  BY DEF Handled, Kind
<1>1. CASE ts[k].handle
  <2>1. Cancelled(ts, k) = [ts EXCEPT ![k] = new] /\ ts[k].running = 1
    BY <1>1 DEF Cancelled, Proper
  <2>2. new \in [handle : BOOLEAN, running : Nat] /\ new.running = 0 /\ ~new.handle
    BY <2>1
  <2>3. /\ Cancelled(ts, k) \in [Kind -> [handle : BOOLEAN, running : Nat]]
        /\ Cancelled(ts, k)[k] = new
        /\ \A j \in Kind : j # k => Cancelled(ts, k)[j] = ts[j]
    BY <1>0, <2>1, <2>2 DEF Proper
  <2> QED
    BY <1>0, <2>2, <2>3 DEF Proper
<1>2. CASE ~ts[k].handle
  BY <1>2 DEF Cancelled, Proper
<1> QED
  BY <1>1, <1>2

LEMMA EndedTimer ==
  ASSUME NEW ts, Proper(ts), NEW k \in Kind, ts[k].running > 0
  PROVE  /\ Proper(Ended(ts, k))
         /\ \A j \in Kind : j # k => Ended(ts, k)[j] = ts[j]
         /\ ~Ended(ts, k)[k].handle
         /\ k \in Handled => Ended(ts, k)[k].running = 0
<1> DEFINE new == [handle |-> FALSE, running |-> ts[k].running - 1]
<1>1. Ended(ts, k) = [ts EXCEPT ![k] = new]
  BY DEF Ended
<1>2. ts[k].running \in Nat /\ new \in [handle : BOOLEAN, running : Nat] /\ ~new.handle
  BY DEF Proper
<1>3. k \in Handled => new.running = 0
  BY <1>2 DEF Proper
<1>4. /\ Ended(ts, k) \in [Kind -> [handle : BOOLEAN, running : Nat]]
      /\ Ended(ts, k)[k] = new
      /\ \A j \in Kind : j # k => Ended(ts, k)[j] = ts[j]
  BY <1>1, <1>2 DEF Proper
<1>5. \A j \in Handled : j \in Kind
  BY DEF Handled, Kind
<1> QED
  BY <1>2, <1>3, <1>4, <1>5 DEF Proper

\* app_zclCheckInStart schedules its timer once.
LEMMA CheckInTimer ==
  ASSUME NEW ts, Proper(ts)
  PROVE  Proper(CheckInStarted(ts)) /\ CheckInStarted(ts)["fast"] = ts["fast"]
BY ScheduledTimer DEF CheckInStarted, Kind, Handled

\* The steering timer is scheduled anew.
LEMMA SteerTimer ==
  ASSUME NEW ts, Proper(ts)
  PROVE  /\ Proper(Scheduled(Cancelled(ts, "steer"), "steer"))
         /\ Scheduled(Cancelled(ts, "steer"), "steer")["fast"] = ts["fast"]
<1>1. /\ Proper(Cancelled(ts, "steer")) /\ ~Cancelled(ts, "steer")["steer"].handle
      /\ Cancelled(ts, "steer")["fast"] = ts["fast"]
  BY CancelledTimer DEF Handled, Kind
<1> QED
  BY <1>1, ScheduledTimer DEF Handled, Kind

\* The invariant in terms of Proper and Timed, before and after a step.
LEMMA Before ==
  ASSUME IInv
  PROVE  TypeOK /\ Proper(timers) /\ Timed(timers, isFast)
BY DEF IInv, TypeOK, Proper, Timed, OneTimer, FastPollTimed

LEMMA After ==
  ASSUME TypeOK', Proper(timers'), Timed(timers', isFast')
  PROVE  IInv'
BY DEF IInv, Proper, Timed, OneTimer, FastPollTimed

\* A task is posted, a task is taken.
LEMMA Posted ==
  ASSUME NEW q \in Seq(Events), NEW e \in Events
  PROVE  Append(q, e) \in Seq(Events)
OBVIOUS

LEMMA TakenTask ==
  ASSUME NEW q \in Seq(Events), q # <<>>
  PROVE  Head(q) \in Events /\ Tail(q) \in Seq(Events)
OBVIOUS

\* What a step that Follows leaves of the timers that may expire.
LEMMA Ghosts ==
  ASSUME NEW expired, Follows(expired)
  PROVE  due' \subseteq Slow /\ ceased' \in BOOLEAN
BY DEF Follows, Waits

-----------------------------------------------------------------------------
(* Poll control *)

LEMMA PollStep ==
  ASSUME IInv, PollNext, Unshared,
         due' \subseteq Slow, ceased' \in BOOLEAN
  PROVE  IInv'
<1>0. TypeOK /\ Proper(timers) /\ Timed(timers, isFast)
  BY Before
<1>u. UNCHANGED <<bdb, stack, losses>>
  BY DEF Unshared
<1>p. ASSUME PollCommand PROVE polls' \in 0 .. MaxPolls
  BY <1>0, <1>p, CommissioningAssumption DEF PollCommand, TypeOK
<1>1. ASSUME NEW on \in BOOLEAN, WriteCheckIn(on) PROVE IInv'
  <2>1. Proper(timers') /\ Timed(timers', isFast')
    BY <1>0, <1>1, CheckInTimer DEF WriteCheckIn, Timed
  <2>2. TypeOK'
    BY <1>0, <1>u, <1>p, <1>1, <2>1 DEF WriteCheckIn, TypeOK, Proper, bdb, stack
  <2> QED
    BY <2>1, <2>2, After
<1>2. ASSUME NEW on \in BOOLEAN, WriteFastPollTimeout(on) \/ Bind(on) PROVE IInv'
  <2>1. timers' = timers /\ isFast' = isFast
    BY <1>2 DEF WriteFastPollTimeout, Bind
  <2>2. TypeOK'
    BY <1>0, <1>u, <1>p, <1>2 DEF WriteFastPollTimeout, Bind, TypeOK, bdb, stack
  <2> QED
    BY <1>0, <2>1, <2>2, After
<1>3. ASSUME NEW given \in BOOLEAN, app_zclPollCtrlChkInRspCmdHandler(given) PROVE IInv'
  <2> DEFINE ts == IF given THEN Cancelled(timers, "fast") ELSE timers
  <2>1. Proper(ts)
    BY <1>0, CancelledTimer DEF Handled
  <2>2. timers' = Scheduled(ts, "fast") /\ ~ts["fast"].handle /\ isFast' = TRUE
    BY <1>3 DEF app_zclPollCtrlChkInRspCmdHandler
  <2>3. Proper(timers') /\ timers'["fast"].running = 1
    BY <2>1, <2>2, ScheduledTimer DEF Handled, Kind
  <2>4. TypeOK'
    BY <1>0, <1>u, <1>p, <1>3, <2>2, <2>3
       DEF app_zclPollCtrlChkInRspCmdHandler, TypeOK, Proper, bdb, stack
  <2> QED
    BY <2>2, <2>3, <2>4, After DEF Timed
<1>4. CASE app_zclPollCtrlFastPollStopCmdHandler
  <2>1. timers' = Cancelled(timers, "fast") /\ isFast' = FALSE
    BY <1>4 DEF app_zclPollCtrlFastPollStopCmdHandler, FastPollStopped
  <2>2. Proper(timers') /\ timers'["fast"].running = 0
    BY <1>0, <2>1, CancelledTimer DEF Handled
  <2>3. TypeOK'
    <3>1. isFast' \in BOOLEAN /\ polls' \in 0 .. MaxPolls /\ UNCHANGED <<chkIn, fastAttr, bound>>
      BY <1>p, <1>4, <2>1 DEF app_zclPollCtrlFastPollStopCmdHandler
    <3> QED
      BY <1>0, <1>u, <2>2, <3>1 DEF TypeOK, Proper, bdb, stack
  <2> QED
    BY <2>1, <2>2, <2>3, After DEF Timed
<1> QED
  BY <1>1, <1>2, <1>3, <1>4 DEF PollNext

LEMMA PollTimerStep ==
  ASSUME IInv, app_zclCheckInTimerCb \/ app_zclFastPollTimeoutCb, Unshared,
         due' \subseteq Slow, ceased' \in BOOLEAN
  PROVE  IInv'
<1>0. TypeOK /\ Proper(timers) /\ Timed(timers, isFast)
  BY Before
<1>1. CASE app_zclCheckInTimerCb
  <2>1. timers' = Ended(timers, "checkIn") /\ timers["checkIn"].running > 0 /\ UNCHANGED poll
    BY <1>1 DEF app_zclCheckInTimerCb
  <2>2. Proper(timers') /\ timers'["fast"] = timers["fast"]
    BY <1>0, <2>1, EndedTimer DEF Kind
  <2>3. TypeOK' /\ isFast' = isFast
    BY <1>0, <2>1, <2>2 DEF Unshared, TypeOK, Proper, poll, bdb, stack
  <2> QED
    BY <1>0, <2>2, <2>3, After DEF Timed
<1>2. CASE app_zclFastPollTimeoutCb
  <2>1. timers' = Ended(timers, "fast") /\ timers["fast"].running > 0 /\ isFast' = FALSE
        /\ UNCHANGED <<chkIn, fastAttr, bound, polls>>
    BY <1>2 DEF app_zclFastPollTimeoutCb
  <2>2. Proper(timers') /\ timers'["fast"].running = 0
    BY <1>0, <2>1, EndedTimer DEF Kind, Handled
  <2>3. TypeOK'
    <3>1. isFast' \in BOOLEAN
      BY <2>1
    <3> QED
      BY <1>0, <2>1, <2>2, <3>1 DEF Unshared, TypeOK, Proper, bdb, stack
  <2> QED
    BY <2>1, <2>2, <2>3, After DEF Timed
<1> QED
  BY <1>1, <1>2

-----------------------------------------------------------------------------
(* The application *)

LEMMA BackoffStep ==
  ASSUME IInv, app_bdbNetworkSteerStart \/ app_rejoinBackoff,
         due' \subseteq Slow, ceased' \in BOOLEAN
  PROVE  IInv'
<1>0. TypeOK /\ Proper(timers) /\ Timed(timers, isFast)
  BY Before
<1>1. CASE app_bdbNetworkSteerStart
  <2>1. timers' = Ended(timers, "steer") /\ timers["steer"].running > 0 /\ UNCHANGED poll
    BY <1>1 DEF app_bdbNetworkSteerStart
  <2>2. Proper(timers') /\ timers'["fast"] = timers["fast"]
    BY <1>0, <2>1, EndedTimer DEF Kind
  <2>3. tasks' \in Seq(Events) /\ inProgress' \in BOOLEAN
    BY <1>0, <1>1, Posted DEF app_bdbNetworkSteerStart, TypeOK, Post, Events
  <2>4. TypeOK' /\ isFast' = isFast
    BY <1>0, <1>1, <2>2, <2>3 DEF app_bdbNetworkSteerStart, TypeOK, Proper, poll, stack
  <2> QED
    BY <1>0, <2>2, <2>4, After DEF Timed
<1>2. CASE app_rejoinBackoff
  <2>1. /\ timers["rejoin"].running > 0
        /\ timers' = timers \/ timers' = Ended(timers, "rejoin")
        /\ request' \in {request, Requested("rejoin")}
    BY <1>2 DEF app_rejoinBackoff
  <2>2. Proper(timers') /\ timers'["fast"] = timers["fast"]
    BY <1>0, <2>1, EndedTimer DEF Kind
  <2>3. request' \in {"none", "discovery", "rejoin"}
    BY <1>0, <2>1 DEF TypeOK, Requested
  <2>4. TypeOK' /\ isFast' = isFast
    BY <1>0, <1>2, <2>2, <2>3 DEF app_rejoinBackoff, TypeOK, Proper, poll, bdb
  <2> QED
    BY <1>0, <2>2, <2>4, After DEF Timed
<1> QED
  BY <1>1, <1>2

\* What the application does about the outcome of a commissioning.
LEMMA Callback ==
  ASSUME TypeOK, Proper(timers), zbdemo_bdbCommissioningCb
  PROVE  /\ Proper(timers') /\ timers'["fast"] = timers["fast"]
         /\ request' \in {"none", "discovery", "rejoin"}
<1>r. request \in {"none", "discovery", "rejoin"}
      /\ Requested("rejoin") \in {"none", "discovery", "rejoin"}
  BY DEF TypeOK, Requested
<1>1. CASE status = "success"
  <2>1. timers' = SuccessTimers /\ request' = SuccessRequest
    BY <1>1 DEF zbdemo_bdbCommissioningCb
  <2> DEFINE ts == Cancelled(timers, "steer")
             us == Cancelled(ts, "rejoin")
  <2>2. Proper(ts) /\ ts["fast"] = timers["fast"]
    BY CancelledTimer DEF Handled, Kind
  <2>3. Proper(us) /\ us["fast"] = ts["fast"]
    BY <2>2, CancelledTimer DEF Handled, Kind
  <2> QED
    BY <1>r, <2>1, <2>2, <2>3, CheckInTimer DEF SuccessTimers, SuccessRequest
<1>2. CASE status \in {"noNetwork", "keyFailure"}
  BY <1>r, <1>2, SteerTimer DEF zbdemo_bdbCommissioningCb
<1>3. CASE status = "parentLost"
  BY <1>r, <1>3 DEF zbdemo_bdbCommissioningCb
<1>4. CASE status = "rejoinFailure"
  BY <1>r, <1>4, ScheduledTimer DEF zbdemo_bdbCommissioningCb, Kind, Handled
<1> QED
  BY <1>1, <1>2, <1>3, <1>4 DEF TypeOK

\* ... and of the start.
LEMMA StartTimers ==
  ASSUME Proper(timers)
  PROVE  Proper(InitTimers) /\ InitTimers["fast"] = timers["fast"]
BY CheckInTimer, SteerTimer, ScheduledTimer DEF InitTimers, Kind, Handled

-----------------------------------------------------------------------------
(* bdb.c *)

LEMMA DelayStep ==
  ASSUME IInv, NEW k \in {"delay", "permit"}, bdb_task_delay(k),
         due' \subseteq Slow, ceased' \in BOOLEAN
  PROVE  IInv'
<1>0. TypeOK /\ Proper(timers) /\ Timed(timers, isFast)
  BY Before
<1>1. timers' = Ended(timers, k) /\ timers[k].running > 0 /\ UNCHANGED poll
  BY DEF bdb_task_delay
<1>2. Proper(timers') /\ timers'["fast"] = timers["fast"]
  BY <1>0, <1>1, EndedTimer DEF Kind
<1>3. tasks' \in Seq(Events)
  BY <1>0, Posted DEF bdb_task_delay, TypeOK, Post, Events
<1>4. TypeOK' /\ isFast' = isFast
  BY <1>0, <1>2, <1>3 DEF bdb_task_delay, TypeOK, Proper, poll, stack
<1> QED
  BY <1>0, <1>2, <1>4, After DEF Timed

\* A key exchange that is done stops its timer, which the caller may have
\* ended itself.
LEMMA KeyDoneTimer ==
  ASSUME TypeOK, NEW ts, Proper(ts), ts["fast"] = timers["fast"],
         NEW ok \in BOOLEAN, KeyDone(ok, ts)
  PROVE  /\ Proper(timers') /\ timers'["fast"] = timers["fast"]
         /\ status' \in {"success", "keyFailure"} /\ onNet' \in BOOLEAN
         /\ factoryNew' \in BOOLEAN /\ tasks' \in Seq(Events)
<1>1. Proper(timers') /\ timers'["fast"] = timers["fast"]
  BY CancelledTimer DEF KeyDone, Handled, Kind
<1>2. tasks' \in Seq(Events)
  BY Posted DEF KeyDone, TypeOK, Post, Events
<1> QED
  BY <1>1, <1>2 DEF KeyDone, TypeOK

LEMMA KeyStep ==
  ASSUME IInv, bdb_retrieveTcLinkKeyStart \/ KeyAskAgain \/ KeyGiveUp
               \/ \E accepted \in BOOLEAN : KeyLeave(accepted),
         due' \subseteq Slow, ceased' \in BOOLEAN
  PROVE  IInv'
<1>0. TypeOK /\ Proper(timers) /\ Timed(timers, isFast)
  BY Before
<1>a. 0 \in 0 .. MaxAttempts + 1 /\ MaxAttempts + 1 \in 0 .. MaxAttempts + 1
  BY CommissioningAssumption
<1>1. CASE bdb_retrieveTcLinkKeyStart
  <2> DEFINE ts == Ended(timers, "keyStart")
  <2>1. Proper(ts) /\ ts["fast"] = timers["fast"] /\ timers' = KeyTimerStarted(ts)
        /\ UNCHANGED poll
    BY <1>0, <1>1, EndedTimer DEF bdb_retrieveTcLinkKeyStart, Kind
  <2>2. Proper(timers') /\ timers'["fast"] = timers["fast"]
    BY <2>1, ScheduledTimer DEF KeyTimerStarted, Kind, Handled
  <2>3. attempts' \in 0 .. MaxAttempts + 1 /\ leaveDoing' \in BOOLEAN /\ query' \in BOOLEAN
    BY <1>1, <1>a DEF bdb_retrieveTcLinkKeyStart
  <2>4. TypeOK' /\ isFast' = isFast
    BY <1>0, <1>1, <2>2, <2>3 DEF bdb_retrieveTcLinkKeyStart, TypeOK, Proper, poll
  <2> QED
    BY <1>0, <2>2, <2>4, After DEF Timed
<1>2. CASE KeyAskAgain
  <2>1. attempts' \in 0 .. MaxAttempts + 1 /\ query' \in BOOLEAN
        /\ timers' = timers /\ isFast' = isFast
    BY <1>0, <1>2, CommissioningAssumption DEF KeyAskAgain, TypeOK, poll
  <2>2. TypeOK'
    BY <1>0, <1>2, <2>1 DEF KeyAskAgain, TypeOK, poll
  <2> QED
    BY <1>0, <2>1, <2>2, After
<1>3. CASE KeyGiveUp
  <2> DEFINE ts == Ended(timers, "key")
  <2>1. Proper(ts) /\ ts["fast"] = timers["fast"] /\ KeyDone(FALSE, ts)
    BY <1>0, <1>3, EndedTimer DEF KeyGiveUp, Kind
  <2>2. /\ Proper(timers') /\ timers'["fast"] = timers["fast"]
        /\ status' \in {"success", "keyFailure"} /\ onNet' \in BOOLEAN
        /\ factoryNew' \in BOOLEAN /\ tasks' \in Seq(Events)
    BY <1>0, <2>1, KeyDoneTimer
  <2>3. TypeOK' /\ isFast' = isFast
    BY <1>0, <1>3, <1>a, <2>2 DEF KeyGiveUp, TypeOK, Proper, poll
  <2> QED
    BY <1>0, <2>2, <2>3, After DEF Timed
<1>4. ASSUME NEW accepted \in BOOLEAN, KeyLeave(accepted) PROVE IInv'
  <2>1. attempts' \in 0 .. MaxAttempts + 1 /\ leaveDoing' \in BOOLEAN /\ leaving' \in BOOLEAN
        /\ timers' = timers /\ isFast' = isFast
    BY <1>0, <1>4, <1>a DEF KeyLeave, TypeOK, poll
  <2>2. TypeOK'
    BY <1>0, <1>4, <2>1 DEF KeyLeave, TypeOK, poll
  <2> QED
    BY <1>0, <2>1, <2>2, After
<1> QED
  BY <1>1, <1>2, <1>3, <1>4

LEMMA TaskStep ==
  ASSUME IInv, bdb_task \/ bdb_mgmtPermitJoiningConfirm,
         due' \subseteq Slow, ceased' \in BOOLEAN
  PROVE  IInv'
<1>0. TypeOK /\ Proper(timers) /\ Timed(timers, isFast)
  BY Before
<1>1. CASE bdb_mgmtPermitJoiningConfirm
  <2>1. tasks' \in Seq(Events)
    BY <1>0, <1>1, TakenTask, Posted DEF bdb_mgmtPermitJoiningConfirm, TypeOK, Events
  <2>2. TypeOK' /\ timers' = timers /\ isFast' = isFast
    BY <1>0, <1>1, <2>1 DEF bdb_mgmtPermitJoiningConfirm, TypeOK, poll, stack
  <2> QED
    BY <1>0, <2>2, After
<1>2. CASE bdb_task
  <2> DEFINE evt == Head(tasks)
  <2>0. /\ UNCHANGED <<poll, status, onNet, initOk, attempts, leaveDoing, joined,
                       factoryNew, query, keyReq, leaving, centre, losses>>
        /\ Head(tasks) \in Events /\ Tail(tasks) \in Seq(Events)
        /\ Append(Tail(tasks), "permitConfirm") \in Seq(Events)
    BY <1>0, <1>2, TakenTask, Posted DEF bdb_task, TypeOK, Events
  <2>1. SUFFICES /\ Proper(timers') /\ timers'["fast"] = timers["fast"]
                 /\ tasks' \in Seq(Events) /\ state' \in {"init", "idle", "steer"}
                 /\ inProgress' \in BOOLEAN
                 /\ request' \in {"none", "discovery", "rejoin"}
    <3>1. TypeOK' /\ isFast' = isFast
      BY <1>0, <2>0, <2>1 DEF TypeOK, Proper, poll
    <3> QED
      BY <1>0, <2>1, <3>1, After DEF Timed
  <2>2. CASE state = "init"
    BY <1>0, <1>2, <2>0, <2>2, StartTimers DEF bdb_task, TypeOK
  <2>3. CASE state = "idle" /\ evt = "start"
    BY <1>0, <1>2, <2>0, <2>3 DEF bdb_task, TypeOK, Requested
  <2>4. CASE state = "idle" /\ evt = "done"
    <3>1. /\ tasks' = Tail(tasks) /\ UNCHANGED state
          /\ inProgress' = FALSE /\ zbdemo_bdbCommissioningCb
      BY <1>2, <2>4 DEF bdb_task, Confirm
    <3> QED
      BY <1>0, <2>0, <3>1, Callback DEF TypeOK
  <2>5. CASE state = "steer" /\ evt = "retrieve"
    <3>1. /\ tasks' = Tail(tasks) /\ timers' = Scheduled(timers, "keyStart")
          /\ UNCHANGED <<state, inProgress, request>>
      BY <1>2, <2>5 DEF bdb_task
    <3>2. Proper(timers') /\ timers'["fast"] = timers["fast"]
      BY <1>0, <3>1, ScheduledTimer DEF Kind, Handled
    <3> QED
      BY <1>0, <2>0, <3>1, <3>2 DEF TypeOK
  <2>6. CASE state = "steer" /\ evt = "permitJoin"
    BY <1>0, <1>2, <2>0, <2>6 DEF bdb_task, TypeOK
  <2>7. CASE state = "steer" /\ evt = "done"
    <3>1. /\ tasks' = Tail(tasks) /\ state' = "idle"
          /\ inProgress' = FALSE /\ zbdemo_bdbCommissioningCb
      BY <1>2, <2>7 DEF bdb_task, Confirm
    <3> QED
      BY <1>0, <2>0, <3>1, Callback DEF TypeOK
  <2>8. CASE /\ state # "init"
             /\ ~(state = "idle" /\ evt \in {"start", "done"})
             /\ ~(state = "steer" /\ evt \in {"retrieve", "permitJoin", "done"})
    BY <1>0, <1>2, <2>0, <2>8 DEF bdb_task, TypeOK
  <2> QED
    BY <2>2, <2>3, <2>4, <2>5, <2>6, <2>7, <2>8
<1> QED
  BY <1>1, <1>2

-----------------------------------------------------------------------------
(* The stack *)

\* A start of the stack is confirmed.
LEMMA StartDev ==
  ASSUME TypeOK, Proper(timers), NEW result \in {"ok", "fail", "lost"},
         bdb_zdoStartDevCnf(result)
  PROVE  /\ Proper(timers') /\ timers'["fast"] = timers["fast"]
         /\ onNet' \in BOOLEAN /\ initOk' \in BOOLEAN /\ tasks' \in Seq(Events)
         /\ status' \in {"success", "noNetwork", "keyFailure", "parentLost", "rejoinFailure"}
         /\ UNCHANGED <<poll, state, inProgress, attempts, leaveDoing>>
<1>0. /\ UNCHANGED <<poll, state, inProgress, attempts, leaveDoing>>
      /\ onNet' = (onNet \/ (result = "ok" /\ state # "init"))
  BY DEF bdb_zdoStartDevCnf
<1>1. onNet' \in BOOLEAN
  BY <1>0
<1>p. \A e \in Events : Append(tasks, e) \in Seq(Events)
  BY Posted DEF TypeOK
<1>2. CASE state = "idle"
  <2>1. /\ tasks' = Append(tasks, "done") /\ UNCHANGED <<timers, initOk>>
        /\ status' = CASE result = "ok" -> "success" [] result = "lost" -> "parentLost"
                       [] result = "fail" -> "rejoinFailure"
    BY <1>2 DEF bdb_zdoStartDevCnf, Post
  <2> QED
    BY <1>0, <1>1, <1>p, <2>1 DEF TypeOK, Events
<1>3. CASE state = "init"
  <2>1. /\ tasks' = Append(tasks, "initDone") /\ UNCHANGED <<timers, status>>
        /\ initOk' = (result = "ok")
    BY <1>3 DEF bdb_zdoStartDevCnf, Post
  <2> QED
    BY <1>0, <1>1, <1>p, <2>1 DEF TypeOK, Events
<1>4. CASE state = "steer" /\ result = "ok"
  <2>1. /\ status' = "success" /\ UNCHANGED <<tasks, initOk>>
        /\ timers' = Scheduled(timers, IF centre' THEN "delay" ELSE "permit")
    BY <1>4 DEF bdb_zdoStartDevCnf
  <2>2. Proper(timers') /\ timers'["fast"] = timers["fast"]
    BY <2>1, ScheduledTimer DEF Kind, Handled
  <2> QED
    BY <1>0, <1>1, <2>1, <2>2 DEF TypeOK
<1>5. CASE state = "steer" /\ result # "ok"
  <2>1. /\ status' = "noNetwork" /\ UNCHANGED <<timers, initOk>>
        /\ tasks' = Append(tasks, "done")
    BY <1>5 DEF bdb_zdoStartDevCnf, Post
  <2> QED
    BY <1>0, <1>1, <1>p, <2>1 DEF TypeOK, Events
<1> QED
  BY <1>2, <1>3, <1>4, <1>5 DEF TypeOK

LEMMA ReportStep ==
  ASSUME IInv, NEW ok \in BOOLEAN, Joins(ok) \/ Rejoins(ok),
         due' \subseteq Slow, ceased' \in BOOLEAN
  PROVE  IInv'
<1>0. TypeOK /\ Proper(timers) /\ Timed(timers, isFast)
  BY Before
<1>1. \E result \in {"ok", "fail", "lost"} : bdb_zdoStartDevCnf(result)
  BY DEF Joins, Rejoins
<1>2. /\ Proper(timers') /\ timers'["fast"] = timers["fast"]
      /\ onNet' \in BOOLEAN /\ initOk' \in BOOLEAN /\ tasks' \in Seq(Events)
      /\ status' \in {"success", "noNetwork", "keyFailure", "parentLost", "rejoinFailure"}
      /\ UNCHANGED <<poll, state, inProgress, attempts, leaveDoing>>
  BY <1>0, <1>1, StartDev
<1>3. /\ request' = "none" /\ joined' \in BOOLEAN /\ factoryNew' \in BOOLEAN
      /\ centre' \in BOOLEAN
      /\ UNCHANGED <<query, keyReq, leaving, losses>>
  BY <1>0 DEF Joins, Rejoins, TypeOK
<1>4. TypeOK' /\ isFast' = isFast
  BY <1>0, <1>2, <1>3 DEF TypeOK, Proper, poll
<1> QED
  BY <1>0, <1>2, <1>4, After DEF Timed

LEMMA NetworkStep ==
  ASSUME IInv, LosesParent \/ Answered \/ KeyArrives \/ Leaves,
         due' \subseteq Slow, ceased' \in BOOLEAN
  PROVE  IInv'
<1>0. TypeOK /\ Proper(timers) /\ Timed(timers, isFast)
  BY Before
<1>1. CASE LosesParent
  <2>1. /\ Proper(timers') /\ timers'["fast"] = timers["fast"]
        /\ onNet' \in BOOLEAN /\ initOk' \in BOOLEAN /\ tasks' \in Seq(Events)
        /\ status' \in {"success", "noNetwork", "keyFailure", "parentLost", "rejoinFailure"}
        /\ UNCHANGED <<poll, state, inProgress, attempts, leaveDoing>>
    BY <1>0, <1>1, StartDev DEF LosesParent
  <2>2. losses' \in 0 .. MaxLosses /\ joined' \in BOOLEAN
        /\ UNCHANGED <<factoryNew, request, query, keyReq, leaving, centre>>
    <3>1. losses \in 0 .. MaxLosses /\ losses < MaxLosses /\ losses' = losses + 1
      BY <1>0, <1>1 DEF LosesParent, TypeOK
    <3>2. losses' \in 0 .. MaxLosses
      BY <3>1, CommissioningAssumption
    <3> QED
      BY <1>1, <3>2 DEF LosesParent
  <2>3. TypeOK' /\ isFast' = isFast
    BY <1>0, <2>1, <2>2 DEF TypeOK, Proper, poll
  <2> QED
    BY <1>0, <2>1, <2>3, After DEF Timed
<1>2. CASE Answered
  <2>0. query' \in BOOLEAN
        /\ UNCHANGED <<poll, state, inProgress, initOk, attempts, leaveDoing, joined,
                       request, leaving, centre, losses>>
    BY <1>2 DEF Answered
  <2>1. SUFFICES /\ Proper(timers') /\ timers'["fast"] = timers["fast"]
                 /\ status' \in {"success", "noNetwork", "keyFailure", "parentLost",
                                 "rejoinFailure"}
                 /\ onNet' \in BOOLEAN /\ tasks' \in Seq(Events) /\ factoryNew' \in BOOLEAN
                 /\ keyReq' \in BOOLEAN
    <3>1. TypeOK' /\ isFast' = isFast
      BY <1>0, <2>0, <2>1 DEF TypeOK, Proper, poll
    <3> QED
      BY <1>0, <2>1, <3>1, After DEF Timed
  <2>2. CASE UNCHANGED <<timers, status, onNet, tasks, factoryNew, keyReq>>
    BY <1>0, <2>2 DEF TypeOK
  <2>3. CASE KeyDone(TRUE, timers) /\ UNCHANGED keyReq
    BY <1>0, <2>3, KeyDoneTimer DEF TypeOK
  <2>4. CASE /\ onNet' = FALSE /\ keyReq' = TRUE
             /\ UNCHANGED <<timers, status, tasks, factoryNew>>
    BY <1>0, <2>4 DEF TypeOK
  <2> QED
    BY <1>2, <2>2, <2>3, <2>4 DEF Answered
<1>3. CASE KeyArrives
  <2>1. /\ Proper(timers') /\ timers'["fast"] = timers["fast"]
        /\ status' \in {"success", "keyFailure"} /\ onNet' \in BOOLEAN
        /\ factoryNew' \in BOOLEAN /\ tasks' \in Seq(Events)
    BY <1>0, <1>3, KeyDoneTimer DEF KeyArrives
  <2>2. keyReq' \in BOOLEAN
        /\ UNCHANGED <<poll, state, inProgress, initOk, attempts, leaveDoing, joined,
                       request, query, leaving, centre, losses>>
    BY <1>3 DEF KeyArrives
  <2>3. TypeOK' /\ isFast' = isFast
    BY <1>0, <2>1, <2>2 DEF TypeOK, Proper, poll
  <2> QED
    BY <1>0, <2>1, <2>3, After DEF Timed
<1>4. CASE Leaves
  <2>1. timers' = [k \in Kind |-> Stopped] /\ isFast' = FALSE
    BY <1>4 DEF Leaves
  <2>2. Proper(timers') /\ Timed(timers', isFast')
    BY <2>1 DEF Proper, Timed, Stopped, Handled, Kind
  <2>3. tasks' \in Seq(Events)
    <3>1. <<"initDone">> \in Seq(Events)
      BY DEF Events
    <3> QED
      BY <1>4, <3>1 DEF Leaves
  <2>4. attempts' \in 0 .. MaxAttempts + 1
    BY <1>4, CommissioningAssumption DEF Leaves
  <2>5. /\ inProgress' \in BOOLEAN /\ onNet' \in BOOLEAN /\ initOk' \in BOOLEAN
        /\ leaveDoing' \in BOOLEAN /\ joined' \in BOOLEAN /\ factoryNew' \in BOOLEAN
        /\ query' \in BOOLEAN /\ keyReq' \in BOOLEAN /\ leaving' \in BOOLEAN
        /\ isFast' \in BOOLEAN /\ chkIn' \in BOOLEAN /\ fastAttr' \in BOOLEAN
        /\ bound' \in BOOLEAN
    BY <1>4 DEF Leaves
  <2>6. TypeOK'
    BY <1>0, <1>4, <2>2, <2>3, <2>4, <2>5 DEF Leaves, TypeOK, Proper
  <2> QED
    BY <2>2, <2>6, After
<1> QED
  BY <1>1, <1>2, <1>3, <1>4

-----------------------------------------------------------------------------
(* The theorems *)

LEMMA InitIInv ==
  ASSUME Init
  PROVE  IInv
<1>1. timers = [k \in Kind |-> Stopped]
      /\ isFast = FALSE /\ isFast \in BOOLEAN /\ chkIn \in BOOLEAN /\ fastAttr \in BOOLEAN
      /\ bound \in BOOLEAN /\ polls = 0
  BY DEF Init, PollInit
<1>2. Proper(timers) /\ Timed(timers, isFast)
  BY <1>1 DEF Proper, Timed, Stopped, Handled, Kind
<1>3. tasks \in Seq(Events)
  <2>1. <<"initDone">> \in Seq(Events) /\ <<>> \in Seq(Events)
    BY DEF Events
  <2> QED
    BY <2>1 DEF Init
<1>4. attempts \in 0 .. MaxAttempts + 1 /\ polls \in 0 .. MaxPolls /\ losses \in 0 .. MaxLosses
  BY <1>1, CommissioningAssumption DEF Init
<1>5. /\ inProgress \in BOOLEAN /\ onNet \in BOOLEAN /\ initOk \in BOOLEAN
      /\ leaveDoing \in BOOLEAN /\ joined \in BOOLEAN /\ factoryNew \in BOOLEAN
      /\ query \in BOOLEAN /\ keyReq \in BOOLEAN /\ leaving \in BOOLEAN
  BY DEF Init
<1>6. TypeOK
  BY <1>1, <1>2, <1>3, <1>4, <1>5 DEF Init, TypeOK, Proper
<1> QED
  BY <1>2, <1>6 DEF IInv, OneTimer, FastPollTimed, Proper, Timed

LEMMA ExpiryStep ==
  ASSUME IInv, NEW k \in Kind, Expires(k)
  PROVE  IInv'
<1>1. CASE k = "steer"
  BY <1>1, BackoffStep, Ghosts DEF Expires
<1>2. CASE k = "rejoin"
  BY <1>2, BackoffStep, Ghosts DEF Expires
<1>3. CASE k \in {"delay", "permit"}
  BY <1>3, DelayStep, Ghosts DEF Expires
<1>4. CASE k = "keyStart"
  BY <1>4, KeyStep, Ghosts DEF Expires
<1>5. CASE k = "key"
  BY <1>5, KeyStep, Ghosts DEF Expires
<1>6. CASE k = "checkIn"
  BY <1>6, PollTimerStep, Ghosts DEF Expires
<1>7. CASE k = "fast"
  BY <1>7, PollTimerStep, Ghosts DEF Expires
<1> QED
  BY <1>1, <1>2, <1>3, <1>4, <1>5, <1>6, <1>7 DEF Kind

\* The inductive invariant holds of every state.
THEOREM Invariance == Spec => []IInv
<1>1. Init => IInv
  BY InitIInv
<1>2. IInv /\ [Next]_vars => IInv'
  <2> SUFFICES ASSUME IInv, [Next]_vars PROVE IInv'
    OBVIOUS
  <2>1. CASE \E k \in Kind : Expires(k)
    BY <2>1, ExpiryStep
  <2>2. CASE Task
    BY <2>2, TaskStep, Ghosts DEF Task
  <2>3. CASE Report(BOOLEAN)
    BY <2>3, ReportStep, Ghosts DEF Report
  <2>4. CASE NetworkEvent
    BY <2>4, NetworkStep, Ghosts DEF NetworkEvent
  <2>5. CASE Command
    BY <2>5, PollStep, Ghosts DEF Command
  <2>6. CASE UNCHANGED vars
    BY <2>6 DEF IInv, TypeOK, OneTimer, FastPollTimed, vars, poll, bdb, stack
  <2> QED
    BY <2>1, <2>2, <2>3, <2>4, <2>5, <2>6 DEF Next
<1> QED
  BY <1>1, <1>2, PTL DEF Spec

\* The state of the commissioning and its queue keep their types.
THEOREM TypeCorrect == Spec => []TypeOK
<1>1. IInv => TypeOK
  BY DEF IInv
<1> QED
  BY <1>1, Invariance, PTL

\* A handle is set exactly while one timer of its name runs: no order of
\* callbacks, tasks and commands leaves a timer behind or cancels another's.
THEOREM HandlesAreTimers == Spec => []OneTimer
<1>1. IInv => OneTimer
  BY DEF IInv
<1> QED
  BY <1>1, Invariance, PTL

\* Fast polling never goes on without the timer that ends it, and the timer
\* never runs without fast polling.
THEOREM FastPollEnds == Spec => []FastPollTimed
<1>1. IInv => FastPollTimed
  BY DEF IInv
<1> QED
  BY <1>1, Invariance, PTL

-----------------------------------------------------------------------------
(* What is queued *)

Content(q) == {q[i] : i \in 1 .. Len(q)}

LEMMA PostedContent ==
  ASSUME NEW q \in Seq(Events), NEW e \in Events
  PROVE  Content(Append(q, e)) = Content(q) \cup {e}
<1> DEFINE p == Append(q, e)
<1>1. /\ Len(q) \in Nat /\ Len(p) = Len(q) + 1 /\ p[Len(q) + 1] = e
      /\ \A i \in 1 .. Len(q) : p[i] = q[i]
  OBVIOUS
<1>2. 1 .. Len(p) = (1 .. Len(q)) \cup {Len(q) + 1}
  BY <1>1
<1>3. ASSUME NEW x \in Content(p) PROVE x \in Content(q) \cup {e}
  BY <1>1, <1>2, <1>3 DEF Content
<1>4. ASSUME NEW x \in Content(q) \cup {e} PROVE x \in Content(p)
  BY <1>1, <1>2, <1>4 DEF Content
<1> QED
  BY <1>3, <1>4

LEMMA TakenContent ==
  ASSUME NEW q \in Seq(Events), q # <<>>
  PROVE  Content(q) = {Head(q)} \cup Content(Tail(q))
<1> DEFINE t == Tail(q)
<1>1. /\ Len(q) \in Nat /\ Len(q) > 0 /\ Len(t) = Len(q) - 1 /\ Head(q) = q[1]
      /\ \A i \in 1 .. Len(t) : t[i] = q[i + 1]
  OBVIOUS
<1>2. /\ \A i \in 1 .. Len(t) : i + 1 \in 1 .. Len(q)
      /\ \A i \in 1 .. Len(q) : i # 1 => i - 1 \in 1 .. Len(t) /\ q[i] = t[i - 1]
      /\ 1 \in 1 .. Len(q)
  BY <1>1
<1>3. ASSUME NEW i \in 1 .. Len(q) PROVE q[i] \in {Head(q)} \cup Content(t)
  BY <1>1, <1>2 DEF Content
<1>4. Content(t) \subseteq Content(q) /\ Head(q) \in Content(q)
  BY <1>1, <1>2 DEF Content
<1> QED
  BY <1>3, <1>4 DEF Content

-----------------------------------------------------------------------------
(* The way into the network, as an inductive invariant *)

SteerRuns == timers["steer"].running
RejoinRuns == timers["rejoin"].running
KeyRuns == timers["key"].running
DelayRuns == timers["delay"].running
PermitRuns == timers["permit"].running
StartRuns == timers["keyStart"].running

Queued == Content(tasks)

\* Until bdb_init is done, nothing but its confirmation is on the way.
Booting ==
  state = "init" =>
    /\ SteerRuns = 0 /\ RejoinRuns = 0 /\ KeyRuns = 0
    /\ DelayRuns = 0 /\ PermitRuns = 0 /\ StartRuns = 0
    /\ Queued \subseteq {"initDone"} /\ ~inProgress /\ status = "success"
    /\ ~query /\ ~keyReq /\ request # "discovery"
    /\ ~onNet => initOk /\ Queued # {} /\ ~joined /\ request = "none"
    /\ onNet => /\ Queued = {} => request = "rejoin"
                /\ joined => initOk
                /\ Queued # {} /\ initOk => joined

\* In the network the last outcome was a success.
Online == joined => status = "success"

\* Only a start that is queued keeps an idle machine busy.
Busy == state = "idle" /\ inProgress => "start" \in Queued

\* An idle bridge off the network has something on the way that tries again ...
Supported ==
  state = "idle" /\ ~joined =>
    \/ ceased \/ request # "none" \/ "start" \in Queued \/ "done" \in Queued
    \/ SteerRuns > 0 \/ RejoinRuns > 0 \/ KeyRuns > 0 \/ StartRuns > 0

\* ... and a steering one something that ends the steering.
Steering ==
  state = "steer" /\ ~joined =>
    \/ request # "none" \/ "retrieve" \in Queued \/ "permitJoin" \in Queued
    \/ "permitConfirm" \in Queued \/ "done" \in Queued
    \/ KeyRuns > 0 \/ DelayRuns > 0 \/ PermitRuns > 0 \/ StartRuns > 0

Rejoining == RejoinRuns > 0 /\ joined => state = "steer" \/ "done" \in Queued

WayIn == Booting /\ Online /\ Busy /\ Supported /\ Steering /\ Rejoining

\* The inductive invariant of the way into the network.
NetInv == IInv /\ WayIn

-----------------------------------------------------------------------------
(* What a step does to the timers and to the queue *)

Same == /\ SteerRuns' = SteerRuns /\ RejoinRuns' = RejoinRuns /\ KeyRuns' = KeyRuns
        /\ DelayRuns' = DelayRuns /\ PermitRuns' = PermitRuns /\ StartRuns' = StartRuns

LEMMA Typed ==
  ASSUME IInv
  PROVE  /\ SteerRuns \in Nat /\ RejoinRuns \in Nat /\ KeyRuns \in Nat
         /\ DelayRuns \in Nat /\ PermitRuns \in Nat /\ StartRuns \in Nat
         /\ SteerRuns \leq 1 /\ RejoinRuns \leq 1 /\ KeyRuns \leq 1
         /\ state \in {"init", "idle", "steer"}
         /\ status \in {"success", "noNetwork", "keyFailure", "parentLost", "rejoinFailure"}
         /\ request \in {"none", "discovery", "rejoin"}
         /\ inProgress \in BOOLEAN /\ onNet \in BOOLEAN /\ initOk \in BOOLEAN
         /\ joined \in BOOLEAN /\ factoryNew \in BOOLEAN
         /\ query \in BOOLEAN /\ keyReq \in BOOLEAN /\ ceased \in BOOLEAN
         /\ tasks \in Seq(Events) /\ Queued \subseteq Events
         /\ (Queued = {}) <=> (tasks = <<>>)
<1>1. TypeOK /\ Proper(timers)
  BY Before
<1>2. /\ SteerRuns \in Nat /\ RejoinRuns \in Nat /\ KeyRuns \in Nat
      /\ DelayRuns \in Nat /\ PermitRuns \in Nat /\ StartRuns \in Nat
      /\ SteerRuns \leq 1 /\ RejoinRuns \leq 1 /\ KeyRuns \leq 1
  BY <1>1 DEF Proper, Kind, Handled, SteerRuns, RejoinRuns, KeyRuns, DelayRuns,
     PermitRuns, StartRuns
<1>3. tasks \in Seq(Events)
  BY <1>1 DEF TypeOK
<1>4. /\ Queued \subseteq Events
      /\ (Queued = {}) <=> (tasks = <<>>)
  <2>1. Len(tasks) \in Nat /\ \A i \in 1 .. Len(tasks) : tasks[i] \in Events
    BY <1>3
  <2>2. tasks # <<>> => 1 \in 1 .. Len(tasks)
    BY <1>3, <2>1
  <2>3. tasks = <<>> => 1 .. Len(tasks) = {}
    BY <1>3
  <2> QED
    BY <2>1, <2>2, <2>3 DEF Queued, Content
<1> QED
  BY <1>1, <1>2, <1>3, <1>4 DEF TypeOK

\* A step of poll control touches nothing of this.
LEMMA PollWayIn ==
  ASSUME IInv, WayIn, Same, Unshared, NEW x, Follows(x), x # "rejoin"
  PROVE  WayIn'
<1>1. /\ UNCHANGED <<state, status, inProgress, onNet, initOk, joined, request, query, keyReq>>
      /\ Queued' = Queued
  BY DEF Unshared, bdb, stack, Queued
<1>2. ceased' = (ceased /\ ~joined)
  BY <1>1, Typed DEF Follows
<1> QED
  BY <1>1, <1>2 DEF WayIn, Booting, Online, Busy, Supported, Steering, Rejoining, Same

\* n more timers of the name k run.
Moved(k, n) ==
  /\ SteerRuns' = SteerRuns + (IF k = "steer" THEN n ELSE 0)
  /\ RejoinRuns' = RejoinRuns + (IF k = "rejoin" THEN n ELSE 0)
  /\ KeyRuns' = KeyRuns + (IF k = "key" THEN n ELSE 0)
  /\ DelayRuns' = DelayRuns + (IF k = "delay" THEN n ELSE 0)
  /\ PermitRuns' = PermitRuns + (IF k = "permit" THEN n ELSE 0)
  /\ StartRuns' = StartRuns + (IF k = "keyStart" THEN n ELSE 0)

LEMMA MovedTimer ==
  ASSUME IInv, NEW k \in Kind
  PROVE  /\ timers' = Ended(timers, k) /\ timers[k].running > 0 => Moved(k, -1)
         /\ timers' = Scheduled(timers, k) => Moved(k, 1)
         /\ (\A j \in Kind \ {"checkIn", "fast"} : timers'[j] = timers[j]) => Same
<1>1. timers \in [Kind -> [handle : BOOLEAN, running : Nat]]
  BY DEF IInv, TypeOK
<1>2. {"steer", "rejoin", "key", "delay", "permit", "keyStart"} \subseteq Kind \ {"checkIn", "fast"}
  BY DEF Kind
<1>3. \A j \in Kind : timers[j].running \in Nat
  BY <1>1
<1>4. ASSUME timers' = Ended(timers, k), timers[k].running > 0 PROVE Moved(k, -1)
  <2>1. \A j \in Kind : timers'[j].running = timers[j].running + (IF k = j THEN -1 ELSE 0)
    BY <1>1, <1>3, <1>4 DEF Ended
  <2> QED
    BY <1>2, <2>1 DEF Moved, SteerRuns, RejoinRuns, KeyRuns, DelayRuns, PermitRuns, StartRuns
<1>5. ASSUME timers' = Scheduled(timers, k) PROVE Moved(k, 1)
  <2>1. \A j \in Kind : timers'[j].running = timers[j].running + (IF k = j THEN 1 ELSE 0)
    BY <1>1, <1>3, <1>5 DEF Scheduled
  <2> QED
    BY <1>2, <2>1 DEF Moved, SteerRuns, RejoinRuns, KeyRuns, DelayRuns, PermitRuns, StartRuns
<1>6. ASSUME \A j \in Kind \ {"checkIn", "fast"} : timers'[j] = timers[j] PROVE Same
  BY <1>2, <1>6 DEF Same, SteerRuns, RejoinRuns, KeyRuns, DelayRuns, PermitRuns, StartRuns
<1> QED
  BY <1>4, <1>5, <1>6

\* A step posts e.
LEMMA PostStep ==
  ASSUME IInv, NEW e \in Events, tasks' = Append(tasks, e)
  PROVE  Queued' = Queued \cup {e}
<1>1. tasks \in Seq(Events)
  BY DEF IInv, TypeOK
<1> QED
  BY <1>1, PostedContent DEF Queued

\* A step takes the first event, and may post another.
LEMMA TakeStep ==
  ASSUME IInv, tasks # <<>>
  PROVE  /\ Head(tasks) \in Events
         /\ Queued = {Head(tasks)} \cup Content(Tail(tasks))
         /\ \A e \in Events : Content(Append(Tail(tasks), e)) = Content(Tail(tasks)) \cup {e}
<1>1. tasks \in Seq(Events)
  BY Typed
<1>2. Head(tasks) \in Events /\ Tail(tasks) \in Seq(Events)
  BY <1>1, TakenTask
<1> QED
  BY <1>1, <1>2, TakenContent, PostedContent DEF Queued

-----------------------------------------------------------------------------
(* Timers *)

\* The steering timer posts a start, unless one is queued or a request is made.
LEMMA SteerStartWayIn ==
  ASSUME IInv, WayIn, app_bdbNetworkSteerStart, Follows("steer")
  PROVE  WayIn'
<1>1. /\ Moved("steer", -1) /\ SteerRuns > 0
      /\ UNCHANGED <<state, status, onNet, initOk, joined, request, query, keyReq>>
  BY MovedTimer DEF app_bdbNetworkSteerStart, Kind, SteerRuns, stack
<1>2. state # "init"
  BY <1>1 DEF WayIn, Booting
<1>3. CASE state = "idle" /\ request = "none" /\ ~inProgress
  <2>1. Queued' = Queued \cup {"start"} /\ inProgress' = TRUE
    BY <1>3, PostStep DEF app_bdbNetworkSteerStart, Post, Events
  <2> QED
    BY <1>1, <1>2, <2>1, Typed
       DEF WayIn, Booting, Online, Busy, Supported, Steering, Rejoining, Moved
<1>4. CASE ~(state = "idle" /\ request = "none" /\ ~inProgress)
  <2>1. Queued' = Queued /\ inProgress' = inProgress
    BY <1>4 DEF app_bdbNetworkSteerStart, Queued
  <2> QED
    BY <1>1, <1>2, <1>4, <2>1, Typed
       DEF WayIn, Booting, Online, Busy, Supported, Steering, Rejoining, Moved
<1> QED
  BY <1>3, <1>4

LEMMA BackoffWayIn ==
  ASSUME IInv, WayIn, app_rejoinBackoff, Follows("rejoin")
  PROVE  WayIn'
<1>1. /\ RejoinRuns > 0 /\ Queued' = Queued
      /\ UNCHANGED <<state, status, inProgress, onNet, initOk, joined, query, keyReq>>
      /\ ceased' = (factoryNew \/ (ceased /\ ~joined'))
  BY Typed DEF app_rejoinBackoff, bdb, RejoinRuns, Queued, Follows
<1>2. state # "init"
  BY <1>1 DEF WayIn, Booting
<1>3. CASE factoryNew
  <2>1. Moved("rejoin", -1) /\ request' = request /\ ceased'
    BY <1>1, <1>3, MovedTimer DEF app_rejoinBackoff, RejoinBackoffEnds, Kind
  <2> QED
    BY <1>1, <1>2, <2>1, Typed
       DEF WayIn, Booting, Online, Busy, Supported, Steering, Rejoining, Moved
<1>4. CASE ~factoryNew
  <2>1. Same /\ request' # "none"
    BY <1>4, MovedTimer DEF app_rejoinBackoff, RejoinBackoffEnds, Requested, Kind
  <2> QED
    BY <1>1, <1>2, <2>1
       DEF WayIn, Booting, Online, Busy, Supported, Steering, Rejoining, Same
<1> QED
  BY <1>3, <1>4, Typed

LEMMA DelayWayIn ==
  ASSUME IInv, WayIn, NEW k \in {"delay", "permit"}, bdb_task_delay(k), Follows(k)
  PROVE  WayIn'
<1>1. /\ Moved(k, -1) /\ timers[k].running > 0
      /\ Queued' = Queued \cup {IF k = "delay" THEN "retrieve" ELSE "permitJoin"}
      /\ UNCHANGED <<state, status, inProgress, onNet, initOk, joined, request, query, keyReq>>
  BY MovedTimer, PostStep DEF bdb_task_delay, Post, Kind, Events, stack
<1>2. state # "init"
  BY <1>1 DEF WayIn, Booting, DelayRuns, PermitRuns
<1>3. ceased' = (ceased /\ ~joined)
  BY <1>1, Typed DEF Follows
<1> QED
  BY <1>1, <1>2, <1>3, Typed
     DEF WayIn, Booting, Online, Busy, Supported, Steering, Rejoining, Moved

LEMMA KeyStartWayIn ==
  ASSUME IInv, WayIn, bdb_retrieveTcLinkKeyStart, Follows("keyStart")
  PROVE  WayIn'
<1> DEFINE ts == Ended(timers, "keyStart")
<1>k. {"steer", "rejoin", "key", "delay", "permit", "keyStart"} \subseteq Kind /\ "key" \in Handled
  BY DEF Kind, Handled
<1>1. /\ StartRuns > 0 /\ timers' = KeyTimerStarted(ts) /\ Queued' = Queued
      /\ UNCHANGED <<state, status, inProgress, onNet, initOk, joined, request, keyReq>>
  BY DEF bdb_retrieveTcLinkKeyStart, StartRuns, Queued
<1>2. state # "init"
  BY <1>1 DEF WayIn, Booting
<1>3. /\ Proper(ts) /\ \A j \in Kind : j # "keyStart" => ts[j] = timers[j]
  BY <1>1, <1>k, Before, EndedTimer DEF StartRuns
<1>4. /\ timers'["key"].running = 1
      /\ \A j \in Kind : j # "key" => timers'[j] = ts[j]
  <2>1. CASE ts["key"].handle
    BY <1>1, <1>3, <1>k, <2>1 DEF KeyTimerStarted, Proper
  <2>2. CASE ~ts["key"].handle
    BY <1>1, <1>3, <1>k, <2>2, ScheduledTimer DEF KeyTimerStarted
  <2> QED
    BY <2>1, <2>2
<1>5. /\ KeyRuns' = 1 /\ SteerRuns' = SteerRuns /\ RejoinRuns' = RejoinRuns
      /\ DelayRuns' = DelayRuns /\ PermitRuns' = PermitRuns
  BY <1>3, <1>4, <1>k DEF SteerRuns, RejoinRuns, KeyRuns, DelayRuns, PermitRuns
<1> QED
  BY <1>1, <1>2, <1>5, Typed
     DEF WayIn, Booting, Online, Busy, Supported, Steering, Rejoining

\* The key timer goes on while the exchange is asked for, or left for.
LEMMA KeyAgainWayIn ==
  ASSUME IInv, WayIn, KeyAskAgain \/ \E accepted \in BOOLEAN : KeyLeave(accepted),
         Follows("key")
  PROVE  WayIn'
<1>1. /\ KeyRuns > 0 /\ Queued' = Queued /\ timers' = timers
      /\ UNCHANGED <<state, status, inProgress, onNet, initOk, joined, request, keyReq>>
  BY DEF KeyAskAgain, KeyLeave, KeyRuns, Queued
<1>2. state # "init" /\ Same
  BY <1>1, MovedTimer DEF WayIn, Booting, Kind
<1> QED
  BY <1>1, <1>2 DEF WayIn, Booting, Online, Busy, Supported, Steering, Rejoining, Same

\* KeyDone ends the key timer, which its caller may have ended already.
LEMMA KeyDoneRuns ==
  ASSUME IInv, NEW ok \in BOOLEAN, NEW ts, Proper(ts),
         \A j \in Kind \ {"key"} : ts[j] = timers[j],
         KeyDone(ok, ts)
  PROVE  /\ KeyRuns' = 0
         /\ SteerRuns' = SteerRuns /\ RejoinRuns' = RejoinRuns /\ DelayRuns' = DelayRuns
         /\ PermitRuns' = PermitRuns /\ StartRuns' = StartRuns
         /\ Queued' = Queued \cup {IF ok THEN "permitJoin" ELSE "done"}
<1>1. timers' = Cancelled(ts, "key")
  BY DEF KeyDone
<1>2. "key" \in Handled /\ {"steer", "rejoin", "delay", "permit", "keyStart"} \subseteq Kind \ {"key"}
  BY DEF Handled, Kind
<1>3. /\ timers'["key"].running = 0
      /\ \A j \in Kind \ {"key"} : timers'[j] = timers[j]
  BY <1>1, <1>2, CancelledTimer
<1>4. Queued' = Queued \cup {IF ok THEN "permitJoin" ELSE "done"}
  BY PostStep DEF KeyDone, Post, Events
<1> QED
  BY <1>2, <1>3, <1>4 DEF SteerRuns, RejoinRuns, KeyRuns, DelayRuns, PermitRuns, StartRuns

\* An exchange that is given up ends the steering, or has the bridge steer.
LEMMA KeyGiveUpWayIn ==
  ASSUME IInv, WayIn, KeyGiveUp, Follows("key")
  PROVE  WayIn'
<1> DEFINE ts == Ended(timers, "key")
<1>1. /\ KeyRuns > 0 /\ ~joined /\ KeyDone(FALSE, ts)
      /\ UNCHANGED <<state, inProgress, initOk, joined, request, query, keyReq>>
  BY DEF KeyGiveUp, KeyRuns
<1>2. state # "init"
  BY <1>1 DEF WayIn, Booting
<1>3. Proper(ts) /\ \A j \in Kind \ {"key"} : ts[j] = timers[j]
  BY <1>1, Before, EndedTimer DEF Kind, KeyRuns
<1>4. /\ SteerRuns' = SteerRuns /\ RejoinRuns' = RejoinRuns
      /\ Queued' = Queued \cup {"done"}
  BY <1>1, <1>3, KeyDoneRuns
<1> QED
  BY <1>1, <1>2, <1>4 DEF WayIn, Booting, Online, Busy, Supported, Steering, Rejoining

-----------------------------------------------------------------------------
(* Tasks *)

\* What the callback of the application does to the timers.
LEMMA CallbackRuns ==
  ASSUME IInv, zbdemo_bdbCommissioningCb
  PROVE  /\ KeyRuns' = KeyRuns /\ DelayRuns' = DelayRuns /\ PermitRuns' = PermitRuns
         /\ StartRuns' = StartRuns
         /\ status = "success" => SteerRuns' = 0 /\ RejoinRuns' = 0 /\ request' = SuccessRequest
         /\ status \in {"noNetwork", "keyFailure"} =>
              SteerRuns' = 1 /\ RejoinRuns' = RejoinRuns /\ request' = request
         /\ status = "parentLost" =>
              SteerRuns' = SteerRuns /\ RejoinRuns' = RejoinRuns /\ request' = Requested("rejoin")
         /\ status = "rejoinFailure" =>
              SteerRuns' = SteerRuns /\ RejoinRuns' = 1 /\ request' = request
<1>0. Proper(timers)
  BY Before
<1>k. /\ {"steer", "rejoin", "key", "delay", "permit", "keyStart"} \subseteq Kind
      /\ "steer" \in Handled /\ "rejoin" \in Handled /\ "checkIn" \in Kind
  BY DEF Kind, Handled
<1> DEFINE ts == Cancelled(timers, "steer")
<1>1. /\ Proper(ts) /\ ~ts["steer"].handle /\ ts["steer"].running = 0
      /\ \A j \in Kind : j # "steer" => ts[j] = timers[j]
  BY <1>0, <1>k, CancelledTimer
<1>2. CASE status = "success"
  <2> DEFINE us == Cancelled(ts, "rejoin")
  <2>1. /\ Proper(us) /\ us["rejoin"].running = 0
        /\ \A j \in Kind : j # "rejoin" => us[j] = ts[j]
    BY <1>1, <1>k, CancelledTimer
  <2>2. timers' = CheckInStarted(us) /\ request' = SuccessRequest
    BY <1>2 DEF zbdemo_bdbCommissioningCb, SuccessTimers
  <2>3. \A j \in Kind : j # "checkIn" => timers'[j] = us[j]
    BY <2>1, <2>2, <1>k, ScheduledTimer DEF CheckInStarted
  <2> QED
    BY <1>2, <1>1, <1>k, <2>1, <2>2, <2>3
       DEF SteerRuns, RejoinRuns, KeyRuns, DelayRuns, PermitRuns, StartRuns
<1>3. CASE status \in {"noNetwork", "keyFailure"}
  <2>1. timers' = Scheduled(ts, "steer") /\ request' = request
    BY <1>3 DEF zbdemo_bdbCommissioningCb
  <2>2. /\ timers'["steer"].running = 1
        /\ \A j \in Kind : j # "steer" => timers'[j] = ts[j]
    BY <1>1, <1>k, <2>1, ScheduledTimer
  <2> QED
    BY <1>3, <1>1, <1>k, <2>1, <2>2
       DEF SteerRuns, RejoinRuns, KeyRuns, DelayRuns, PermitRuns, StartRuns
<1>4. CASE status = "parentLost"
  BY <1>4 DEF zbdemo_bdbCommissioningCb, SteerRuns, RejoinRuns, KeyRuns, DelayRuns, PermitRuns,
     StartRuns
<1>5. CASE status = "rejoinFailure"
  <2>1. request' = request
        /\ timers' = IF timers["rejoin"].handle THEN timers ELSE Scheduled(timers, "rejoin")
    BY <1>5 DEF zbdemo_bdbCommissioningCb
  <2>2. /\ timers'["rejoin"].running = 1
        /\ \A j \in Kind : j # "rejoin" => timers'[j] = timers[j]
    <3>1. CASE timers["rejoin"].handle
      BY <1>0, <1>k, <2>1, <3>1 DEF Proper
    <3>2. CASE ~timers["rejoin"].handle
      BY <1>0, <1>k, <2>1, <3>2, ScheduledTimer
    <3> QED
      BY <3>1, <3>2
  <2> QED
    BY <1>5, <1>k, <2>1, <2>2
       DEF SteerRuns, RejoinRuns, KeyRuns, DelayRuns, PermitRuns, StartRuns
<1> QED
  BY <1>2, <1>3, <1>4, <1>5, Typed

\* What the end of the start does to the timers.
LEMMA InitRuns ==
  ASSUME IInv, timers' = InitTimers
  PROVE  /\ KeyRuns' = KeyRuns /\ DelayRuns' = DelayRuns /\ PermitRuns' = PermitRuns
         /\ StartRuns' = StartRuns
         /\ initOk /\ onNet => SteerRuns' = SteerRuns /\ RejoinRuns' = RejoinRuns
         /\ initOk /\ ~onNet => SteerRuns' = 1 /\ RejoinRuns' = RejoinRuns
         /\ ~initOk /\ onNet => SteerRuns' = SteerRuns /\ RejoinRuns' = 1
         /\ ~initOk /\ ~onNet => SteerRuns' = SteerRuns /\ RejoinRuns' = RejoinRuns
<1>0. Proper(timers)
  BY Before
<1>k. /\ {"steer", "rejoin", "key", "delay", "permit", "keyStart"} \subseteq Kind
      /\ "steer" \in Handled /\ "rejoin" \in Handled /\ "checkIn" \in Kind
  BY DEF Kind, Handled
<1>1. CASE initOk /\ onNet
  <2>1. timers' = CheckInStarted(timers)
    BY <1>1 DEF InitTimers
  <2>2. \A j \in Kind : j # "checkIn" => timers'[j] = timers[j]
    BY <1>0, <1>k, <2>1, ScheduledTimer DEF CheckInStarted
  <2> QED
    BY <1>1, <1>k, <2>2 DEF SteerRuns, RejoinRuns, KeyRuns, DelayRuns, PermitRuns, StartRuns
<1>2. CASE initOk /\ ~onNet
  <2> DEFINE ts == Cancelled(timers, "steer")
  <2>1. /\ Proper(ts) /\ ~ts["steer"].handle
        /\ \A j \in Kind : j # "steer" => ts[j] = timers[j]
    BY <1>0, <1>k, CancelledTimer
  <2>2. timers' = Scheduled(ts, "steer")
    BY <1>2 DEF InitTimers
  <2>3. /\ timers'["steer"].running = 1
        /\ \A j \in Kind : j # "steer" => timers'[j] = ts[j]
    BY <1>k, <2>1, <2>2, ScheduledTimer
  <2> QED
    BY <1>2, <1>k, <2>1, <2>3
       DEF SteerRuns, RejoinRuns, KeyRuns, DelayRuns, PermitRuns, StartRuns
<1>3. CASE ~initOk /\ onNet
  <2>1. timers' = IF timers["rejoin"].handle THEN timers ELSE Scheduled(timers, "rejoin")
    BY <1>3 DEF InitTimers
  <2>2. /\ timers'["rejoin"].running = 1
        /\ \A j \in Kind : j # "rejoin" => timers'[j] = timers[j]
    <3>1. CASE timers["rejoin"].handle
      BY <1>0, <1>k, <2>1, <3>1 DEF Proper
    <3>2. CASE ~timers["rejoin"].handle
      BY <1>0, <1>k, <2>1, <3>2, ScheduledTimer
    <3> QED
      BY <3>1, <3>2
  <2> QED
    BY <1>3, <1>k, <2>2 DEF SteerRuns, RejoinRuns, KeyRuns, DelayRuns, PermitRuns, StartRuns
<1>4. CASE ~initOk /\ ~onNet
  <2>1. timers' = timers
    BY <1>4 DEF InitTimers
  <2> QED
    BY <1>4, <2>1 DEF SteerRuns, RejoinRuns, KeyRuns, DelayRuns, PermitRuns, StartRuns
<1> QED
  BY <1>1, <1>2, <1>3, <1>4, Typed

\* The start is done: the bridge is in its network, looks for it or looks for one.
LEMMA InitTaskWayIn ==
  ASSUME IInv, WayIn, bdb_task, Follows("none"), state = "init"
  PROVE  WayIn'
<1> DEFINE rest == Content(Tail(tasks))
<1>1. /\ tasks # <<>> /\ tasks' = Tail(tasks) /\ state' = "idle"
      /\ timers' = IF Head(tasks) = "initDone" THEN InitTimers ELSE timers
      /\ UNCHANGED <<status, inProgress, onNet, initOk, joined, request, query, keyReq>>
  BY DEF bdb_task
<1>2. Queued = {Head(tasks)} \cup rest
  BY <1>1, TakeStep
<1>3. /\ Head(tasks) = "initDone" /\ Queued # {} /\ ~inProgress /\ status = "success"
      /\ SteerRuns = 0 /\ RejoinRuns = 0
      /\ onNet => (initOk <=> joined)
      /\ ~onNet => initOk /\ ~joined
  BY <1>2, Typed DEF WayIn, Booting
<1>4. /\ initOk /\ onNet => RejoinRuns' = RejoinRuns
      /\ initOk /\ ~onNet => SteerRuns' = 1 /\ RejoinRuns' = RejoinRuns
      /\ ~initOk /\ onNet => RejoinRuns' = 1
  BY <1>1, <1>3, InitRuns
<1> QED
  BY <1>1, <1>3, <1>4, Typed DEF WayIn, Booting, Online, Busy, Supported, Steering, Rejoining

\* A steering starts: it asks for the network or opens the one it is in.
LEMMA StartTaskWayIn ==
  ASSUME IInv, WayIn, bdb_task, Follows("none"), state = "idle", Head(tasks) = "start"
  PROVE  WayIn'
<1> DEFINE rest == Content(Tail(tasks))
<1>1. /\ tasks # <<>> /\ state' = "steer"
      /\ IF onNet THEN tasks' = Append(Tail(tasks), "permitConfirm") /\ UNCHANGED request
         ELSE tasks' = Tail(tasks) /\ request' = Requested("discovery")
      /\ UNCHANGED <<status, joined>>
  BY DEF bdb_task
<1>2. Queued' = (IF onNet THEN rest \cup {"permitConfirm"} ELSE rest)
      /\ (~onNet => request' # "none")
  BY <1>1, TakeStep DEF Queued, Requested, Events
<1> QED
  BY <1>1, <1>2, Typed DEF WayIn, Booting, Online, Busy, Supported, Steering, Rejoining

\* A commissioning is confirmed, be it the one that ended or not: in the network
\* the rejoin timer goes, off it the bridge asks, or sets a timer to ask.
LEMMA DoneTaskWayIn ==
  ASSUME IInv, WayIn, bdb_task, Follows("none"), state \in {"idle", "steer"},
         Head(tasks) = "done"
  PROVE  WayIn'
<1>1. /\ state' = "idle" /\ inProgress' = FALSE /\ zbdemo_bdbCommissioningCb
      /\ UNCHANGED <<status, joined>>
  BY DEF bdb_task, Confirm
<1>2. /\ status = "success" => RejoinRuns' = 0 /\ request' = SuccessRequest
      /\ status \in {"noNetwork", "keyFailure"} => SteerRuns' = 1
      /\ status = "parentLost" => request' = Requested("rejoin")
      /\ status = "rejoinFailure" => RejoinRuns' = 1
  BY <1>1, CallbackRuns
<1>3. joined => RejoinRuns' = 0
  BY <1>2 DEF WayIn, Online
<1>4. ~joined => request' # "none" \/ SteerRuns' = 1 \/ RejoinRuns' = 1
  BY <1>2, Typed DEF SuccessRequest, Requested
<1> QED
  BY <1>1, <1>3, <1>4, Typed DEF WayIn, Booting, Online, Busy, Supported, Steering, Rejoining

\* The key is asked for in a second, the network is to be opened.
LEMMA SteerTaskWayIn ==
  ASSUME IInv, WayIn, bdb_task, Follows("none"), state = "steer",
         Head(tasks) \in {"retrieve", "permitJoin"}
  PROVE  WayIn'
<1> DEFINE rest == Content(Tail(tasks))
<1>1. tasks # <<>> /\ state' = "steer" /\ UNCHANGED <<status, joined, request>>
  BY DEF bdb_task
<1>2. CASE Head(tasks) = "retrieve"
  <2>1. Moved("keyStart", 1)
    BY <1>2, MovedTimer DEF bdb_task, Kind
  <2> QED
    BY <1>1, <2>1, Typed DEF WayIn, Booting, Online, Busy, Supported, Steering, Rejoining, Moved
<1>3. CASE Head(tasks) = "permitJoin"
  <2>1. tasks' = Append(Tail(tasks), "permitConfirm")
    BY <1>3 DEF bdb_task
  <2>2. "permitConfirm" \in Queued'
    BY <1>1, <2>1, TakeStep DEF Queued, Events
  <2> QED
    BY <1>1, <2>2 DEF WayIn, Booting, Online, Busy, Supported, Steering, Rejoining
<1> QED
  BY <1>2, <1>3

\* An event that is not expected is dropped: none that anything waits for.
LEMMA DropTaskWayIn ==
  ASSUME IInv, WayIn, bdb_task, Follows("none"), state \in {"idle", "steer"},
         ~(state = "idle" /\ Head(tasks) \in {"start", "done"}),
         ~(state = "steer" /\ Head(tasks) \in {"retrieve", "permitJoin", "done"})
  PROVE  WayIn'
<1> DEFINE rest == Content(Tail(tasks))
<1>1. /\ tasks # <<>> /\ tasks' = Tail(tasks) /\ Head(tasks) # "permitConfirm"
      /\ timers' = timers
      /\ UNCHANGED <<state, status, inProgress, onNet, initOk, joined, request, query, keyReq>>
  BY DEF bdb_task
<1>2. Queued = {Head(tasks)} \cup rest /\ Queued' = rest
  BY <1>1, TakeStep DEF Queued
<1>3. Same /\ ceased' = (ceased /\ ~joined)
  BY <1>1, MovedTimer, Typed DEF Kind, Follows
<1> QED
  BY <1>1, <1>2, <1>3
     DEF WayIn, Booting, Online, Busy, Supported, Steering, Rejoining, Same

LEMMA PermitConfirmWayIn ==
  ASSUME IInv, WayIn, bdb_mgmtPermitJoiningConfirm, Follows("none")
  PROVE  WayIn'
<1> DEFINE rest == Content(Tail(tasks))
<1>1. /\ tasks # <<>> /\ Head(tasks) = "permitConfirm" /\ status' = "success"
      /\ tasks' = IF state = "steer" THEN Append(Tail(tasks), "done") ELSE Tail(tasks)
      /\ timers' = timers
      /\ UNCHANGED <<state, inProgress, onNet, initOk, joined, request, query, keyReq>>
  BY DEF bdb_mgmtPermitJoiningConfirm, stack
<1>2. /\ Queued = {Head(tasks)} \cup rest
      /\ Queued' = IF state = "steer" THEN rest \cup {"done"} ELSE rest
  BY <1>1, TakeStep DEF Queued, Events
<1>3. Same /\ ceased' = (ceased /\ ~joined) /\ state # "init"
  BY <1>1, <1>2, MovedTimer, Typed DEF Kind, Follows, WayIn, Booting
<1> QED
  BY <1>1, <1>2, <1>3
     DEF WayIn, Booting, Online, Busy, Supported, Steering, Rejoining, Same

LEMMA TaskWayIn ==
  ASSUME IInv, WayIn, Task
  PROVE  WayIn'
<1>1. CASE bdb_mgmtPermitJoiningConfirm
  BY <1>1, PermitConfirmWayIn DEF Task
<1>2. CASE bdb_task
  <2>1. Follows("none") /\ state \in {"init", "idle", "steer"}
    BY Typed DEF Task
  <2> QED
    BY <1>2, <2>1, InitTaskWayIn, StartTaskWayIn, DoneTaskWayIn, SteerTaskWayIn, DropTaskWayIn
<1> QED
  BY <1>1, <1>2 DEF Task

-----------------------------------------------------------------------------
(* The stack *)

\* A start of the stack is confirmed: of the boot, of a rejoin or a loss in
\* the idle state, of a steering.
LEMMA StartDevWayIn ==
  ASSUME IInv, WayIn, NEW result \in {"ok", "fail", "lost"}, bdb_zdoStartDevCnf(result),
         request' = "none", joined' = (result = "ok"), query' = query, keyReq' = keyReq,
         state = "init" => onNet
  PROVE  WayIn'
<1>0. /\ UNCHANGED <<state, inProgress>>
      /\ onNet' = (onNet \/ (result = "ok" /\ state # "init"))
  BY DEF bdb_zdoStartDevCnf
<1>1. CASE state = "init"
  <2>1. /\ initOk' = (result = "ok") /\ timers' = timers /\ status' = status
        /\ tasks' = Append(tasks, "initDone")
    BY <1>1 DEF bdb_zdoStartDevCnf, Post
  <2>2. Same /\ Queued' = Queued \cup {"initDone"}
    BY <2>1, MovedTimer, PostStep DEF Kind, Events
  <2>3. onNet' = TRUE /\ (joined' <=> initOk')
    BY <1>0, <1>1, <2>1
  <2>4. Booting'
    BY <1>0, <1>1, <2>1, <2>2, <2>3 DEF WayIn, Booting, Same
  <2> QED
    BY <1>0, <1>1, <2>1, <2>2, <2>4
       DEF WayIn, Booting, Online, Busy, Supported, Steering, Rejoining, Same
<1>2. CASE state = "idle"
  <2>1. /\ tasks' = Append(tasks, "done") /\ (result = "ok" => status' = "success")
    BY <1>2 DEF bdb_zdoStartDevCnf, Post
  <2>2. Queued' = Queued \cup {"done"}
    BY <2>1, PostStep DEF Events
  <2> QED
    BY <1>0, <1>2, <2>1, <2>2
       DEF WayIn, Booting, Online, Busy, Supported, Steering, Rejoining
<1>3. CASE state = "steer" /\ result = "ok"
  <2>1. status' = "success"
    BY <1>3 DEF bdb_zdoStartDevCnf
  <2> QED
    BY <1>0, <1>3, <2>1 DEF WayIn, Booting, Online, Busy, Supported, Steering, Rejoining
<1>4. CASE state = "steer" /\ result # "ok"
  <2>1. tasks' = Append(tasks, "done")
    BY <1>4 DEF bdb_zdoStartDevCnf, Post
  <2>2. Queued' = Queued \cup {"done"}
    BY <2>1, PostStep DEF Events
  <2> QED
    BY <1>0, <1>4, <2>2 DEF WayIn, Booting, Online, Busy, Supported, Steering, Rejoining
<1> QED
  BY <1>1, <1>2, <1>3, <1>4, Typed

LEMMA ReportWayIn ==
  ASSUME IInv, WayIn, NEW ok \in BOOLEAN, Joins(ok) \/ Rejoins(ok)
  PROVE  WayIn'
<1>1. PICK result \in {"ok", "fail"} :
        bdb_zdoStartDevCnf(result) /\ joined' = (result = "ok")
  BY DEF Joins, Rejoins
<1>2. /\ request' = "none" /\ query' = query /\ keyReq' = keyReq
      /\ request \in {"discovery", "rejoin"}
  BY DEF Joins, Rejoins
<1>3. state = "init" => onNet
  BY <1>2, Typed DEF WayIn, Booting
<1> QED
  BY <1>1, <1>2, <1>3, StartDevWayIn

LEMMA LossWayIn ==
  ASSUME IInv, WayIn, LosesParent
  PROVE  WayIn'
<1>1. /\ bdb_zdoStartDevCnf("lost") /\ joined' = FALSE /\ joined
      /\ request' = "none" /\ query' = query /\ keyReq' = keyReq
  BY DEF LosesParent
<1>2. state = "init" => onNet
  BY <1>1, Typed DEF WayIn, Booting
<1> QED
  BY <1>1, <1>2, StartDevWayIn

\* Answers are of an exchange that has begun, in the network.
LEMMA AnswerWayIn ==
  ASSUME IInv, WayIn, Answered \/ KeyArrives
  PROVE  WayIn'
<1>1. /\ joined /\ (query \/ keyReq)
      /\ UNCHANGED <<state, inProgress, initOk, joined, request>>
  BY DEF Answered, KeyArrives
<1>2. state # "init"
  BY <1>1 DEF WayIn, Booting
<1>3. CASE KeyDone(TRUE, timers)
  <2>1. /\ RejoinRuns' = RejoinRuns /\ Queued' = Queued \cup {"permitJoin"}
        /\ status' = "success"
    BY <1>3, KeyDoneRuns, Before DEF KeyDone
  <2> QED
    BY <1>1, <1>2, <2>1 DEF WayIn, Booting, Online, Busy, Supported, Steering, Rejoining
<1>4. CASE UNCHANGED <<timers, status, tasks>>
  <2>1. Same /\ Queued' = Queued
    BY <1>4, MovedTimer DEF Kind, Queued
  <2> QED
    BY <1>1, <1>2, <1>4, <2>1
       DEF WayIn, Booting, Online, Busy, Supported, Steering, Rejoining, Same
<1> QED
  BY <1>3, <1>4 DEF Answered, KeyArrives

\* A bridge that boots, without a network or with one.
Boots ==
  /\ factoryNew \in BOOLEAN /\ state = "init" /\ status = "success" /\ inProgress = FALSE
  /\ onNet = ~factoryNew /\ initOk = TRUE /\ joined = FALSE
  /\ tasks = (IF factoryNew THEN <<"initDone">> ELSE <<>>)
  /\ request = (IF factoryNew THEN "none" ELSE "rejoin")
  /\ query = FALSE /\ keyReq = FALSE /\ timers = [k \in Kind |-> Stopped]

LEMMA BootWayIn == Boots => WayIn
<1> SUFFICES ASSUME Boots PROVE WayIn
  OBVIOUS
<1>1. /\ SteerRuns = 0 /\ RejoinRuns = 0 /\ KeyRuns = 0 /\ DelayRuns = 0
      /\ PermitRuns = 0 /\ StartRuns = 0
  BY DEF Boots, Kind, Stopped, SteerRuns, RejoinRuns, KeyRuns, DelayRuns, PermitRuns, StartRuns
<1>2. Queued = IF factoryNew THEN {"initDone"} ELSE {}
  BY DEF Boots, Queued, Content
<1>3. CASE factoryNew
  <2>1. onNet = FALSE /\ Queued = {"initDone"}
    BY <1>2, <1>3 DEF Boots
  <2> QED
    BY <1>1, <1>3, <2>1
       DEF Boots, WayIn, Booting, Online, Busy, Supported, Steering, Rejoining
<1>4. CASE ~factoryNew
  <2>1. onNet = TRUE /\ Queued = {} /\ request = "rejoin"
    BY <1>2, <1>4 DEF Boots
  <2> QED
    BY <1>1, <1>4, <2>1
       DEF Boots, WayIn, Booting, Online, Busy, Supported, Steering, Rejoining
<1> QED
  BY <1>3, <1>4 DEF Boots

LEMMA RebootWayIn == Boots' => WayIn'
BY BootWayIn, PTL

-----------------------------------------------------------------------------
(* The theorems *)

LEMMA ExpiryWayIn ==
  ASSUME IInv, WayIn, NEW k \in Kind, Expires(k)
  PROVE  WayIn'
<1>0. Follows(k) /\ timers[k].running > 0
  BY DEF Expires
<1>1. CASE k = "steer"
  BY <1>0, <1>1, SteerStartWayIn DEF Expires
<1>2. CASE k = "rejoin"
  BY <1>0, <1>2, BackoffWayIn DEF Expires
<1>3. CASE k \in {"delay", "permit"}
  BY <1>0, <1>3, DelayWayIn DEF Expires
<1>4. CASE k = "keyStart"
  BY <1>0, <1>4, KeyStartWayIn DEF Expires
<1>5. CASE k = "key"
  BY <1>0, <1>5, KeyAgainWayIn, KeyGiveUpWayIn DEF Expires
<1>6. CASE k \in {"checkIn", "fast"}
  <2>1. Unshared /\ k # "rejoin" /\ timers' = Ended(timers, k)
    BY <1>6 DEF Expires, app_zclCheckInTimerCb, app_zclFastPollTimeoutCb
  <2>2. Moved(k, -1)
    BY <1>0, <2>1, MovedTimer
  <2>3. Same
    BY <1>6, <2>2, Typed DEF Moved, Same
  <2> QED
    BY <1>0, <2>1, <2>3, PollWayIn
<1> QED
  BY <1>1, <1>2, <1>3, <1>4, <1>5, <1>6 DEF Kind

LEMMA CommandWayIn ==
  ASSUME IInv, WayIn, Command
  PROVE  WayIn'
<1>1. PollNext /\ Unshared /\ Follows("none")
  BY DEF Command
<1>2. Proper(timers)
  BY Before
<1>3. "checkIn" \in Kind /\ "fast" \in Kind /\ "fast" \in Handled
  BY DEF Kind, Handled
<1>4. \A j \in Kind \ {"checkIn", "fast"} : timers'[j] = timers[j]
  <2>1. \A j \in Kind \ {"checkIn"} : CheckInStarted(timers)[j] = timers[j]
    BY <1>2, <1>3, ScheduledTimer DEF CheckInStarted
  <2>2. /\ Proper(Cancelled(timers, "fast")) /\ ~Cancelled(timers, "fast")["fast"].handle
        /\ \A j \in Kind \ {"fast"} : Cancelled(timers, "fast")[j] = timers[j]
    BY <1>2, <1>3, CancelledTimer
  <2>3. \A j \in Kind \ {"fast"} : Scheduled(Cancelled(timers, "fast"), "fast")[j] = timers[j]
    BY <1>3, <2>2, ScheduledTimer
  <2>4. ~timers["fast"].handle =>
          \A j \in Kind \ {"fast"} : Scheduled(timers, "fast")[j] = timers[j]
    BY <1>2, <1>3, ScheduledTimer
  <2>5. ASSUME NEW on \in BOOLEAN, WriteCheckIn(on) \/ WriteFastPollTimeout(on) \/ Bind(on)
        PROVE  timers' \in {timers, CheckInStarted(timers)}
    BY <2>5 DEF WriteCheckIn, WriteFastPollTimeout, Bind
  <2>6. ASSUME NEW given \in BOOLEAN, app_zclPollCtrlChkInRspCmdHandler(given)
        PROVE  \/ timers' = Scheduled(Cancelled(timers, "fast"), "fast")
               \/ timers' = Scheduled(timers, "fast") /\ ~timers["fast"].handle
    BY <2>6 DEF app_zclPollCtrlChkInRspCmdHandler
  <2>7. app_zclPollCtrlFastPollStopCmdHandler => timers' = Cancelled(timers, "fast")
    BY DEF app_zclPollCtrlFastPollStopCmdHandler, FastPollStopped
  <2> QED
    BY <1>1, <2>1, <2>2, <2>3, <2>4, <2>5, <2>6, <2>7 DEF PollNext
<1>5. Same
  BY <1>3, <1>4, MovedTimer
<1> QED
  BY <1>1, <1>5, PollWayIn

LEMMA InitNetInv ==
  ASSUME Init
  PROVE  NetInv
<1>1. Boots
  BY DEF Init, Boots
<1> QED
  BY <1>1, InitIInv, BootWayIn DEF NetInv

LEMMA NetStep == NetInv /\ [Next]_vars /\ IInv' => NetInv'
<1> SUFFICES ASSUME IInv, WayIn, [Next]_vars
             PROVE  WayIn'
  BY DEF NetInv
<1>1. CASE UNCHANGED vars
  BY <1>1 DEF vars, bdb, stack, WayIn, Booting, Online, Busy, Supported, Steering, Rejoining,
     Queued, SteerRuns, RejoinRuns, KeyRuns, DelayRuns, PermitRuns, StartRuns
<1>2. CASE \E k \in Kind : Expires(k)
  BY <1>2, ExpiryWayIn
<1>3. CASE Task
  BY <1>3, TaskWayIn
<1>4. CASE Report(BOOLEAN)
  BY <1>4, ReportWayIn DEF Report
<1>5. CASE NetworkEvent
  <2>1. CASE Leaves
    <3>1. Boots'
      BY <2>1 DEF Leaves, Boots
    <3> QED
      BY <3>1, RebootWayIn
  <2> QED
    BY <1>5, <2>1, LossWayIn, AnswerWayIn DEF NetworkEvent
<1>6. CASE Command
  BY <1>6, CommandWayIn
<1> QED
  BY <1>1, <1>2, <1>3, <1>4, <1>5, <1>6 DEF Next

\* The way into the network keeps its invariant.
THEOREM NetInvariance == Spec => []NetInv
<1>1. Init => NetInv
  BY InitNetInv
<1> QED
  BY <1>1, NetStep, Invariance, PTL DEF Spec

\* Off the network the bridge never stops trying, but for a rejoin timer that
\* ended because the bridge was made new (zb_appCb.c, bdb.c).
THEOREM AlwaysTrying == Spec => []NeverGivesUp
<1>1. NetInv => NeverGivesUp
  <2> SUFFICES ASSUME NetInv, ~joined, ~ceased, request = "none", tasks = <<>>
               PROVE  \E k \in {"steer", "rejoin", "key", "delay", "permit", "keyStart"} :
                        timers[k].running > 0
    BY DEF NeverGivesUp
  <2>1. IInv /\ WayIn /\ Queued = {}
    BY Typed DEF NetInv
  <2>2. state # "init"
    BY <2>1, Typed DEF WayIn, Booting
  <2>3. \/ RejoinRuns > 0 \/ SteerRuns > 0 \/ KeyRuns > 0
        \/ StartRuns > 0 \/ DelayRuns > 0 \/ PermitRuns > 0
    BY <2>1, <2>2, Typed DEF WayIn, Supported, Steering
  <2> QED
    BY <2>3 DEF RejoinRuns, SteerRuns, KeyRuns, StartRuns, DelayRuns, PermitRuns
<1> QED
  BY <1>1, NetInvariance, PTL

\* Back in the network, the rejoin timer goes (zb_appCb.c, bdb.c).
THEOREM RejoinTimerGoes == Spec => []RejoinEnds
<1>1. NetInv => RejoinEnds
  BY DEF NetInv, WayIn, Rejoining, RejoinEnds, RejoinRuns, Queued, Content
<1> QED
  BY <1>1, NetInvariance, PTL

-----------------------------------------------------------------------------
(* The frame counter (FrameCount) *)

\* The words of the sector that is found.
CountLog == log[Found(hdr)]

CountPcs == {"off", "idle", "find", "finish", "erase", "last", "word", "ready", "old", "new"}

CountTypes ==
  /\ hdr \in [Sectors -> Flags]
  /\ log \in [Sectors -> Seq(0 .. MaxCount)]
  /\ pc \in CountPcs
  /\ req \in (0 .. MaxCount) \cup {NoReq}
  /\ sec \in Sectors /\ change \in {"no", "full", "repair"}
  /\ count \in 0 .. MaxCount
  /\ saved \in Nat /\ asked \in Nat

\* A sector that may be chosen has a word.
LiveHaveWord == \A s \in Live(hdr) : log[s] # <<>>

\* Calls.
CountCalls ==
  /\ pc \in {"idle", "find", "finish", "off"} => change = "no"
  /\ pc \in {"idle", "off"} => req = NoReq
  /\ pc \in {"erase", "last", "word", "ready", "old", "new"} => req # NoReq
  /\ pc \in {"erase", "last", "old", "new"} => change # "no"
  /\ pc = "last" => change = "full"
  /\ pc = "finish" => FoundReady(hdr)
  /\ req # NoReq =>
       count = req /\ req <= asked + (IF change = "repair" THEN Thres ELSE 0)

\* The counter in RAM is the one a restart would count on from, and the word to
\* be written is the next one, unless it repairs a torn one.
CountOn ==
  /\ pc = "idle" => count = AfterRestart /\ (Live(hdr) # {} => ~Leaps(CountLog))
  /\ req # NoReq /\ change # "repair" /\ pc \in {"find", "finish", "erase", "last", "word"} =>
       /\ AfterRestart < req /\ req <= AfterRestart + Thres
       /\ Live(hdr) # {} => ~Leaps(CountLog)
  /\ pc \in {"erase", "word", "ready", "old", "new"} => AfterRestart <= req

\* The headers while the sector is exchanged, or one is written to.
CountHeaders ==
  /\ pc = "erase" => FoundValid(hdr) /\ sec = Found(hdr)
  /\ change # "no" =>
       /\ pc \in {"last", "word", "ready"} => hdr[sec] = "valid" /\ hdr[Target] = "none"
       /\ pc = "old" => hdr[sec] = "valid" /\ hdr[Target] = "ready"
       /\ pc = "new" => hdr[sec] = "invalid" /\ hdr[Target] = "ready"
  /\ change = "no" =>
       /\ pc = "word" =>
            \/ Live(hdr) = {} /\ sec = 1 /\ log[1] = <<>>
            \/ FoundValid(hdr) /\ sec = Found(hdr)
       /\ pc = "ready" => Live(hdr) = {} /\ sec = 1

\* The new sector.
NewLog ==
  /\ change = "full" /\ pc = "last" => log[Target] = <<>>
  /\ change = "full" /\ pc = "word" => Len(log[Target]) = 1
  /\ change = "repair" /\ pc = "word" => log[Target] = <<>>
  /\ pc \in {"ready", "old", "new"} =>
       log[Target] # <<>> /\ Len(log[Target]) <= 2 /\ Last(log[Target]) = req

\* The inductive invariant.
CountInv ==
  /\ CountTypes /\ LiveHaveWord /\ CountCalls /\ CountOn /\ CountHeaders /\ NewLog
  /\ NeverBack /\ NoLeap

-----------------------------------------------------------------------------
(* Numbers, sectors and logs *)

LEMMA CountBounds ==
  MaxCount \in Nat /\ Words \in Nat /\ Thres \in Nat /\ Thres > 0 /\ NoReq \notin Nat
BY ConstantsAssumption

LEMMA TornBounds ==
  ASSUME NEW c \in 0 .. MaxCount, NEW t \in Torn[c]
  PROVE  t \in 0 .. MaxCount /\ t >= c
BY ConstantsAssumption

LEMMA CountSectors ==
  /\ Sectors = {1, 2} /\ Other(1) = 2 /\ Other(2) = 1
  /\ \A s \in Sectors : Other(s) \in Sectors /\ Other(s) # s /\ Other(Other(s)) = s
  /\ \A s, t \in Sectors : t = s \/ t = Other(s)
BY DEF Other, Sectors

LEMMA CountFound ==
  ASSUME NEW h
  PROVE  /\ Live(h) \subseteq Sectors
         /\ Live(h) # {} => Found(h) \in Live(h)
         /\ 1 \in Live(h) => Found(h) = 1
         /\ Live(h) # {} /\ 1 \notin Live(h) => Found(h) = 2
<1>1. Live(h) \subseteq Sectors
  BY DEF Live
<1>2. CASE 1 \in Live(h)
  <2>1. \A t \in Live(h) : 1 <= t
    BY <1>1 DEF Sectors
  <2>2. \A s \in Live(h) : (\A t \in Live(h) : s <= t) => s = 1
    BY <1>1, <1>2 DEF Sectors
  <2>3. Found(h) = 1
    BY <1>2, <2>1, <2>2 DEF Found
  <2>4. QED
    BY <1>1, <1>2, <2>3
<1>3. CASE 1 \notin Live(h) /\ Live(h) # {}
  <2>1. Live(h) = {2}
    BY <1>1, <1>3 DEF Sectors
  <2>2. Found(h) = 2
    BY <2>1 DEF Found
  <2>3. QED
    BY <1>1, <1>3, <2>1, <2>2
<1>4. QED
  BY <1>1, <1>2, <1>3

\* What is recovered from a log.
LEMMA RecoveredIs ==
  ASSUME NEW L \in Seq(0 .. MaxCount), L # <<>>
  PROVE  /\ Last(L) \in 0 .. MaxCount /\ Recovered(L) \in 0 .. MaxCount
         /\ ~Leaps(L) => Recovered(L) = Last(L)
         /\ Len(L) <= 2 => ~Leaps(L)
<1>1. Len(L) \in Nat /\ Len(L) \in 1 .. Len(L)
  OBVIOUS
<1>2. Last(L) \in 0 .. MaxCount
  BY <1>1, CountBounds DEF Last
<1>3. CASE Leaps(L)
  <2>1. Len(L) > 2 /\ Last(L) - L[Len(L) - 1] > Thres
    BY <1>3 DEF Leaps
  <2>2. L[Len(L) - 1] \in 0 .. MaxCount
    BY <1>1, <2>1, CountBounds
  <2>3. Recovered(L) = L[Len(L) - 1] + Thres
    BY <1>3 DEF Recovered
  <2> DEFINE p == L[Len(L) - 1]
             w == Last(L)
  <2>4. p \in 0 .. MaxCount /\ w \in 0 .. MaxCount /\ w - p > Thres /\ Recovered(L) = p + Thres
    BY <1>2, <2>1, <2>2, <2>3
  <2> HIDE DEF p, w
  <2>5. Recovered(L) \in 0 .. MaxCount
    BY <2>4, CountBounds
  <2>6. QED
    BY <1>2, <1>3, <2>1, <2>5
<1>4. CASE ~Leaps(L)
  BY <1>2, <1>4 DEF Recovered
<1>5. QED
  BY <1>1, <1>2, <1>3, <1>4 DEF Leaps

LEMMA LeapsIsLong ==
  ASSUME NEW L, Len(L) \in Nat, Leaps(L)
  PROVE  Len(L) # 2
<1> DEFINE n == Len(L)
<1>1. n \in Nat /\ n > 2
  BY DEF Leaps
<1> HIDE DEF n
<1>2. n # 2
  BY <1>1
<1>3. QED
  BY <1>2 DEF n

\* A word that follows the ones before it, as it was meant or torn.
LEMMA NextWord ==
  ASSUME NEW L \in Seq(0 .. MaxCount), L # <<>>,
         NEW w \in 0 .. MaxCount, w > Last(L)
  PROVE  LET M == Append(L, w)
         IN /\ M \in Seq(0 .. MaxCount) /\ M # <<>> /\ Last(M) = w /\ Len(M) = Len(L) + 1
            /\ Len(L) \in Nat \ {0}
            /\ w <= Last(L) + Thres => ~Leaps(M) /\ Recovered(M) = w
            /\ Recovered(M) > Last(L)
            /\ Len(M) # 2 => Recovered(M) <= Last(L) + Thres
<1> DEFINE M == Append(L, w)
           p == Last(L)
<1>1. Len(L) \in Nat \ {0} /\ p \in 0 .. MaxCount
  BY RecoveredIs
<1>2. /\ M \in Seq(0 .. MaxCount) /\ M # <<>> /\ Len(M) = Len(L) + 1 /\ M[Len(L) + 1] = w
      /\ M[Len(L)] = p
  <2>1. /\ M \in Seq(0 .. MaxCount) /\ M # <<>> /\ Len(M) = Len(L) + 1 /\ M[Len(L) + 1] = w
        /\ \A i \in 1 .. Len(L) : M[i] = L[i]
    OBVIOUS
  <2>2. Len(L) \in 1 .. Len(L)
    BY <1>1
  <2>3. QED
    BY <2>1, <2>2 DEF Last
<1> HIDE DEF M, p
<1>3. Last(M) = w /\ M[Len(M) - 1] = p
  BY <1>1, <1>2 DEF Last
<1>4. Leaps(M) <=> Len(M) > 2 /\ w - p > Thres
  BY <1>3 DEF Leaps
<1>5. Recovered(M) = IF Len(M) > 2 /\ w - p > Thres THEN p + Thres ELSE w
  BY <1>3, <1>4 DEF Recovered
<1>6. w > p
  BY DEF p
<1>7. /\ w <= p + Thres => ~Leaps(M) /\ Recovered(M) = w
      /\ Recovered(M) > p
      /\ Len(M) # 2 => Recovered(M) <= p + Thres
  BY <1>1, <1>2, <1>4, <1>5, <1>6, CountBounds
<1>8. QED
  BY <1>1, <1>2, <1>3, <1>7 DEF M, p

LEMMA CountTyped ==
  ASSUME CountTypes
  PROVE  /\ \A s \in Sectors : log[s] \in Seq(0 .. MaxCount) /\ Len(log[s]) \in Nat
         /\ Target \in Sectors
         /\ change = "no" => Target = sec
         /\ change # "no" => Target = Other(sec) /\ Target # sec /\ sec = Other(Target)
BY CountSectors DEF CountTypes, Target

LEMMA AfterRestartIs ==
  ASSUME CountTypes, LiveHaveWord
  PROVE  /\ AfterRestart \in 0 .. MaxCount
         /\ Live(hdr) = {} => AfterRestart = 0
         /\ Live(hdr) # {} =>
              /\ AfterRestart = Recovered(CountLog)
              /\ CountLog \in Seq(0 .. MaxCount) /\ CountLog # <<>>
              /\ Found(hdr) \in Live(hdr) /\ Found(hdr) \in Sectors
<1>1. CASE Live(hdr) = {}
  BY <1>1, CountBounds DEF AfterRestart
<1>2. CASE Live(hdr) # {}
  <2>1. Found(hdr) \in Live(hdr) /\ Found(hdr) \in Sectors
    BY <1>2, CountFound
  <2>2. CountLog \in Seq(0 .. MaxCount) /\ CountLog # <<>>
    BY <2>1 DEF CountTypes, LiveHaveWord, CountLog
  <2>3. AfterRestart = Recovered(CountLog)
    BY <1>2 DEF AfterRestart, CountLog
  <2>4. Recovered(CountLog) \in 0 .. MaxCount
    BY <2>2, RecoveredIs
  <2>5. QED
    BY <1>2, <2>1, <2>2, <2>3, <2>4
<1>3. QED
  BY <1>1, <1>2

\* The sector that is found has the same words as before.
LEMMA SameLog ==
  ASSUME Found(hdr') = Found(hdr), (Live(hdr') = {}) <=> (Live(hdr) = {}),
         Live(hdr) # {} => log'[Found(hdr)] = log[Found(hdr)]
  PROVE  AfterRestart' = AfterRestart /\ (Live(hdr) # {} => CountLog' = CountLog)
BY DEF AfterRestart, CountLog

LEMMA ReturnCounts ==
  ASSUME CountTypes, CountCalls, Return, req # NoReq
  PROVE  /\ pc' = "idle" /\ change' = "no" /\ req' = NoReq /\ sec' = 1
         /\ pc' \in CountPcs /\ sec' \in Sectors /\ change' \in {"no", "full", "repair"}
         /\ req' \in (0 .. MaxCount) \cup {NoReq}
         /\ count' = req /\ count' \in 0 .. MaxCount
         /\ asked' = asked /\ asked' \in Nat /\ saved' \in Nat
         /\ (saved' = saved \/ saved' = req)
BY CountBounds DEF Return, Locals, CountTypes, CountCalls, CountPcs, Sectors, Higher

-----------------------------------------------------------------------------
(* Steps of the frame counter *)

\* What is left of the invariant when the sector that is found has the same
\* words, and what a call knows.
LEMMA CountKept ==
  ASSUME CountInv, CountTypes', LiveHaveWord', CountCalls', CountHeaders', NewLog',
         AfterRestart' = AfterRestart, Live(hdr) # {} => CountLog' = CountLog,
         (Live(hdr') = {}) <=> (Live(hdr) = {}),
         CountOn', saved' = saved, asked' >= asked
  PROVE  CountInv'
<1>1. NeverBack'
  BY DEF CountInv, NeverBack
<1>2. NoLeap'
  <2>1. SUFFICES ASSUME Live(hdr') # {}, Len(CountLog') # 2
                 PROVE  AfterRestart' <= asked' + Thres
    BY DEF NoLeap, CountLog
  <2>2. AfterRestart <= asked + Thres
    BY <2>1 DEF CountInv, NoLeap, CountLog
  <2>3. QED
    BY <2>2, CountBounds, AfterRestartIs DEF CountInv, CountTypes
<1>3. QED
  BY <1>1, <1>2 DEF CountInv

LEMMA InitialCount == CountInit => CountInv
<1> SUFFICES ASSUME CountInit PROVE CountInv
  OBVIOUS
<1>1. Live(hdr) = {}
  BY DEF CountInit, Live
<1>2. AfterRestart = 0
  BY <1>1 DEF AfterRestart
<1>3. CountTypes
  BY CountBounds DEF CountInit, CountTypes, Flags, CountPcs, Sectors
<1>4. CountCalls /\ CountOn /\ CountHeaders /\ NewLog
  BY <1>1, <1>2 DEF CountInit, CountCalls, CountOn, CountHeaders, NewLog
<1>5. NeverBack /\ NoLeap /\ LiveHaveWord
  BY <1>1, <1>2 DEF CountInit, NeverBack, NoLeap, LiveHaveWord
<1>6. QED
  BY <1>3, <1>4, <1>5 DEF CountInv

\* Calls, the search for a sector, and power failures between two words.
LEMMA CountCallStep ==
  ASSUME CountInv,
         \/ nv_nwkFrameCountSaveToFlash \/ nv_nwkFrameCountFromFlash
         \/ NothingStored \/ Recover \/ Search \/ Crash
  PROVE  CountInv'
<1> USE DEF CountInv
<1>1. hdr' = hdr /\ log' = log /\ saved' = saved
  BY DEF nv_nwkFrameCountSaveToFlash, nv_nwkFrameCountFromFlash, NothingStored, Recover, Search,
     Crash,
         flash, counters
<1>2. /\ AfterRestart' = AfterRestart /\ CountLog' = CountLog /\ Live(hdr') = Live(hdr)
      /\ LiveHaveWord'
  BY <1>1 DEF AfterRestart, CountLog, LiveHaveWord
<1>3. /\ AfterRestart \in 0 .. MaxCount /\ MaxCount \in Nat /\ Thres \in Nat /\ NoReq \notin Nat
      /\ Live(hdr) # {} =>
           /\ AfterRestart = Recovered(CountLog) /\ Found(hdr) \in Sectors
           /\ CountLog \in Seq(0 .. MaxCount) /\ CountLog # <<>>
  BY CountBounds, AfterRestartIs
<1>4. CASE nv_nwkFrameCountSaveToFlash
  <2>1. PICK d \in 1 .. Thres : /\ count + d <= MaxCount
                                /\ req' = count + d
                                /\ count' = count + d
                                /\ asked' = Higher(asked, count + d)
    BY <1>4 DEF nv_nwkFrameCountSaveToFlash
  <2>2. pc = "idle" /\ pc' = "find" /\ UNCHANGED <<sec, change>> /\ change = "no"
    BY <1>4 DEF nv_nwkFrameCountSaveToFlash, CountCalls
  <2>3. count \in Nat /\ asked \in Nat /\ req' \in 0 .. MaxCount /\ req' # NoReq /\ asked' \in Nat
        /\ asked' >= asked /\ req' <= asked' /\ req' > count /\ req' <= count + Thres
    BY <1>3, <2>1 DEF CountTypes, Higher
  <2>4. CountTypes'
    BY <1>1, <2>1, <2>2, <2>3 DEF CountTypes, CountPcs
  <2>5. CountCalls'
    BY <1>3, <2>1, <2>2, <2>3 DEF CountCalls
  <2>6. count = AfterRestart /\ (Live(hdr) # {} => ~Leaps(CountLog))
    BY <2>2 DEF CountOn
  <2>7. CountOn'
    BY <1>2, <2>2, <2>3, <2>6 DEF CountOn
  <2>8. CountHeaders' /\ NewLog'
    BY <2>2 DEF CountHeaders, NewLog
  <2>9. QED
    BY <1>1, <1>2, <2>3, <2>4, <2>5, <2>7, <2>8, CountKept
<1>5. CASE nv_nwkFrameCountFromFlash
  <2>1. pc = "off" /\ pc' = "find" /\ UNCHANGED <<req, sec, change, count, asked>>
        /\ change = "no" /\ req = NoReq
    BY <1>5 DEF nv_nwkFrameCountFromFlash, counters, CountCalls
  <2>2. CountTypes'
    BY <1>1, <2>1 DEF CountTypes, CountPcs
  <2>3. CountCalls' /\ CountOn' /\ CountHeaders' /\ NewLog' /\ asked' >= asked
    BY <2>1 DEF CountCalls, CountOn, CountHeaders, NewLog, CountTypes
  <2>4. QED
    BY <1>1, <1>2, <2>2, <2>3, CountKept
<1>6. CASE NothingStored
  <2>1. pc' = "idle" /\ UNCHANGED <<req, sec, change, asked>> /\ count' = 0
        /\ change = "no" /\ req = NoReq /\ Live(hdr) = {}
    BY <1>6 DEF NothingStored, CountCalls
  <2>2. AfterRestart = 0
    BY <2>1, AfterRestartIs
  <2>3. CountTypes'
    BY <1>1, <1>3, <2>1 DEF CountTypes, CountPcs
  <2>4. CountCalls' /\ CountOn' /\ CountHeaders' /\ NewLog' /\ asked' >= asked
    BY <1>2, <2>1, <2>2 DEF CountCalls, CountOn, CountHeaders, NewLog, CountTypes
  <2>5. QED
    BY <1>1, <1>2, <2>3, <2>4, CountKept
<1>7. CASE Recover
  <2>1. pc = "find" /\ req = NoReq /\ FoundValid(hdr) /\ Live(hdr) # {} /\ asked' = asked
        /\ asked' >= asked /\ change = "no"
    BY <1>7 DEF Recover, FoundValid, CountTypes, CountCalls
  <2>2. count' = AfterRestart
    BY <1>3, <1>7, <2>1 DEF Recover, CountLog
  <2>3. CASE Leaps(CountLog)
    <3>1. /\ pc' = "erase" /\ change' = "repair" /\ sec' = Found(hdr) /\ req' = AfterRestart
      BY <1>3, <1>7, <2>1, <2>3 DEF Recover, CountLog
    <3>2. AfterRestart <= asked + Thres
      <4>1. Len(CountLog) \in Nat
        BY <2>1, AfterRestartIs
      <4>2. Len(CountLog) # 2
        BY <2>3, <4>1, LeapsIsLong
      <4>3. QED
        BY <2>1, <4>2 DEF NoLeap, CountLog
    <3>3. CountTypes'
      BY <1>1, <1>3, <2>1, <2>2, <3>1 DEF CountTypes, CountPcs
    <3>4. CountCalls' /\ CountOn'
      BY <1>2, <1>3, <2>1, <2>2, <3>1, <3>2 DEF CountCalls, CountOn
    <3>5. CountHeaders' /\ NewLog'
      BY <1>1, <2>1, <3>1 DEF CountHeaders, NewLog
    <3>6. QED
      BY <1>1, <1>2, <2>1, <3>3, <3>4, <3>5, CountKept
  <2>4. CASE ~Leaps(CountLog)
    <3>1. pc' = "idle" /\ UNCHANGED <<change, sec, req>>
      BY <1>7, <2>4 DEF Recover, CountLog
    <3>2. CountTypes'
      BY <1>1, <1>3, <2>1, <2>2, <3>1 DEF CountTypes, CountPcs
    <3>3. CountCalls' /\ CountOn' /\ CountHeaders' /\ NewLog'
      BY <1>2, <2>1, <2>2, <2>4, <3>1 DEF CountCalls, CountOn, CountHeaders, NewLog
    <3>4. QED
      BY <1>1, <1>2, <2>1, <3>2, <3>3, CountKept
  <2>5. QED
    BY <2>3, <2>4
<1>8. CASE Search
  <2>1. /\ pc = "find" /\ req # NoReq /\ FoundValid(hdr) /\ Live(hdr) # {} /\ sec' = Found(hdr)
        /\ UNCHANGED <<req, count, asked>> /\ asked' >= asked /\ change = "no"
        /\ \/ pc' = "erase" /\ change' = "full"
           \/ pc' = "word" /\ change' = "no"
    BY <1>8 DEF Search, FoundValid, CountTypes, CountCalls, counters
  <2>2. CountTypes'
    BY <1>1, <1>3, <2>1 DEF CountTypes, CountPcs
  <2>3. CountCalls'
    BY <2>1 DEF CountCalls
  <2>4. CountOn'
    BY <1>2, <1>3, <2>1 DEF CountOn, CountTypes
  <2>5. CountHeaders' /\ NewLog'
    BY <1>1, <2>1 DEF CountHeaders, NewLog
  <2>6. QED
    BY <1>1, <1>2, <2>1, <2>2, <2>3, <2>4, <2>5, CountKept
<1>9. CASE Crash
  <2>1. pc' = "off" /\ sec' = 1 /\ change' = "no" /\ req' = NoReq /\ count' = 0 /\ asked' = asked
        /\ asked' >= asked
    BY <1>9 DEF Crash, Locals, CountTypes
  <2>2. CountTypes'
    BY <1>1, <1>3, <2>1 DEF CountTypes, CountPcs, Sectors
  <2>3. CountCalls' /\ CountOn' /\ CountHeaders' /\ NewLog'
    BY <2>1 DEF CountCalls, CountOn, CountHeaders, NewLog
  <2>4. QED
    BY <1>1, <1>2, <2>1, <2>2, <2>3, CountKept
<1>10. QED
  BY <1>4, <1>5, <1>6, <1>7, <1>8, <1>9

\* A change of sectors is finished, or begins: the one that is found stays.
LEMMA CountSectorStep ==
  ASSUME CountInv,
         FinishOld \/ FinishNew \/ EraseBoth \/ EraseNew \/ CopyLast
  PROVE  CountInv'
<1> USE DEF CountInv
<1>1. saved' = saved /\ asked' = asked /\ count' = count /\ req' = req /\ change' = change
      /\ asked' >= asked
  BY DEF FinishOld, FinishNew, EraseBoth, EraseNew, CopyLast, counters, CountTypes
<1>2. /\ AfterRestart \in 0 .. MaxCount /\ MaxCount \in Nat /\ Thres \in Nat /\ NoReq \notin Nat
      /\ Live(hdr) # {} =>
           /\ AfterRestart = Recovered(CountLog) /\ Found(hdr) \in Sectors
           /\ Found(hdr) \in Live(hdr)
           /\ CountLog \in Seq(0 .. MaxCount) /\ CountLog # <<>>
  BY CountBounds, AfterRestartIs
<1>3. CASE FinishOld
  <2>1. /\ pc = "find" /\ Live(hdr) # {} /\ hdr[Found(hdr)] = "ready" /\ pc' = "finish"
        /\ hdr' = [hdr EXCEPT ![Other(Found(hdr))] = "invalid"] /\ log' = log /\ sec' = sec
        /\ change = "no"
    BY <1>3 DEF FinishOld, FoundReady, CountCalls
  <2>2. /\ Other(Found(hdr)) \in Sectors /\ Other(Found(hdr)) # Found(hdr)
        /\ \A t \in Sectors : t = Found(hdr) \/ t = Other(Found(hdr))
    BY <1>2, <2>1, CountSectors
  <2>3. /\ hdr' \in [Sectors -> Flags] /\ hdr'[Found(hdr)] = "ready"
        /\ hdr'[Other(Found(hdr))] = "invalid"
    BY <1>2, <2>1, <2>2 DEF CountTypes, Flags
  <2>4. Live(hdr') = {Found(hdr)}
    BY <1>2, <2>1, <2>2, <2>3 DEF Live
  <2>5. Found(hdr') = Found(hdr)
    BY <2>4, CountFound
  <2>6. /\ AfterRestart' = AfterRestart /\ CountLog' = CountLog
        /\ (Live(hdr') = {}) <=> (Live(hdr) = {})
    BY <2>1, <2>4, <2>5, SameLog
  <2>7. CountTypes'
    BY <1>1, <2>1, <2>3 DEF CountTypes, CountPcs
  <2>8. LiveHaveWord'
    BY <1>2, <2>1, <2>4 DEF LiveHaveWord
  <2>9. CountCalls'
    BY <1>1, <2>1, <2>3, <2>4, <2>5 DEF CountCalls, FoundReady
  <2>10. CountOn' /\ CountHeaders' /\ NewLog'
    BY <1>1, <2>1, <2>6 DEF CountOn, CountHeaders, NewLog
  <2>11. QED
    BY <1>1, <2>6, <2>7, <2>8, <2>9, <2>10, CountKept
<1>4. CASE FinishNew
  <2>1. /\ pc = "finish" /\ Live(hdr) # {} /\ hdr[Found(hdr)] = "ready" /\ pc' = "find"
        /\ hdr' = [hdr EXCEPT ![Found(hdr)] = "valid"] /\ log' = log /\ sec' = sec
        /\ change = "no"
    BY <1>4 DEF FinishNew, FoundReady, CountCalls
  <2>2. hdr' \in [Sectors -> Flags] /\ Live(hdr') = Live(hdr)
    BY <1>2, <2>1 DEF CountTypes, Flags, Live
  <2>3. Found(hdr') = Found(hdr)
    BY <2>2 DEF Found
  <2>4. AfterRestart' = AfterRestart /\ CountLog' = CountLog
    BY <2>1, <2>2, <2>3, SameLog
  <2>5. CountTypes'
    BY <1>1, <2>1, <2>2 DEF CountTypes, CountPcs
  <2>6. LiveHaveWord'
    BY <2>1, <2>2 DEF LiveHaveWord
  <2>7. CountCalls'
    BY <1>1, <2>1 DEF CountCalls
  <2>8. CountOn' /\ CountHeaders' /\ NewLog'
    BY <1>1, <2>1, <2>2, <2>4 DEF CountOn, CountHeaders, NewLog
  <2>9. QED
    BY <1>1, <2>2, <2>4, <2>5, <2>6, <2>7, <2>8, CountKept
<1>5. CASE EraseBoth
  <2>1. /\ pc = "find" /\ req # NoReq /\ Live(hdr) = {} /\ change = "no" /\ sec' = 1 /\ pc' = "word"
        /\ hdr' = [s \in Sectors |-> "none"] /\ log' = [s \in Sectors |-> <<>>]
    BY <1>5 DEF EraseBoth, CountCalls
  <2>2. Live(hdr') = {}
    BY <2>1 DEF Live
  <2>3. AfterRestart' = AfterRestart
    BY <2>1, <2>2 DEF AfterRestart
  <2>4. CountTypes'
    BY <1>1, <2>1 DEF CountTypes, CountPcs, Flags, Sectors
  <2>5. log'[1] = <<>>
    BY <2>1 DEF Sectors
  <2>6. CountCalls' /\ CountHeaders' /\ NewLog' /\ LiveHaveWord'
    BY <1>1, <2>1, <2>2, <2>5 DEF CountCalls, CountHeaders, NewLog, LiveHaveWord
  <2>7. CountOn'
    <3>1. AfterRestart < req /\ req <= AfterRestart + Thres
      BY <2>1 DEF CountOn
    <3>2. AfterRestart <= req
      BY <1>2, <2>1, <3>1 DEF CountTypes
    <3>3. QED
      BY <1>1, <2>1, <2>2, <2>3, <3>1, <3>2 DEF CountOn
  <2>8. QED
    BY <1>1, <2>1, <2>2, <2>3, <2>4, <2>6, <2>7, CountKept
<1>6. CASE EraseNew
  <2>1. /\ pc = "erase" /\ FoundValid(hdr) /\ sec = Found(hdr) /\ hdr[sec] = "valid"
        /\ Live(hdr) # {} /\ change # "no" /\ req # NoReq /\ sec' = sec /\ Target' = Target
        /\ hdr' = [hdr EXCEPT ![Target] = "none"] /\ log' = [log EXCEPT ![Target] = <<>>]
        /\ pc' = IF change = "full" THEN "last" ELSE "word"
    BY <1>1, <1>6 DEF EraseNew, CountCalls, CountHeaders, FoundValid, Target
  <2>2. /\ Target \in Sectors /\ sec \in Sectors /\ Target # sec
        /\ \A t \in Sectors : t = sec \/ t = Target
    BY <2>1, CountTyped, CountSectors DEF CountTypes
  <2>3. /\ hdr' \in [Sectors -> Flags] /\ hdr'[sec] = "valid" /\ hdr'[Target] = "none"
        /\ log' \in [Sectors -> Seq(0 .. MaxCount)] /\ log'[sec] = log[sec] /\ log'[Target] = <<>>
    BY <2>1, <2>2 DEF CountTypes, Flags
  <2>4. Live(hdr') = {sec}
    BY <2>2, <2>3 DEF Live
  <2>5. Found(hdr') = Found(hdr)
    BY <2>1, <2>4, CountFound
  <2>6. /\ AfterRestart' = AfterRestart /\ CountLog' = CountLog
        /\ (Live(hdr') = {}) <=> (Live(hdr) = {})
    BY <2>1, <2>3, <2>4, <2>5, SameLog
  <2>7. CountTypes'
    BY <1>1, <2>1, <2>3 DEF CountTypes, CountPcs
  <2>8. LiveHaveWord'
    BY <1>2, <2>1, <2>3, <2>4 DEF LiveHaveWord
  <2>9. change \in {"full", "repair"} /\ pc' \in {"last", "word"}
        /\ (pc' = "last" <=> change = "full")
    BY <2>1 DEF CountTypes
  <2>10. CountCalls'
    BY <1>1, <2>1, <2>9 DEF CountCalls
  <2>11. CountOn'
    BY <1>1, <2>1, <2>6, <2>9 DEF CountOn
  <2>12. CountHeaders' /\ NewLog'
    BY <1>1, <2>1, <2>3, <2>9 DEF CountHeaders, NewLog
  <2>13. QED
    BY <1>1, <2>6, <2>7, <2>8, <2>10, <2>11, <2>12, CountKept
<1>7. CASE CopyLast
  <2>1. /\ pc = "last" /\ change = "full" /\ req # NoReq /\ hdr[sec] = "valid"
        /\ hdr[Target] = "none"
        /\ pc' = "word" /\ sec' = sec /\ hdr' = hdr /\ Target' = Target
        /\ log' = [log EXCEPT ![Target] = <<Last(log[sec])>>]
    BY <1>1, <1>7 DEF CopyLast, CountCalls, CountHeaders, Target
  <2>2. /\ Target \in Sectors /\ sec \in Sectors /\ Target # sec
        /\ \A t \in Sectors : t = sec \/ t = Target
    BY <2>1, CountTyped, CountSectors DEF CountTypes
  <2>3. Live(hdr) = {sec} /\ Found(hdr) = sec
    <3>1. Live(hdr) = {sec}
      BY <2>1, <2>2 DEF Live
    <3>2. QED
      BY <3>1, CountFound
  <2>4. Last(log[sec]) \in 0 .. MaxCount
    BY <1>2, <2>3, RecoveredIs DEF CountLog
  <2>5. /\ log' \in [Sectors -> Seq(0 .. MaxCount)] /\ log'[sec] = log[sec]
        /\ log'[Target] = <<Last(log[sec])>>
    BY <2>1, <2>2, <2>4 DEF CountTypes
  <2>6. log'[Target] # <<>> /\ Len(log'[Target]) = 1
    BY <2>5
  <2>7. AfterRestart' = AfterRestart /\ CountLog' = CountLog
    BY <2>1, <2>3, <2>5, SameLog
  <2>8. CountTypes'
    BY <1>1, <2>1, <2>5 DEF CountTypes, CountPcs
  <2>9. LiveHaveWord'
    BY <1>2, <2>1, <2>3, <2>5 DEF LiveHaveWord, CountLog
  <2>10. CountCalls' /\ CountHeaders'
    BY <1>1, <2>1 DEF CountCalls, CountHeaders
  <2>11. CountOn'
    BY <1>1, <1>2, <2>1, <2>7 DEF CountOn, CountTypes
  <2>12. NewLog'
    BY <1>1, <2>1, <2>6 DEF NewLog
  <2>13. QED
    BY <1>1, <2>1, <2>7, <2>8, <2>9, <2>10, <2>11, <2>12, CountKept
<1>8. QED
  BY <1>3, <1>4, <1>5, <1>6, <1>7

\* A word that is written where no restart looks yet.
LEMMA HiddenWord ==
  ASSUME CountInv, pc = "word", req # NoReq, hdr' = hdr,
         NEW w \in 0 .. MaxCount, log' = [log EXCEPT ![Target] = Append(@, w)],
         change = "no" => Live(hdr) = {}
  PROVE  /\ log' \in [Sectors -> Seq(0 .. MaxCount)] /\ LiveHaveWord'
         /\ AfterRestart' = AfterRestart /\ (Live(hdr) # {} => CountLog' = CountLog)
         /\ Live(hdr') = Live(hdr)
         /\ log'[Target] # <<>> /\ Len(log'[Target]) <= 2 /\ Last(log'[Target]) = w
<1> USE DEF CountInv
<1>1. /\ Target \in Sectors /\ sec \in Sectors /\ log[Target] \in Seq(0 .. MaxCount)
      /\ change # "no" => Target # sec
      /\ change = "no" => Target = sec
      /\ Live(hdr) \subseteq Sectors
      /\ Live(hdr) # {} => Found(hdr) \in Live(hdr)
  BY CountTyped, CountFound DEF CountTypes
<1>2. Len(log[Target]) \in {0, 1}
  <2>1. CASE change = "no"
    <3>1. sec = 1 /\ log[1] = <<>>
      BY <2>1 DEF CountHeaders, FoundValid
    <3>2. QED
      BY <1>1, <2>1, <3>1
  <2>2. CASE change = "full"
    BY <2>2 DEF NewLog
  <2>3. CASE change = "repair"
    BY <2>3 DEF NewLog
  <2>4. QED
    BY <2>1, <2>2, <2>3 DEF CountTypes
<1> DEFINE L == log[Target]
           M == Append(L, w)
<1>3. /\ M \in Seq(0 .. MaxCount) /\ M # <<>> /\ Len(M) = Len(L) + 1 /\ M[Len(L) + 1] = w
  <2>1. L \in Seq(0 .. MaxCount)
    BY <1>1
  <2> HIDE DEF L
  <2>2. QED
    BY <2>1
<1>4. Len(M) <= 2 /\ Last(M) = w
  <2>1. Len(L) \in {0, 1}
    BY <1>2
  <2>2. M[Len(M)] = w
    BY <1>3
  <2> HIDE DEF L, M
  <2>3. Len(M) = Len(L) + 1
    BY <1>3
  <2>4. \A n \in {0, 1} : n + 1 <= 2
    OBVIOUS
  <2>5. Len(M) <= 2
    BY <2>1, <2>3, <2>4
  <2>6. QED
    BY <2>2, <2>5 DEF Last
<1> HIDE DEF M
<1>5. log' = [log EXCEPT ![Target] = M]
  BY DEF M
<1>6. /\ log' \in [Sectors -> Seq(0 .. MaxCount)] /\ log'[Target] = M
      /\ \A s \in Sectors : s # Target => log'[s] = log[s]
  BY <1>1, <1>3, <1>5 DEF CountTypes
<1>7. LiveHaveWord'
  BY <1>1, <1>3, <1>6 DEF LiveHaveWord
<1>8. Target \notin Live(hdr)
  <2>1. CASE change = "no"
    BY <2>1
  <2>2. CASE change # "no"
    BY <2>2 DEF CountHeaders, Live
  <2>3. QED
    BY <2>1, <2>2
<1>9. Live(hdr) # {} => log'[Found(hdr)] = log[Found(hdr)]
  BY <1>1, <1>6, <1>8
<1>10. /\ AfterRestart' = AfterRestart
       /\ Live(hdr) # {} => CountLog' = CountLog
  BY <1>9, SameLog
<1>11. QED
  BY <1>3, <1>4, <1>6, <1>7, <1>10

\* A word that is written behind the last one.
LEMMA WordInPlace ==
  ASSUME CountInv, pc = "word", req # NoReq, hdr' = hdr,
         change = "no", Live(hdr) # {}, NEW w \in 0 .. MaxCount, w >= req,
         log' = [log EXCEPT ![Target] = Append(@, w)]
  PROVE  /\ log' \in [Sectors -> Seq(0 .. MaxCount)] /\ LiveHaveWord' /\ log[Target] # <<>>
         /\ Live(hdr') # {}
         /\ w = req => ~Leaps(CountLog') /\ AfterRestart' = w
         /\ AfterRestart' > AfterRestart
         /\ Len(CountLog') # 2 => AfterRestart' <= asked + Thres
<1> USE DEF CountInv
<1>1. FoundValid(hdr) /\ sec = Found(hdr) /\ Target = sec
  BY CountTyped DEF CountHeaders
<1>2. /\ AfterRestart = Recovered(CountLog) /\ Found(hdr) \in Sectors
      /\ CountLog \in Seq(0 .. MaxCount) /\ CountLog # <<>> /\ AfterRestart \in 0 .. MaxCount
  BY AfterRestartIs
<1> DEFINE L == log[Target]
           M == Append(L, w)
<1>3. L = CountLog
  BY <1>1 DEF CountLog
<1>4. AfterRestart < req /\ req <= AfterRestart + Thres /\ ~Leaps(L)
  BY <1>3 DEF CountOn
<1>5. AfterRestart = Last(L) /\ Last(L) \in 0 .. MaxCount
  BY <1>2, <1>3, <1>4, RecoveredIs
<1>6. req \in 0 .. MaxCount /\ req <= asked /\ asked \in Nat /\ MaxCount \in Nat /\ Thres \in Nat
  BY CountBounds DEF CountTypes, CountCalls
<1> HIDE DEF L
<1>7. w > Last(L)
  BY <1>4, <1>5, <1>6
<1>8. /\ M \in Seq(0 .. MaxCount) /\ M # <<>> /\ Last(M) = w
      /\ w <= Last(L) + Thres => ~Leaps(M) /\ Recovered(M) = w
      /\ Recovered(M) > Last(L)
      /\ Len(M) # 2 => Recovered(M) <= Last(L) + Thres
  BY <1>2, <1>3, <1>7, NextWord
<1>9. Recovered(M) \in 0 .. MaxCount
  BY <1>8, RecoveredIs
<1>10. log' = [log EXCEPT ![Target] = M]
  BY DEF L
<1> HIDE DEF M
<1>11. /\ log' \in [Sectors -> Seq(0 .. MaxCount)] /\ log'[Target] = M
       /\ \A s \in Sectors : s # Target => log'[s] = log[s]
  BY <1>1, <1>2, <1>8, <1>10 DEF CountTypes
<1>12. LiveHaveWord'
  BY <1>8, <1>11, CountFound DEF LiveHaveWord
<1>13. CountLog' = M /\ AfterRestart' = Recovered(M) /\ Live(hdr') # {}
  BY <1>1, <1>11 DEF CountLog, AfterRestart
<1>14. w = req => ~Leaps(M) /\ Recovered(M) = w
  BY <1>4, <1>5, <1>8
<1>15. Len(M) # 2 => Recovered(M) <= asked + Thres
  BY <1>4, <1>5, <1>6, <1>8, <1>9
<1>16. QED
  BY <1>2, <1>3, <1>5, <1>8, <1>11, <1>12, <1>13, <1>14, <1>15 DEF L

LEMMA WordStep ==
  ASSUME CountInv, Word
  PROVE  CountInv'
<1> USE DEF CountInv
<1>1. /\ pc = "word" /\ req # NoReq /\ hdr' = hdr /\ req \in 0 .. MaxCount
      /\ log' = [log EXCEPT ![Target] = Append(@, req)] /\ saved \in Nat /\ asked \in Nat
  BY DEF Word, CountCalls, CountTypes
<1>2. AfterRestart \in 0 .. MaxCount /\ MaxCount \in Nat /\ Thres \in Nat /\ NoReq \notin Nat
      /\ Target \in Sectors
  BY AfterRestartIs, CountBounds, CountTyped
<1>3. CASE change = "no" => Live(hdr) = {}
  <2>1. /\ log' \in [Sectors -> Seq(0 .. MaxCount)] /\ LiveHaveWord'
        /\ AfterRestart' = AfterRestart
        /\ Live(hdr) # {} => CountLog' = CountLog
        /\ Live(hdr') = Live(hdr)
        /\ log'[Target] # <<>> /\ Len(log'[Target]) <= 2 /\ Last(log'[Target]) = req
    BY <1>1, <1>3, HiddenWord
  <2>2. change # "no" \/ log[Target] = <<>>
    BY <1>1, <1>3, CountTyped DEF CountHeaders, FoundValid
  <2>3. pc' = "ready" /\ UNCHANGED <<req, sec, change, counters>> /\ Target' = Target
    BY <2>2 DEF Word, Target
  <2>4. saved' = saved /\ asked' = asked /\ count' = count /\ asked' >= asked
    BY <1>1, <2>3 DEF counters
  <2>5. CountTypes'
    BY <1>1, <2>1, <2>3, <2>4 DEF CountTypes, CountPcs
  <2>6. CountCalls'
    BY <1>1, <2>3, <2>4 DEF CountCalls
  <2>7. CountOn'
    BY <1>1, <2>1, <2>3 DEF CountOn
  <2>8. CountHeaders'
    BY <1>1, <1>3, <2>1, <2>3 DEF CountHeaders, FoundValid
  <2>9. NewLog'
    BY <2>1, <2>3 DEF NewLog
  <2>10. QED
    BY <2>1, <2>4, <2>5, <2>6, <2>7, <2>8, <2>9, CountKept
<1>4. CASE change = "no" /\ Live(hdr) # {}
  <2>1. /\ log' \in [Sectors -> Seq(0 .. MaxCount)] /\ LiveHaveWord' /\ log[Target] # <<>>
        /\ Live(hdr') # {}
        /\ ~Leaps(CountLog') /\ AfterRestart' = req /\ AfterRestart' > AfterRestart
        /\ Len(CountLog') # 2 => AfterRestart' <= asked + Thres
    <3>1. req >= req
      BY <1>1, <1>2
    <3>2. QED
      BY <1>1, <1>4, <3>1, WordInPlace
  <2>2. Return
    BY <1>4, <2>1 DEF Word
  <2>3. /\ pc' = "idle" /\ change' = "no" /\ req' = NoReq /\ sec' = 1
        /\ pc' \in CountPcs /\ sec' \in Sectors /\ change' \in {"no", "full", "repair"}
        /\ req' \in (0 .. MaxCount) \cup {NoReq}
        /\ count' = req /\ count' \in 0 .. MaxCount
        /\ asked' = asked /\ asked' \in Nat /\ saved' \in Nat
        /\ (saved' = saved \/ saved' = req)
    BY <1>1, <2>2, ReturnCounts
  <2>4. CountTypes'
    BY <1>1, <2>1, <2>3 DEF CountTypes
  <2>5. CountCalls' /\ CountOn' /\ CountHeaders' /\ NewLog'
    BY <2>1, <2>3 DEF CountCalls, CountOn, CountHeaders, NewLog
  <2>6. NeverBack'
    BY <1>1, <1>2, <2>1, <2>3 DEF NeverBack
  <2>7. NoLeap'
    BY <2>1, <2>3 DEF NoLeap, CountLog
  <2>8. QED
    BY <2>1, <2>4, <2>5, <2>6, <2>7
<1>5. QED
  BY <1>3, <1>4

LEMMA TornStep ==
  ASSUME CountInv, CrashTorn
  PROVE  CountInv'
<1> USE DEF CountInv
<1>1. /\ pc = "word" /\ req # NoReq /\ hdr' = hdr /\ req \in 0 .. MaxCount
      /\ pc' = "off" /\ sec' = 1 /\ change' = "no" /\ req' = NoReq /\ count' = 0
      /\ saved' = saved /\ asked' = asked /\ saved \in Nat /\ asked \in Nat /\ asked' >= asked
  BY DEF CrashTorn, Locals, CountCalls, CountTypes
<1>2. PICK t \in Torn[req] : log' = [log EXCEPT ![Target] = Append(@, t)]
  BY DEF CrashTorn
<1>3. AfterRestart \in 0 .. MaxCount /\ MaxCount \in Nat /\ Thres \in Nat /\ NoReq \notin Nat
      /\ t \in 0 .. MaxCount /\ t >= req
  BY <1>1, AfterRestartIs, CountBounds, TornBounds
<1>4. CountCalls' /\ CountOn' /\ CountHeaders' /\ NewLog'
  BY <1>1 DEF CountCalls, CountOn, CountHeaders, NewLog
<1>5. log' \in [Sectors -> Seq(0 .. MaxCount)] => CountTypes'
  BY <1>1, <1>3 DEF CountTypes, CountPcs, Sectors
<1>6. CASE change = "no" => Live(hdr) = {}
  <2>1. /\ log' \in [Sectors -> Seq(0 .. MaxCount)] /\ LiveHaveWord'
        /\ AfterRestart' = AfterRestart
        /\ Live(hdr) # {} => CountLog' = CountLog
        /\ Live(hdr') = Live(hdr)
    BY <1>1, <1>2, <1>3, <1>6, HiddenWord
  <2>2. QED
    BY <1>1, <1>4, <1>5, <2>1, CountKept
<1>7. CASE change = "no" /\ Live(hdr) # {}
  <2>1. /\ log' \in [Sectors -> Seq(0 .. MaxCount)] /\ LiveHaveWord'
        /\ Live(hdr') # {} /\ AfterRestart' > AfterRestart
        /\ Len(CountLog') # 2 => AfterRestart' <= asked + Thres
    BY <1>1, <1>2, <1>3, <1>7, WordInPlace
  <2>2. CountTypes'
    BY <1>5, <2>1
  <2>3. AfterRestart' \in 0 .. MaxCount
    <3>1. /\ CountLog' \in Seq(0 .. MaxCount)
          /\ CountLog' # <<>>
          /\ AfterRestart' = Recovered(CountLog')
      BY <1>1, <2>1, CountFound DEF CountLog, AfterRestart, LiveHaveWord
    <3>2. QED
      BY <3>1, RecoveredIs
  <2>4. NeverBack'
    BY <1>1, <1>3, <2>1, <2>3 DEF NeverBack
  <2>5. NoLeap'
    BY <1>1, <2>1 DEF NoLeap, CountLog
  <2>6. QED
    BY <1>4, <2>1, <2>2, <2>4, <2>5
<1>8. QED
  BY <1>6, <1>7

\* The new sector counts at once when it is the first one, otherwise when the
\* old one is given up: it goes on from the word that was to be written.
LEMMA NewCounts ==
  ASSUME CountInv, pc \in {"ready", "old", "new"}, log' = log,
         hdr' \in [Sectors -> Flags], Found(hdr') = Target, Live(hdr') # {}
  PROVE  AfterRestart' = req /\ ~Leaps(CountLog') /\ req \in 0 .. MaxCount
         /\ Len(CountLog') <= 2
<1> USE DEF CountInv
<1>1. /\ Target \in Sectors /\ log[Target] \in Seq(0 .. MaxCount)
      /\ log[Target] # <<>> /\ Len(log[Target]) <= 2 /\ Last(log[Target]) = req
  BY CountTyped DEF NewLog
<1>2. CountLog' = log[Target]
  BY DEF CountLog
<1>3. ~Leaps(log[Target]) /\ Recovered(log[Target]) = req /\ req \in 0 .. MaxCount
  BY <1>1, RecoveredIs
<1>4. AfterRestart' = Recovered(log[Target])
  BY DEF AfterRestart
<1>5. QED
  BY <1>1, <1>2, <1>3, <1>4

LEMMA ReadyCountStep ==
  ASSUME CountInv, ReadyNew
  PROVE  CountInv'
<1> USE DEF CountInv
<1>1. /\ pc = "ready" /\ req # NoReq /\ log' = log /\ hdr' = [hdr EXCEPT ![Target] = "ready"]
      /\ req \in 0 .. MaxCount /\ saved \in Nat /\ asked \in Nat /\ AfterRestart <= req
      /\ log[Target] # <<>>
  BY DEF ReadyNew, CountCalls, CountTypes, CountOn, NewLog
<1>2. /\ AfterRestart \in 0 .. MaxCount /\ MaxCount \in Nat /\ Thres \in Nat /\ NoReq \notin Nat
      /\ Target \in Sectors /\ sec \in Sectors
      /\ change = "no" => Target = sec
      /\ change # "no" => Target # sec
      /\ \A t \in Sectors : change # "no" => t = sec \/ t = Target
  BY AfterRestartIs, CountBounds, CountTyped, CountSectors DEF CountTypes
<1>3. /\ hdr' \in [Sectors -> Flags] /\ hdr'[Target] = "ready"
      /\ \A s \in Sectors : s # Target => hdr'[s] = hdr[s]
  BY <1>1, <1>2 DEF CountTypes, Flags
<1>4. Live(hdr') = Live(hdr) \cup {Target}
  BY <1>2, <1>3 DEF Live
<1>5. LiveHaveWord'
  BY <1>1, <1>4 DEF LiveHaveWord
<1>6. CASE change = "no"
  <2>1. sec = 1 /\ Live(hdr) = {} /\ Target = 1
    BY <1>1, <1>2, <1>6 DEF CountHeaders
  <2>2. Live(hdr') = {1} /\ Found(hdr') = 1
    BY <1>4, <2>1, CountFound
  <2>3. AfterRestart' = req /\ ~Leaps(CountLog') /\ Len(CountLog') <= 2
    BY <1>1, <1>3, <2>1, <2>2, NewCounts
  <2>4. Return
    BY <1>6 DEF ReadyNew
  <2>5. /\ pc' = "idle" /\ change' = "no" /\ req' = NoReq /\ sec' = 1
        /\ pc' \in CountPcs /\ sec' \in Sectors /\ change' \in {"no", "full", "repair"}
        /\ req' \in (0 .. MaxCount) \cup {NoReq}
        /\ count' = req /\ count' \in 0 .. MaxCount
        /\ asked' = asked /\ asked' \in Nat /\ saved' \in Nat
        /\ (saved' = saved \/ saved' = req)
    BY <1>1, <2>4, ReturnCounts
  <2>6. CountTypes'
    BY <1>1, <1>3, <2>5 DEF CountTypes
  <2>7. CountCalls' /\ CountOn' /\ CountHeaders' /\ NewLog'
    BY <2>3, <2>5 DEF CountCalls, CountOn, CountHeaders, NewLog
  <2>8. NeverBack'
    BY <1>1, <1>2, <2>3, <2>5 DEF NeverBack
  <2>9. NoLeap'
    BY <1>1, <1>2, <1>6, <2>3, <2>5 DEF NoLeap, CountCalls
  <2>10. QED
    BY <1>5, <2>6, <2>7, <2>8, <2>9
<1>7. CASE change # "no"
  <2>1. /\ pc' = "old" /\ UNCHANGED <<req, sec, change, count, saved, asked>> /\ Target' = Target
    BY <1>7 DEF ReadyNew, counters, Target
  <2>2. hdr[sec] = "valid" /\ hdr[Target] = "none" /\ hdr'[sec] = "valid"
    BY <1>1, <1>2, <1>3, <1>7 DEF CountHeaders
  <2>3. Live(hdr) = {sec} /\ Live(hdr') = {sec, Target} /\ Found(hdr) = sec
    <3>1. Live(hdr) = {sec}
      BY <1>2, <1>7, <2>2 DEF Live
    <3>2. QED
      BY <1>4, <3>1, CountFound
  <2>4. CountTypes'
    BY <1>1, <1>3, <2>1 DEF CountTypes, CountPcs
  <2>5. CountCalls' /\ CountHeaders' /\ NewLog'
    BY <1>1, <1>3, <1>7, <2>1, <2>2 DEF CountCalls, CountHeaders, NewLog
  <2>6. CASE sec = 1
    <3>1. Found(hdr') = 1
      BY <2>3, <2>6, CountFound
    <3>2. AfterRestart' = AfterRestart /\ CountLog' = CountLog
      BY <1>1, <2>3, <2>6, <3>1, SameLog
    <3>3. CountOn'
      BY <1>1, <2>1, <3>2 DEF CountOn
    <3>4. asked' >= asked
      BY <1>1, <2>1
    <3>5. QED
      BY <1>5, <2>1, <2>3, <2>4, <2>5, <3>2, <3>3, <3>4, CountKept
  <2>7. CASE sec # 1
    <3>1. Found(hdr') = Target
      BY <1>2, <1>7, <2>3, <2>7, CountFound DEF Sectors
    <3>2. AfterRestart' = req
      BY <1>1, <1>3, <2>3, <3>1, NewCounts
    <3>3. CountOn'
      BY <1>1, <2>1, <3>2 DEF CountOn
    <3>4. NeverBack'
      BY <1>1, <1>2, <2>1, <3>2 DEF NeverBack
    <3>5. NoLeap'
      BY <1>1, <1>2, <2>1, <3>2 DEF NoLeap, CountCalls
    <3>6. QED
      BY <1>5, <2>4, <2>5, <3>3, <3>4, <3>5
  <2>8. QED
    BY <2>6, <2>7
<1>8. QED
  BY <1>6, <1>7

LEMMA EndStep ==
  ASSUME CountInv, InvalidateOld \/ ValidateNew
  PROVE  CountInv'
<1> USE DEF CountInv
<1>1. /\ pc \in {"old", "new"} /\ req # NoReq /\ log' = log /\ change # "no"
      /\ req \in 0 .. MaxCount /\ saved \in Nat /\ asked \in Nat /\ AfterRestart <= req
      /\ log[Target] # <<>> /\ hdr[Target] = "ready"
  BY DEF InvalidateOld, ValidateNew, CountCalls, CountTypes, CountOn, NewLog, CountHeaders
<1>2. /\ AfterRestart \in 0 .. MaxCount /\ MaxCount \in Nat /\ Thres \in Nat /\ NoReq \notin Nat
      /\ Target \in Sectors /\ sec \in Sectors /\ Target # sec
      /\ \A t \in Sectors : t = sec \/ t = Target
  BY <1>1, AfterRestartIs, CountBounds, CountTyped, CountSectors DEF CountTypes
<1>3. /\ hdr' \in [Sectors -> Flags] /\ hdr'[Target] \in {"ready", "valid"} /\ hdr'[sec] = "invalid"
      /\ InvalidateOld => hdr'[Target] = "ready"
  BY <1>1, <1>2 DEF InvalidateOld, ValidateNew, CountHeaders, CountTypes, Flags
<1>4. Live(hdr') = {Target}
  BY <1>2, <1>3 DEF Live
<1>5. Found(hdr') = Target /\ LiveHaveWord'
  BY <1>1, <1>4, CountFound DEF LiveHaveWord
<1>6. AfterRestart' = req /\ ~Leaps(CountLog') /\ Len(CountLog') <= 2
  BY <1>1, <1>3, <1>4, <1>5, NewCounts
<1>7. CASE InvalidateOld
  <2>1. pc' = "new" /\ UNCHANGED <<req, sec, change, count, saved, asked>> /\ Target' = Target
    BY <1>7 DEF InvalidateOld, counters, Target
  <2>2. CountTypes'
    BY <1>1, <1>3, <2>1 DEF CountTypes, CountPcs
  <2>3. CountCalls' /\ CountHeaders' /\ NewLog'
    BY <1>1, <1>3, <1>7, <2>1 DEF CountCalls, CountHeaders, NewLog
  <2>4. CountOn'
    BY <1>1, <1>6, <2>1 DEF CountOn
  <2>5. NeverBack'
    BY <1>1, <1>2, <1>6, <2>1 DEF NeverBack
  <2>6. NoLeap'
    BY <1>1, <1>2, <1>6, <2>1 DEF NoLeap, CountCalls
  <2>7. QED
    BY <1>5, <2>2, <2>3, <2>4, <2>5, <2>6
<1>8. CASE ValidateNew
  <2>1. Return
    BY <1>8 DEF ValidateNew
  <2>2. /\ pc' = "idle" /\ change' = "no" /\ req' = NoReq /\ sec' = 1
        /\ pc' \in CountPcs /\ sec' \in Sectors /\ change' \in {"no", "full", "repair"}
        /\ req' \in (0 .. MaxCount) \cup {NoReq}
        /\ count' = req /\ count' \in 0 .. MaxCount
        /\ asked' = asked /\ asked' \in Nat /\ saved' \in Nat
        /\ (saved' = saved \/ saved' = req)
    BY <1>1, <2>1, ReturnCounts
  <2>3. CountTypes'
    BY <1>1, <1>3, <2>2 DEF CountTypes
  <2>4. CountCalls' /\ CountOn' /\ CountHeaders' /\ NewLog'
    BY <1>6, <2>2 DEF CountCalls, CountOn, CountHeaders, NewLog
  <2>5. NeverBack'
    BY <1>1, <1>2, <1>6, <2>2 DEF NeverBack
  <2>6. NoLeap'
    BY <1>1, <1>2, <1>6, <2>2 DEF NoLeap, CountCalls
  <2>7. QED
    BY <1>5, <2>3, <2>4, <2>5, <2>6
<1>9. QED
  BY <1>7, <1>8

\* The invariant of the frame counter.
THEOREM CountInvariance == CountSpec => []CountInv
<1>1. CountInit => CountInv
  BY InitialCount
<1>2. CountInv /\ [CountNext]_countVars => CountInv'
  <2> SUFFICES ASSUME CountInv, [CountNext]_countVars PROVE CountInv'
    OBVIOUS
  <2>1. CASE \/ nv_nwkFrameCountSaveToFlash \/ nv_nwkFrameCountFromFlash
             \/ NothingStored \/ Recover \/ Search \/ Crash
    BY <2>1, CountCallStep
  <2>2. CASE FinishOld \/ FinishNew \/ EraseBoth \/ EraseNew \/ CopyLast
    BY <2>2, CountSectorStep
  <2>3. CASE Word
    BY <2>3, WordStep
  <2>4. CASE CrashTorn
    BY <2>4, TornStep
  <2>5. CASE ReadyNew
    BY <2>5, ReadyCountStep
  <2>6. CASE InvalidateOld \/ ValidateNew
    BY <2>6, EndStep
  <2>7. CASE UNCHANGED countVars
    BY <2>7 DEF countVars, CountInv, CountTypes, LiveHaveWord, CountCalls, CountOn, CountHeaders,
       NewLog, NeverBack, NoLeap, AfterRestart, CountLog, Target
  <2>8. QED
    BY <2>1, <2>2, <2>3, <2>4, <2>5, <2>6, <2>7 DEF CountNext
<1>3. QED
  BY <1>1, <1>2, PTL DEF CountSpec

\* A restart never goes back behind a save that has returned: nv_nwkFrameCount
\* functions of drv_nv.c.
THEOREM CounterNeverBack == CountSpec => []NeverBack
<1>1. CountInv => NeverBack
  BY DEF CountInv
<1>2. QED
  BY <1>1, CountInvariance, PTL

\* A restart counts on at most a threshold above what was asked to be saved, by
\* the repair of a torn word in nv_nwkFrameCountFromFlash; but for the second
\* word of a sector, which that does not compare.
THEOREM CounterNoLeap == CountSpec => []NoLeap
<1>1. CountInv => NoLeap
  BY DEF CountInv
<1>2. QED
  BY <1>1, CountInvariance, PTL
=============================================================================
