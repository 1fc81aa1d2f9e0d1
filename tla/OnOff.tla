-------------------------------- MODULE OnOff --------------------------------
(***************************************************************************)
(* The On/Off cluster of the bridge: zcl_onOffCb.c, and the main-loop turn *)
(* app_zb_task with test_ble_trigger of app_main.c.                        *)
(*                                                                         *)
(* A device n is switched from two sides.  Zigbee commands switch onOff,   *)
(* the permission to act; a BLE advertisement of the sensor sets a trigger *)
(* that, while onOff is set, switches onOffrm, the state wanted from the   *)
(* remote relays bound to n.  Each change is sent to every bound relay     *)
(* with an APS acknowledgement; a delivery that is not acknowledged is     *)
(* repeated, for Window seconds after the command.                         *)
(*                                                                         *)
(* The field "used" of a binding is 1 when nothing is owed to the relay    *)
(* and its endpoint plus one when the command has to be sent again.        *)
(*                                                                         *)
(* The APS layer and the relays are external.  A frame may be refused, it  *)
(* may be received or not, and each one sent is confirmed once.  Frames    *)
(* overtake each other on their way and in their confirmations, those to   *)
(* one relay too, so that the order they were sent in is not kept here.    *)
(***************************************************************************)
EXTENDS Integers, FiniteSets, FiniteSetsExt, Functions

CONSTANTS
  Devs,        \* 0 .. MAX_SCAN_DEVS - 1
  Ble,         \* devices with a sensor: dev_MAC[n][5] # 0
  Slots,       \* entries of g_apsBindingTbl bound to the On/Off cluster
  SrcEp,       \* the device an entry is bound from (srcEp - APP_ENDPOINT1)
  Addr,        \* address of its relay (dstExtAddrInfo.extAddr)
  DstEp,       \* endpoint of its relay (dstExtAddrInfo.dstEp)
  Window,      \* USE_RETRY_ONOFF, seconds
  MinReport,   \* MIN_REPORT_INTERVAL, seconds
  Forever,     \* 0xffff in onTime and offWaitTime
  Times,       \* values of onTime and offWaitTime in received commands
  MaxCmds,     \* bound: commands and triggers received
  MaxReports,  \* bound: rounds of attribute reports
  MaxFlight,   \* bound: frames under way, after which the next is refused
  MaxUtc,      \* bound: utc_time_sec
  MaxStep,     \* bound: seconds the clock catches up with in one turn
  MaxLeaves    \* bound: times the network is lost

ON == 1
OFF == 0
State == {OFF, ON}
REPORT == 2

\* A frame under way: an attribute report, or a command that its relay has got
\* already or not.  A frame that is not the command last decided on is old.
Frame == [val : State \cup {REPORT}, got : BOOLEAN, old : BOOLEAN]

Report == [val |-> REPORT, got |-> FALSE, old |-> TRUE]
Command(v) == [val |-> v, got |-> FALSE, old |-> FALSE]

ASSUME ConstantsAssumption ==
  /\ Devs \subseteq Nat /\ Ble \subseteq Devs /\ Slots \subseteq Nat
  /\ SrcEp \in [Slots -> Devs]
  /\ DstEp \in [Slots -> 1 .. 254]
  /\ DOMAIN Addr = Slots
  /\ \A j, k \in Slots :
       SrcEp[j] = SrcEp[k] /\ Addr[j] = Addr[k] /\ DstEp[j] = DstEp[k] => j = k
  /\ Window \in Nat \ {0} /\ MinReport \in Nat \ {0}
  /\ Forever \in Nat \ {0} /\ Times \subseteq 0 .. Forever
  /\ {MaxCmds, MaxReports, MaxFlight, MaxUtc, MaxStep, MaxLeaves}
       \subseteq Nat

VARIABLES
  onOff,      \* per device: relay permission, the attribute OnOff
  onTime,     \* ... tenths of a second left before it goes off
  offWait,    \* offWaitTime: ... during which it may not be turned on again
  timer,      \* ... onWithTimedOffTimerEvt is scheduled
  onOffrm,    \* ... state wanted from the remote relays
  timeStamp,  \* ... time of the last command to them; 0: no repeats
  trigger,    \* ... ble_trigger, the last state a sensor reported
  fresh,      \* ... FLG_UPDATE_TRG: the trigger is not looked at yet
  used,       \* per binding: 1, or the endpoint to repeat to plus one
  utc,        \* utc_time_sec
  upsec,      \* reportupsec, seconds since the last round of reports
  joined,     \* zb_isDeviceJoinedNwk
  net,        \* per binding: number of frames of each kind under way to it
  delivered,  \* per binding: the last command its relay received
  lapsed,     \* per binding: the relay was lost sight of, see the properties
  count       \* commands, reports and losses of the network so far

local == <<onOff, onTime, offWait, timer>>
remote == <<onOffrm, timeStamp, used, net, lapsed>>
ble == <<trigger, fresh>>
clock == <<utc, upsec>>
vars == <<local, remote, ble, clock, joined, delivered, count>>

Least(S) == CHOOSE x \in S : \A y \in S : x <= y
Larger(a, b) == IF a >= b THEN a ELSE b
Smaller(a, b) == IF a <= b THEN a ELSE b

\* bind_tbl->used is a byte.
\* Seeded fault: an offset of two.
RetryMark_Offset(ep) == (ep + 2) % 256

RetryMark(ep) == (ep + 1) % 256

InWindow(n, now) == now - timeStamp[n] < Window

Init ==
  /\ onOff \in [Devs -> State]
  /\ onTime = [n \in Devs |-> 0]
  /\ offWait = [n \in Devs |-> 0]
  /\ timer = [n \in Devs |-> FALSE]
  /\ onOffrm = [n \in Devs |-> OFF]
  /\ timeStamp = [n \in Devs |-> 0]
  /\ trigger = [n \in Devs |-> OFF]
  /\ fresh = [n \in Devs |-> FALSE]
  /\ used = [j \in Slots |-> 1]
  /\ utc = 0 /\ upsec = 0
  /\ joined = TRUE
  /\ net = [j \in Slots |-> [f \in Frame |-> 0]]
  /\ delivered = [j \in Slots |-> OFF]
  /\ lapsed = [j \in Slots |-> FALSE]
  /\ count = [cmds |-> 0, reports |-> 0, leaves |-> 0]

Counted(kind, max) ==
  /\ count[kind] < max
  /\ count' = [count EXCEPT ![kind] = @ + 1]

-----------------------------------------------------------------------------
(* Sending and switching *)

Bound(ns) == {j \in Slots : SrcEp[j] \in ns}

UnderWay == MapThenSumSet(LAMBDA j : FoldFunction(+, 0, net[j]), Slots)

\* The bindings of S that the stack takes a frame for: zcl_sendCmd may fail,
\* which neither of its callers looks at.
Taken(S) ==
  {T \in SUBSET S :
     T # {} => joined /\ UnderWay + Cardinality(T) <= MaxFlight}

\* newCmdOnOff for the devices of ns: every binding of theirs starts anew ...
Restarted(ns) == [j \in Slots |-> IF SrcEp[j] \in ns THEN 1 ELSE used[j]]

\* ... which makes the frames under way old ones ...
Aged(frames) ==
  [f \in Frame |-> IF f.old THEN frames[f] + frames[[f EXCEPT !.old = FALSE]]
                            ELSE 0]

\* ... and a command is under way to the bindings of "taken".
Sent(ns, taken) ==
  [j \in Slots |->
     LET frames == IF SrcEp[j] \in ns THEN Aged(net[j]) ELSE net[j]
     IN IF j \in taken
        THEN [frames EXCEPT ![Command(onOffrm'[SrcEp[j]])] = @ + 1]
        ELSE frames]

Lapsed(ns, taken) ==
  [j \in Slots |-> IF SrcEp[j] \in ns THEN j \notin taken ELSE lapsed[j]]

newCmdOnOff(ns) ==
  \E taken \in Taken(Bound(ns)) :
    /\ used' = Restarted(ns)
    /\ net' = Sent(ns, taken)
    /\ lapsed' = Lapsed(ns, taken)

\* app_onOffUpdate with the command that leads to state v; t and w are onTime
\* and offWaitTime at the call.
app_onOffUpdate(n, v, t, w) ==
  /\ onOff' = [onOff EXCEPT ![n] = v]
  /\ onTime' = [onTime EXCEPT ![n] = IF v = ON THEN t ELSE 0]
  /\ offWait' = [offWait EXCEPT ![n] = IF v = ON /\ t = 0 THEN 0 ELSE w]
  /\ IF n \in Ble /\ v = ON
     THEN UNCHANGED remote
     ELSE /\ onOffrm' = [onOffrm EXCEPT ![n] = v]
          /\ timeStamp' = [timeStamp EXCEPT ![n] = utc]
          /\ newCmdOnOff({n})

\* ON, OFF, TOGGLE and OFF_WITH_EFFECT: each leads to one of the two states.
app_onOffCb(n, v) ==
  /\ joined
  /\ Counted("cmds", MaxCmds)
  /\ app_onOffUpdate(n, v, onTime[n], offWait[n])
  /\ UNCHANGED <<timer, ble, clock, joined, delivered>>

\* ON_WITH_TIMED_OFF.
app_onoff_onWithTimedOffProcess(n, acceptOnlyWhenOn, t, w) ==
  /\ joined
  /\ Counted("cmds", MaxCmds)
  /\ ~(acceptOnlyWhenOn /\ onOff[n] = OFF)
  /\ IF offWait[n] > 0 /\ onOff[n] = OFF
     THEN /\ offWait' = [offWait EXCEPT ![n] = Smaller(@, w)]
          /\ UNCHANGED <<onOff, onTime, remote>>
     ELSE app_onOffUpdate(n, ON, Larger(onTime[n], t), w)
  /\ timer' = [timer EXCEPT ![n] =
                 \/ @
                 \/ /\ onTime'[n] < Forever /\ offWait'[n] < Forever
                    /\ onTime'[n] > 0 \/ offWait'[n] > 0]
  /\ UNCHANGED <<ble, clock, joined, delivered>>

\* Seeded fault: the timer event runs once.
KeepsRunning_Once(n) == FALSE

\* What app_onWithTimedOffTimerCb returns while the time is not up.
KeepsRunning(n) ==
  /\ onTime'[n] > 0 \/ offWait'[n] > 0
  /\ ~(onOff[n] = OFF /\ offWait[n] = 1)

\* A count runs in state v of device n.
Counting(n, v, left) == onOff[n] = v /\ left > 0

\* One tenth of a second of app_onWithTimedOffTimerCb.
app_onWithTimedOffTimerCb(n) ==
  /\ timer[n]
  /\ IF Counting(n, ON, onTime[n]) /\ onTime[n] = 1
     THEN app_onOffUpdate(n, OFF, 0, 0)
     ELSE /\ onTime' = [onTime EXCEPT ![n] =
                          IF Counting(n, ON, @) THEN @ - 1 ELSE @]
          /\ offWait' = [offWait EXCEPT ![n] =
                          IF Counting(n, OFF, @) THEN @ - 1 ELSE @]
          /\ UNCHANGED <<onOff, remote>>
  /\ timer' = [timer EXCEPT ![n] = KeepsRunning(n)]
  /\ UNCHANGED <<ble, clock, joined, delivered, count>>

\* An advertisement of the sensor of n (ble_scaning.c).
Advertised(n, v) ==
  /\ n \in Ble
  /\ Counted("cmds", MaxCmds)
  /\ trigger' = [trigger EXCEPT ![n] = v]
  /\ fresh' = [fresh EXCEPT ![n] = TRUE]
  /\ UNCHANGED <<local, remote, clock, joined, delivered>>

-----------------------------------------------------------------------------
(* A turn of the main loop: app_zb_task *)

\* Seeded fault: the last entry of the table is not looked at.
Pending_NotLast(n) ==
  {j \in Slots : SrcEp[j] = n /\ used[j] > 1 /\ \E k \in Slots : k > j}

\* Bindings of n the command has to be repeated to.
Pending(n) == {j \in Slots : SrcEp[j] = n /\ used[j] > 1}

\* Seeded fault: the permission is not asked for.
HasTrigger_NoPermission(n) == n \in Ble /\ fresh[n]

HasTrigger(n) == n \in Ble /\ onOff[n] = ON /\ fresh[n]

Switched(n) == HasTrigger(n) /\ trigger[n] # onOffrm[n]

\* Devices with something to repeat when test_ble_trigger reaches them: one
\* that is switched in the same turn has nothing to repeat.
Repeating(now) ==
  {n \in Devs : /\ ~Switched(n)
                /\ timeStamp[n] # 0 /\ InWindow(n, now)
                /\ Pending(n) # {}}

\* Devices that test_ble_trigger looks at: it returns after one repetition.
Reached(now) ==
  {n \in Devs : Repeating(now) = {} \/ n <= Least(Repeating(now))}

\* The binding whose repeat is owed, at its own endpoint.
Marked(j) == used[j] = DstEp[j] + 1

\* Where a frame from the device of j to endpoint ep of the node of j goes.
To(j, ep) ==
  {k \in Slots : SrcEp[k] = SrcEp[j] /\ Addr[k] = Addr[j] /\ DstEp[k] = ep}

\* The sends of test_ble_trigger: the new commands of the devices of ns, then
\* one command again, to the endpoint kept in "used".
NewAndRepeated(ns, now) ==
  IF Repeating(now) = {}
  THEN newCmdOnOff(ns)
  ELSE LET j == Least(Pending(Least(Repeating(now))))
       IN \E taken \in Taken(Bound(ns) \cup To(j, used[j] - 1)) :
            /\ used' = [Restarted(ns) EXCEPT ![j] = 1]
            /\ net' = Sent(ns, taken)
            /\ lapsed' = [Lapsed(ns, taken) EXCEPT
                            ![j] = @ \/ (Marked(j) /\ j \notin taken)]

test_ble_trigger(now) ==
  LET handled == {n \in Reached(now) : HasTrigger(n)}
      switched == {n \in handled : Switched(n)}
  IN /\ fresh' = [n \in Devs |-> fresh[n] /\ n \notin handled]
     /\ onOffrm' = [n \in Devs |-> IF n \in switched THEN trigger[n]
                                   ELSE onOffrm[n]]
     /\ timeStamp' = [n \in Devs |-> IF n \in switched THEN now
                                     ELSE timeStamp[n]]
     /\ NewAndRepeated(switched, now)

\* app_chk_report: changed attributes of some devices are reported to the
\* bindings of "taken".
app_chk_report ==
  \E taken \in Taken(Slots) :
    /\ net' = [j \in Slots |-> IF j \in taken
                               THEN [net[j] EXCEPT ![Report] = @ + 1]
                               ELSE net[j]]
    /\ IF taken = {} THEN UNCHANGED count ELSE Counted("reports", MaxReports)
    /\ UNCHANGED <<onOffrm, timeStamp, used, lapsed, fresh>>

\* The clock catches up with dt seconds; then reports or triggers.
app_zb_task(dt) ==
  /\ joined
  /\ utc + dt <= MaxUtc
  /\ utc' = utc + dt
  /\ IF upsec + dt >= MinReport
     THEN app_chk_report /\ upsec' = 0
     ELSE test_ble_trigger(utc') /\ upsec' = upsec + dt /\ UNCHANGED count
  /\ UNCHANGED <<local, trigger, joined, delivered>>

\* Out of the network: no clock, no triggers.
app_zb_task_offline ==
  /\ ~joined
  /\ upsec # 0
  /\ upsec' = 0
  /\ UNCHANGED <<local, remote, ble, utc, joined, delivered, count>>

-----------------------------------------------------------------------------
(* The network *)

\* Two failures that stand for a relay out of reach, and any other.
Unanswered == {"APS_STATUS_NO_ACK", "MAC_STA_NO_ACK"}
Statuses == {"APS_STATUS_SUCCESS", "other failure"} \cup Unanswered

\* Seeded fault: the status of the APS layer is forgotten.
NoAck_MacOnly(status) == status = "MAC_STA_NO_ACK"

NoAck(status) == status = "APS_STATUS_NO_ACK" \/ status = "MAC_STA_NO_ACK"

\* Seeded fault: the source endpoint is not compared.
Confirms_AnySource(j, k) == Addr[k] = Addr[j]

\* Bindings that the confirmation of a frame of binding j is taken for: the
\* endpoint of the relay is not compared.
Confirms(j, k) == SrcEp[k] = SrcEp[j] /\ Addr[k] = Addr[j]

\* A confirmation of a frame to binding j.
afTestOnOffCb(j, status) ==
  LET n == SrcEp[j]
      mark == IF InWindow(n, utc) /\ NoAck(status) THEN RetryMark(DstEp[j])
                                                   ELSE 1
  IN /\ used' = [k \in Slots |-> IF Confirms(j, k) THEN mark ELSE used[k]]
     /\ timeStamp' = [timeStamp EXCEPT ![n] =
                         IF InWindow(n, utc) THEN @ ELSE 0]

\* The newest command may still reach the relay of j.
Awaited(j) == \E f \in Frame : ~f.old /\ ~f.got /\ net[j][f] > 0

\* A relay that has got the newest command gets an older one after it.
Undone(j, f) ==
  /\ f.old /\ f.val # onOffrm[SrcEp[j]]
  /\ \/ \E g \in Frame : ~g.old /\ g.got /\ net[j][g] > 0
     \/ ~Awaited(j) /\ ~Marked(j)

\* The relay of j gets a command.
Received(j, f) ==
  /\ net[j][f] > 0
  /\ f.val \in State /\ ~f.got
  /\ net' = [net EXCEPT ![j][f] = @ - 1, ![j][[f EXCEPT !.got = TRUE]] = @ + 1]
  /\ delivered' = [delivered EXCEPT ![j] = f.val]
  /\ lapsed' = [lapsed EXCEPT ![j] = @ \/ Undone(j, f)]
  /\ UNCHANGED <<local, onOffrm, timeStamp, used, ble, clock, joined, count>>

\* The newest command did not arrive, and that is not noted: in the network
\* only two failures are, outside of it none.
Unnoted(j, f, status) ==
  ~f.old /\ ~f.got /\ ~(joined /\ status \in Unanswered)

\* The mark of k is taken away by a confirmation for binding j that is not
\* one of the newest command to k: that of a report, of an older command or of
\* a frame to another endpoint of the node.
Overwritten(k, j, f, status) ==
  /\ joined
  /\ Confirms(j, k) /\ Marked(k)
  /\ k # j \/ (f.old /\ status \notin Unanswered)

\* A frame to j is confirmed.  One that succeeded was received; one that was
\* not acknowledged may have been received or not.  A report asks for no
\* acknowledgement of the APS layer.
Confirmed(j, f, status) ==
  /\ net[j][f] > 0
  /\ status = "APS_STATUS_SUCCESS" => f.got \/ f = Report
  /\ f = Report => status # "APS_STATUS_NO_ACK"
  /\ net' = [net EXCEPT ![j][f] = @ - 1]
  /\ lapsed' = [k \in Slots |->
                  \/ lapsed[k]
                  \/ k = j /\ Unnoted(j, f, status)
                  \/ Overwritten(k, j, f, status)]
  /\ IF joined
     THEN afTestOnOffCb(j, status)
     ELSE UNCHANGED <<used, timeStamp>>
  /\ UNCHANGED <<local, onOffrm, ble, clock, joined, delivered, count>>

Leave ==
  /\ joined
  /\ Counted("leaves", MaxLeaves)
  /\ joined' = FALSE
  /\ UNCHANGED <<local, remote, ble, clock, delivered>>

Rejoin ==
  /\ ~joined
  /\ joined' = TRUE
  /\ UNCHANGED <<local, remote, ble, clock, delivered, count>>

Next ==
  \/ \E n \in Devs, v \in State : app_onOffCb(n, v) \/ Advertised(n, v)
  \/ \E n \in Devs, only \in BOOLEAN, t \in Times, w \in Times :
       app_onoff_onWithTimedOffProcess(n, only, t, w)
  \/ \E n \in Devs : app_onWithTimedOffTimerCb(n)
  \/ \E dt \in 0 .. MaxStep : app_zb_task(dt)
  \/ app_zb_task_offline
  \/ \E j \in Slots, f \in Frame :
       \/ Received(j, f)
       \/ \E status \in Statuses : Confirmed(j, f, status)
  \/ Leave
  \/ Rejoin

Spec == Init /\ [][Next]_vars

\* The timer event is run again and again while it is scheduled.
TimerFairness == \A n \in Devs : WF_vars(app_onWithTimedOffTimerCb(n))

\* The network comes back; a repetition that is due time and again is sent by
\* a turn of the main loop; and a relay that the newest command is under way to
\* time and again gets it.
RepeatFairness ==
  /\ WF_vars(Rejoin)
  /\ \A j \in Slots :
       /\ SF_vars(app_zb_task(0) /\ used[j] > 1 /\ used'[j] = 1)
       /\ SF_vars(\E v \in State : Received(j, Command(v)))

LiveSpec == Spec /\ TimerFairness /\ RepeatFairness

-----------------------------------------------------------------------------
(* Properties *)

\* The variables keep their types; in particular "used" stays in its byte and
\* never becomes 0, which would delete the binding from the table of the APS
\* layer (bind_tbl->used = dstEndpoint + 1).
TypeOK ==
  /\ onOff \in [Devs -> State]
  /\ onTime \in [Devs -> 0 .. Forever]
  /\ offWait \in [Devs -> 0 .. Forever]
  /\ timer \in [Devs -> BOOLEAN]
  /\ onOffrm \in [Devs -> State]
  /\ timeStamp \in [Devs -> Nat]
  /\ trigger \in [Devs -> State]
  /\ fresh \in [Devs -> BOOLEAN]
  /\ used \in [Slots -> 1 .. 255]
  /\ utc \in Nat /\ upsec \in 0 .. MinReport - 1
  /\ joined \in BOOLEAN
  /\ net \in [Slots -> [Frame -> Nat]]
  /\ delivered \in [Slots -> State]
  /\ lapsed \in [Slots -> BOOLEAN]
  /\ count \in [cmds : Nat, reports : Nat, leaves : Nat]

WindowOpen(n) == timeStamp[n] # 0 /\ InWindow(n, utc)

\* Nothing is lost while repeats last: a relay has the state wanted from it,
\* or the newest command may still arrive, or the relay is marked for a repeat
\* at its own endpoint.  A relay is lost sight of in five ways only: the
\* command or its repeat was not sent; the command failed in a way that is not
\* noted; the mark was taken away by another confirmation; or an older command
\* came last (newCmdOnOff, test_ble_trigger, afTestOnOffCb).
Chased ==
  \A j \in Slots :
    WindowOpen(SrcEp[j]) /\ ~lapsed[j] =>
      Marked(j) \/ Awaited(j) \/ delivered[j] = onOffrm[SrcEp[j]]

\* A repeat goes to an endpoint its device is bound to on that node: the
\* confirmations of one binding are not taken for one of another device or of
\* another node (afTestOnOffCb).  With two endpoints bound on one node it may
\* be the other one.
RepeatsToBoundEndpoint ==
  \A j \in Slots : used[j] > 1 => To(j, used[j] - 1) # {}

\* A device whose permission is withdrawn wants its relays off, whatever
\* triggers arrive or wait (app_onOffUpdate, test_ble_trigger).
OffWithoutPermission == \A n \in Devs : onOff[n] = OFF => onOffrm[n] = OFF

\* A device that is on for a limited time has its timer scheduled.
Armed ==
  \A n \in Devs :
    onOff[n] = ON /\ onTime[n] \in 1 .. Forever - 1 /\ offWait[n] < Forever
      => timer[n]

\* A device that is on for a limited time goes off.
GoesOff ==
  \A n \in Devs :
    (onOff[n] = ON /\ onTime[n] > 0 /\ timer[n]) ~> onOff[n] = OFF

\* While repeats last, a relay that is reached again gets the state wanted,
\* unless it was lost sight of.
Reaches ==
  \A j \in Slots :
    LET n == SrcEp[j]
    IN WindowOpen(n) ~>
         delivered[j] = onOffrm[n] \/ ~WindowOpen(n) \/ lapsed[j]
=============================================================================
