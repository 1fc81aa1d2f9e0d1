----------------------------- MODULE Commissioning -----------------------------
(***************************************************************************)
(* How the bridge gets into a Zigbee network and back into it: the base    *)
(* device behaviour of the SDK, bdb.c, as built for an end device without  *)
(* touchlink and find-and-bind, with the callbacks of zb_appCb.c.          *)
(*                                                                         *)
(* bdb.c and the application run in one thread, but in pieces: a callback  *)
(* of the stack or of a timer posts a task, which reads the shared status  *)
(* when its turn comes.  The stack below is external: it answers each      *)
(* request once, loses the parent at any time while joined, and answers    *)
(* the queries of the key exchange at any time while joined, or never.     *)
(***************************************************************************)
EXTENDS PollControl, Sequences

CONSTANTS
  MaxAttempts, \* tcLinkKeyExchangeAttemptsMax, 3 in the code
  MaxLosses,   \* bound: losses of the parent
  MaxEvents,   \* bound: losses and commands of the Poll Control cluster together
  MaxTasks     \* bound: tasks queued when the stack reports something

ASSUME CommissioningAssumption ==
  /\ MaxPolls \in Nat /\ MaxAttempts \in Nat \ {0}
  /\ MaxLosses \in Nat /\ MaxEvents \in Nat /\ MaxTasks \in Nat

VARIABLES
  state,       \* g_bdbCtx.state
  status,      \* g_bdbCtx.status
  inProgress,  \* commissioningStatus = BDB_COMMISSION_STA_IN_PROGRESS
  onNet,       \* nodeIsOnANetwork
  initOk,      \* initResult = BDB_INIT_STATUS_SUCCESS
  tasks,       \* events posted to bdb_task, and bdb_mgmtPermitJoiningConfirm
  attempts,    \* tcLinkKeyExchangeAttempts, counted no further than past the maximum
  leaveDoing,  \* a leave has been requested
  joined,      \* external: zb_isDeviceJoinedNwk
  factoryNew,  \* external: zb_isDeviceFactoryNew
  request,     \* external: what the network manager of the stack is doing
  query,       \* external: a node descriptor request is not answered yet
  keyReq,      \* external: a key request is not answered yet
  leaving,     \* external: a leave is not confirmed yet
  centre,      \* external: the network has a trust center
  losses,      \* losses of the parent so far
  due,         \* the slow timers that may expire now
  ceased       \* the rejoin timer ended because the bridge is new, nothing was tried since

bdb == <<state, status, inProgress, onNet, initOk, tasks, attempts, leaveDoing>>
stack == <<joined, factoryNew, request, query, keyReq, leaving, centre>>
vars == <<timers, poll, bdb, stack, losses, due, ceased>>

\* The timers by their periods, the steering timer (4 s at most) left aside.
Quick == {"delay", "permit", "keyStart"}
Slow == {"key", "rejoin"}

Post(task) == tasks' = Append(tasks, task)

\* bdb_init of a new device, or of one that rejoins.
Init ==
  /\ factoryNew \in BOOLEAN
  /\ state = "init" /\ status = "success" /\ inProgress = FALSE
  /\ onNet = ~factoryNew
  /\ initOk = TRUE
  /\ tasks = IF factoryNew THEN <<"initDone">> ELSE <<>>
  /\ request = IF factoryNew THEN "none" ELSE "rejoin"
  /\ attempts = 0 /\ leaveDoing = FALSE
  /\ joined = FALSE /\ query = FALSE /\ keyReq = FALSE /\ leaving = FALSE
  /\ centre \in BOOLEAN /\ (factoryNew => centre)
  /\ timers = [k \in Kind |-> Stopped]
  /\ losses = 0 /\ due = {} /\ ceased = FALSE
  /\ PollInit /\ (factoryNew => ~bound)

-----------------------------------------------------------------------------
(* The application, zb_appCb.c *)

\* zb_rejoinReq and zb_nwkDiscovery, refused while the manager is busy.
Requested(r) == IF request = "none" THEN r ELSE request

\* zbdemo_bdbInitCb
InitTimers ==
  IF initOk
  THEN IF onNet THEN CheckInStarted(timers)
       ELSE Scheduled(Cancelled(timers, "steer"), "steer")
  ELSE IF onNet /\ ~timers["rejoin"].handle THEN Scheduled(timers, "rejoin")
       ELSE timers

\* Seeded fault: the rejoin timer survives the success.
SuccessTimers_Rejoin == CheckInStarted(Cancelled(timers, "steer"))

SuccessTimers == CheckInStarted(Cancelled(Cancelled(timers, "steer"), "rejoin"))

\* Seeded fault: a success is taken for the network.
SuccessRequest_None == request

\* A network that was found and lost again is looked for.
SuccessRequest == IF joined THEN request ELSE Requested("rejoin")

\* zbdemo_bdbCommissioningCb; ota_queryStart belongs to the update client.
zbdemo_bdbCommissioningCb ==
  CASE status = "success" ->
         /\ timers' = SuccessTimers
         /\ request' = SuccessRequest
    [] status \in {"noNetwork", "keyFailure"} ->
         /\ timers' = Scheduled(Cancelled(timers, "steer"), "steer")
         /\ UNCHANGED request
    [] status = "parentLost" ->
         /\ request' = Requested("rejoin")
         /\ UNCHANGED timers
    [] status = "rejoinFailure" ->
         /\ timers' = IF timers["rejoin"].handle THEN timers
                      ELSE Scheduled(timers, "rejoin")
         /\ UNCHANGED request

\* app_bdbNetworkSteerStart with bdb_topLevelCommissioning, whose refusal
\* (BDB_STATE_COMMISSIONING_BUSY) is not looked at.
app_bdbNetworkSteerStart ==
  /\ timers["steer"].running > 0
  /\ timers' = Ended(timers, "steer")
  /\ IF state = "idle" /\ request = "none" /\ ~inProgress
     THEN inProgress' = TRUE /\ Post("start")
     ELSE UNCHANGED <<inProgress, tasks>>
  /\ UNCHANGED <<poll, state, status, onNet, initOk, attempts, leaveDoing, stack,
                 losses>>

\* Seeded fault: one attempt, as the last one does.
RejoinBackoffEnds_Once == TRUE

RejoinBackoffEnds == factoryNew

app_rejoinBackoff ==
  /\ timers["rejoin"].running > 0
  /\ IF RejoinBackoffEnds
     THEN timers' = Ended(timers, "rejoin") /\ UNCHANGED request
     ELSE request' = Requested("rejoin") /\ UNCHANGED timers
  /\ UNCHANGED <<poll, bdb, joined, factoryNew, query, keyReq, leaving, centre, losses>>

-----------------------------------------------------------------------------
(* bdb.c *)

\* bdb_zdoStartDevCnf with the result "ok", "fail" or "lost".
bdb_zdoStartDevCnf(result) ==
  /\ onNet' = (onNet \/ (result = "ok" /\ state # "init"))
  /\ CASE state = "idle" ->
            /\ status' = CASE result = "ok" -> "success"
                           [] result = "lost" -> "parentLost"
                           [] result = "fail" -> "rejoinFailure"
            /\ Post("done")
            /\ UNCHANGED <<timers, initOk>>
       [] state = "init" ->
            /\ initOk' = (result = "ok")
            /\ Post("initDone")
            /\ UNCHANGED <<timers, status>>
       [] state = "steer" /\ result = "ok" ->
            /\ status' = "success"
            /\ timers' = Scheduled(timers, IF centre' THEN "delay" ELSE "permit")
            /\ UNCHANGED <<tasks, initOk>>
       [] state = "steer" /\ result # "ok" ->
            /\ status' = "noNetwork"
            /\ Post("done")
            /\ UNCHANGED <<timers, initOk>>
  /\ UNCHANGED <<poll, state, inProgress, attempts, leaveDoing>>

\* bdb_retrieveTcLinkKeyDone, called by the stack, by an answer, by a timeout.
KeyDone(ok, ts) ==
  /\ timers' = Cancelled(ts, "key")
  /\ status' = IF ok THEN "success" ELSE "keyFailure"
  /\ onNet' = ok
  /\ factoryNew' = (factoryNew \/ ~ok)
  /\ Post(IF ok THEN "permitJoin" ELSE "done")

\* bdb_task_delay
bdb_task_delay(k) ==
  /\ timers[k].running > 0
  /\ timers' = Ended(timers, k)
  /\ Post(IF k = "delay" THEN "retrieve" ELSE "permitJoin")
  /\ UNCHANGED <<poll, state, status, inProgress, onNet, initOk, attempts,
                 leaveDoing, stack, losses>>

\* Seeded fault: a second timer is scheduled over the handle of the first.
KeyTimerStarted_Twice(ts) == Scheduled(ts, "key")

KeyTimerStarted(ts) == IF ts["key"].handle THEN ts ELSE Scheduled(ts, "key")

bdb_retrieveTcLinkKeyStart ==
  /\ timers["keyStart"].running > 0
  /\ query' = TRUE
  /\ leaveDoing' = FALSE /\ attempts' = 0
  /\ timers' = KeyTimerStarted(Ended(timers, "keyStart"))
  /\ UNCHANGED <<poll, state, status, inProgress, onNet, initOk, tasks,
                 joined, factoryNew, request, keyReq, leaving, centre, losses>>

\* bdb_retrieveTcLinkKeyTimeout asks again ...
KeyAskAgain ==
  /\ timers["key"].running > 0 /\ attempts < MaxAttempts
  /\ attempts' = attempts + 1
  /\ query' = TRUE
  /\ UNCHANGED <<timers, poll, state, status, inProgress, onNet, initOk, tasks,
                 leaveDoing, joined, factoryNew, request, keyReq, leaving, centre, losses>>

\* ... gives up off the network ...
KeyGiveUp ==
  /\ timers["key"].running > 0 /\ attempts >= MaxAttempts /\ ~joined
  /\ attempts' = 0
  /\ KeyDone(FALSE, Ended(timers, "key"))
  /\ UNCHANGED <<poll, state, inProgress, initOk, leaveDoing, joined, request,
                 query, keyReq, leaving, centre, losses>>

\* ... or leaves the network, which may be refused until the next timeout.
KeyLeave(accepted) ==
  /\ timers["key"].running > 0 /\ attempts >= MaxAttempts /\ joined
  /\ attempts' = MaxAttempts + 1
  /\ leaveDoing' = (leaveDoing \/ accepted)
  /\ leaving' = (leaving \/ (~leaveDoing /\ accepted))
  /\ UNCHANGED <<timers, poll, state, status, inProgress, onNet, initOk, tasks,
                 joined, factoryNew, request, query, keyReq, centre, losses>>

\* bdb_topLevelCommissiongConfirm
Confirm == inProgress' = FALSE /\ zbdemo_bdbCommissioningCb

\* One turn of the task queue: bdb_task, by state and event; an event that the
\* state does not expect is dropped.  The event "done" is two in the code,
\* BDB_STATE_REJOIN_DONE of an idle machine and the end of a steering, but both
\* are the number 7 (bdb.h): each state takes the one for the other.
bdb_task ==
  /\ tasks # <<>> /\ Head(tasks) # "permitConfirm"
  /\ LET evt == Head(tasks)
         Next_(task) == tasks' = Append(Tail(tasks), task)
         Taken == tasks' = Tail(tasks)
     IN CASE state = "init" ->
               /\ Taken /\ state' = "idle"
               /\ timers' = IF evt = "initDone" THEN InitTimers ELSE timers
               /\ UNCHANGED <<inProgress, request>>
          [] state = "idle" /\ evt = "start" ->
               /\ state' = "steer"
               /\ IF onNet THEN Next_("permitConfirm") /\ UNCHANGED request
                  ELSE Taken /\ request' = Requested("discovery")
               /\ UNCHANGED <<timers, inProgress>>
          [] state = "idle" /\ evt = "done" ->
               /\ Taken /\ Confirm /\ UNCHANGED state
          [] state = "steer" /\ evt = "retrieve" ->
               /\ Taken /\ timers' = Scheduled(timers, "keyStart")
               /\ UNCHANGED <<state, inProgress, request>>
          [] state = "steer" /\ evt = "permitJoin" ->
               /\ Next_("permitConfirm")
               /\ UNCHANGED <<timers, state, inProgress, request>>
          [] state = "steer" /\ evt = "done" ->
               /\ Taken /\ Confirm /\ state' = "idle"
          [] OTHER ->
               /\ Taken /\ UNCHANGED <<timers, state, inProgress, request>>
  /\ UNCHANGED <<poll, status, onNet, initOk, attempts, leaveDoing, joined,
                 factoryNew, query, keyReq, leaving, centre, losses>>

bdb_mgmtPermitJoiningConfirm ==
  /\ tasks # <<>> /\ Head(tasks) = "permitConfirm"
  /\ status' = "success"
  /\ tasks' = IF state = "steer" THEN Append(Tail(tasks), "done") ELSE Tail(tasks)
  /\ UNCHANGED <<timers, poll, state, inProgress, onNet, initOk, attempts,
                 leaveDoing, stack, losses>>

-----------------------------------------------------------------------------
(* The stack *)

Joins(ok) ==
  /\ request = "discovery"
  /\ request' = "none" /\ joined' = ok /\ factoryNew' = (factoryNew /\ ~ok)
  /\ centre' \in IF ok THEN BOOLEAN ELSE {centre}
  /\ bdb_zdoStartDevCnf(IF ok THEN "ok" ELSE "fail")
  /\ UNCHANGED <<query, keyReq, leaving, losses>>

Rejoins(ok) ==
  /\ request = "rejoin"
  /\ request' = "none" /\ joined' = ok
  /\ UNCHANGED <<factoryNew, query, keyReq, leaving, centre, losses>>
  /\ bdb_zdoStartDevCnf(IF ok THEN "ok" ELSE "fail")

LosesParent ==
  /\ joined /\ request = "none" /\ losses < MaxLosses /\ losses + polls < MaxEvents
  /\ losses' = losses + 1
  /\ joined' = FALSE
  /\ UNCHANGED <<factoryNew, request, query, keyReq, leaving, centre>>
  /\ bdb_zdoStartDevCnf("lost")

\* bdb_nodeDescRespHandler: no answer of use, an older coordinator that has no
\* keys to exchange, or one that is asked for the key.
Answered ==
  /\ query /\ joined
  /\ query' = FALSE
  /\ \/ UNCHANGED <<timers, status, onNet, tasks, factoryNew, keyReq>>
     \/ KeyDone(TRUE, timers) /\ UNCHANGED keyReq
     \/ /\ onNet' = FALSE /\ keyReq' = TRUE
        /\ UNCHANGED <<timers, status, tasks, factoryNew>>
  /\ UNCHANGED <<poll, state, inProgress, initOk, attempts, leaveDoing, joined,
                 request, leaving, centre, losses>>

KeyArrives ==
  /\ keyReq /\ joined
  /\ keyReq' = FALSE
  /\ KeyDone(TRUE, timers)
  /\ UNCHANGED <<poll, state, inProgress, initOk, attempts, leaveDoing, joined,
                 request, query, leaving, centre, losses>>

\* app_leaveCnfHandler: the bridge has left and starts anew.
Leaves ==
  /\ leaving
  /\ state' = "init" /\ status' = "success" /\ inProgress' = FALSE
  /\ onNet' = FALSE /\ initOk' = TRUE /\ tasks' = <<"initDone">>
  /\ attempts' = 0 /\ leaveDoing' = FALSE
  /\ joined' = FALSE /\ factoryNew' = TRUE /\ request' = "none"
  /\ query' = FALSE /\ keyReq' = FALSE /\ leaving' = FALSE
  /\ timers' = [k \in Kind |-> Stopped]
  /\ isFast' = FALSE /\ chkIn' = TRUE /\ fastAttr' = TRUE /\ bound' = FALSE
  /\ UNCHANGED <<polls, centre, losses>>

\* A key timer takes 3 s at least and a rejoin timer 10 s: since such a timer was
\* set there was a moment without a task or a timer of 1 s at most.
Quiet == tasks = <<>> /\ \A k \in Quick : timers[k].running = 0

Waits(expired) ==
  due' = {k \in Slow : /\ timers'[k].running > 0
                       /\ \/ Quiet'
                          \/ k \in due \ {expired} /\ timers'[k].running <= timers[k].running}

\* What follows a step: expired is the timer it was about.
Follows(expired) ==
  /\ Waits(expired)
  /\ ceased' = \/ expired = "rejoin" /\ factoryNew
               \/ ceased /\ ~joined' /\ ~(inProgress' /\ ~inProgress)

Unshared == UNCHANGED <<bdb, stack, losses>>

Expires(k) ==
  /\ timers[k].running > 0 /\ (k \in Slow => k \in due)
  /\ CASE k = "steer" -> app_bdbNetworkSteerStart
       [] k = "rejoin" -> app_rejoinBackoff
       [] k \in {"delay", "permit"} -> bdb_task_delay(k)
       [] k = "keyStart" -> bdb_retrieveTcLinkKeyStart
       [] k = "key" -> KeyAskAgain \/ KeyGiveUp \/ \E accepted \in BOOLEAN : KeyLeave(accepted)
       [] k = "checkIn" -> app_zclCheckInTimerCb /\ Unshared
       [] k = "fast" -> app_zclFastPollTimeoutCb /\ Unshared
  /\ Follows(k)

Task == (bdb_task \/ bdb_mgmtPermitJoiningConfirm) /\ Follows("none")

Report(oks) ==
  /\ Len(tasks) < MaxTasks
  /\ \E ok \in oks : Joins(ok) \/ Rejoins(ok)
  /\ Follows("none")

NetworkEvent ==
  /\ Len(tasks) < MaxTasks
  /\ LosesParent \/ Answered \/ KeyArrives \/ Leaves
  /\ Follows("none")

Command == losses + polls < MaxEvents /\ PollNext /\ Unshared /\ Follows("none")

Next ==
  \/ \E k \in Kind : Expires(k)
  \/ Task \/ Report(BOOLEAN) \/ NetworkEvent \/ Command

Spec == Init /\ [][Next]_vars

\* The timers of the way into the network expire, tasks get their turn, a request
\* is answered, and one that is made again and again succeeds.
FairSpec ==
  /\ Spec
  /\ \A k \in Kind \ {"checkIn", "fast"} : WF_vars(Expires(k))
  /\ WF_vars(Task) /\ WF_vars(Report(BOOLEAN)) /\ SF_vars(Report({TRUE}))

-----------------------------------------------------------------------------
(* Properties *)

Events == {"initDone", "start", "retrieve", "permitJoin", "done", "permitConfirm"}

\* Timers, the state of the BDB machine and the requests to the stack keep
\* their ranges; the key exchange is tried a limited number of times
\* (zb_appCb.c, bdb.c).
TypeOK ==
  /\ timers \in [Kind -> [handle : BOOLEAN, running : Nat]]
  /\ isFast \in BOOLEAN /\ chkIn \in BOOLEAN /\ fastAttr \in BOOLEAN /\ bound \in BOOLEAN
  /\ state \in {"init", "idle", "steer"}
  /\ status \in {"success", "noNetwork", "keyFailure", "parentLost", "rejoinFailure"}
  /\ inProgress \in BOOLEAN /\ onNet \in BOOLEAN /\ initOk \in BOOLEAN
  /\ tasks \in Seq(Events)
  /\ attempts \in 0 .. MaxAttempts + 1 /\ leaveDoing \in BOOLEAN
  /\ joined \in BOOLEAN /\ factoryNew \in BOOLEAN
  /\ request \in {"none", "discovery", "rejoin"}
  /\ query \in BOOLEAN /\ keyReq \in BOOLEAN /\ leaving \in BOOLEAN /\ centre \in BOOLEAN
  /\ due \subseteq Slow /\ ceased \in BOOLEAN
  /\ polls \in 0 .. MaxPolls /\ losses \in 0 .. MaxLosses

Handled == {"steer", "rejoin", "key", "checkIn", "fast"}

\* A handle is set exactly while its one timer runs, so no cancel meets the
\* timer of somebody else and none is left behind.
OneTimer == \A k \in Handled : timers[k].running = IF timers[k].handle THEN 1 ELSE 0

\* Off the network the bridge is never idle for good: a request, a task or a
\* timer is outstanding, although steering that meets a busy state is refused
\* and forgotten and one state takes the other's event.  One case is excepted,
\* that its rejoin timer ended because the bridge is new: a key exchange that
\* outlives its commissioning can make it new while it rejoins.
NeverGivesUp ==
  \/ joined \/ ceased
  \/ request # "none" \/ tasks # <<>>
  \/ \E k \in {"steer", "rejoin", "key", "delay", "permit", "keyStart"} : timers[k].running > 0

\* Out of the network the bridge tries until it is back in, with the exception
\* of NeverGivesUp.
ComesBack == ~joined ~> (joined \/ ceased)

\* Back in the network, the rejoin timer goes: while it runs the bridge is off
\* the network, steering, or about to be told of the success.
RejoinEnds ==
  timers["rejoin"].running > 0 /\ joined =>
    state = "steer" \/ \E i \in 1 .. Len(tasks) : tasks[i] = "done"
===============================================================================
