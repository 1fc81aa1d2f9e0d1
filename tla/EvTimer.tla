-------------------------------- MODULE EvTimer --------------------------------
(***************************************************************************)
(* The software timers of the SDK, proj/os/ev_timer.c: a pool of slots, a  *)
(* list of the timers in use, a countdown in milliseconds derived from a   *)
(* free-running tick counter, and a pass over the list that runs the       *)
(* callbacks of the expired timers while these arm and cancel others.      *)
(*                                                                         *)
(* Times are kept unbounded, and every difference of two of them is taken  *)
(* modulo Wrap, as the code takes it of 32-bit ticks.  timer_nearest, read *)
(* by power management only (PM_ENABLE is 0), is left out.                 *)
(***************************************************************************)
EXTENDS Integers, Sequences

CONSTANTS
  Timer,       \* indices of timerEventPool.evt
  None,        \* NULL
  TicksPerMs,  \* S_TIMER_CLOCK_1US * 1000
  Wrap,        \* values of clock_time(): 2^32
  MaxGap,      \* longest time between two calls of ev_timer_process, in ticks
  Waits,       \* milliseconds asked for
  MaxNow       \* bound: time

ASSUME TimerAssumption ==
  /\ Timer \subseteq Nat /\ None \notin Timer
  /\ None \notin [since : Nat, ms : Nat, firing : BOOLEAN]
  /\ TicksPerMs \in Nat \ {0}
  /\ Wrap \in Nat /\ MaxGap \in Nat /\ MaxGap + TicksPerMs <= Wrap
  /\ Waits \subseteq Nat /\ MaxNow \in Nat

VARIABLES
  now,         \* time; clock_time() is now modulo Wrap
  prevSysTick, \* when ev_timer_process updated the timers last
  remSysTick,  \* ticks of a millisecond not counted yet
  used,        \* slots taken from the pool
  list,        \* the timers in the order of timer_head and next
  timeout,     \* per timer: milliseconds left
  period,      \* ... milliseconds it was armed for
  curSysTick,  \* ... when it was registered
  isRunning,   \* ... an update has seen it since
  at,          \* ev_timer_executeCB: the timer it looks at, None outside
  prevHead,    \* ... head of the list at its last look
  isBusy,      \* ... the callback of timer "at" is running
  since        \* per timer, for the proof: when its countdown began

pool == <<used, list, period, curSysTick, since>>
clock == <<prevSysTick, remSysTick>>
pass == <<at, prevHead, isBusy>>
vars == <<now, clock, pool, timeout, isRunning, pass>>

Listed == {list[i] : i \in DOMAIN list}
HeadOf(l) == IF l = <<>> THEN None ELSE Head(l)
Place(l, t) == CHOOSE i \in DOMAIN l : l[i] = t

\* LIST_DELETE
Without(t) ==
  [i \in 1 .. Len(list) - 1 |-> IF i < Place(list, t) THEN list[i] ELSE list[i + 1]]

\* The field next of a timer in the list.
Succ(t) ==
  IF Place(list, t) < Len(list) THEN list[Place(list, t) + 1] ELSE None

Init ==
  /\ now = 0 /\ prevSysTick = 0 /\ remSysTick = 0
  /\ used = {} /\ list = <<>>
  /\ timeout = [t \in Timer |-> 0]
  /\ period = [t \in Timer |-> 0]
  /\ curSysTick = [t \in Timer |-> 0]
  /\ isRunning = [t \in Timer |-> FALSE]
  /\ at = None /\ prevHead = None /\ isBusy = FALSE
  /\ since = [t \in Timer |-> 0]

-----------------------------------------------------------------------------
(* The interface, called by the main loop between passes and by callbacks *)

Calls == at = None \/ isBusy

Free == Timer \ used

\* ev_timer_freeGet, ev_timer_add and ev_on_timer: the first free slot goes to
\* the head of the list.
ev_timer_taskPost(ms) ==
  /\ Calls /\ Free # {}
  /\ LET t == CHOOSE f \in Free : \A g \in Free : f <= g IN
       /\ used' = used \cup {t}
       /\ list' = <<t>> \o list
       /\ timeout' = [timeout EXCEPT ![t] = ms]
       /\ period' = [period EXCEPT ![t] = ms]
       /\ curSysTick' = [curSysTick EXCEPT ![t] = now]
       /\ since' = [since EXCEPT ![t] = now]
  /\ UNCHANGED <<now, clock, isRunning, pass>>

\* No slot is free: SYS_EXCEPTTION_COMMON_TIMER_EVEVT, which app_SysException
\* answers with SYSTEM_RESET.
Exhausted ==
  /\ Calls /\ Free = {}
  /\ now' = 0 /\ prevSysTick' = 0 /\ remSysTick' = 0
  /\ used' = {} /\ list' = <<>>
  /\ timeout' = [t \in Timer |-> 0]
  /\ period' = [t \in Timer |-> 0]
  /\ curSysTick' = [t \in Timer |-> 0]
  /\ isRunning' = [t \in Timer |-> FALSE]
  /\ at' = None /\ prevHead' = None /\ isBusy' = FALSE
  /\ since' = [t \in Timer |-> 0]

\* ev_unon_timer with ev_timer_poolDelUpdate.
\* Seeded fault: the slot keeps its mark of having been updated.
ev_unon_timer_Running(t) ==
  /\ used' = used \ {t}
  /\ list' = Without(t)
  /\ UNCHANGED isRunning

ev_unon_timer(t) ==
  /\ used' = used \ {t}
  /\ list' = Without(t)
  /\ isRunning' = [isRunning EXCEPT ![t] = FALSE]

\* A handle of a timer that is busy is refused, one of a free slot is ignored.
\* Seeded fault: a busy timer is cancelled.
MayCancel_Busy(t) == t \in used

MayCancel(t) == t \in used /\ ~(isBusy /\ t = at)

ev_timer_taskCancel(t) ==
  /\ Calls /\ MayCancel(t)
  /\ ev_unon_timer(t)
  /\ UNCHANGED <<now, clock, timeout, period, curSysTick, since, pass>>

-----------------------------------------------------------------------------
(* The clock and the pass *)

Advance ==
  /\ now < MaxNow /\ now - prevSysTick < MaxGap
  /\ now' = now + 1
  /\ UNCHANGED <<clock, pool, timeout, isRunning, pass>>

Ticks(then) == (now - then) % Wrap

\* updateTime and remSysTick of ev_timer_process.
Remainder == (remSysTick + Ticks(prevSysTick)) % TicksPerMs

updateTime == (remSysTick + Ticks(prevSysTick)) \div TicksPerMs

\* A timer that no update has seen counts from its own registration.
Elapsed(t) ==
  IF isRunning[t] THEN updateTime ELSE Ticks(curSysTick[t]) \div TicksPerMs

Down(ms, by) == IF ms > by THEN ms - by ELSE 0

ev_timer_update ==
  IF updateTime = 0 THEN UNCHANGED <<timeout, isRunning>>
  ELSE /\ timeout' = [t \in Timer |->
            IF t \in Listed THEN Down(timeout[t], Elapsed(t)) ELSE timeout[t]]
       /\ isRunning' = [t \in Timer |-> isRunning[t] \/ t \in Listed]

\* det only asks whether a timer has expired.
ev_timer_process(det) ==
  /\ at = None /\ Ticks(prevSysTick) # 0
  /\ ev_timer_update
  /\ prevSysTick' = now /\ remSysTick' = Remainder
  /\ IF det THEN UNCHANGED <<at, prevHead>>
     ELSE at' = HeadOf(list) /\ prevHead' = HeadOf(list)
  /\ UNCHANGED <<now, pool, isBusy>>

\* ev_timer_executeCB, timer "at" still has to wait ...
Waiting ==
  /\ at # None /\ ~isBusy /\ timeout[at] > 0
  /\ at' = Succ(at)
  /\ UNCHANGED <<now, clock, pool, timeout, isRunning, prevHead, isBusy>>

\* ... or its callback starts ...
Expired ==
  /\ at # None /\ ~isBusy /\ timeout[at] = 0
  /\ isBusy' = TRUE
  /\ UNCHANGED <<now, clock, pool, timeout, isRunning, at, prevHead>>

\* ... and, when it has returned, the pass goes on behind it, or starts again
\* if the head of the list is another one.
\* Seeded fault: the pass ends with the first callback.
Continue_Once == at' = None /\ UNCHANGED prevHead

Continue ==
  IF HeadOf(list') # prevHead
  THEN at' = HeadOf(list') /\ prevHead' = HeadOf(list')
  ELSE at' = Succ(at) /\ UNCHANGED prevHead

\* The callback returned a negative value, 0 or a new period.
Ends ==
  /\ isBusy
  /\ ev_unon_timer(at)
  /\ isBusy' = FALSE
  /\ Continue
  /\ UNCHANGED <<now, clock, timeout, period, curSysTick, since>>

Repeats(ms) ==
  /\ isBusy
  /\ ms \in {period[at]} \cup (Waits \ {0})
  /\ timeout' = [timeout EXCEPT ![at] = ms]
  /\ period' = [period EXCEPT ![at] = ms]
  /\ since' = [since EXCEPT ![at] = IF isRunning[at] THEN prevSysTick ELSE @]
  /\ isBusy' = FALSE
  /\ UNCHANGED list
  /\ Continue
  /\ UNCHANGED <<now, clock, used, curSysTick, isRunning>>

Next ==
  \/ Advance
  \/ \E ms \in Waits : ev_timer_taskPost(ms) \/ Repeats(ms)
  \/ Exhausted
  \/ \E t \in Timer : ev_timer_taskCancel(t)
  \/ \E det \in BOOLEAN : ev_timer_process(det)
  \/ Waiting \/ Expired \/ Ends

Spec == Init /\ [][Next]_vars

-----------------------------------------------------------------------------
(* Properties *)

\* The pool and the list keep their types, and what is left of a millisecond
\* is less than one (ev_timer_update of ev_timer.c).
TypeOK ==
  /\ now \in Nat /\ prevSysTick \in Nat /\ remSysTick \in 0 .. TicksPerMs - 1
  /\ used \subseteq Timer /\ list \in Seq(Timer)
  /\ timeout \in [Timer -> Nat] /\ period \in [Timer -> Nat]
  /\ curSysTick \in [Timer -> Nat] /\ isRunning \in [Timer -> BOOLEAN]
  /\ at \in Timer \cup {None} /\ prevHead \in Timer \cup {None}
  /\ isBusy \in BOOLEAN
  /\ since \in [Timer -> Nat]

\* The list holds the used slots of the pool, each once, whatever callbacks
\* arm and cancel during a pass, and the pass never stands on a slot that was
\* given back: a pass over a freed slot would run the callback of its last
\* user (ev_timer_executeCB of ev_timer.c).
ListIsPool ==
  /\ Listed = used
  /\ \A i, j \in DOMAIN list : list[i] = list[j] => i = j
  /\ at # None => at \in used

\* No timer is forgotten by a pass that runs callbacks: when it ends, none is
\* left that was armed more than its time and one millisecond ago.
OnTime ==
  [][at # None /\ at' = None =>
       \A t \in used' : prevSysTick' - since'[t] < (period'[t] + 1) * TicksPerMs]_vars

\* The timers keep the promise of Timers: never early, never after a cancel.
armed == [t \in Timer |->
  IF t \in used
  THEN [since |-> since[t], ms |-> period[t], firing |-> isBusy /\ t = at]
  ELSE None]

Promise == INSTANCE Timers WITH Off <- None
ImplementsTimers == Promise!Spec
===============================================================================
