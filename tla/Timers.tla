-------------------------------- MODULE Timers --------------------------------
(***************************************************************************)
(* What ev_timer.c promises: a timer runs its callback only while it is    *)
(* armed and at most one millisecond early, a cancelled timer does not     *)
(* run it, and a timer whose callback is running cannot be cancelled.      *)
(***************************************************************************)
EXTENDS Integers

CONSTANTS
  Timer,       \* the timers there can be at a time
  TicksPerMs,  \* ticks of the clock in a millisecond
  Waits,       \* milliseconds asked for
  Off          \* a timer that is not armed

VARIABLES
  now,    \* time, in ticks of the system clock
  armed   \* per timer: Off, or since when, for how long, and whether it fires

vars == <<now, armed>>

Armed(since, ms) == [since |-> since, ms |-> ms, firing |-> FALSE]
Firing(a) == [since |-> a.since, ms |-> a.ms, firing |-> TRUE]

Init == now = 0 /\ armed = [t \in Timer |-> Off]

Pass == now' \in Nat /\ now' >= now /\ UNCHANGED armed

Arm(t, ms) ==
  /\ armed[t] = Off
  /\ armed' = [armed EXCEPT ![t] = Armed(now, ms)]
  /\ UNCHANGED now

Cancel(t) ==
  /\ armed[t] # Off /\ ~armed[t].firing
  /\ armed' = [armed EXCEPT ![t] = Off]
  /\ UNCHANGED now

Fire(t) ==
  /\ armed[t] # Off /\ ~armed[t].firing
  /\ (armed[t].ms - 1) * TicksPerMs < now - armed[t].since
  /\ armed' = [armed EXCEPT ![t] = Firing(@)]
  /\ UNCHANGED now

\* The callback ends: the timer is done, or runs again from the time it fired.
Done(t) ==
  /\ armed[t] # Off /\ armed[t].firing
  /\ \/ armed' = [armed EXCEPT ![t] = Off]
     \/ \E since \in armed[t].since .. now, ms \in Waits :
          armed' = [armed EXCEPT ![t] = Armed(since, ms)]
  /\ UNCHANGED now

\* The pool is exhausted: the exception handler restarts the bridge.
Restart == now' = 0 /\ armed' = [t \in Timer |-> Off]

Next ==
  \/ Pass \/ Restart
  \/ \E t \in Timer : Cancel(t) \/ Fire(t) \/ Done(t) \/ \E ms \in Waits : Arm(t, ms)

Spec == Init /\ [][Next]_vars
===============================================================================
