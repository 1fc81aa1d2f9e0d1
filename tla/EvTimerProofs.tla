---------------------------- MODULE EvTimerProofs ----------------------------
(***************************************************************************)
(* Proofs about EvTimer, for any number of timers, any waiting times and   *)
(* any tick rate: the list is the pool, a pass forgets no timer, and the   *)
(* timers are those of Timers.                                             *)
(*                                                                         *)
(* The heart is what a countdown of milliseconds knows of ticks: what was  *)
(* counted is never more than the ticks that have passed, but for the      *)
(* fraction kept in remSysTick, and lags behind by less than two.          *)
(***************************************************************************)
EXTENDS EvTimer, WellFoundedInduction, TLAPS

\* The clock is looked at often enough.
ClockSeen == prevSysTick <= now /\ now - prevSysTick <= MaxGap

\* Callbacks run in a pass; free slots carry no mark of an update.
Passes ==
  /\ isBusy => at # None
  /\ \A t \in Timer : isRunning[t] => t \in used

\* A timer that no update has seen: all ticks since then are in remSysTick.
Fresh(t) ==
  /\ since[t] = curSysTick[t] /\ timeout[t] = period[t]
  /\ prevSysTick - since[t] <= remSysTick

\* A timer that an update has seen.
Counted(t) ==
  /\ since[t] <= prevSysTick /\ timeout[t] <= period[t]
  /\ (period[t] - timeout[t]) * TicksPerMs + remSysTick
       <= prevSysTick - since[t] + TicksPerMs - 1
  /\ timeout[t] > 0 =>
       prevSysTick - since[t] - remSysTick
         <= (period[t] - timeout[t]) * TicksPerMs + TicksPerMs - 1

CountsDown ==
  \A t \in used :
    /\ period[t] \in Waits /\ since[t] <= now
    /\ IF isRunning[t] THEN Counted(t) ELSE Fresh(t)

\* The timers that a pass has behind it still have to wait.
Behind(t) == timeout[t] > 0 \/ ~isRunning[t] \/ since[t] = prevSysTick

Visited == at # None => \A i \in DOMAIN list : i < Place(list, at) => Behind(list[i])

\* The inductive invariant.
IInv == TypeOK /\ ListIsPool /\ ClockSeen /\ Passes /\ CountsDown /\ Visited

-----------------------------------------------------------------------------
(* Numbers *)

LEMMA DivMod ==
  ASSUME NEW a \in Nat, NEW T \in Nat \ {0}
  PROVE  a \div T \in Nat /\ a % T \in 0 .. T - 1 /\ a = (a \div T) * T + (a % T)
BY Z3

LEMMA Below == ASSUME NEW a \in Nat, NEW W \in Nat, a < W PROVE a % W = a
BY Z3

LEMMA Distributes ==
  ASSUME NEW a \in Int, NEW b \in Int, NEW T \in Int
  PROVE  (a - b) * T = a * T - b * T /\ (a + b) * T = a * T + b * T
BY Z3

LEMMA Grows ==
  ASSUME NEW a \in Int, NEW b \in Int, NEW T \in Nat, a <= b
  PROVE  a * T <= b * T /\ a * T \in Int /\ b * T \in Int
BY Z3

LEMMA Least ==
  ASSUME NEW S, S \subseteq Nat, S # {}
  PROVE  \E f \in S : \A g \in S : f <= g
<1> DEFINE R == OpToRel(<, Nat)
<1>1. IsWellFoundedOn(R, Nat)
  BY NatLessThanWellFounded
<1>2. \A x, y \in Nat : x < y => <<x, y>> \in R
  BY DEF OpToRel
<1> HIDE DEF R
<1>3. PICK x \in S : \A y \in S : ~ (<<y, x>> \in R)
  BY <1>1, WFMin
<1>4. \A y \in S : ~ (y < x) /\ x \in Nat /\ y \in Nat
  BY <1>2, <1>3, Zenon
<1> QED
  BY <1>4

-----------------------------------------------------------------------------
(* The list *)

Once(l) == \A i, j \in DOMAIN l : l[i] = l[j] => i = j
Elements(l) == {l[i] : i \in DOMAIN l}

\* A timer of the list has one place in it.
LEMMA OnePlace ==
  ASSUME NEW l \in Seq(Timer), Once(l), NEW i \in DOMAIN l
  PROVE  Place(l, l[i]) = i
BY DEF Place, Once

LEMMA HasPlace ==
  ASSUME NEW l \in Seq(Timer), Once(l), NEW t \in Elements(l)
  PROVE  Place(l, t) \in 1 .. Len(l) /\ l[Place(l, t)] = t
<1>1. PICK i \in DOMAIN l : t = l[i]
  BY DEF Elements
<1> QED
  BY <1>1, OnePlace

\* Taking a timer out of the list.
LEMMA TakenOut ==
  ASSUME list \in Seq(Timer), Once(list), NEW t \in Elements(list)
  PROVE  /\ Without(t) \in Seq(Timer) /\ Once(Without(t))
         /\ Elements(Without(t)) = Elements(list) \ {t}
         /\ Len(Without(t)) = Len(list) - 1
         /\ \A i \in 1 .. Len(list) - 1 :
              Without(t)[i] = IF i < Place(list, t) THEN list[i] ELSE list[i + 1]
<1> DEFINE W == Without(t)
           p == Place(list, t)
<1>1. p \in 1 .. Len(list) /\ list[p] = t /\ Len(list) \in Nat \ {0}
  BY HasPlace
<1>2. /\ DOMAIN W = 1 .. Len(list) - 1
      /\ \A i \in 1 .. Len(list) - 1 :
              W[i] = IF i < p THEN list[i] ELSE list[i + 1]
  BY DEF Without
<1>3. W \in Seq(Timer) /\ Len(W) = Len(list) - 1
  <2>1. W = [i \in 1 .. Len(list) - 1 |-> W[i]]
    BY DEF Without
  <2>2. \A i \in 1 .. Len(list) - 1 : W[i] \in Timer
    BY <1>1, <1>2
  <2> HIDE DEF W
  <2> QED
    BY <1>1, <2>1, <2>2
<1> HIDE DEF W, p
\* Where a timer of the shorter list was.
<1> DEFINE From(i) == IF i < p THEN i ELSE i + 1
<1>f. ASSUME NEW i \in 1 .. Len(list) - 1
      PROVE  From(i) \in 1 .. Len(list) /\ From(i) # p /\ W[i] = list[From(i)]
  BY <1>1, <1>2
<1>4. Once(W)
  <2> SUFFICES ASSUME NEW i \in 1 .. Len(list) - 1, NEW j \in 1 .. Len(list) - 1,
                      W[i] = W[j]
               PROVE  i = j
    BY <1>2 DEF Once
  <2>1. From(i) = From(j)
    BY <1>f DEF Once
  <2> QED
    BY <1>1, <2>1
<1>5. Elements(W) \subseteq Elements(list) \ {t}
  <2> SUFFICES ASSUME NEW i \in 1 .. Len(list) - 1
               PROVE  W[i] \in Elements(list) /\ W[i] # t
    BY <1>2 DEF Elements
  <2>1. From(i) \in DOMAIN list /\ From(i) # p /\ W[i] = list[From(i)]
    BY <1>f
  <2> HIDE DEF From
  <2> QED
    BY <1>1, <2>1 DEF Elements, Once
<1>6. ASSUME NEW x \in Elements(list), x # t PROVE x \in Elements(W)
  <2>1. PICK i \in 1 .. Len(list) : x = list[i]
    BY DEF Elements
  <2>2. i # p
    BY <1>1, <1>6, <2>1
  <2>3. CASE i < p
    <3>1. i \in 1 .. Len(list) - 1
      BY <1>1, <2>1, <2>3
    <3> QED
      BY <1>2, <2>1, <2>3, <3>1 DEF Elements
  <2>4. CASE i > p
    <3>1. i - 1 \in 1 .. Len(list) - 1 /\ ~ (i - 1 < p) /\ (i - 1) + 1 = i
      BY <1>1, <2>1, <2>4
    <3> QED
      BY <1>2, <2>1, <3>1 DEF Elements
  <2> QED
    BY <1>1, <2>1, <2>2, <2>3, <2>4
<1> QED
  BY <1>2, <1>3, <1>4, <1>5, <1>6 DEF W, p

\* Putting a timer at the head of the list.
LEMMA PutFirst ==
  ASSUME list \in Seq(Timer), Once(list), NEW t \in Timer, t \notin Elements(list)
  PROVE  /\ <<t>> \o list \in Seq(Timer) /\ Once(<<t>> \o list)
         /\ Elements(<<t>> \o list) = Elements(list) \cup {t}
         /\ Len(<<t>> \o list) = Len(list) + 1
         /\ (<<t>> \o list)[1] = t
         /\ \A i \in 1 .. Len(list) : (<<t>> \o list)[i + 1] = list[i]
<1> DEFINE L == <<t>> \o list
<1>1. /\ L \in Seq(Timer) /\ Len(L) = Len(list) + 1 /\ Len(list) \in Nat
      /\ L[1] = t /\ \A i \in 1 .. Len(list) : L[i + 1] = list[i]
  OBVIOUS
<1>2. \A i \in 1 .. Len(L) : i = 1 \/ (i - 1 \in 1 .. Len(list) /\ L[i] = list[i - 1])
  BY <1>1
<1> HIDE DEF L
<1>3. Once(L)
  <2> SUFFICES ASSUME NEW i \in 1 .. Len(L), NEW j \in 1 .. Len(L), L[i] = L[j]
               PROVE  i = j
    BY <1>1 DEF Once
  <2>1. \A k \in 1 .. Len(list) : list[k] # t
    BY DEF Elements
  <2>2. CASE i = 1 \/ j = 1
    BY <1>1, <1>2, <2>1, <2>2
  <2>3. CASE i # 1 /\ j # 1
    <3>1. i - 1 \in DOMAIN list /\ j - 1 \in DOMAIN list /\ list[i - 1] = list[j - 1]
      BY <1>2, <2>3
    <3>2. i - 1 = j - 1
      BY <3>1 DEF Once
    <3> QED
      BY <1>1, <3>2
  <2> QED
    BY <2>2, <2>3
<1>4. Elements(L) = Elements(list) \cup {t}
  <2>1. ASSUME NEW x \in Elements(L) PROVE x \in Elements(list) \cup {t}
    <3>1. PICK i \in 1 .. Len(L) : x = L[i]
      BY <1>1 DEF Elements
    <3>2. CASE i = 1
      BY <1>1, <3>1, <3>2
    <3>3. CASE i # 1
      BY <1>2, <3>1, <3>3 DEF Elements
    <3> QED
      BY <3>2, <3>3
  <2>2. t \in Elements(L)
    BY <1>1 DEF Elements
  <2>3. ASSUME NEW x \in Elements(list) PROVE x \in Elements(L)
    <3>1. PICK i \in 1 .. Len(list) : x = list[i]
      BY DEF Elements
    <3>2. i + 1 \in DOMAIN L /\ L[i + 1] = x
      BY <1>1, <3>1
    <3> QED
      BY <3>2 DEF Elements
  <2> QED
    BY <2>1, <2>2, <2>3
<1> QED
  BY <1>1, <1>3, <1>4 DEF L

-----------------------------------------------------------------------------
(* Where a pass stands *)

Shape(l) == l \in Seq(Timer) /\ Once(l)

LEMMA ShapeOfList ==
  IInv => /\ Shape(list) /\ Elements(list) = used /\ Listed = used
          /\ (at # None => at \in used)
BY DEF IInv, TypeOK, ListIsPool, Shape, Once, Elements, Listed

\* A pass starts at the head, if there is one.
LEMMA AtHead ==
  ASSUME NEW l, Shape(l)
  PROVE  /\ HeadOf(l) \in Elements(l) \cup {None}
         /\ (HeadOf(l) # None => Place(l, HeadOf(l)) = 1)
         /\ (HeadOf(l) = None => Elements(l) = {})
<1> USE TimerAssumption
<1>1. CASE l = <<>>
  BY <1>1 DEF HeadOf, Elements
<1>2. CASE l # <<>>
  <2>1. HeadOf(l) = l[1] /\ 1 \in DOMAIN l /\ l[1] \in Timer
    BY <1>2 DEF HeadOf, Shape
  <2> QED
    BY <2>1, OnePlace DEF Shape, Elements
<1> QED
  BY <1>1, <1>2

\* It goes on to the next place.
LEMMA AtNext ==
  ASSUME Shape(list), NEW t \in Elements(list)
  PROVE  /\ Succ(t) \in Elements(list) \cup {None} /\ Succ(t) # t
         /\ (Succ(t) # None => Place(list, Succ(t)) = Place(list, t) + 1)
         /\ (Succ(t) = None => Place(list, t) = Len(list))
<1> USE TimerAssumption
<1> DEFINE p == Place(list, t)
<1>1. p \in 1 .. Len(list) /\ list[p] = t /\ Len(list) \in Nat
  BY HasPlace DEF Shape
<1>t. t \in Timer
  BY <1>1 DEF Shape
<1>2. CASE p < Len(list)
  <2>1. Succ(t) = list[p + 1] /\ p + 1 \in DOMAIN list /\ list[p + 1] \in Timer
    BY <1>1, <1>2 DEF Succ, Shape
  <2>2. Place(list, list[p + 1]) = p + 1
    BY <2>1, OnePlace DEF Shape
  <2>3. list[p + 1] \in Elements(list)
    BY <2>1 DEF Elements
  <2>4. list[p + 1] # list[p]
    BY <1>1, <2>1 DEF Shape, Once
  <2> QED
    BY <1>1, <2>1, <2>2, <2>3, <2>4
<1>3. CASE p = Len(list)
  BY <1>1, <1>3, <1>t DEF Succ
<1> QED
  BY <1>1, <1>2, <1>3

-----------------------------------------------------------------------------
(* The invariant *)

LEMMA Initially == Init => IInv
<1> SUFFICES ASSUME Init PROVE IInv
  OBVIOUS
<1> USE TimerAssumption DEF Init
<1>1. TypeOK
  <2>1. [t \in Timer |-> 0] \in [Timer -> Nat]
    OBVIOUS
  <2>2. [t \in Timer |-> FALSE] \in [Timer -> BOOLEAN]
    OBVIOUS
  <2>3. 0 \in 0 .. TicksPerMs - 1 /\ list \in Seq(Timer)
    OBVIOUS
  <2> QED
    BY <2>1, <2>2, <2>3 DEF TypeOK
<1>2. ListIsPool
  BY DEF ListIsPool, Listed
<1>3. ClockSeen /\ Passes /\ CountsDown /\ Visited
  BY DEF ClockSeen, Passes, CountsDown, Visited
<1> QED
  BY <1>1, <1>2, <1>3 DEF IInv

\* The slot that a new timer gets.
FirstFree == CHOOSE f \in Free : \A g \in Free : f <= g

LEMMA FirstFreeIsFree == Free # {} => FirstFree \in Timer /\ FirstFree \notin used
<1> SUFFICES ASSUME Free # {} PROVE FirstFree \in Free
  BY DEF Free
<1>1. Free \subseteq Nat
  BY TimerAssumption DEF Free
<1> QED
  BY <1>1, Least DEF FirstFree

LEMMA Posted ==
  ASSUME IInv, NEW ms \in Waits, ev_timer_taskPost(ms)
  PROVE  /\ FirstFree \in Timer /\ FirstFree \notin used
         /\ used' = used \cup {FirstFree} /\ list' = <<FirstFree>> \o list
         /\ timeout' = [timeout EXCEPT ![FirstFree] = ms]
         /\ period' = [period EXCEPT ![FirstFree] = ms]
         /\ curSysTick' = [curSysTick EXCEPT ![FirstFree] = now]
         /\ since' = [since EXCEPT ![FirstFree] = now]
         /\ UNCHANGED <<now, prevSysTick, remSysTick, isRunning, at, prevHead, isBusy>>
BY FirstFreeIsFree DEF ev_timer_taskPost, FirstFree, clock, pass

\* Updating the timers.
LEMMA Updated ==
  ASSUME IInv, NEW det \in BOOLEAN, ev_timer_process(det)
  PROVE  /\ now' = now /\ prevSysTick' = now /\ remSysTick' \in 0 .. TicksPerMs - 1
         /\ updateTime \in Nat
         /\ remSysTick + (now - prevSysTick) = updateTime * TicksPerMs + remSysTick'
<1> USE TimerAssumption
<1>1. /\ now \in Nat /\ prevSysTick \in Nat /\ remSysTick \in 0 .. TicksPerMs - 1
      /\ prevSysTick <= now /\ now - prevSysTick <= MaxGap
  BY DEF IInv, TypeOK, ClockSeen
<1>2. Ticks(prevSysTick) = now - prevSysTick
  BY <1>1, Below DEF Ticks
<1>3. remSysTick + (now - prevSysTick) \in Nat
  BY <1>1
<1> QED
  BY <1>2, <1>3, DivMod DEF ev_timer_process, Remainder, updateTime

LEMMA NewTick ==
  ASSUME IInv, NEW t \in used, ~isRunning[t]
  PROVE  /\ now - since[t] \in Nat
         /\ Ticks(curSysTick[t]) = now - since[t]
<1> USE TimerAssumption
<1>0. t \in Timer
  BY DEF IInv, TypeOK
<1>1. /\ now \in Nat /\ prevSysTick \in Nat /\ remSysTick \in 0 .. TicksPerMs - 1
      /\ now - prevSysTick <= MaxGap /\ since[t] \in Nat /\ since[t] <= now
      /\ since[t] = curSysTick[t] /\ prevSysTick - since[t] <= remSysTick
  BY <1>0 DEF IInv, TypeOK, ClockSeen, CountsDown, Fresh
<1>2. now - since[t] \in Nat /\ now - since[t] < Wrap
  BY <1>1
<1> QED
  BY <1>1, <1>2, Below DEF Ticks

LEMMA TypeStep == IInv /\ [Next]_vars => TypeOK'
<1> SUFFICES ASSUME IInv, [Next]_vars PROVE TypeOK'
  OBVIOUS
<1> USE TimerAssumption
<1>0. TypeOK /\ Shape(list) /\ Elements(list) = used /\ used \subseteq Timer
  BY ShapeOfList DEF IInv, TypeOK
<1>1. CASE UNCHANGED vars
  BY <1>0, <1>1 DEF TypeOK, vars, pool, clock, pass
<1>2. CASE Advance
  <2>1. now' \in Nat
    BY <1>0, <1>2 DEF TypeOK, Advance
  <2> QED
    BY <1>0, <1>2, <2>1 DEF TypeOK, Advance, pool, clock, pass
<1>3. ASSUME NEW ms \in Waits, ev_timer_taskPost(ms) PROVE TypeOK'
  <2>1. <<FirstFree>> \o list \in Seq(Timer)
    BY <1>0, <1>3, Posted, PutFirst DEF Shape
  <2>2. ms \in Nat /\ now \in Nat
    BY <1>0 DEF TypeOK
  <2>3. /\ timeout' \in [Timer -> Nat] /\ period' \in [Timer -> Nat]
        /\ curSysTick' \in [Timer -> Nat] /\ since' \in [Timer -> Nat]
    <3>1. /\ FirstFree \in Timer
          /\ timeout' = [timeout EXCEPT ![FirstFree] = ms]
          /\ period' = [period EXCEPT ![FirstFree] = ms]
          /\ curSysTick' = [curSysTick EXCEPT ![FirstFree] = now]
          /\ since' = [since EXCEPT ![FirstFree] = now]
      BY <1>3, Posted
    <3> QED
      BY <1>0, <2>2, <3>1 DEF TypeOK
  <2>4. used' \subseteq Timer /\ list' \in Seq(Timer)
    BY <1>0, <1>3, <2>1, Posted
  <2> QED
    BY <1>0, <1>3, <2>3, <2>4, Posted DEF TypeOK
<1>4. CASE Exhausted
  <2>1. [t \in Timer |-> 0] \in [Timer -> Nat]
    OBVIOUS
  <2>2. [t \in Timer |-> FALSE] \in [Timer -> BOOLEAN]
    OBVIOUS
  <2>3. 0 \in 0 .. TicksPerMs - 1 /\ <<>> \in Seq(Timer)
    OBVIOUS
  <2> QED
    BY <1>4, <2>1, <2>2, <2>3 DEF Exhausted, TypeOK
\* A timer is taken out of the list.
<1>d. ASSUME NEW t \in used, ev_unon_timer(t)
      PROVE  /\ used' \subseteq Timer /\ list' \in Seq(Timer)
             /\ isRunning' \in [Timer -> BOOLEAN] /\ Elements(list') \subseteq used
  <2>1. Without(t) \in Seq(Timer) /\ Elements(Without(t)) \subseteq used
    BY <1>0, TakenOut DEF Shape
  <2> QED
    BY <1>0, <1>d, <2>1 DEF TypeOK, ev_unon_timer
<1>5. ASSUME NEW t \in Timer, ev_timer_taskCancel(t) PROVE TypeOK'
  <2>1. t \in used /\ ev_unon_timer(t)
    BY <1>5 DEF ev_timer_taskCancel, MayCancel
  <2> QED
    BY <1>0, <1>5, <2>1, <1>d DEF TypeOK, ev_timer_taskCancel, clock, pass
<1>6. ASSUME NEW det \in BOOLEAN, ev_timer_process(det) PROVE TypeOK'
  <2>1. timeout' \in [Timer -> Nat] /\ isRunning' \in [Timer -> BOOLEAN]
    <3>1. CASE updateTime = 0
      BY <1>0, <1>6, <3>1 DEF TypeOK, ev_timer_process, ev_timer_update
    <3>2. CASE updateTime # 0
      <4>1. ASSUME NEW t \in used PROVE Down(timeout[t], Elapsed(t)) \in Nat
        <5>1. timeout[t] \in Nat /\ updateTime \in Nat /\ TicksPerMs \in Nat \ {0}
          BY <1>0, <1>6, Updated DEF TypeOK
        <5>2. ~isRunning[t] => Ticks(curSysTick[t]) \div TicksPerMs \in Nat
          BY NewTick, DivMod
        <5> QED
          BY <5>1, <5>2 DEF Down, Elapsed
      <4>2. Listed = used
        BY ShapeOfList
      <4>3. timeout' = [t \in Timer |->
               IF t \in used THEN Down(timeout[t], Elapsed(t)) ELSE timeout[t]]
        BY <1>6, <3>2, <4>2 DEF ev_timer_process, ev_timer_update
      <4>4. timeout' \in [Timer -> Nat]
        BY <1>0, <4>1, <4>3 DEF TypeOK
      <4>5. isRunning' = [t \in Timer |-> isRunning[t] \/ t \in used]
        BY <1>6, <3>2, <4>2 DEF ev_timer_process, ev_timer_update
      <4>6. \A t \in Timer : (isRunning[t] \/ t \in used) \in BOOLEAN
        OBVIOUS
      <4> QED
        BY <4>4, <4>5, <4>6
    <3> QED
      BY <3>1, <3>2
  <2>2. at' \in Timer \cup {None} /\ prevHead' \in Timer \cup {None}
    BY <1>0, <1>6, AtHead DEF TypeOK, ev_timer_process
  <2> QED
    BY <1>0, <1>6, <2>1, <2>2, Updated DEF TypeOK, ev_timer_process, pool
<1>7. CASE Waiting
  <2>1. Succ(at) \in Timer \cup {None}
    BY <1>0, <1>7, ShapeOfList, AtNext DEF Waiting
  <2> QED
    BY <1>0, <1>7, <2>1 DEF TypeOK, Waiting, pool, clock
<1>8. CASE Expired
  BY <1>0, <1>8 DEF TypeOK, Expired, pool, clock
<1>b. ASSUME isBusy PROVE at \in used /\ Succ(at) \in Timer \cup {None}
  BY <1>0, <1>b, ShapeOfList, AtNext DEF IInv, Passes
<1>9. CASE Ends
  <2>1. at \in used /\ ev_unon_timer(at)
    BY <1>9, <1>b DEF Ends
  <2>2. /\ used' \subseteq Timer /\ list' \in Seq(Timer)
        /\ isRunning' \in [Timer -> BOOLEAN] /\ Elements(list') \subseteq used
    BY <2>1, <1>d
  <2>3. HeadOf(list') \in Timer \cup {None}
    <3>1. Shape(list')
      BY <1>0, <2>1, TakenOut DEF ev_unon_timer, Shape
    <3> QED
      BY <1>0, <2>2, <3>1, AtHead
  <2>4. at' \in Timer \cup {None} /\ prevHead' \in Timer \cup {None}
    BY <1>0, <1>9, <1>b, <2>3 DEF TypeOK, Ends, Continue
  <2> QED
    BY <1>0, <1>9, <2>2, <2>4 DEF TypeOK, Ends, clock
<1>10. ASSUME NEW ms \in Waits, Repeats(ms) PROVE TypeOK'
  <2>1. at \in Timer /\ ms \in Nat
    BY <1>0, <1>10, <1>b DEF Repeats
  <2>2. /\ timeout' \in [Timer -> Nat] /\ period' \in [Timer -> Nat]
        /\ since' \in [Timer -> Nat]
    BY <1>0, <1>10, <2>1 DEF TypeOK, Repeats
  <2>3. HeadOf(list) \in Timer \cup {None}
    BY <1>0, AtHead
  <2>4. list' = list
    BY <1>10 DEF Repeats
  <2>5. at' \in Timer \cup {None} /\ prevHead' \in Timer \cup {None}
    BY <1>0, <1>10, <1>b, <2>3, <2>4 DEF TypeOK, Repeats, Continue
  <2> QED
    BY <1>0, <1>10, <2>2, <2>4, <2>5 DEF TypeOK, Repeats, clock
<1> QED
  BY <1>1, <1>2, <1>3, <1>4, <1>5, <1>6, <1>7, <1>8, <1>9, <1>10 DEF Next

\* A list of the right shape, holding the used slots, with the pass on one.
LEMMA ListKept ==
  ASSUME Shape(list'), Elements(list') = used', at' # None => at' \in used'
  PROVE  ListIsPool'
BY DEF ListIsPool, Shape, Once, Elements, Listed

LEMMA ListStep == IInv /\ [Next]_vars => ListIsPool'
<1> SUFFICES ASSUME IInv, [Next]_vars PROVE ListIsPool'
  OBVIOUS
<1>0. Shape(list) /\ Elements(list) = used /\ (at # None => at \in used)
  BY ShapeOfList
<1>s. ASSUME UNCHANGED <<list, used>>, at' # None => at' \in used PROVE ListIsPool'
  BY <1>0, <1>s, ListKept
<1>d. ASSUME NEW t \in used, ev_unon_timer(t)
      PROVE  Shape(list') /\ Elements(list') = used' /\ used' = used \ {t}
  BY <1>0, <1>d, TakenOut DEF Shape, ev_unon_timer
<1>1. CASE UNCHANGED vars
  BY <1>0, <1>1, <1>s DEF vars, pool, pass
<1>2. CASE Advance
  BY <1>0, <1>2, <1>s DEF Advance, pool, pass
<1>3. ASSUME NEW ms \in Waits, ev_timer_taskPost(ms) PROVE ListIsPool'
  <2>1. Shape(list') /\ Elements(list') = used \cup {FirstFree}
    BY <1>0, <1>3, Posted, PutFirst DEF Shape
  <2>2. used' = used \cup {FirstFree} /\ at' = at
    BY <1>3, Posted
  <2> QED
    BY <1>0, <2>1, <2>2, ListKept
<1>4. CASE Exhausted
  <2>1. list' = <<>> /\ used' = {} /\ at' = None
    BY <1>4 DEF Exhausted
  <2>2. Shape(list') /\ Elements(list') = {}
    BY <2>1 DEF Shape, Once, Elements
  <2> QED
    BY <2>1, <2>2, ListKept
<1>5. ASSUME NEW t \in Timer, ev_timer_taskCancel(t) PROVE ListIsPool'
  <2>1. t \in used /\ ev_unon_timer(t) /\ at' = at /\ (at # None => at # t)
    BY <1>5 DEF ev_timer_taskCancel, MayCancel, Calls, pass
  <2> QED
    BY <1>0, <2>1, <1>d, ListKept
<1>6. ASSUME NEW det \in BOOLEAN, ev_timer_process(det) PROVE ListIsPool'
  <2>1. at' # None => at' \in used
    BY <1>0, <1>6, AtHead DEF ev_timer_process
  <2> QED
    BY <1>6, <2>1, <1>s DEF ev_timer_process, pool
<1>7. CASE Waiting
  <2>1. at' # None => at' \in used
    BY <1>0, <1>7, AtNext DEF Waiting
  <2> QED
    BY <1>7, <2>1, <1>s DEF Waiting, pool
<1>8. CASE Expired
  BY <1>0, <1>8, <1>s DEF Expired, pool
<1>9. CASE Ends
  <2>1. at \in used /\ ev_unon_timer(at) /\ Continue
    BY <1>0, <1>9 DEF Ends, IInv, Passes
  <2>2. Shape(list') /\ Elements(list') = used' /\ used' = used \ {at}
    BY <2>1, <1>d
  <2>3. CASE HeadOf(list') # prevHead
    BY <2>1, <2>2, <2>3, AtHead, ListKept DEF Continue
  <2>4. CASE HeadOf(list') = prevHead
    <3>1. at' = Succ(at)
      BY <2>1, <2>4 DEF Continue
    <3>2. Succ(at) \in used \cup {None} /\ Succ(at) # at
      BY <1>0, <2>1, AtNext
    <3> QED
      BY <2>2, <3>1, <3>2, ListKept
  <2> QED
    BY <2>3, <2>4
<1>10. ASSUME NEW ms \in Waits, Repeats(ms) PROVE ListIsPool'
  <2>1. at \in used /\ Continue /\ list' = list /\ used' = used
    BY <1>0, <1>10 DEF Repeats, IInv, Passes
  <2>2. Succ(at) \in used \cup {None} /\ HeadOf(list) \in used \cup {None}
    BY <1>0, <2>1, AtNext, AtHead
  <2> QED
    BY <2>1, <2>2, <1>s DEF Continue
<1> QED
  BY <1>1, <1>2, <1>3, <1>4, <1>5, <1>6, <1>7, <1>8, <1>9, <1>10 DEF Next

LEMMA PassStep == IInv /\ [Next]_vars => ClockSeen' /\ Passes'
<1> SUFFICES ASSUME IInv, [Next]_vars PROVE ClockSeen' /\ Passes'
  OBVIOUS
<1> USE TimerAssumption
<1>0. TypeOK /\ ClockSeen /\ Passes /\ Shape(list) /\ Elements(list) = used
      /\ Listed = used /\ used \subseteq Timer
  BY ShapeOfList DEF IInv, TypeOK
<1>1. CASE UNCHANGED vars
  BY <1>0, <1>1 DEF ClockSeen, Passes, vars, pool, clock, pass
<1>2. CASE Advance
  BY <1>0, <1>2 DEF TypeOK, ClockSeen, Passes, Advance, pool, clock, pass
<1>3. ASSUME NEW ms \in Waits, ev_timer_taskPost(ms) PROVE ClockSeen' /\ Passes'
  BY <1>0, <1>3, Posted DEF ClockSeen, Passes
<1>4. CASE Exhausted
  BY <1>4 DEF Exhausted, ClockSeen, Passes
<1>5. ASSUME NEW t \in Timer, ev_timer_taskCancel(t) PROVE ClockSeen' /\ Passes'
  BY <1>0, <1>5 DEF TypeOK, ClockSeen, Passes, ev_timer_taskCancel, ev_unon_timer, clock, pass
<1>6. ASSUME NEW det \in BOOLEAN, ev_timer_process(det) PROVE ClockSeen' /\ Passes'
  <2>1. ClockSeen'
    <3>1. now' = now /\ prevSysTick' = now /\ now \in Nat
      BY <1>0, <1>6, Updated DEF TypeOK
    <3> QED
      BY <3>1 DEF ClockSeen
  <2>2. \A t \in Timer : isRunning'[t] => t \in used
    <3>1. CASE updateTime = 0
      BY <1>0, <1>6, <3>1 DEF Passes, ev_timer_process, ev_timer_update
    <3>2. CASE updateTime # 0
      <4>1. isRunning' = [t \in Timer |-> isRunning[t] \/ t \in used]
        BY <1>0, <1>6, <3>2 DEF ev_timer_process, ev_timer_update
      <4> QED
        BY <1>0, <4>1 DEF Passes
    <3> QED
      BY <3>1, <3>2
  <2>3. used' = used /\ isBusy' = isBusy /\ (isBusy => FALSE)
    BY <1>0, <1>6 DEF ev_timer_process, pool, Passes
  <2> QED
    BY <2>1, <2>2, <2>3 DEF Passes
<1>7. CASE Waiting
  BY <1>0, <1>7 DEF ClockSeen, Passes, Waiting, pool, clock
<1>8. CASE Expired
  BY <1>0, <1>8 DEF ClockSeen, Passes, Expired, pool, clock
<1>9. CASE Ends
  BY <1>0, <1>9 DEF TypeOK, ClockSeen, Passes, Ends, ev_unon_timer, clock
<1>10. ASSUME NEW ms \in Waits, Repeats(ms) PROVE ClockSeen' /\ Passes'
  BY <1>0, <1>10 DEF ClockSeen, Passes, Repeats, clock
<1> QED
  BY <1>1, <1>2, <1>3, <1>4, <1>5, <1>6, <1>7, <1>8, <1>9, <1>10 DEF Next

\* The timers before the place of the pass.
BehindAll(l, t) == \A i \in DOMAIN l : i < Place(l, t) => Behind(l[i])

LEMMA VisitedStep == IInv /\ [Next]_vars => Visited'
<1> SUFFICES ASSUME IInv, [Next]_vars, at' # None PROVE BehindAll(list, at)'
  BY DEF Visited, BehindAll
<1> USE TimerAssumption
<1> DEFINE p == Place(list, at)
<1>0. /\ TypeOK /\ Shape(list) /\ Elements(list) = used /\ used \subseteq Timer
      /\ (at # None => at \in used)
  BY ShapeOfList DEF IInv, TypeOK
<1>p. ASSUME at \in used
      PROVE  /\ p \in 1 .. Len(list) /\ list[p] = at /\ Len(list) \in Nat
             /\ \A i \in 1 .. Len(list) : i < p => Behind(list[i])
  <2>1. at # None
    BY <1>0, <1>p
  <2> QED
    BY <1>0, <1>p, <2>1, HasPlace DEF Shape, IInv, Visited
<1>e. \A i \in 1 .. Len(list) : list[i] \in used
  BY <1>0 DEF Elements
\* The first timer has none before it.
<1>h. ASSUME Shape(list'), at' = HeadOf(list') PROVE BehindAll(list, at)'
  <2>1. Place(list', at') = 1
    BY <1>h, AtHead
  <2>2. DOMAIN list' \subseteq Nat \ {0}
    BY <1>h DEF Shape
  <2> QED
    BY <2>1, <2>2 DEF BehindAll
\* What was behind stays behind if nothing but marks are cleared.
<1>b. ASSUME NEW t \in used, ev_unon_timer(t), UNCHANGED <<timeout, since, prevSysTick>>,
             NEW x \in used, Behind(x)
      PROVE  Behind(x)'
  BY <1>0, <1>b DEF TypeOK, Behind, ev_unon_timer
<1>u. ASSUME NEW t \in used, ev_unon_timer(t)
      PROVE  /\ list' \in Seq(Timer) /\ Once(list') /\ Len(list') = Len(list) - 1
             /\ \A i \in 1 .. Len(list) - 1 :
                  list'[i] = IF i < Place(list, t) THEN list[i] ELSE list[i + 1]
  BY <1>0, <1>u, TakenOut DEF Shape, ev_unon_timer
<1>1. CASE UNCHANGED vars
  BY <1>0, <1>1 DEF IInv, Visited, BehindAll, Behind, vars, pool, clock, pass
<1>2. CASE Advance
  BY <1>0, <1>2 DEF IInv, Visited, BehindAll, Behind, Advance, pool, clock, pass
<1>3. ASSUME NEW ms \in Waits, ev_timer_taskPost(ms) PROVE BehindAll(list, at)'
  <2>1. PICK f \in Timer :
          /\ f \notin used /\ list' = <<f>> \o list
          /\ timeout' = [timeout EXCEPT ![f] = ms]
          /\ since' = [since EXCEPT ![f] = now]
          /\ UNCHANGED <<prevSysTick, isRunning, at>>
    BY <1>3, Posted
  <2>2. /\ list' \in Seq(Timer) /\ Once(list') /\ Len(list') = Len(list) + 1
        /\ list'[1] = f /\ \A i \in 1 .. Len(list) : list'[i + 1] = list[i]
    BY <1>0, <2>1, PutFirst DEF Shape
  <2>3. at \in used
    BY <1>0, <2>1
  <2>4. Place(list', at') = p + 1
    <3>1. p + 1 \in DOMAIN list' /\ list'[p + 1] = at'
      BY <1>p, <2>1, <2>2, <2>3
    <3> QED
      BY <2>2, <3>1, OnePlace
  <2>5. Behind(f)'
    BY <2>1 DEF IInv, Passes, Behind
  <2>6. ASSUME NEW i \in DOMAIN list', i < p + 1, i # 1 PROVE Behind(list[i])'
    <3>1. i - 1 \in 1 .. Len(list) /\ i - 1 < p /\ list'[i] = list[i - 1]
      <4>1. i - 1 \in 1 .. Len(list) /\ (i - 1) + 1 = i
        BY <1>p, <2>2, <2>3, <2>6
      <4> QED
        BY <1>p, <2>2, <2>3, <2>6, <4>1
    <3>2. Behind(list[i - 1]) /\ list[i - 1] \in used /\ list[i - 1] \in Timer
      BY <1>0, <1>e, <1>p, <2>3, <3>1
    <3>3. PICK x \in used : x = list[i - 1] /\ x = list'[i] /\ Behind(x) /\ x # f
      BY <2>1, <3>1, <3>2
    <3>4. timeout'[x] = timeout[x] /\ since'[x] = since[x] /\ isRunning'[x] = isRunning[x]
      BY <1>0, <2>1, <3>3 DEF TypeOK
    <3> QED
      BY <2>1, <3>3, <3>4 DEF Behind
  <2>7. ASSUME NEW i \in DOMAIN list', i < p + 1 PROVE Behind(list[i])'
    <3>1. CASE i = 1
      BY <2>2, <2>5, <3>1
    <3> QED
      BY <2>6, <2>7, <3>1
  <2> QED
    BY <2>4, <2>7 DEF BehindAll
<1>4. CASE Exhausted
  BY <1>4 DEF Exhausted
<1>5. ASSUME NEW t \in Timer, ev_timer_taskCancel(t) PROVE BehindAll(list, at)'
  <2>1. /\ t \in used /\ ev_unon_timer(t) /\ at' = at /\ at \in used /\ at # t
        /\ UNCHANGED <<timeout, since, prevSysTick>>
    BY <1>0, <1>5 DEF ev_timer_taskCancel, MayCancel, Calls, pass, clock
  <2> DEFINE q == Place(list, t)
  <2>2. q \in 1 .. Len(list) /\ list[q] = t /\ q # p
    BY <1>0, <1>p, <2>1, HasPlace DEF Shape
  <2>3. CASE p < q
    <3>1. p \in DOMAIN list' /\ list'[p] = at'
      BY <1>p, <1>u, <2>1, <2>2, <2>3
    <3>2. Place(list', at') = p
      BY <1>u, <2>1, <3>1, OnePlace
    <3>3. ASSUME NEW i \in DOMAIN list', i < p PROVE Behind(list[i])'
      <4>1. i \in 1 .. Len(list) /\ list'[i] = list[i]
        <5>1. i \in 1 .. Len(list) - 1 /\ i < q
          <6>1. DOMAIN list' = 1 .. Len(list) - 1
            BY <1>u, <2>1
          <6>2. p \in Nat /\ Len(list) \in Nat
            BY <1>p, <2>1
          <6>3. q \in 1 .. Len(list) /\ p < q
            BY <2>2, <2>3
          <6> HIDE DEF p, q
          <6> QED
            BY <3>3, <6>1, <6>2, <6>3
        <5>2. list'[i] = IF i < q THEN list[i] ELSE list[i + 1]
          BY <1>u, <2>1, <5>1
        <5>3. i \in 1 .. Len(list)
          BY <1>p, <5>1
        <5> QED
          BY <5>1, <5>2, <5>3
      <4> QED
        BY <1>b, <1>e, <1>p, <2>1, <3>3, <4>1
    <3> QED
      BY <3>2, <3>3 DEF BehindAll
  <2>4. CASE p > q
    <3>1. p - 1 \in DOMAIN list' /\ list'[p - 1] = at'
      <4>1. p - 1 \in 1 .. Len(list) - 1 /\ ~ (p - 1 < q) /\ (p - 1) + 1 = p
        BY <1>p, <2>1, <2>2, <2>4
      <4> QED
        BY <1>p, <1>u, <2>1, <4>1
    <3>2. Place(list', at') = p - 1
      BY <1>u, <2>1, <3>1, OnePlace
    <3>3. ASSUME NEW i \in DOMAIN list', i < p - 1 PROVE Behind(list[i])'
      <4>1. PICK j \in 1 .. Len(list) : j < p /\ list'[i] = list[j]
        <5>1. i \in 1 .. Len(list) - 1
          BY <1>u, <2>1
        <5>2. CASE i < q
          <6>1. list'[i] = list[i]
            BY <1>u, <2>1, <5>1, <5>2
          <6>2. i < p /\ i \in 1 .. Len(list)
            BY <1>p, <2>1, <3>3, <5>1
          <6> QED
            BY <6>1, <6>2
        <5>3. CASE ~ (i < q)
          <6>1. i + 1 \in 1 .. Len(list) /\ i + 1 < p /\ list'[i] = list[i + 1]
            BY <1>p, <1>u, <2>1, <3>3, <5>1, <5>3
          <6> QED
            BY <6>1
        <5> QED
          BY <5>2, <5>3
      <4> QED
        BY <1>b, <1>e, <1>p, <2>1, <4>1
    <3> QED
      BY <3>2, <3>3 DEF BehindAll
  <2> QED
    BY <1>p, <2>1, <2>2, <2>3, <2>4
<1>6. ASSUME NEW det \in BOOLEAN, ev_timer_process(det) PROVE BehindAll(list, at)'
  <2>1. at' = HeadOf(list') /\ list' = list
    BY <1>6 DEF ev_timer_process, pool
  <2> QED
    BY <1>0, <1>h, <2>1
\* The pass goes on to the next timer.
<1>n. ASSUME at \in used, at' = Succ(at)
      PROVE  /\ Succ(at) \in used /\ Place(list, Succ(at)) = p + 1
             /\ p + 1 \in 1 .. Len(list) /\ list[p + 1] = Succ(at)
  <2>1. Succ(at) \in Elements(list) /\ Place(list, Succ(at)) = p + 1
    BY <1>0, <1>n, AtNext
  <2> QED
    BY <1>0, <2>1, HasPlace DEF Shape
<1>7. CASE Waiting
  <2>1. /\ at \in used /\ at' = Succ(at) /\ list' = list
        /\ UNCHANGED <<timeout, isRunning, since, prevSysTick>> /\ timeout[at] > 0
    BY <1>0, <1>7 DEF Waiting, pool, clock
  <2>2. Place(list', at') = p + 1
    BY <1>n, <2>1
  <2>3. ASSUME NEW i \in 1 .. Len(list), i < p + 1 PROVE Behind(list[i])'
    <3>1. Behind(list[i])
      BY <1>p, <2>1, <2>3 DEF Behind
    <3> QED
      BY <2>1, <3>1 DEF Behind
  <2> QED
    BY <2>1, <2>2, <2>3 DEF BehindAll
<1>8. CASE Expired
  BY <1>0, <1>8 DEF IInv, Visited, BehindAll, Behind, Expired, pool, clock
<1>9. CASE Ends
  <2>1. /\ at \in used /\ ev_unon_timer(at) /\ Continue
        /\ UNCHANGED <<timeout, since, prevSysTick>>
    BY <1>0, <1>9 DEF Ends, IInv, Passes, clock
  <2>2. CASE HeadOf(list') # prevHead
    BY <1>u, <1>h, <2>1, <2>2 DEF Continue, Shape
  <2>3. CASE HeadOf(list') = prevHead
    <3>1. at' = Succ(at)
      BY <2>1, <2>3 DEF Continue
    <3>2. p \in DOMAIN list' /\ list'[p] = at'
      <4>1. p \in 1 .. Len(list) - 1 /\ ~ (p < p)
        BY <1>p, <1>n, <2>1, <3>1
      <4> QED
        BY <1>u, <1>n, <2>1, <3>1, <4>1
    <3>3. Place(list', at') = p
      BY <1>u, <2>1, <3>2, OnePlace
    <3>4. ASSUME NEW i \in DOMAIN list', i < p PROVE Behind(list[i])'
      <4>1. i \in 1 .. Len(list) /\ list'[i] = list[i]
        BY <1>p, <1>u, <2>1, <3>4
      <4> QED
        BY <1>b, <1>e, <1>p, <2>1, <3>4, <4>1
    <3> QED
      BY <3>3, <3>4 DEF BehindAll
  <2> QED
    BY <2>2, <2>3
<1>10. ASSUME NEW ms \in Waits, Repeats(ms) PROVE BehindAll(list, at)'
  <2>1. /\ at \in used /\ Continue /\ list' = list
        /\ timeout' = [timeout EXCEPT ![at] = ms]
        /\ since' = [since EXCEPT ![at] = IF isRunning[at] THEN prevSysTick ELSE @]
        /\ UNCHANGED <<isRunning, prevSysTick>>
    BY <1>0, <1>10 DEF Repeats, IInv, Passes, clock
  <2>2. CASE HeadOf(list') # prevHead
    BY <1>0, <1>h, <2>1, <2>2 DEF Continue
  <2>3. CASE HeadOf(list') = prevHead
    <3>1. at' = Succ(at)
      BY <2>1, <2>3 DEF Continue
    <3>2. Place(list', at') = p + 1
      BY <1>n, <2>1, <3>1
    <3>3. ASSUME NEW i \in 1 .. Len(list), i < p + 1 PROVE Behind(list[i])'
      <4>1. list[i] \in Timer
        BY <1>0, <1>e
      <4>2. CASE list[i] = at
        BY <1>0, <2>1, <4>1, <4>2 DEF Behind, TypeOK
      <4>3. CASE list[i] # at
        <5>1. Behind(list[i])
          BY <1>p, <2>1, <3>3, <4>3
        <5> QED
          BY <1>0, <2>1, <4>1, <4>3, <5>1 DEF Behind, TypeOK
      <4> QED
        BY <4>2, <4>3
    <3> QED
      BY <2>1, <3>2, <3>3 DEF BehindAll
  <2> QED
    BY <2>2, <2>3
<1> QED
  BY <1>1, <1>2, <1>3, <1>4, <1>5, <1>6, <1>7, <1>8, <1>9, <1>10 DEF Next

\* An update counts u milliseconds off a timer that counted before ...
LEMMA CountOn ==
  ASSUME NEW T \in Nat \ {0}, NEW p \in Nat, NEW to \in Nat, NEW u \in Nat,
         NEW prev \in Nat, NEW later \in Nat, NEW start \in Nat,
         NEW rem \in 0 .. T - 1, NEW rest \in 0 .. T - 1,
         to <= p, rem + (later - prev) = u * T + rest,
         (p - to) * T + rem <= prev - start + T - 1,
         to > 0 => prev - start - rem <= (p - to) * T + T - 1
  PROVE  /\ Down(to, u) \in 0 .. p
         /\ (p - Down(to, u)) * T + rest <= later - start + T - 1
         /\ (Down(to, u) > 0 => later - start - rest <= (p - Down(to, u)) * T + T - 1)
<1> DEFINE D == Down(to, u)
           X == (p - to) * T
           Y == u * T
           Z == (p - D) * T
<1>1. X \in Int /\ Y \in Int /\ rem + (later - prev) = Y + rest
      /\ X + rem <= prev - start + T - 1
      /\ (to > 0 => prev - start - rem <= X + T - 1)
  BY Grows
<1>2. (p - to + u) * T = X + Y
  BY Distributes
<1>3. CASE to > u
  <2>1. D = to - u /\ p - D = p - to + u
    BY <1>3 DEF Down
  <2>2. Z = X + Y /\ D \in 0 .. p
    BY <1>2, <1>3, <2>1
  <2> HIDE DEF D, X, Y, Z
  <2>3. Z + rest <= later - start + T - 1 /\ later - start - rest <= Z + T - 1
    BY <1>1, <1>3, <2>2
  <2> QED
    BY <2>2, <2>3 DEF D, Z
<1>4. CASE ~ (to > u)
  <2>1. D = 0 /\ p - D = p /\ D \in 0 .. p
    BY <1>4 DEF Down
  <2>2. Z <= X + Y /\ Z \in Int
    BY <1>2, <1>4, <2>1, Grows
  <2> HIDE DEF D, X, Y, Z
  <2>3. Z + rest <= later - start + T - 1
    BY <1>1, <2>2
  <2> QED
    BY <2>1, <2>3 DEF D, Z
<1> QED
  BY <1>3, <1>4

\* ... and e milliseconds, all since its start, off one that did not.
LEMMA CountFirst ==
  ASSUME NEW T \in Nat \ {0}, NEW p \in Nat, NEW e \in Nat, NEW later \in Nat,
         NEW start \in Nat, NEW f \in 0 .. T - 1, NEW rest \in 0 .. T - 1,
         later - start = e * T + f
  PROVE  /\ Down(p, e) \in 0 .. p
         /\ (p - Down(p, e)) * T + rest <= later - start + T - 1
         /\ (Down(p, e) > 0 => later - start - rest <= (p - Down(p, e)) * T + T - 1)
<1> DEFINE D == Down(p, e)
           Y == e * T
           Z == (p - D) * T
<1>1. Y \in Int /\ later - start = Y + f
  BY Grows
<1>2. CASE p > e
  <2>1. D = p - e /\ p - D = e
    BY <1>2 DEF Down
  <2>2. Z = Y /\ D \in 0 .. p
    BY <1>2, <2>1
  <2> HIDE DEF D, Y, Z
  <2>3. Z + rest <= later - start + T - 1 /\ later - start - rest <= Z + T - 1
    BY <1>1, <2>2
  <2> QED
    BY <2>2, <2>3 DEF D, Z
<1>3. CASE ~ (p > e)
  <2>1. D = 0 /\ p - D = p /\ D \in 0 .. p
    BY <1>3 DEF Down
  <2>2. Z <= Y /\ Z \in Int
    BY <1>3, <2>1, Grows
  <2> HIDE DEF D, Y, Z
  <2>3. Z + rest <= later - start + T - 1
    BY <1>1, <2>2
  <2> QED
    BY <2>1, <2>3 DEF D, Z
<1> QED
  BY <1>2, <1>3

Counts(t) ==
  /\ period[t] \in Waits /\ since[t] <= now
  /\ IF isRunning[t] THEN Counted(t) ELSE Fresh(t)

LEMMA CountsStep == IInv /\ [Next]_vars => CountsDown'
<1> SUFFICES ASSUME IInv, [Next]_vars PROVE \A t \in used' : Counts(t)'
  BY DEF CountsDown, Counts
<1> USE TimerAssumption
<1>0. /\ TypeOK /\ ClockSeen /\ used \subseteq Timer /\ Elements(list) = used
      /\ Listed = used /\ Shape(list) /\ \A t \in used : Counts(t)
  BY ShapeOfList DEF IInv, TypeOK, CountsDown, Counts
\* A timer of which only the mark of another one changes.
<1>s. ASSUME NEW t \in used, now <= now',
             UNCHANGED <<prevSysTick, remSysTick>>,
             UNCHANGED <<timeout[t], period[t], curSysTick[t], isRunning[t], since[t]>>
      PROVE  Counts(t)'
  <2>1. Counts(t) /\ now \in Nat /\ now' >= now /\ since[t] \in Nat
    BY <1>0, <1>s DEF TypeOK
  <2>2. now' \in Nat
    BY TypeStep DEF TypeOK
  <2>3. since[t] <= now'
    BY <2>1, <2>2 DEF Counts
  <2> QED
    BY <1>s, <2>1, <2>3 DEF Counts, Counted, Fresh
<1>1. CASE UNCHANGED vars
  BY <1>0, <1>1 DEF Counts, Counted, Fresh, vars, pool, clock
<1>2. CASE Advance
  <2>1. now <= now' /\ used' = used
    BY <1>0, <1>2 DEF TypeOK, Advance, pool
  <2> QED
    BY <1>2, <2>1, <1>s DEF Advance, pool, clock
<1>3. ASSUME NEW ms \in Waits, ev_timer_taskPost(ms) PROVE \A t \in used' : Counts(t)'
  <2>1. PICK f \in Timer :
          /\ f \notin used /\ used' = used \cup {f}
          /\ timeout' = [timeout EXCEPT ![f] = ms]
          /\ period' = [period EXCEPT ![f] = ms]
          /\ curSysTick' = [curSysTick EXCEPT ![f] = now]
          /\ since' = [since EXCEPT ![f] = now]
          /\ UNCHANGED <<now, prevSysTick, remSysTick, isRunning>>
    BY <1>3, Posted
  <2>2. Counts(f)'
    <3>1. /\ timeout'[f] = ms /\ period'[f] = ms /\ curSysTick'[f] = now
          /\ since'[f] = now /\ ~isRunning'[f]
      BY <1>0, <2>1 DEF TypeOK, IInv, Passes
    <3>2. prevSysTick - now <= remSysTick /\ now <= now
      BY <1>0 DEF TypeOK, ClockSeen
    <3> QED
      BY <2>1, <3>1, <3>2 DEF Counts, Fresh
  <2>3. ASSUME NEW t \in used PROVE Counts(t)'
    <3>1. t \in Timer /\ t # f /\ now <= now'
      BY <1>0, <2>1 DEF TypeOK
    <3>2. UNCHANGED <<timeout[t], period[t], curSysTick[t], isRunning[t], since[t]>>
      BY <1>0, <2>1, <3>1 DEF TypeOK
    <3> QED
      BY <1>s, <2>1, <3>1, <3>2
  <2> QED
    BY <2>1, <2>2, <2>3
<1>4. CASE Exhausted
  BY <1>4 DEF Exhausted
<1>5. ASSUME NEW d \in Timer, ev_timer_taskCancel(d) PROVE \A t \in used' : Counts(t)'
  <2> SUFFICES ASSUME NEW t \in used' PROVE Counts(t)'
    OBVIOUS
  <2>1. t \in used /\ t # d /\ t \in Timer /\ now <= now'
    BY <1>0, <1>5 DEF TypeOK, ev_timer_taskCancel, ev_unon_timer
  <2>2. UNCHANGED <<timeout[t], period[t], curSysTick[t], isRunning[t], since[t]>>
    BY <1>0, <1>5, <2>1 DEF TypeOK, ev_timer_taskCancel, ev_unon_timer
  <2> QED
    BY <1>5, <1>s, <2>1, <2>2 DEF ev_timer_taskCancel, clock
<1>6. ASSUME NEW det \in BOOLEAN, ev_timer_process(det) PROVE \A t \in used' : Counts(t)'
  <2> SUFFICES ASSUME NEW t \in used PROVE Counts(t)'
    BY <1>6 DEF ev_timer_process, pool
  <2> DEFINE u == updateTime
             T == TicksPerMs
  <2>1. /\ now' = now /\ prevSysTick' = now /\ remSysTick' \in 0 .. T - 1 /\ u \in Nat
        /\ remSysTick + (now - prevSysTick) = u * T + remSysTick'
    BY <1>6, Updated
  <2>2. /\ period'[t] = period[t] /\ since'[t] = since[t] /\ curSysTick'[t] = curSysTick[t]
        /\ period[t] \in Waits /\ since[t] <= now
    BY <1>0, <1>6 DEF ev_timer_process, pool, Counts
  <2>3. /\ t \in Timer /\ now \in Nat /\ prevSysTick \in Nat /\ remSysTick \in 0 .. T - 1
        /\ prevSysTick <= now /\ since[t] \in Nat /\ timeout[t] \in Nat /\ period[t] \in Nat
    BY <1>0 DEF TypeOK, ClockSeen
  <2>r. isRunning[t] =>
          /\ since[t] <= prevSysTick /\ timeout[t] <= period[t]
          /\ (period[t] - timeout[t]) * T + remSysTick <= prevSysTick - since[t] + T - 1
          /\ timeout[t] > 0 => prevSysTick - since[t] - remSysTick
                                 <= (period[t] - timeout[t]) * T + T - 1
    BY <1>0 DEF Counts, Counted
  <2>f. ~isRunning[t] => Fresh(t)
    BY <1>0 DEF Counts
  <2>u. isRunning[t] =>
          /\ Down(timeout[t], u) \in 0 .. period[t]
          /\ (period[t] - Down(timeout[t], u)) * T + remSysTick' <= now - since[t] + T - 1
          /\ Down(timeout[t], u) > 0 =>
               now - since[t] - remSysTick' <= (period[t] - Down(timeout[t], u)) * T + T - 1
    <3> HIDE DEF u, T
    <3>1. T \in Nat \ {0}
      BY DEF T
    <3> QED
      BY <2>1, <2>3, <2>r, <3>1, CountOn
  <2>4. CASE u = 0
    <3>1. timeout'[t] = timeout[t] /\ isRunning'[t] = isRunning[t]
      BY <1>6, <2>4 DEF ev_timer_process, ev_timer_update
    <3>2. remSysTick' = remSysTick + (now - prevSysTick)
      <4>1. 0 * T = 0
        OBVIOUS
      <4> HIDE DEF T
      <4> QED
        BY <2>1, <2>3, <2>4, <4>1
    <3>3. CASE isRunning[t]
      <4>1. Down(timeout[t], u) = timeout[t]
        BY <2>3, <2>4 DEF Down
      <4> QED
        BY <2>1, <2>2, <2>3, <2>r, <2>u, <3>1, <3>3, <4>1 DEF Counts, Counted
    <3>4. CASE ~isRunning[t]
      <4>1. now - since[t] <= remSysTick'
        BY <2>3, <2>f, <3>2, <3>4 DEF Fresh
      <4> QED
        BY <2>1, <2>2, <2>f, <3>1, <3>4, <4>1 DEF Counts, Fresh
    <3> QED
      BY <3>3, <3>4
  <2>5. CASE u # 0
    <3>1. timeout'[t] = Down(timeout[t], Elapsed(t)) /\ isRunning'[t]
      BY <1>0, <1>6, <2>3, <2>5 DEF ev_timer_process, ev_timer_update
    <3>2. CASE isRunning[t]
      <4>1. Elapsed(t) = u
        BY <3>2 DEF Elapsed
      <4> HIDE DEF u
      <4>2. timeout'[t] <= period[t] /\ since[t] <= now
        BY <2>2, <2>3, <2>u, <3>1, <3>2, <4>1
      <4> QED
        BY <2>1, <2>2, <2>u, <3>1, <3>2, <4>1, <4>2 DEF Counts, Counted
    <3>3. CASE ~isRunning[t]
      <4> DEFINE e == (now - since[t]) \div T
                 f == (now - since[t]) % T
      <4>1. Elapsed(t) = e /\ now - since[t] \in Nat
        BY <3>3, NewTick DEF Elapsed
      <4>2. e \in Nat /\ f \in 0 .. T - 1 /\ now - since[t] = e * T + f
        BY <4>1, DivMod
      <4>3. timeout[t] = period[t]
        BY <2>f, <3>3 DEF Fresh
      <4> HIDE DEF e, f, T
      <4>4. /\ Down(period[t], e) \in 0 .. period[t]
            /\ (period[t] - Down(period[t], e)) * T + remSysTick' <= now - since[t] + T - 1
            /\ Down(period[t], e) > 0 =>
                 now - since[t] - remSysTick' <= (period[t] - Down(period[t], e)) * T + T - 1
        <5>1. T \in Nat \ {0}
          BY DEF T
        <5> QED
          BY <2>1, <2>3, <4>2, <5>1, CountFirst
      <4>5. timeout'[t] = Down(period[t], e)
        BY <3>1, <4>1, <4>3
      <4>6. timeout'[t] <= period[t]
        BY <2>3, <4>4, <4>5
      <4> QED
        BY <2>1, <2>2, <3>1, <4>4, <4>5, <4>6 DEF Counts, Counted, T
    <3> QED
      BY <3>2, <3>3
  <2> QED
    BY <2>4, <2>5
<1>7. CASE Waiting
  BY <1>0, <1>7, <1>s DEF TypeOK, Waiting, pool, clock
<1>8. CASE Expired
  BY <1>0, <1>8, <1>s DEF TypeOK, Expired, pool, clock
<1>9. CASE Ends
  <2> SUFFICES ASSUME NEW t \in used' PROVE Counts(t)'
    OBVIOUS
  <2>1. t \in used /\ t # at /\ t \in Timer /\ now <= now'
    BY <1>0, <1>9 DEF TypeOK, Ends, ev_unon_timer
  <2>2. UNCHANGED <<timeout[t], period[t], curSysTick[t], isRunning[t], since[t]>>
    BY <1>0, <1>9, <2>1 DEF TypeOK, Ends, ev_unon_timer
  <2> QED
    BY <1>9, <1>s, <2>1, <2>2 DEF Ends, clock
<1>10. ASSUME NEW ms \in Waits, Repeats(ms) PROVE \A t \in used' : Counts(t)'
  <2>1. PICK a \in used :
        /\ used' = used
        /\ timeout' = [timeout EXCEPT ![a] = ms]
        /\ period' = [period EXCEPT ![a] = ms]
        /\ since' = [since EXCEPT ![a] = IF isRunning[a] THEN prevSysTick ELSE @]
        /\ \E x \in {period[a]} \cup (Waits \ {0}) : x = ms
        /\ UNCHANGED <<now, prevSysTick, remSysTick, isRunning, curSysTick>>
    BY <1>10, ShapeOfList DEF Repeats, IInv, Passes, clock
  <2>2. Counts(a)'
    <3>1. /\ a \in Timer /\ timeout'[a] = ms /\ period'[a] = ms
          /\ curSysTick'[a] = curSysTick[a] /\ isRunning'[a] = isRunning[a]
          /\ since'[a] = IF isRunning[a] THEN prevSysTick ELSE since[a]
          /\ ms \in Waits /\ ms \in Nat /\ since[a] <= now
      BY <1>0, <2>1 DEF TypeOK, Counts
    <3>2. /\ prevSysTick \in Nat /\ now \in Nat /\ prevSysTick <= now
          /\ remSysTick \in 0 .. TicksPerMs - 1
      BY <1>0 DEF TypeOK, ClockSeen
    <3>3. CASE isRunning[a]
      <4>1. (ms - ms) * TicksPerMs = 0
        BY <3>1
      <4>2. /\ since'[a] <= prevSysTick' /\ timeout'[a] <= period'[a]
            /\ (period'[a] - timeout'[a]) * TicksPerMs + remSysTick'
                 <= prevSysTick' - since'[a] + TicksPerMs - 1
            /\ prevSysTick' - since'[a] - remSysTick'
                 <= (period'[a] - timeout'[a]) * TicksPerMs + TicksPerMs - 1
        BY <2>1, <3>1, <3>2, <3>3, <4>1
      <4> QED
        BY <2>1, <3>1, <3>2, <3>3, <4>2 DEF Counts, Counted
    <3>4. CASE ~isRunning[a]
      BY <1>0, <2>1, <3>1, <3>4 DEF Counts, Fresh
    <3> QED
      BY <3>3, <3>4
  <2>3. ASSUME NEW t \in used, t # a PROVE Counts(t)'
    <3>1. t \in Timer /\ now <= now'
      BY <1>0, <2>1 DEF TypeOK
    <3>2. UNCHANGED <<timeout[t], period[t], curSysTick[t], isRunning[t], since[t]>>
      BY <1>0, <2>1, <2>3, <3>1 DEF TypeOK
    <3> QED
      BY <1>s, <2>1, <3>1, <3>2
  <2> QED
    BY <2>1, <2>2, <2>3
<1> QED
  BY <1>1, <1>2, <1>3, <1>4, <1>5, <1>6, <1>7, <1>8, <1>9, <1>10 DEF Next

THEOREM Invariance == Spec => []IInv
<1>1. IInv /\ [Next]_vars => IInv'
  BY TypeStep, ListStep, PassStep, VisitedStep, CountsStep DEF IInv
<1> QED
  BY Initially, <1>1, PTL DEF Spec

-----------------------------------------------------------------------------
(* The results *)

\* Every variable of the timers keeps its type, for any pool and any waits.
THEOREM TypeCorrect == Spec => []TypeOK
BY Invariance, PTL DEF IInv

\* The list is the pool, and no pass stands on a slot that was given back.
THEOREM ListIsThePool == Spec => []ListIsPool
BY Invariance, PTL DEF IInv

\* A timer that is behind a pass has not waited a millisecond too long.
LEMMA NotLate ==
  ASSUME NEW T \in Nat \ {0}, NEW p \in Nat, NEW to \in Nat, NEW prev \in Nat,
         NEW start \in Nat, NEW rem \in 0 .. T - 1,
         \/ start = prev
         \/ prev - start <= rem
         \/ to > 0 /\ to <= p /\ prev - start - rem <= (p - to) * T + T - 1
  PROVE  prev - start < (p + 1) * T
<1> DEFINE X == (p - to) * T
           Z == (p + 1) * T
<1>1. T <= Z /\ Z \in Int /\ X \in Int
  <2>1. 1 * T <= (p + 1) * T /\ (p + 1) * T \in Int /\ 1 * T = T
    BY Grows
  <2>2. (p - to) * T \in Int
    BY Grows
  <2> QED
    BY <2>1, <2>2
<1>2. CASE start = prev \/ prev - start <= rem
  <2> HIDE DEF Z
  <2> QED
    BY <1>1, <1>2
<1>3. CASE to > 0 /\ to <= p /\ prev - start - rem <= X + T - 1
  <2>1. (p - to + 2) * T <= Z
    BY <1>3, Grows
  <2>2. (p - to + 2) * T = X + 2 * T
    BY Distributes
  <2> HIDE DEF X, Z
  <2>3. X + T + T <= Z
    BY <1>1, <2>1, <2>2
  <2> QED
    BY <1>1, <1>3, <2>3
<1> QED
  BY <1>2, <1>3

LEMMA PassEnds ==
  IInv /\ [Next]_vars =>
    (at # None /\ at' = None =>
       \A t \in used' : prevSysTick' - since'[t] < (period'[t] + 1) * TicksPerMs)
<1> SUFFICES ASSUME IInv, [Next]_vars, at # None, at' = None,
                    NEW t \in used'
             PROVE  prevSysTick' - since'[t] < (period'[t] + 1) * TicksPerMs
  OBVIOUS
<1> DEFINE p == Place(list, at)
<1>0. /\ TypeOK /\ Shape(list) /\ Elements(list) = used /\ used \subseteq Timer
      /\ at \in used /\ at \in Timer
  BY ShapeOfList DEF IInv, TypeOK
<1>b. ASSUME Behind(t)' PROVE prevSysTick' - since'[t] < (period'[t] + 1) * TicksPerMs
  <2>1. /\ TicksPerMs \in Nat \ {0} /\ t \in Timer
        /\ period'[t] \in Nat /\ timeout'[t] \in Nat /\ since'[t] \in Nat
        /\ prevSysTick' \in Nat /\ remSysTick' \in 0 .. TicksPerMs - 1
    BY TypeStep, TimerAssumption DEF TypeOK
  <2>2. \/ since'[t] = prevSysTick'
        \/ prevSysTick' - since'[t] <= remSysTick'
        \/ /\ timeout'[t] > 0 /\ timeout'[t] <= period'[t]
           /\ prevSysTick' - since'[t] - remSysTick'
                <= (period'[t] - timeout'[t]) * TicksPerMs + TicksPerMs - 1
    BY <1>b, CountsStep DEF CountsDown, Counted, Fresh, Behind
  <2> QED
    BY <2>1, <2>2, NotLate
<1>p. /\ p \in 1 .. Len(list) /\ list[p] = at /\ Len(list) \in Nat
      /\ \A i \in 1 .. Len(list) : i < p => Behind(list[i])
  BY <1>0, HasPlace DEF Shape, IInv, Visited
\* Behind the last timer of the list are all the others.
<1>l. ASSUME Succ(at) = None, NEW x \in used, x # at PROVE Behind(x)
  <2>1. p = Len(list)
    BY <1>0, <1>l, AtNext
  <2>2. PICK i \in 1 .. Len(list) : x = list[i]
    BY <1>0 DEF Elements
  <2> QED
    BY <1>l, <1>p, <2>1, <2>2
<1>1. CASE UNCHANGED vars
  BY <1>1 DEF vars, pass
<1>2. CASE Advance
  BY <1>2 DEF Advance, pass
<1>3. ASSUME NEW ms \in Waits, ev_timer_taskPost(ms) PROVE FALSE
  BY <1>3 DEF ev_timer_taskPost, pass
<1>4. CASE Exhausted
  BY <1>4 DEF Exhausted
<1>5. ASSUME NEW d \in Timer, ev_timer_taskCancel(d) PROVE FALSE
  BY <1>5 DEF ev_timer_taskCancel, pass
<1>6. ASSUME NEW det \in BOOLEAN, ev_timer_process(det) PROVE FALSE
  BY <1>6 DEF ev_timer_process
<1>7. CASE Waiting
  <2>1. /\ t \in used /\ Succ(at) = None /\ timeout[at] > 0
        /\ UNCHANGED <<timeout, isRunning, since, prevSysTick>>
    BY <1>7 DEF Waiting, pool, clock
  <2>2. Behind(t)
    BY <1>l, <2>1 DEF Behind
  <2> QED
    BY <1>b, <2>1, <2>2 DEF Behind
<1>8. CASE Expired
  BY <1>8 DEF Expired
<1>9. CASE Ends
  <2>1. /\ ev_unon_timer(at) /\ Continue /\ UNCHANGED <<timeout, since, prevSysTick>>
    BY <1>9 DEF Ends, clock
  <2>2. t \in used /\ t # at /\ t \in Timer
    BY <1>0, <2>1 DEF ev_unon_timer
  <2>3. CASE HeadOf(list') # prevHead
    <3>1. Shape(list') /\ HeadOf(list') = None /\ Elements(list') = used'
      BY <1>0, <2>1, <2>3, TakenOut DEF Continue, ev_unon_timer, Shape
    <3> QED
      BY <3>1, AtHead
  <2>4. CASE HeadOf(list') = prevHead
    <3>1. Behind(t)
      BY <1>l, <2>1, <2>2, <2>4 DEF Continue
    <3>2. isRunning'[t] = isRunning[t]
      BY <1>0, <2>1, <2>2 DEF ev_unon_timer, TypeOK
    <3> QED
      BY <1>b, <2>1, <3>1, <3>2 DEF Behind
  <2> QED
    BY <2>3, <2>4
<1>10. ASSUME NEW ms \in Waits, Repeats(ms)
       PROVE  prevSysTick' - since'[t] < (period'[t] + 1) * TicksPerMs
  <2>1. /\ Continue /\ t \in used /\ t \in Timer /\ list' = list
        /\ timeout' = [timeout EXCEPT ![at] = ms]
        /\ since' = [since EXCEPT ![at] = IF isRunning[at] THEN prevSysTick ELSE @]
        /\ UNCHANGED <<isRunning, prevSysTick>>
    BY <1>0, <1>10 DEF Repeats, clock
  <2>2. Succ(at) = None
    <3>1. HeadOf(list) # None
      BY <1>0, AtHead
    <3> QED
      BY <2>1, <3>1 DEF Continue
  <2>3. Behind(t)'
    <3>1. CASE t = at
      BY <1>0, <2>1, <3>1 DEF Behind, TypeOK
    <3>2. CASE t # at
      <4>1. Behind(t)
        BY <1>l, <2>1, <2>2, <3>2
      <4> QED
        BY <1>0, <2>1, <3>2, <4>1 DEF Behind, TypeOK
    <3> QED
      BY <3>1, <3>2
  <2> QED
    BY <1>b, <2>3
<1> QED
  BY <1>1, <1>2, <1>3, <1>4, <1>5, <1>6, <1>7, <1>8, <1>9, <1>10 DEF Next

\* When a pass ends, no timer is left that expired more than a millisecond ago,
\* whatever the callbacks armed and cancelled.
THEOREM PassForgetsNone == Spec => OnTime
<1>1. IInv /\ [Next]_vars =>
        [at # None /\ at' = None =>
           \A t \in used' : prevSysTick' - since'[t] < (period'[t] + 1) * TicksPerMs]_vars
  BY PassEnds
<1> QED
  BY Invariance, <1>1, PTL DEF Spec, OnTime

-----------------------------------------------------------------------------
(* The refinement *)

LEMMA StartsOff == Init => Promise!Init
BY DEF Init, Promise!Init, armed

\* How the armed timers change with the pool and the pass.
LEMMA ArmedIs ==
  /\ armed = [t \in Timer |->
       IF t \in used
       THEN [since |-> since[t], ms |-> period[t], firing |-> isBusy /\ t = at]
       ELSE None]
  /\ armed' = [t \in Timer |->
       IF t \in used'
       THEN [since |-> since'[t], ms |-> period'[t], firing |-> isBusy' /\ t = at']
       ELSE None]
BY DEF armed

LEMMA ArmedSame ==
  ASSUME UNCHANGED <<used, since, period>>,
         \A t \in Timer : (isBusy' /\ t = at') = (isBusy /\ t = at)
  PROVE  armed' = armed
BY ArmedIs

\* A timer expires at most a millisecond early.
LEMMA NotEarly ==
  ASSUME IInv, NEW t \in used, timeout[t] = 0
  PROVE  (period[t] - 1) * TicksPerMs < now - since[t]
<1> DEFINE T == TicksPerMs
           X == (period[t] - 1) * T
           Y == period[t] * T
<1>1. /\ T \in Nat \ {0} /\ prevSysTick \in Nat /\ since[t] \in Nat /\ now \in Nat
      /\ period[t] \in Nat /\ remSysTick \in 0 .. T - 1 /\ prevSysTick <= now
      /\ since[t] <= now
  BY TimerAssumption DEF IInv, TypeOK, ClockSeen, CountsDown
<1>2. X = Y - T /\ Y \in Int
  <2> HIDE DEF T
  <2>1. (period[t] - 1) * T = period[t] * T - 1 * T /\ period[t] * T \in Int
    BY <1>1, Distributes, Grows
  <2> QED
    BY <1>1, <2>1
<1>3. CASE isRunning[t]
  <2>1. (period[t] - 0) * T + remSysTick <= prevSysTick - since[t] + T - 1
    BY <1>3 DEF IInv, CountsDown, Counted
  <2>2. period[t] - 0 = period[t]
    BY <1>1
  <2>3. Y + remSysTick <= prevSysTick - since[t] + T - 1
    BY <2>1, <2>2
  <2> HIDE DEF T, X, Y
  <2>4. X < now - since[t]
    BY <1>1, <1>2, <2>3
  <2> QED
    BY <2>4 DEF X, T
<1>4. CASE ~isRunning[t]
  <2>1. period[t] = 0
    BY <1>4 DEF IInv, CountsDown, Fresh
  <2>2. Y = 0
    BY <1>1, <2>1
  <2> HIDE DEF T, X, Y
  <2>3. X < now - since[t]
    BY <1>1, <1>2, <2>2
  <2> QED
    BY <2>3 DEF X, T
<1> QED
  BY <1>3, <1>4

\* A timer in the pool is not off.
LEMMA ArmedInPool ==
  ASSUME IInv, NEW t \in used
  PROVE  /\ t \in Timer
         /\ armed[t] = [since |-> since[t], ms |-> period[t], firing |-> isBusy /\ t = at]
         /\ armed[t] # None
         /\ armed[t].since = since[t] /\ armed[t].ms = period[t]
         /\ armed[t].firing = (isBusy /\ t = at)
<1>1. t \in Timer /\ since[t] \in Nat /\ period[t] \in Nat /\ isBusy \in BOOLEAN
  BY DEF IInv, TypeOK
<1>2. armed[t] = [since |-> since[t], ms |-> period[t], firing |-> isBusy /\ t = at]
  BY <1>1, ArmedIs
<1>3. (isBusy /\ t = at) \in BOOLEAN
  OBVIOUS
<1>4. armed[t] \in [since : Nat, ms : Nat, firing : BOOLEAN]
  BY <1>1, <1>2, <1>3
<1>5. armed[t].firing = (isBusy /\ t = at)
  <2> DEFINE b == isBusy /\ t = at
  <2>1. armed[t] = [since |-> since[t], ms |-> period[t], firing |-> b]
    BY <1>2
  <2> HIDE DEF b
  <2>2. armed[t].firing = b
    BY <2>1
  <2> QED
    BY <2>2 DEF b
<1>6. armed[t].since = since[t] /\ armed[t].ms = period[t]
  BY <1>2
<1> QED
  BY <1>1, <1>2, <1>4, <1>5, <1>6, TimerAssumption

LEMMA StepsAsPromised == IInv /\ [Next]_vars => [Promise!Next]_(Promise!vars)
<1> SUFFICES ASSUME IInv, [Next]_vars
             PROVE  Promise!Next \/ UNCHANGED <<now, armed>>
  BY DEF Promise!vars
<1> USE TimerAssumption
<1>0. /\ TypeOK /\ ClockSeen /\ used \subseteq Timer /\ (at # None => at \in used)
      /\ (isBusy => at # None)
  BY ShapeOfList DEF IInv, TypeOK, Passes
<1>1. CASE UNCHANGED vars
  BY <1>1, ArmedSame DEF vars, pool, pass
<1>2. CASE Advance
  <2>1. armed' = armed
    BY <1>2, ArmedSame DEF Advance, pool, pass
  <2>2. now' \in Nat /\ now' >= now
    BY <1>0, <1>2 DEF TypeOK, Advance
  <2> QED
    BY <2>1, <2>2 DEF Promise!Next, Promise!Pass
<1>3. ASSUME NEW ms \in Waits, ev_timer_taskPost(ms) PROVE Promise!Next
  <2>1. PICK f \in Timer :
          /\ f \notin used /\ used' = used \cup {f}
          /\ period' = [period EXCEPT ![f] = ms]
          /\ since' = [since EXCEPT ![f] = now]
          /\ UNCHANGED <<now, at, isBusy>>
    BY <1>3, Posted
  <2>2. armed[f] = None /\ ~(isBusy /\ f = at)
    BY <1>0, <2>1, ArmedIs
  <2>3. ASSUME NEW t \in Timer
        PROVE  armed'[t] = IF t = f THEN Promise!Armed(now, ms) ELSE armed[t]
    <3>1. CASE t = f
      <4>1. since'[f] = now /\ period'[f] = ms /\ f \in used'
        BY <1>0, <2>1 DEF TypeOK
      <4>2. (isBusy' /\ f = at') = FALSE
        BY <2>1, <2>2
      <4> QED
        BY <2>1, <3>1, <4>1, <4>2, ArmedIs DEF Promise!Armed
    <3>2. CASE t # f
      <4>1. since'[t] = since[t] /\ period'[t] = period[t] /\ (t \in used' <=> t \in used)
        BY <1>0, <2>1, <3>2 DEF TypeOK
      <4>2. (isBusy' /\ t = at') = (isBusy /\ t = at)
        BY <2>1
      <4> QED
        BY <3>2, <4>1, <4>2, ArmedIs
    <3> QED
      BY <3>1, <3>2
  <2>4. armed' = [armed EXCEPT ![f] = Promise!Armed(now, ms)]
    <3> HIDE DEF Promise!Armed
    <3>1. armed' = [t \in Timer |-> armed'[t]] /\ armed = [t \in Timer |-> armed[t]]
      BY DEF armed
    <3> QED
      BY <2>3, <3>1
  <2> QED
    BY <2>1, <2>2, <2>4 DEF Promise!Next, Promise!Arm
<1>4. CASE Exhausted
  <2>1. now' = 0 /\ used' = {}
    BY <1>4 DEF Exhausted
  <2>2. armed' = [t \in Timer |-> None]
    BY <2>1, ArmedIs
  <2> QED
    BY <2>1, <2>2 DEF Promise!Next, Promise!Restart
\* A timer is given back.
<1>d. ASSUME NEW d \in used, ev_unon_timer(d), UNCHANGED <<since, period>>,
             \A t \in Timer : t # d => (isBusy' /\ t = at') = (isBusy /\ t = at)
      PROVE  armed' = [armed EXCEPT ![d] = None]
  <2>1. used' = used \ {d}
    BY <1>d DEF ev_unon_timer
  <2>2. ASSUME NEW t \in Timer
        PROVE  armed'[t] = IF t = d THEN None ELSE armed[t]
    BY <1>d, <2>1, ArmedIs
  <2>3. armed' = [t \in Timer |-> armed'[t]] /\ armed = [t \in Timer |-> armed[t]]
    BY DEF armed
  <2> QED
    BY <2>2, <2>3
<1>5. ASSUME NEW d \in Timer, ev_timer_taskCancel(d) PROVE Promise!Next
  <2>1. /\ d \in used /\ ev_unon_timer(d) /\ ~(isBusy /\ d = at)
        /\ UNCHANGED <<now, since, period, at, isBusy>>
    BY <1>5 DEF ev_timer_taskCancel, MayCancel, pass
  <2>2. armed' = [armed EXCEPT ![d] = None]
    BY <2>1, <1>d
  <2>3. armed[d] # None /\ ~armed[d].firing
    BY <2>1, ArmedInPool
  <2> QED
    BY <2>1, <2>2, <2>3 DEF Promise!Next, Promise!Cancel
<1>6. ASSUME NEW det \in BOOLEAN, ev_timer_process(det) PROVE UNCHANGED <<now, armed>>
  <2>1. ~isBusy /\ UNCHANGED <<now, used, since, period, isBusy>>
    BY <1>0, <1>6 DEF ev_timer_process, pool
  <2> QED
    BY <2>1, ArmedSame
<1>7. CASE Waiting
  <2>1. ~isBusy /\ UNCHANGED <<now, used, since, period, isBusy>>
    BY <1>7 DEF Waiting, pool
  <2> QED
    BY <2>1, ArmedSame
<1>8. CASE Expired
  <2>1. /\ at \in used /\ ~isBusy /\ isBusy' /\ timeout[at] = 0
        /\ UNCHANGED <<now, used, since, period, at>>
    BY <1>0, <1>8 DEF Expired, pool
  <2>2. PICK a \in used : a = at /\ a \in Timer
    BY <1>0, <2>1
  <2>3. armed[a] # None /\ armed[a].firing = FALSE
        /\ armed[a].ms = period[a] /\ armed[a].since = since[a]
    BY <2>1, <2>2, ArmedInPool
  <2>4. (armed[a].ms - 1) * TicksPerMs < now - armed[a].since
    BY <2>1, <2>2, <2>3, NotEarly
  <2>5. armed' = [armed EXCEPT ![a] = Promise!Firing(@)]
    <3>1. ASSUME NEW t \in Timer
          PROVE  armed'[t] = IF t = a THEN Promise!Firing(armed[a]) ELSE armed[t]
      <4>1. CASE t = a
        <5>1. (isBusy' /\ a = at') = TRUE /\ (isBusy /\ a = at) = FALSE
          BY <2>1, <2>2
        <5>2. /\ armed[a] = [since |-> since[a], ms |-> period[a], firing |-> FALSE]
              /\ armed'[a] = [since |-> since[a], ms |-> period[a], firing |-> TRUE]
          BY <2>1, <2>2, <5>1, ArmedIs
        <5> QED
          BY <2>3, <4>1, <5>2 DEF Promise!Firing
      <4>2. CASE t # a
        <5>1. (isBusy' /\ t = at') = FALSE /\ (isBusy /\ t = at) = FALSE
          BY <2>1, <2>2, <4>2
        <5> QED
          BY <2>1, <4>2, <5>1, ArmedIs
      <4> QED
        BY <4>1, <4>2
    <3>2. armed' = [t \in Timer |-> armed'[t]] /\ armed = [t \in Timer |-> armed[t]]
      BY DEF armed
    <3> QED
      BY <3>1, <3>2
  <2> QED
    BY <2>1, <2>2, <2>3, <2>4, <2>5 DEF Promise!Next, Promise!Fire
<1>9. CASE Ends
  <2>1. /\ at \in used /\ isBusy /\ ev_unon_timer(at) /\ ~isBusy'
        /\ UNCHANGED <<now, since, period>>
    BY <1>0, <1>9 DEF Ends
  <2>2. PICK a \in used : a = at /\ a \in Timer
    BY <1>0, <2>1
  <2>3. armed' = [armed EXCEPT ![a] = None]
    <3>1. \A t \in Timer : t # a => (isBusy' /\ t = at') = (isBusy /\ t = at)
      BY <2>1, <2>2
    <3> QED
      BY <2>1, <2>2, <3>1, <1>d
  <2>4. armed[a] # None /\ armed[a].firing
    BY <2>1, <2>2, ArmedInPool
  <2> QED
    BY <2>1, <2>2, <2>3, <2>4 DEF Promise!Next, Promise!Done
<1>10. ASSUME NEW ms \in Waits, Repeats(ms) PROVE Promise!Next
  <2>1. /\ at \in used /\ isBusy /\ ~isBusy' /\ used' = used
        /\ period' = [period EXCEPT ![at] = ms]
        /\ since' = [since EXCEPT ![at] = IF isRunning[at] THEN prevSysTick ELSE @]
        /\ ms \in {period[at]} \cup (Waits \ {0}) /\ UNCHANGED now
    BY <1>0, <1>10 DEF Repeats
  <2>2. PICK a \in used : a = at /\ a \in Timer
    BY <1>0, <2>1
  <2>3. armed[a] # None /\ armed[a].firing /\ armed[a].since = since[a]
    BY <2>1, <2>2, ArmedInPool
  <2>4. /\ since'[a] \in since[a] .. now /\ period'[a] = ms
    <3>1. /\ since[a] \in Nat /\ now \in Nat /\ prevSysTick \in Nat
          /\ since[a] <= now /\ prevSysTick <= now
          /\ isRunning[a] => since[a] <= prevSysTick
      BY <1>0, <2>2 DEF TypeOK, ClockSeen, IInv, CountsDown, Counted
    <3>2. since'[a] = (IF isRunning[a] THEN prevSysTick ELSE since[a]) /\ period'[a] = ms
      BY <1>0, <2>1, <2>2 DEF TypeOK
    <3> QED
      BY <3>1, <3>2
  <2>5. armed' = [armed EXCEPT ![a] = Promise!Armed(since'[a], ms)]
    <3>1. ASSUME NEW t \in Timer
          PROVE  armed'[t] = IF t = a THEN Promise!Armed(since'[a], ms) ELSE armed[t]
      <4>1. CASE t = a
        <5>1. (isBusy' /\ a = at') = FALSE
          BY <2>1
        <5> QED
          BY <2>1, <2>2, <2>4, <4>1, <5>1, ArmedIs DEF Promise!Armed
      <4>2. CASE t # a
        <5>1. (isBusy' /\ t = at') = (isBusy /\ t = at)
          BY <2>1, <2>2, <4>2
        <5>2. since'[t] = since[t] /\ period'[t] = period[t]
          BY <1>0, <2>1, <2>2, <4>2 DEF TypeOK
        <5> QED
          BY <2>1, <4>2, <5>1, <5>2, ArmedIs
      <4> QED
        BY <4>1, <4>2
    <3>2. armed' = [t \in Timer |-> armed'[t]] /\ armed = [t \in Timer |-> armed[t]]
      BY DEF armed
    <3> QED
      BY <3>1, <3>2
  <2>6. \E when \in armed[a].since .. now, w \in Waits :
          armed' = [armed EXCEPT ![a] = Promise!Armed(when, w)]
    BY <2>3, <2>4, <2>5
  <2> QED
    BY <2>1, <2>2, <2>3, <2>6 DEF Promise!Next, Promise!Done
<1> QED
  BY <1>1, <1>2, <1>3, <1>4, <1>5, <1>6, <1>7, <1>8, <1>9, <1>10 DEF Next

\* The timers of ev_timer.c keep the promise of Timers: at most a millisecond
\* early, never after a cancel, and no cancel of a callback that is running.
THEOREM TimersAsPromised == Spec => ImplementsTimers
<1>1. Init => Promise!Init
  BY StartsOff
<1>2. IInv /\ [Next]_vars => [Promise!Next]_(Promise!vars)
  BY StepsAsPromised
<1> QED
  BY Invariance, <1>1, <1>2, PTL DEF Spec, ImplementsTimers, Promise!Spec
=============================================================================
