--------------------------- MODULE ReportingProofs ---------------------------
(***************************************************************************)
(* Proofs about Reporting, for every table, every interval and every       *)
(* order of rounds, changes and configurations: the safety properties of   *)
(* the entries with a minimum interval.                                    *)
(*                                                                         *)
(* They rest on what the counters remember.  A counter of maxInterval that *)
(* is 0 stands for a report that is owed; as long as an entry is silent    *)
(* its counter and the time of silence add up to the interval, at most (so *)
(* that no entry is silent too long) and at least (so that two reports are *)
(* far enough from each other).                                            *)
(***************************************************************************)
EXTENDS ReportReset, WellFoundedInduction, TLAPS

\* A value taken for reported and not sent is owed.
Owed == \A e \in Entries : prevData[e] # heard[e] => maxIntCnt[e] = 0

\* The time an entry is silent was counted ...
CountedDown ==
  \A e \in Entries :
    Active(e) /\ minInterval[e] # 0 =>
      /\ quiet[e] + maxIntCnt[e] <= maxInterval[e]
      /\ maxIntCnt[e] = 0 => quiet[e] = 0

\* ... and nothing else was.
InTime(e) ==
  \/ exempt[e]
  \/ quiet[e] = Ample
  \/ /\ quiet[e] + minIntCnt[e] >= minInterval[e]
     /\ quiet[e] + maxIntCnt[e] >= maxInterval[e]

NotFaster == \A e \in Entries : InTime(e)

\* The inductive invariant.
IInv == TypeOK /\ Owed /\ CountedDown /\ NotFaster /\ KeepsDistance

-----------------------------------------------------------------------------
(* The helpers *)

\* The smaller of two numbers is one of them and not above either.
LEMMA LeastOf ==
  ASSUME NEW a \in Nat, NEW b \in Nat
  PROVE  /\ Least(a, b) \in Nat
         /\ Least(a, b) <= a /\ Least(a, b) <= b
         /\ Least(a, b) = a \/ Least(a, b) = b
BY DEF Least

\* A counter goes down by dt and stops at 0 (app_chk_report).
LEMMA DownTo ==
  ASSUME NEW c \in Nat, NEW dt \in Nat
  PROVE  /\ Down(c, dt) \in Nat
         /\ Down(c, dt) <= c /\ Down(c, dt) + dt >= c
         /\ Down(c, dt) # 0 => Down(c, dt) + dt = c
         /\ Down(c, dt) = 0 => c <= dt
BY DEF Down

\* What the type invariant says of one entry.
LEMMA Typed ==
  ASSUME TypeOK, NEW e \in Entries
  PROVE  /\ minInterval[e] \in Nat /\ maxInterval[e] \in Nat
         /\ minIntCnt[e] \in Nat /\ minIntCnt[e] <= minInterval[e]
         /\ maxIntCnt[e] \in Nat /\ maxIntCnt[e] <= maxInterval[e]
         /\ quiet[e] \in Nat /\ quiet[e] <= Ample
         /\ gap[e] \in Nat /\ gap[e] <= Ample
         /\ attr[e] \in Values /\ prevData[e] \in Values /\ heard[e] \in Values
         /\ exempt[e] \in BOOLEAN
BY ConstantsAssumption DEF TypeOK

\* The counters of an entry in a round.
LEMMA Left ==
  ASSUME TypeOK, NEW e \in Entries, NEW dt \in Nat
  PROVE  /\ MinLeft(e, dt) \in Nat /\ MaxLeft(e, dt) \in Nat
         /\ MinLeft(e, dt) <= minIntCnt[e] /\ MaxLeft(e, dt) <= maxIntCnt[e]
         /\ MinLeft(e, dt) + dt >= minIntCnt[e]
         /\ MaxLeft(e, dt) + dt >= maxIntCnt[e]
         /\ minInterval[e] # 0 /\ MaxLeft(e, dt) # 0
              => MaxLeft(e, dt) + dt = maxIntCnt[e]
<1>1. minIntCnt[e] \in Nat /\ maxIntCnt[e] \in Nat
  BY Typed
<1>2. CASE minInterval[e] = 0
  BY <1>1, <1>2 DEF MinLeft, MaxLeft
<1>3. CASE minInterval[e] # 0
  BY <1>1, <1>3, DownTo DEF MinLeft, MaxLeft
<1>4. QED
  BY <1>2, <1>3

-----------------------------------------------------------------------------
(* A round, seen from one entry *)

\* The two cases of an entry in a round: it is not due and its counters go on,
\* or it is due, tried, and sent or owed.
Waits(e, dt) ==
  /\ ~Due(e, dt)
  /\ minIntCnt'[e] = IF Active(e) THEN MinLeft(e, dt) ELSE minIntCnt[e]
  /\ maxIntCnt'[e] = IF Active(e) THEN MaxLeft(e, dt) ELSE maxIntCnt[e]
  /\ prevData'[e] = prevData[e] /\ heard'[e] = heard[e]
  /\ quiet'[e] = Least(quiet[e] + dt, Ample)
  /\ gap'[e] = gap[e] /\ exempt'[e] = exempt[e]

Tried(e, dt, sent) ==
  /\ Due(e, dt)
  /\ minIntCnt'[e] = minInterval[e]
  /\ maxIntCnt'[e] = IF sent THEN maxInterval[e] ELSE 0
  /\ prevData'[e] \in {prevData[e], attr[e]}
  /\ heard'[e] = IF sent THEN attr[e] ELSE heard[e]
  /\ sent => prevData'[e] = attr[e]
  /\ quiet'[e] = 0
  /\ gap'[e] = IF exempt[e] THEN Ample ELSE Least(quiet[e] + dt, Ample)
  /\ exempt'[e] = ~sent

\* Every entry of the table is in one of the two cases after app_chk_report.
LEMMA RoundOfEntry ==
  ASSUME TypeOK, NEW dt \in Steps, NEW fail \in Entries \cup {NoFailure},
         app_chk_report(dt, fail), NEW e \in Entries
  PROVE  /\ dt \in Nat
         /\ Waits(e, dt) \/ \E sent \in BOOLEAN : Tried(e, dt, sent)
<1>1. dt \in Nat
  BY ConstantsAssumption
<1>2. e \in Nat /\ fail \in Nat
  BY ConstantsAssumption
<1>3. CASE ~Due(e, dt)
  <2>1. Waits(e, dt)
    BY <1>2, <1>3 DEF app_chk_report, Waits
  <2>2. QED
    BY <1>1, <2>1
<1>4. CASE Due(e, dt)
  <2>1. CASE e < fail
    <3>1. Tried(e, dt, TRUE)
      BY <1>2, <1>4, <2>1 DEF app_chk_report, Tried, MaxAfterTry
    <3>2. QED
      BY <1>1, <3>1
  <2>2. CASE ~(e < fail)
    <3>1. Tried(e, dt, FALSE)
      BY <1>2, <1>4, <2>2 DEF app_chk_report, Tried, MaxAfterTry
    <3>2. QED
      BY <1>1, <3>1
  <2>3. QED
    BY <2>1, <2>2
<1>5. QED
  BY <1>3, <1>4

-----------------------------------------------------------------------------
(* Types *)

\* The initial table keeps the types.
LEMMA InitTypes == Init => TypeOK
<1> SUFFICES ASSUME Init PROVE TypeOK
  OBVIOUS
<1>1. ASSUME NEW e \in Entries
      PROVE  Defaults[e][1] \in Nat /\ Defaults[e][2] \in Nat
  <2>1. Defaults[e] \in Nat \X Nat
    BY ConstantsAssumption
  <2>2. QED
    BY <2>1
<1>2. QED
  BY <1>1, ConstantsAssumption DEF Init, TypeOK

\* A round keeps the types (app_chk_report).
LEMMA RoundTypes ==
  ASSUME TypeOK, NEW dt \in Steps, NEW fail \in Entries \cup {NoFailure},
         app_chk_report(dt, fail)
  PROVE  TypeOK'
<1>1. minInterval' = minInterval /\ maxInterval' = maxInterval /\ attr' = attr
      /\ count' = count
  BY DEF app_chk_report, config
<1>2. ASSUME NEW e \in Entries
      PROVE  /\ minIntCnt'[e] \in 0 .. minInterval[e]
             /\ maxIntCnt'[e] \in 0 .. maxInterval[e]
             /\ prevData'[e] \in Values /\ heard'[e] \in Values
             /\ quiet'[e] \in 0 .. Ample /\ gap'[e] \in 0 .. Ample
             /\ exempt'[e] \in BOOLEAN
  <2>1. dt \in Nat /\ Ample \in Nat
    BY ConstantsAssumption
  <2>2. Least(quiet[e] + dt, Ample) \in 0 .. Ample
    BY <2>1, Typed, LeastOf
  <2>3. CASE Waits(e, dt)
    <3>1. /\ MinLeft(e, dt) \in 0 .. minInterval[e]
          /\ MaxLeft(e, dt) \in 0 .. maxInterval[e]
      BY <2>1, Typed, Left
    <3>2. QED
      BY <2>2, <2>3, <3>1, Typed DEF Waits
  <2>4. CASE \E sent \in BOOLEAN : Tried(e, dt, sent)
    BY <2>1, <2>2, <2>4, Typed DEF Tried
  <2>5. QED
    BY <2>3, <2>4, RoundOfEntry
<1>3. /\ prevData' = [e \in Entries |-> prevData'[e]]
      /\ heard' = [e \in Entries |-> heard'[e]]
      /\ quiet' = [e \in Entries |-> quiet'[e]]
      /\ gap' = [e \in Entries |-> gap'[e]]
      /\ exempt' = [e \in Entries |-> exempt'[e]]
  BY DEF app_chk_report
<1>4. QED
  BY <1>1, <1>2, <1>3 DEF TypeOK

\* A configuration, seen from one entry: those of the cluster are to be reported
\* at once, the others are as they were (app_zclCfgReportCmd).
Restarts(d) ==
  /\ minIntCnt'[d] = 0 /\ maxIntCnt'[d] = 0
  /\ quiet'[d] = 0 /\ gap'[d] = Ample /\ exempt'[d] = TRUE
  /\ minInterval'[d] \in Nat /\ maxInterval'[d] \in Nat

Keeps(d) ==
  /\ minIntCnt'[d] = minIntCnt[d] /\ maxIntCnt'[d] = maxIntCnt[d]
  /\ quiet'[d] = quiet[d] /\ gap'[d] = gap[d] /\ exempt'[d] = exempt[d]
  /\ minInterval'[d] = minInterval[d] /\ maxInterval'[d] = maxInterval[d]

LEMMA Configured ==
  ASSUME TypeOK, NEW e \in Entries, NEW i \in Intervals,
         app_zclCfgReportCmd(e, i), NEW d \in Entries
  PROVE  Restarts(d) \/ Keeps(d)
<1>1. i[1] \in Nat /\ i[2] \in Nat
  <2>1. i \in Nat \X Nat
    BY ConstantsAssumption
  <2>2. QED
    BY <2>1
<1>2. CASE Cluster[d] = Cluster[e]
  BY <1>1, <1>2, Typed DEF app_zclCfgReportCmd, Restarts, TypeOK
<1>3. CASE Cluster[d] # Cluster[e]
  <2>1. d # e
    BY <1>3
  <2>2. exempt[d] \in BOOLEAN
    BY Typed
  <2>3. QED
    BY <1>3, <2>1, <2>2 DEF app_zclCfgReportCmd, Keeps, TypeOK
<1>4. QED
  BY <1>2, <1>3

\* A configuration keeps the types.
LEMMA ConfigTypes ==
  ASSUME TypeOK, NEW e \in Entries, NEW i \in Intervals, app_zclCfgReportCmd(e, i)
  PROVE  TypeOK'
<1>1. ASSUME NEW d \in Entries
      PROVE  /\ minInterval'[d] \in Nat /\ maxInterval'[d] \in Nat
             /\ minIntCnt'[d] \in 0 .. minInterval'[d]
             /\ maxIntCnt'[d] \in 0 .. maxInterval'[d]
             /\ quiet'[d] \in 0 .. Ample /\ gap'[d] \in 0 .. Ample
             /\ exempt'[d] \in BOOLEAN
  <2>1. Ample \in Nat
    BY ConstantsAssumption
  <2>2. CASE Restarts(d)
    <3>1. exempt'[d] \in BOOLEAN
      BY <2>2, Zenon DEF Restarts
    <3>2. QED
      BY <2>1, <2>2, <3>1 DEF Restarts
  <2>3. CASE Keeps(d)
    BY <2>1, <2>3, Typed DEF Keeps
  <2>4. QED
    BY <2>2, <2>3, Configured
<1>2. /\ minInterval' = [d \in Entries |-> minInterval'[d]]
      /\ maxInterval' = [d \in Entries |-> maxInterval'[d]]
      /\ quiet' = [d \in Entries |-> quiet'[d]]
      /\ gap' = [d \in Entries |-> gap'[d]]
      /\ exempt' = [d \in Entries |-> exempt'[d]]
  BY DEF app_zclCfgReportCmd, TypeOK
<1>3. prevData' = prevData /\ attr' = attr /\ heard' = heard
  BY DEF app_zclCfgReportCmd
<1>4. count' \in [changes : 0 .. MaxChanges, configs : 0 .. MaxConfigs]
  BY ConstantsAssumption DEF app_zclCfgReportCmd, Counted, TypeOK
<1>5. QED
  BY <1>1, <1>2, <1>3, <1>4 DEF TypeOK

\* A write of an attribute keeps the types.
LEMMA WriteTypes ==
  ASSUME TypeOK, NEW e \in Entries, NEW v \in Values, Write(e, v)
  PROVE  TypeOK'
<1>1. count' \in [changes : 0 .. MaxChanges, configs : 0 .. MaxConfigs]
  BY ConstantsAssumption DEF Write, Counted, TypeOK
<1>2. QED
  BY <1>1 DEF Write, TypeOK, config, table

-----------------------------------------------------------------------------
(* Intervals *)

\* An entry whose silence was not counted faster than it passed stays so: its
\* counters go down with it, or start again (app_chk_report).
LEMMA RoundInTime ==
  ASSUME TypeOK, NEW dt \in Steps, NEW fail \in Entries \cup {NoFailure},
         app_chk_report(dt, fail), NEW e \in Entries,
         InTime(e) \/ Due(e, dt)
  PROVE  InTime(e)'
<1>1. minInterval' = minInterval /\ maxInterval' = maxInterval
  BY DEF app_chk_report, config
<1>2. dt \in Nat /\ Ample \in Nat
  BY ConstantsAssumption
<1>3. CASE Waits(e, dt)
  <2>1. InTime(e)
    BY <1>3 DEF Waits
  <2>2. CASE exempt[e]
    <3>1. exempt'[e]
      BY <1>3, <2>2, Zenon DEF Waits
    <3>2. QED
      BY <3>1, Zenon DEF InTime
  <2>3. CASE ~exempt[e]
    <3>1. \/ quiet[e] = Ample
          \/ /\ quiet[e] + minIntCnt[e] >= minInterval[e]
             /\ quiet[e] + maxIntCnt[e] >= maxInterval[e]
      BY <2>1, <2>3 DEF InTime
    <3>2. quiet'[e] = quiet[e] + dt \/ quiet'[e] = Ample
      BY <1>2, <1>3, Typed DEF Waits, Least
    <3>3. CASE quiet'[e] = Ample
      BY <3>3 DEF InTime
    <3>4. CASE quiet[e] = Ample
      <4>1. quiet'[e] = Ample
        BY <1>2, <1>3, <3>4 DEF Waits, Least
      <4>2. QED
        BY <4>1 DEF InTime
    <3>5. CASE quiet[e] # Ample /\ quiet'[e] = quiet[e] + dt
      <4>1. minIntCnt'[e] + dt >= minIntCnt[e] /\ minIntCnt'[e] \in Nat
        BY <1>2, <1>3, Typed, Left DEF Waits
      <4>2. maxIntCnt'[e] + dt >= maxIntCnt[e] /\ maxIntCnt'[e] \in Nat
        BY <1>2, <1>3, Typed, Left DEF Waits
      <4>3. /\ quiet'[e] + minIntCnt'[e] >= minInterval[e]
            /\ quiet'[e] + maxIntCnt'[e] >= maxInterval[e]
        BY <1>2, <3>1, <3>5, <4>1, <4>2, Typed
      <4>4. QED
        BY <1>1, <4>3 DEF InTime
    <3>6. QED
      BY <3>2, <3>3, <3>4, <3>5
  <2>4. QED
    BY <2>2, <2>3
<1>4. ASSUME NEW sent \in BOOLEAN, Tried(e, dt, sent)
      PROVE  InTime(e)'
  <2>1. CASE sent
    BY <1>1, <1>4, <2>1, Typed DEF Tried, InTime
  <2>2. CASE ~sent
    <3>1. exempt'[e]
      BY <1>4, <2>2, Zenon DEF Tried
    <3>2. QED
      BY <3>1, Zenon DEF InTime
  <2>3. QED
    BY <2>1, <2>2
<1>5. QED
  BY <1>3, <1>4, RoundOfEntry

\* ... and when it is tried, its minInterval is over.
LEMMA TriedInTime ==
  ASSUME TypeOK, NEW dt \in Steps, NEW e \in Entries, NEW sent \in BOOLEAN,
         Tried(e, dt, sent), InTime(e), minInterval[e] <= maxInterval[e]
  PROVE  gap'[e] >= Least(minInterval[e], Ample)
<1>1. dt \in Nat /\ Ample \in Nat
  BY ConstantsAssumption
<1>2. CASE exempt[e]
  <2>1. gap'[e] = Ample
    BY <1>2 DEF Tried
  <2>2. QED
    BY <1>1, <2>1, Typed DEF Least
<1>3. CASE ~exempt[e]
  <2>1. gap'[e] = Least(quiet[e] + dt, Ample) /\ Due(e, dt)
    BY <1>3 DEF Tried
  <2>2. CASE minInterval[e] = 0
    BY <1>1, <2>1, <2>2, Typed DEF Least
  <2>3. CASE quiet[e] = Ample
    BY <1>1, <2>1, <2>3, Typed DEF Least
  <2>4. CASE /\ minInterval[e] # 0
             /\ quiet[e] + minIntCnt[e] >= minInterval[e]
             /\ quiet[e] + maxIntCnt[e] >= maxInterval[e]
    <3>1. MaxLeft(e, dt) = 0 \/ MinLeft(e, dt) = 0
      BY <2>1, <2>4 DEF Due, Forced, Checked
    <3>2. minIntCnt[e] <= dt \/ maxIntCnt[e] <= dt
      BY <1>1, <3>1, Typed, Left
    <3>3. quiet[e] + dt >= minInterval[e]
      BY <1>1, <2>4, <3>2, Typed
    <3>4. QED
      BY <1>1, <2>1, <3>3, Typed DEF Least
  <2>5. QED
    BY <1>3, <2>2, <2>3, <2>4 DEF InTime
<1>4. QED
  BY <1>2, <1>3

\* A configuration sets the intervals of its cluster to 0 and exempts the next try.
LEMMA ConfigInTime ==
  ASSUME TypeOK, NEW e \in Entries, NEW i \in Intervals,
         app_zclCfgReportCmd(e, i), NEW d \in Entries, InTime(d)
  PROVE  InTime(d)'
<1>1. CASE Restarts(d)
  <2>1. exempt'[d]
    BY <1>1, Zenon DEF Restarts
  <2>2. QED
    BY <2>1, Zenon DEF InTime
<1>2. CASE Keeps(d)
  BY <1>2 DEF Keeps, InTime
<1>3. QED
  BY <1>1, <1>2, Configured

-----------------------------------------------------------------------------
(* What is owed, and the time of silence *)

\* A round owes what it could not send (app_chk_report, "repeat after").
LEMMA RoundOwed ==
  ASSUME TypeOK, Owed, NEW dt \in Steps, NEW fail \in Entries \cup {NoFailure},
         app_chk_report(dt, fail)
  PROVE  Owed'
<1>1. ASSUME NEW e \in Entries
      PROVE  prevData'[e] # heard'[e] => maxIntCnt'[e] = 0
  <2>1. CASE Waits(e, dt)
    BY <2>1, Typed, Left, ConstantsAssumption DEF Waits, Owed
  <2>2. CASE \E sent \in BOOLEAN : Tried(e, dt, sent)
    BY <2>2 DEF Tried
  <2>3. QED
    BY <2>1, <2>2, RoundOfEntry
<1>2. QED
  BY <1>1 DEF Owed

\* An entry that waits has seconds of maxInterval left.
LEMMA RoundCounted ==
  ASSUME TypeOK, NEW dt \in Steps, NEW fail \in Entries \cup {NoFailure},
         app_chk_report(dt, fail), NEW e \in Entries, Active(e), minInterval[e] # 0,
         quiet[e] + maxIntCnt[e] <= maxInterval[e]
  PROVE  /\ quiet'[e] + maxIntCnt'[e] <= maxInterval[e]
         /\ maxIntCnt'[e] = 0 => quiet'[e] = 0
<1>1. dt \in Nat /\ Ample \in Nat
  BY ConstantsAssumption
<1>2. CASE Waits(e, dt)
  <2>1. MaxLeft(e, dt) # 0
    BY <1>2 DEF Waits, Due, Forced
  <2>2. Least(quiet[e] + dt, Ample) <= quiet[e] + dt
    BY <1>1, Typed DEF Least
  <2>3. Least(quiet[e] + dt, Ample) \in Nat
    BY <1>1, Typed DEF Least
  <2>4. maxIntCnt'[e] = MaxLeft(e, dt) /\ quiet'[e] = Least(quiet[e] + dt, Ample)
    BY <1>2 DEF Waits
  <2>5. /\ quiet[e] \in Nat /\ maxIntCnt[e] \in Nat /\ maxInterval[e] \in Nat
        /\ MaxLeft(e, dt) \in Nat
    BY <1>1, Typed, Left
  <2>6. MaxLeft(e, dt) + dt <= maxIntCnt[e]
    BY <1>1, <2>1, <2>5, Left
  <2>7. QED
    BY <1>1, <2>1, <2>2, <2>3, <2>4, <2>5, <2>6
<1>3. CASE \E sent \in BOOLEAN : Tried(e, dt, sent)
  BY <1>3, Typed DEF Tried
<1>4. QED
  BY <1>2, <1>3, RoundOfEntry

\* A configuration owes its cluster a report.
LEMMA ConfigOwed ==
  ASSUME TypeOK, Owed, NEW e \in Entries, NEW i \in Intervals,
         app_zclCfgReportCmd(e, i)
  PROVE  Owed'
<1>1. prevData' = prevData /\ heard' = heard
  BY DEF app_zclCfgReportCmd
<1>2. ASSUME NEW d \in Entries, prevData[d] # heard[d]
      PROVE  maxIntCnt'[d] = 0
  BY <1>2, Configured DEF Owed, Restarts, Keeps
<1>3. QED
  BY <1>1, <1>2 DEF Owed

\* What is owed is due at the next round.
LEMMA OwedRepeats == TypeOK /\ Owed => RepeatsIfLimited
<1> SUFFICES ASSUME Owed, NEW e \in Entries, minInterval[e] # 0, Active(e),
                    prevData[e] # heard[e], NEW dt \in Steps
             PROVE  Due(e, dt)
  BY DEF RepeatsIfLimited, RepeatsAfter
<1>1. maxIntCnt[e] = 0 /\ dt \in Nat
  BY ConstantsAssumption DEF Owed
<1>2. MaxLeft(e, dt) = 0
  BY <1>1 DEF MaxLeft, Down
<1>3. QED
  BY <1>2 DEF Due, Forced

-----------------------------------------------------------------------------
(* Steps *)

\* A round keeps what is owed, what is counted and the distances: for the
\* entries that wait, the counters go down as the silence goes on; for those
\* that are tried, the due time was reached (app_chk_report).
LEMMA RoundStep ==
  ASSUME IInv, NEW dt \in Steps, NEW fail \in Entries \cup {NoFailure},
         app_chk_report(dt, fail)
  PROVE  Owed' /\ CountedDown' /\ NotFaster' /\ KeepsDistance'
<1> USE DEF IInv
<1>1. minInterval' = minInterval /\ maxInterval' = maxInterval
  BY DEF app_chk_report, config
<1>2. dt \in Nat /\ Ample \in Nat
  BY ConstantsAssumption
<1>3. Owed'
  BY RoundOwed
<1>4. ASSUME NEW e \in Entries, Active(e), minInterval[e] # 0
      PROVE  /\ quiet'[e] + maxIntCnt'[e] <= maxInterval[e]
             /\ maxIntCnt'[e] = 0 => quiet'[e] = 0
  BY <1>4, RoundCounted DEF CountedDown
<1>5. ASSUME NEW e \in Entries
      PROVE  InTime(e)'
  BY RoundInTime DEF NotFaster
<1>6. ASSUME NEW e \in Entries, minInterval[e] <= maxInterval[e]
      PROVE  gap'[e] >= Least(minInterval[e], Ample)
  <2>1. gap[e] >= Least(minInterval[e], Ample)
    BY <1>6 DEF KeepsDistance
  <2>2. CASE Waits(e, dt)
    BY <2>1, <2>2 DEF Waits
  <2>3. CASE \E sent \in BOOLEAN : Tried(e, dt, sent)
    <3>1. Due(e, dt)
      BY <2>3 DEF Tried
    <3>2. QED
      BY <1>6, <2>3, <3>1, TriedInTime DEF NotFaster
  <2>4. QED
    BY <2>2, <2>3, RoundOfEntry
<1>7. QED
  BY <1>1, <1>3, <1>4, <1>5, <1>6
     DEF CountedDown, NotFaster, KeepsDistance, Active

\* A configuration keeps them: its cluster starts anew, owed at once.
LEMMA ConfigStep ==
  ASSUME IInv, NEW e \in Entries, NEW i \in Intervals, app_zclCfgReportCmd(e, i)
  PROVE  Owed' /\ CountedDown' /\ NotFaster' /\ KeepsDistance'
<1> USE DEF IInv
<1>2. Ample \in Nat
  BY ConstantsAssumption
<1>3. Owed'
  BY ConfigOwed
<1>4. CountedDown'
  <2>1. ASSUME NEW d \in Entries, maxInterval'[d] # NoMax, minInterval'[d] # 0
        PROVE  /\ quiet'[d] + maxIntCnt'[d] <= maxInterval'[d]
               /\ maxIntCnt'[d] = 0 => quiet'[d] = 0
    <3>1. CASE Restarts(d)
      BY <3>1 DEF Restarts
    <3>2. CASE Keeps(d)
      <4>1. maxInterval[d] # NoMax /\ minInterval[d] # 0
        BY <2>1, <3>2 DEF Keeps
      <4>2. QED
        BY <3>2, <4>1 DEF Keeps, CountedDown, Active
    <3>3. QED
      BY <3>1, <3>2, Configured
  <2>2. QED
    BY <2>1 DEF CountedDown, Active
<1>5. NotFaster'
  BY ConfigInTime DEF NotFaster
<1>6. KeepsDistance'
  <2>1. ASSUME NEW d \in Entries, minInterval'[d] <= maxInterval'[d]
        PROVE  gap'[d] >= Least(minInterval'[d], Ample)
    <3>1. CASE Restarts(d)
      BY <1>2, <3>1 DEF Restarts, Least
    <3>2. CASE Keeps(d)
      BY <2>1, <3>2 DEF Keeps, KeepsDistance
    <3>3. QED
      BY <3>1, <3>2, Configured
  <2>2. QED
    BY <2>1 DEF KeepsDistance
<1>7. QED
  BY <1>3, <1>4, <1>5, <1>6

-----------------------------------------------------------------------------
(* Theorems *)

LEMMA InitHolds == Init => IInv
<1> SUFFICES ASSUME Init PROVE IInv
  OBVIOUS
<1>1. TypeOK
  BY InitTypes
<1>2. Ample \in Nat
  BY ConstantsAssumption
<1>3. Owed
  BY DEF Init, Owed
<1>4. CountedDown
  BY <1>1, Typed DEF Init, CountedDown, Active
<1>5. NotFaster
  <2>1. ASSUME NEW e \in Entries
        PROVE  /\ quiet[e] + minIntCnt[e] >= minInterval[e]
               /\ quiet[e] + maxIntCnt[e] >= maxInterval[e]
    BY <1>1, Typed DEF Init
  <2>2. QED
    BY <2>1 DEF NotFaster, InTime
<1>6. KeepsDistance
  BY <1>1, <1>2, Typed DEF Init, KeepsDistance, Least
<1>7. QED
  BY <1>1, <1>3, <1>4, <1>5, <1>6 DEF IInv

\* The invariant is inductive: no round, change of an attribute or
\* configuration breaks it.
THEOREM Invariance == Spec => []IInv
<1>1. IInv /\ [Next]_vars => IInv'
  <2> SUFFICES ASSUME IInv, [Next]_vars PROVE IInv'
    OBVIOUS
  <2> USE DEF IInv
  <2>1. ASSUME NEW dt \in Steps, NEW fail \in Entries \cup {NoFailure},
               app_chk_report(dt, fail)
        PROVE  IInv'
    BY <2>1, RoundTypes, RoundStep
  <2>2. ASSUME NEW e \in Entries, NEW v \in Values, Write(e, v)
        PROVE  IInv'
    <3>1. TypeOK'
      BY <2>2, WriteTypes
    <3>2. QED
      BY <2>2, <3>1
         DEF Write, config, table, Owed, CountedDown, NotFaster, InTime, KeepsDistance,
             Active
  <2>3. ASSUME NEW e \in Entries, NEW i \in Intervals, app_zclCfgReportCmd(e, i)
        PROVE  IInv'
    BY <2>3, ConfigTypes, ConfigStep
  <2>4. CASE UNCHANGED vars
    BY <2>4 DEF vars, config, table, TypeOK, Owed, CountedDown, NotFaster,
                InTime, KeepsDistance, Active
  <2>5. QED
    BY <2>1, <2>2, <2>3, <2>4 DEF Next
<1>2. QED
  BY <1>1, InitHolds, PTL DEF Spec

\* The counters of every entry stay within its configured intervals.
THEOREM TypeCorrect == Spec => []TypeOK
<1>1. IInv => TypeOK
  BY DEF IInv
<1>2. QED
  BY <1>1, Invariance, PTL

\* A report of an entry with a minimum interval that found no buffer is due at
\* every next round until it is sent (app_chk_report, "repeat after").
THEOREM OwedIsRepeated == Spec => []RepeatsIfLimited
<1>1. IInv => RepeatsIfLimited
  BY OwedRepeats DEF IInv
<1>2. QED
  BY <1>1, Invariance, PTL

\* An entry with a minimum interval is tried before its maxInterval is over.
THEOREM LimitedIsHeard == Spec => []NeverSilentIfLimited
<1>1. IInv => NeverSilentIfLimited
  <2> SUFFICES ASSUME IInv, NEW e \in Entries, minInterval[e] # 0, Active(e)
               PROVE  quiet[e] = 0 \/ quiet[e] < maxInterval[e]
    BY DEF NeverSilentIfLimited, SilentAtMost
  <2>1. TypeOK
    BY DEF IInv
  <2>2. /\ quiet[e] + maxIntCnt[e] <= maxInterval[e]
        /\ maxIntCnt[e] = 0 => quiet[e] = 0
    BY DEF IInv, CountedDown
  <2>3. QED
    BY <2>1, <2>2, Typed
<1>2. QED
  BY <1>1, Invariance, PTL

\* Two reports of an entry are at least minInterval apart.
THEOREM DistanceKept == Spec => []KeepsDistance
<1>1. IInv => KeepsDistance
  BY DEF IInv
<1>2. QED
  BY <1>1, Invariance, PTL

-----------------------------------------------------------------------------
(* The table with the timer of the SDK (ReportReset) *)

\* The callback takes its seconds from the counters: they reach 0 sooner than
\* the silence lasts, never later.
KeptUp ==
  \A e \in Entries :
    Active(e) /\ minInterval[e] # 0 =>
      /\ quiet[e] + maxIntCnt[e] <= maxInterval[e]
      /\ quiet[e] = 0 \/ quiet[e] < maxInterval[e]

\* What a reset can cost an entry: the timer it started, then the seconds that
\* were taken too early, then a report before minInterval was over.
Budget ==
  \A e \in Entries :
    early[e] + (IF InTime(e) THEN 0 ELSE 1) + (IF timer = 0 THEN 0 ELSE 1) <= resets

\* The counters are those of the entries of the table, and numbers.
Counters == minIntCnt \in [Entries -> Nat] /\ maxIntCnt \in [Entries -> Nat]

\* The inductive invariant of both reporters.
ResetInv ==
  /\ TypeOK /\ Counters
  /\ timer \in Nat /\ early \in [Entries -> Nat] /\ resets \in Nat
  /\ Owed /\ KeptUp /\ Budget

\* A set of numbers has a least one.
LEMMA LeastIn ==
  ASSUME NEW S \in SUBSET Nat, S # {}
  PROVE  Min(S) \in S
<1>1. IsWellFoundedOn(OpToRel(<, Nat), Nat)
  BY NatLessThanWellFounded
<1>2. PICK x \in S : \A y \in S : ~(<<y, x>> \in OpToRel(<, Nat))
  BY <1>1, WFMin
<1>3. \A y \in S : ~(y < x)
  BY <1>2 DEF OpToRel
<1>4. \A y \in S : x <= y
  BY <1>3
<1>5. QED
  BY <1>4 DEF Min

\* The timer is started with a number of seconds (reportAttrTimerStart).
LEMMA TimerStarts ==
  ASSUME NEW min \in [Entries -> Nat], NEW max \in [Entries -> Nat]
  PROVE  reportAttrTimerStart(min, max) \in Nat
<1> DEFINE running == UNION {{min[e], max[e]} :
                               e \in {d \in Entries : maxInterval'[d] # NoMax}} \ {0}
<1>1. running \subseteq Nat
  OBVIOUS
<1>2. running # {} => Min(running) \in Nat
  <2> HIDE DEF running
  <2>1. QED
    BY <1>1, LeastIn
<1>3. QED
  BY <1>2 DEF reportAttrTimerStart

\* The types of the entries are those of the table.
LEMMA CountersTyped ==
  ASSUME TypeOK', minIntCnt' = [e \in Entries |-> minIntCnt'[e]],
         maxIntCnt' = [e \in Entries |-> maxIntCnt'[e]]
  PROVE  Counters'
<1>1. ASSUME NEW e \in Entries
      PROVE  minIntCnt'[e] \in Nat /\ maxIntCnt'[e] \in Nat
  <2>1. minInterval'[e] \in Nat /\ maxInterval'[e] \in Nat
    BY DEF TypeOK
  <2>2. minIntCnt'[e] \in 0 .. minInterval'[e] /\ maxIntCnt'[e] \in 0 .. maxInterval'[e]
    BY DEF TypeOK
  <2>3. QED
    BY <2>1, <2>2
<1>2. QED
  BY <1>1 DEF Counters

LEMMA InitReset_Holds == InitReset => ResetInv
<1> SUFFICES ASSUME InitReset PROVE ResetInv
  OBVIOUS
<1>1. IInv
  BY InitHolds DEF InitReset
<1>2. KeptUp
  <2>1. ASSUME NEW e \in Entries
        PROVE  quiet[e] = 0 /\ quiet[e] + maxIntCnt[e] <= maxInterval[e]
    BY <1>1, Typed DEF IInv, InitReset, Init
  <2>2. QED
    BY <2>1 DEF KeptUp
<1>3. Budget
  <2>1. \A e \in Entries : InTime(e) /\ early[e] = 0
    BY <1>1 DEF IInv, NotFaster, InitReset
  <2>2. timer = 0 /\ resets = 0
    BY DEF InitReset
  <2>3. ASSUME NEW e \in Entries
        PROVE  early[e] + (IF InTime(e) THEN 0 ELSE 1) + (IF timer = 0 THEN 0 ELSE 1)
                 <= resets
    <3>1. (IF InTime(e) THEN 0 ELSE 1) = 0
      BY <2>1, Zenon
    <3>2. (IF timer = 0 THEN 0 ELSE 1) = 0
      BY <2>2, Zenon
    <3>3. early[e] = 0
      BY <2>1, Zenon
    <3>4. QED
      BY <2>2, <3>1, <3>2, <3>3
  <2>4. QED
    BY <2>3 DEF Budget
<1>4. Counters
  <2>1. ASSUME NEW e \in Entries
        PROVE  Defaults[e][1] \in Nat /\ Defaults[e][2] \in Nat
    <3>1. Defaults[e] \in Nat \X Nat
      BY ConstantsAssumption
    <3>2. QED
      BY <3>1
  <2>2. QED
    BY <2>1 DEF Counters, InitReset, Init
<1>5. QED
  BY <1>1, <1>2, <1>3, <1>4 DEF ResetInv, IInv, InitReset

\* An entry that is tried although its silence was counted too fast uses up the
\* reset that caused it: its counters start again (Round).
LEMMA RoundKeeps ==
  ASSUME ResetInv, NEW dt \in Steps, NEW fail \in Entries \cup {NoFailure},
         Round(dt, fail)
  PROVE  ResetInv'
<1> USE DEF ResetInv
<1>1. app_chk_report(dt, fail)
  BY DEF Round
<1>2. minInterval' = minInterval /\ maxInterval' = maxInterval
  BY <1>1 DEF app_chk_report, config
<1>3. timer' = timer /\ resets' = resets
  BY DEF Round
<1>4. TypeOK'
  BY <1>1, RoundTypes
<1>5. ASSUME NEW e \in Entries
      PROVE  early'[e] = IF Due(e, dt) /\ TooEarly(e) THEN early[e] + 1 ELSE early[e]
  BY DEF Round
<1>6. early' \in [Entries -> Nat]
  <2>1. ASSUME NEW e \in Entries PROVE early'[e] \in Nat
    BY <1>5
  <2>2. early' = [e \in Entries |-> early'[e]]
    BY DEF Round
  <2>3. QED
    BY <2>1, <2>2
<1>7. Owed'
  BY <1>1, RoundOwed
<1>8. KeptUp'
  <2>1. ASSUME NEW e \in Entries, Active(e), minInterval[e] # 0
        PROVE  /\ quiet'[e] + maxIntCnt'[e] <= maxInterval[e]
               /\ quiet'[e] = 0 \/ quiet'[e] < maxInterval[e]
    <3>1. /\ quiet'[e] + maxIntCnt'[e] <= maxInterval[e]
          /\ maxIntCnt'[e] = 0 => quiet'[e] = 0
      BY <1>1, <2>1, RoundCounted DEF KeptUp
    <3>2. /\ quiet'[e] \in Nat /\ maxIntCnt'[e] \in Nat /\ maxInterval[e] \in Nat
      <4>1. TypeOK' => /\ quiet'[e] \in 0 .. Ample
                       /\ maxIntCnt'[e] \in 0 .. maxInterval'[e]
        BY DEF TypeOK
      <4>2. QED
        BY <1>2, <1>4, <4>1, Typed, ConstantsAssumption
    <3>3. QED
      BY <3>1, <3>2
  <2>2. QED
    BY <1>2, <2>1 DEF KeptUp, Active
<1>9. Budget'
  <2>1. ASSUME NEW e \in Entries
        PROVE  early'[e] + (IF InTime(e)' THEN 0 ELSE 1) + (IF timer = 0 THEN 0 ELSE 1)
                 <= resets
    <3>1. /\ early[e] + (IF InTime(e) THEN 0 ELSE 1) + (IF timer = 0 THEN 0 ELSE 1)
                <= resets
          /\ early[e] \in Nat
      BY DEF Budget
    <3>2. CASE ~Due(e, dt)
      <4>1. early'[e] = early[e]
        BY <1>5, <3>2
      <4>2. InTime(e) => InTime(e)'
        BY <1>1, RoundInTime
      <4>3. QED
        BY <3>1, <4>1, <4>2
    <3>3. CASE Due(e, dt)
      <4>1. InTime(e)'
        BY <1>1, <3>3, RoundInTime
      <4>2. InTime(e) => ~TooEarly(e)
        <5>1. PICK sent \in BOOLEAN : Tried(e, dt, sent)
          BY <1>1, <3>3, RoundOfEntry DEF Waits
        <5>2. HAVE InTime(e)
        <5>3. minInterval[e] <= maxInterval[e] => gap'[e] >= Least(minInterval[e], Ample)
          BY <5>1, <5>2, TriedInTime
        <5>4. gap'[e] \in Nat /\ Least(minInterval[e], Ample) \in Nat
          <6>1. TypeOK' => gap'[e] \in 0 .. Ample
            BY DEF TypeOK
          <6>2. Ample \in Nat /\ minInterval[e] \in Nat
            BY Typed, ConstantsAssumption
          <6>3. QED
            BY <1>4, <6>1, <6>2 DEF Least
        <5>5. QED
          BY <5>3, <5>4 DEF TooEarly
      <4>3. CASE InTime(e)
        <5>1. early'[e] = early[e]
          BY <1>5, <4>2, <4>3
        <5>2. QED
          BY <3>1, <4>1, <4>3, <5>1
      <4>4. CASE ~InTime(e)
        <5>1. early'[e] \in {early[e], early[e] + 1}
          BY <1>5
        <5>2. QED
          BY <3>1, <4>1, <4>4, <5>1
      <4>5. QED
        BY <4>3, <4>4
    <3>4. QED
      BY <3>2, <3>3
  <2>2. QED
    BY <1>3, <2>1 DEF Budget
<1>10. Counters'
  BY <1>1, <1>4, CountersTyped DEF app_chk_report
<1>11. QED
  BY <1>3, <1>4, <1>6, <1>7, <1>8, <1>9, <1>10

\* A configuration keeps what is owed and counted.
LEMMA ConfigKeeps ==
  ASSUME ResetInv, NEW e \in Entries, NEW i \in Intervals, app_zclCfgReportCmd(e, i)
  PROVE  TypeOK' /\ Counters' /\ Owed' /\ KeptUp' /\ \A d \in Entries : InTime(d) => InTime(d)'
<1> USE DEF ResetInv
<1>1. TypeOK'
  BY ConfigTypes
<1>2. Owed'
  BY ConfigOwed
<1>3. KeptUp'
  <2>1. ASSUME NEW d \in Entries, maxInterval'[d] # NoMax, minInterval'[d] # 0
        PROVE  /\ quiet'[d] + maxIntCnt'[d] <= maxInterval'[d]
               /\ quiet'[d] = 0 \/ quiet'[d] < maxInterval'[d]
    <3>1. CASE Restarts(d)
      BY <3>1 DEF Restarts
    <3>2. CASE Keeps(d)
      BY <2>1, <3>2 DEF Keeps, KeptUp, Active
    <3>3. QED
      BY <3>1, <3>2, Configured
  <2>2. QED
    BY <2>1 DEF KeptUp, Active
<1>4. \A d \in Entries : InTime(d) => InTime(d)'
  BY ConfigInTime
<1>5. Counters'
  BY <1>1, CountersTyped DEF app_zclCfgReportCmd
<1>6. QED
  BY <1>1, <1>2, <1>3, <1>4, <1>5

\* The reset of an entry pays for the timer it starts (zcl_reportCfgInfoEntryRst).
LEMMA ResetKeeps ==
  ASSUME ResetInv, NEW e \in Entries, NEW w, zcl_reportCfgInfoEntryRst(e, w)
  PROVE  ResetInv'
<1> USE DEF ResetInv
<1>1. Defaults[e] \in Intervals
  BY ConstantsAssumption
<1>2. app_zclCfgReportCmd(e, Defaults[e]) /\ resets' = resets + 1 /\ early' = early
  BY DEF zcl_reportCfgInfoEntryRst
<1>3. TypeOK' /\ Counters' /\ Owed' /\ KeptUp' /\ \A d \in Entries : InTime(d) => InTime(d)'
  BY <1>1, <1>2, ConfigKeeps
<1>4. timer' \in Nat
  <2> DEFINE min == [minIntCnt EXCEPT ![e] = Defaults[e][1]]
             max == [maxIntCnt EXCEPT ![e] = Defaults[e][2]]
  <2>1. minIntCnt \in [Entries -> Nat] /\ maxIntCnt \in [Entries -> Nat]
    BY DEF Counters
  <2>2. Defaults[e][1] \in Nat /\ Defaults[e][2] \in Nat
    <3>1. Defaults[e] \in Nat \X Nat
      BY <1>1, ConstantsAssumption
    <3>2. QED
      BY <3>1
  <2>3. min \in [Entries -> Nat] /\ max \in [Entries -> Nat]
    BY <2>1, <2>2
  <2>4. timer' = reportAttrTimerStart(min, max)
    BY DEF zcl_reportCfgInfoEntryRst
  <2> HIDE DEF min, max
  <2>5. QED
    BY <2>3, <2>4, TimerStarts
<1>5. Budget'
  <2>1. ASSUME NEW d \in Entries
        PROVE  early'[d] + (IF InTime(d)' THEN 0 ELSE 1) + (IF timer' = 0 THEN 0 ELSE 1)
                 <= resets'
    <3>1. /\ early[d] + (IF InTime(d) THEN 0 ELSE 1) + (IF timer = 0 THEN 0 ELSE 1)
                <= resets
          /\ early[d] \in Nat
      BY DEF Budget
    <3>2. InTime(d) => InTime(d)'
      BY <1>3
    <3>3. QED
      BY <1>2, <3>1, <3>2
  <2>2. QED
    BY <2>1 DEF Budget
<1>6. QED
  BY <1>2, <1>3, <1>4, <1>5

\* The callback spends the timer on the seconds it takes (reportAttrTimerCb).
LEMMA CallbackKeeps ==
  ASSUME ResetInv, reportAttrTimerCb
  PROVE  ResetInv'
<1> USE DEF ResetInv
<1>1. /\ minInterval' = minInterval /\ maxInterval' = maxInterval
      /\ prevData' = prevData /\ heard' = heard /\ quiet' = quiet /\ attr' = attr
      /\ gap' = gap /\ exempt' = exempt /\ count' = count
      /\ early' = early /\ resets' = resets /\ timer # 0 /\ timer' = 0
  BY DEF reportAttrTimerCb, config, AfterExpiry
<1>2. ASSUME NEW e \in Entries
      PROVE  /\ minIntCnt'[e] \in Nat /\ minIntCnt'[e] <= minIntCnt[e]
             /\ maxIntCnt'[e] \in Nat /\ maxIntCnt'[e] <= maxIntCnt[e]
  <2>1. minIntCnt[e] \in Nat /\ maxIntCnt[e] \in Nat
    BY Typed
  <2>2. /\ minIntCnt'[e] = IF Active(e) THEN Down(minIntCnt[e], timer) ELSE minIntCnt[e]
        /\ maxIntCnt'[e] = IF Active(e) THEN Down(maxIntCnt[e], timer) ELSE maxIntCnt[e]
    BY DEF reportAttrTimerCb
  <2>3. QED
    BY <2>1, <2>2, DownTo
<1>3. TypeOK'
  <2>1. ASSUME NEW e \in Entries
        PROVE  /\ minIntCnt'[e] \in 0 .. minInterval[e]
               /\ maxIntCnt'[e] \in 0 .. maxInterval[e]
    BY <1>2, Typed
  <2>2. QED
    BY <1>1, <2>1 DEF TypeOK
<1>4. Owed'
  <2>1. ASSUME NEW e \in Entries, prevData[e] # heard[e]
        PROVE  maxIntCnt'[e] = 0
    BY <1>2, <2>1 DEF Owed
  <2>2. QED
    BY <1>1, <2>1 DEF Owed
<1>5. KeptUp'
  <2>1. ASSUME NEW e \in Entries, Active(e), minInterval[e] # 0
        PROVE  quiet[e] + maxIntCnt'[e] <= maxInterval[e]
    BY <1>2, <2>1, Typed DEF KeptUp
  <2>2. QED
    BY <1>1, <2>1 DEF KeptUp, Active
<1>6. Budget'
  <2>1. ASSUME NEW e \in Entries
        PROVE  early[e] + (IF InTime(e)' THEN 0 ELSE 1) <= resets
    BY <1>1, <2>1 DEF Budget
  <2>2. QED
    BY <1>1, <2>1 DEF Budget
<1>7. Counters'
  BY <1>3, CountersTyped DEF reportAttrTimerCb
<1>8. QED
  BY <1>1, <1>3, <1>4, <1>5, <1>6, <1>7

\* No round, write, configuration or reset and no expiry of the SDK's timer
\* breaks the invariant.
THEOREM ResetInvariance == ResetSpec => []ResetInv
<1>1. ResetInv /\ [NextReset]_allvars => ResetInv'
  <2> SUFFICES ASSUME ResetInv, [NextReset]_allvars PROVE ResetInv'
    OBVIOUS
  <2>1. ASSUME NEW dt \in Steps, NEW fail \in Entries \cup {NoFailure}, Round(dt, fail)
        PROVE  ResetInv'
    BY <2>1, RoundKeeps
  <2>2. ASSUME NEW e \in Entries, NEW v \in Values,
               Write(e, v) /\ UNCHANGED <<sdk, early, resets>>
        PROVE  ResetInv'
    <3>1. TypeOK'
      BY <2>2, WriteTypes DEF ResetInv
    <3>2. QED
      BY <2>2, <3>1 DEF ResetInv, Write, config, table, sdk, Counters, Owed, KeptUp,
                        Budget, InTime, Active
  <2>3. ASSUME NEW e \in Entries, NEW i \in Intervals,
               app_zclCfgReportCmd(e, i) /\ UNCHANGED <<sdk, early, resets>>
        PROVE  ResetInv'
    <3>1. TypeOK' /\ Counters' /\ Owed' /\ KeptUp' /\ \A d \in Entries : InTime(d) => InTime(d)'
      BY <2>3, ConfigKeeps
    <3>2. Budget'
      BY <2>3, <3>1 DEF ResetInv, Budget, sdk
    <3>3. QED
      BY <2>3, <3>1, <3>2 DEF ResetInv, sdk
  <2>4. ASSUME NEW e \in Entries, NEW w \in 0 .. Max(Steps),
               zcl_reportCfgInfoEntryRst(e, w)
        PROVE  ResetInv'
    BY <2>4, ResetKeeps
  <2>5. ASSUME reportAttrTimerCb PROVE ResetInv'
    BY <2>5, CallbackKeeps
  <2>6. CASE UNCHANGED allvars
    BY <2>6 DEF allvars, vars, sdk, config, table, ResetInv, TypeOK, Counters, Owed,
                KeptUp, Budget, InTime, Active
  <2>7. QED
    BY <2>1, <2>2, <2>3, <2>4, <2>5, <2>6 DEF NextReset
<1>2. QED
  BY <1>1, InitReset_Holds, PTL DEF ResetSpec

\* However many rounds follow, a reset makes no more than one report of an
\* entry early: the seconds of the SDK's timer are taken once.
THEOREM EarlyAtMostOnce == ResetSpec => []EarlyOnce
<1>1. ResetInv => EarlyOnce
  <2> SUFFICES ASSUME ResetInv, NEW e \in Entries PROVE early[e] <= resets
    BY DEF EarlyOnce
  <2>1. early[e] \in Nat /\ resets \in Nat
    BY DEF ResetInv
  <2>2. early[e] + (IF InTime(e) THEN 0 ELSE 1) + (IF timer = 0 THEN 0 ELSE 1) <= resets
    BY DEF ResetInv, Budget
  <2>3. QED
    BY <2>1, <2>2
<1>2. QED
  BY <1>1, ResetInvariance, PTL

\* The timer of the SDK takes nothing from the repetition of a report that
\* found no buffer ...
THEOREM OwedIsRepeatedAfterReset == ResetSpec => []RepeatsIfLimited
<1>1. ResetInv => RepeatsIfLimited
  BY OwedRepeats DEF ResetInv
<1>2. QED
  BY <1>1, ResetInvariance, PTL

\* ... and makes no entry silent for longer than its maxInterval.
THEOREM LimitedIsHeardAfterReset == ResetSpec => []NeverSilentIfLimited
<1>1. ResetInv => NeverSilentIfLimited
  BY DEF ResetInv, KeptUp, NeverSilentIfLimited, SilentAtMost
<1>2. QED
  BY <1>1, ResetInvariance, PTL
=============================================================================
