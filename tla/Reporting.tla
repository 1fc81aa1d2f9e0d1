------------------------------ MODULE Reporting ------------------------------
(***************************************************************************)
(* The attribute reports of the bridge: app_chk_report of zb_reporting.c,  *)
(* called by app_zb_task once MIN_REPORT_INTERVAL seconds have passed, and *)
(* the configuration of the reporting table by a remote device.            *)
(*                                                                         *)
(* Every entry of the table names an attribute, is to be reported no more  *)
(* often than minInterval and no less often than maxInterval, and is bound *)
(* (zb_bindingTblSearched).  A send may find no buffer; a round sends      *)
(* nothing more after that.                                                *)
(*                                                                         *)
(* The attributes, the buffers and the remote device are external.         *)
(***************************************************************************)
EXTENDS Integers

CONSTANTS
  Entries,      \* reportingTab.reportCfgInfo, in the order of the table
  Analog,       \* entries with an analog attribute
  Cluster,      \* endpoint and cluster of each entry
  Values,       \* values of an attribute
  Change,       \* reportableChange of the analog entries
  Defaults,     \* <<minInterval, maxInterval>> of each entry after start
  Intervals,    \* pairs of intervals the SDK accepts
  Steps,        \* seconds between two rounds (uptime_sec)
  NoMax,        \* 0xffff as maxInterval: never report
  NoFailure,    \* no send of a round finds the buffers used up
  Ample,        \* bound: seconds counted between two reports
  MaxChanges,   \* bound: changes of attributes
  MaxConfigs    \* bound: configurations

ASSUME ConstantsAssumption ==
  /\ Entries \subseteq Nat /\ Analog \subseteq Entries
  /\ DOMAIN Cluster = Entries
  /\ Values \subseteq Int /\ Values # {} /\ Change \in Nat
  /\ Intervals \subseteq Nat \X Nat
  /\ \A i \in Intervals : i[2] = 0 \/ i[1] <= i[2]
  /\ Defaults \in [Entries -> Intervals]
  /\ Steps \subseteq Nat \ {0} /\ NoMax \in Nat /\ Ample \in Nat
  /\ NoFailure \in Nat /\ \A e \in Entries : e < NoFailure
  /\ MaxChanges \in Nat /\ MaxConfigs \in Nat

VARIABLES
  minInterval, maxInterval,  \* per entry: its configuration
  minIntCnt, maxIntCnt,      \* ... seconds left of the two intervals
  prevData,                  \* ... value of the attribute at the last report
  attr,                      \* ... value of the attribute
  heard,                     \* ... last value that was sent
  quiet,                     \* ... seconds since a report was last tried
  gap,                       \* ... seconds between the last two tries
  exempt,                    \* ... the next try need not keep minInterval
  count                      \* changes and configurations so far

config == <<minInterval, maxInterval>>
table == <<minIntCnt, maxIntCnt, prevData>>
vars == <<config, table, attr, heard, quiet, gap, exempt, count>>

Least(a, b) == IF a <= b THEN a ELSE b
Distance(a, b) == IF a >= b THEN a - b ELSE b - a

Counted(kind, max) ==
  /\ count[kind] < max
  /\ count' = [count EXCEPT ![kind] = @ + 1]

Init ==
  /\ minInterval = [e \in Entries |-> Defaults[e][1]]
  /\ maxInterval = [e \in Entries |-> Defaults[e][2]]
  /\ minIntCnt = minInterval
  /\ maxIntCnt = maxInterval
  /\ attr \in [Entries -> Values]
  /\ prevData \in [Entries -> Values]
  /\ heard = prevData
  /\ quiet = [e \in Entries |-> 0]
  /\ gap = [e \in Entries |-> Ample]
  /\ exempt = [e \in Entries |-> FALSE]
  /\ count = [changes |-> 0, configs |-> 0]

-----------------------------------------------------------------------------
(* A round of reports *)

Down(c, dt) == IF c > dt THEN c - dt ELSE 0

\* The counters of an entry with a minimum interval, dt seconds later; those
\* of an entry without one are not counted.
MinLeft(e, dt) == IF minInterval[e] = 0 THEN minIntCnt[e] ELSE Down(minIntCnt[e], dt)
MaxLeft(e, dt) == IF minInterval[e] = 0 THEN maxIntCnt[e] ELSE Down(maxIntCnt[e], dt)

Active(e) == maxInterval[e] # NoMax

\* Seeded fault: only a changed attribute is reported at the end of maxInterval.
Forced_Never(e, dt) == FALSE

\* maxInterval is over: report whatever the value.
Forced(e, dt) == Active(e) /\ minInterval[e] # 0 /\ MaxLeft(e, dt) = 0

\* The value is compared with the last one reported.
Checked(e, dt) ==
  /\ Active(e)
  /\ minInterval[e] = 0 \/ (MaxLeft(e, dt) # 0 /\ MinLeft(e, dt) = 0)

\* reportableChangeValueChk, or a comparison of the bytes.
Changed(e) ==
  /\ attr[e] # prevData[e]
  /\ e \in Analog => Distance(attr[e], prevData[e]) >= Change

Due(e, dt) == Forced(e, dt) \/ (Checked(e, dt) /\ Changed(e))

\* Seeded fault: an entry that could not be sent waits for maxInterval again.
MaxAfterTry_Restarted(e, sent) == maxInterval[e]

\* maxIntCnt of an entry that was due; 0 to repeat at the next round.
MaxAfterTry(e, sent) == IF sent THEN maxInterval[e] ELSE 0

\* app_chk_report: the entries that are due are sent in the order of the
\* table, up to the first one that finds no buffer, fail.  What a discrete
\* attribute is compared with is updated before the send.
app_chk_report(dt, fail) ==
  LET due == {e \in Entries : Due(e, dt)}
      sent == {e \in due : e < fail}
      tried == {e \in due : e <= fail}
      noted == tried \cup {e \in due \ Analog : Checked(e, dt)}
  IN /\ fail \in due \cup {NoFailure}
     /\ minIntCnt' = [e \in Entries |->
                       IF e \in due THEN minInterval[e]
                       ELSE IF Active(e) THEN MinLeft(e, dt) ELSE minIntCnt[e]]
     /\ maxIntCnt' = [e \in Entries |->
                       IF e \in due THEN MaxAfterTry(e, e \in sent)
                       ELSE IF Active(e) THEN MaxLeft(e, dt) ELSE maxIntCnt[e]]
     /\ prevData' = [e \in Entries |-> IF e \in noted THEN attr[e] ELSE prevData[e]]
     /\ heard' = [e \in Entries |-> IF e \in sent THEN attr[e] ELSE heard[e]]
     /\ quiet' = [e \in Entries |->
                   IF e \in due THEN 0 ELSE Least(quiet[e] + dt, Ample)]
     /\ gap' = [e \in Entries |->
                 IF e \notin due THEN gap[e]
                 ELSE IF exempt[e] THEN Ample ELSE Least(quiet[e] + dt, Ample)]
     /\ exempt' = [e \in Entries |-> IF e \in due THEN e \notin sent ELSE exempt[e]]
     /\ UNCHANGED <<config, attr, count>>

-----------------------------------------------------------------------------
(* Attributes and configuration *)

\* The device writes an attribute.
Write(e, v) ==
  /\ v # attr[e]
  /\ Counted("changes", MaxChanges)
  /\ attr' = [attr EXCEPT ![e] = v]
  /\ UNCHANGED <<config, table, heard, quiet, gap, exempt>>

\* A Configure Reporting command: the SDK stores the intervals, and the whole
\* cluster is reported at the next round.
app_zclCfgReportCmd(e, i) ==
  LET cluster == {d \in Entries : Cluster[d] = Cluster[e]}
  IN /\ Counted("configs", MaxConfigs)
     /\ minInterval' = [minInterval EXCEPT ![e] = i[1]]
     /\ maxInterval' = [maxInterval EXCEPT ![e] = i[2]]
     /\ minIntCnt' = [d \in Entries |-> IF d \in cluster THEN 0 ELSE minIntCnt[d]]
     /\ maxIntCnt' = [d \in Entries |-> IF d \in cluster THEN 0 ELSE maxIntCnt[d]]
     /\ quiet' = [d \in Entries |-> IF d \in cluster THEN 0 ELSE quiet[d]]
     /\ gap' = [d \in Entries |-> IF d \in cluster THEN Ample ELSE gap[d]]
     /\ exempt' = [d \in Entries |-> exempt[d] \/ d \in cluster]
     /\ UNCHANGED <<prevData, attr, heard>>

Next ==
  \/ \E dt \in Steps, fail \in Entries \cup {NoFailure} : app_chk_report(dt, fail)
  \/ \E e \in Entries, v \in Values : Write(e, v)
  \/ \E e \in Entries, i \in Intervals : app_zclCfgReportCmd(e, i)

Spec == Init /\ [][Next]_vars

\* Rounds go on as long as the device is in a network, and time and again a
\* round finds buffers enough.
Fairness ==
  SF_vars(\E dt \in Steps : app_chk_report(dt, NoFailure))

FairSpec == Spec /\ Fairness

-----------------------------------------------------------------------------
(* Properties *)

\* The counters stay within the configured intervals.
TypeOK ==
  /\ minInterval \in [Entries -> Nat] /\ maxInterval \in [Entries -> Nat]
  /\ \A e \in Entries : /\ minIntCnt[e] \in 0 .. minInterval[e]
                         /\ maxIntCnt[e] \in 0 .. maxInterval[e]
  /\ prevData \in [Entries -> Values] /\ attr \in [Entries -> Values]
  /\ heard \in [Entries -> Values]
  /\ quiet \in [Entries -> 0 .. Ample] /\ gap \in [Entries -> 0 .. Ample]
  /\ exempt \in [Entries -> BOOLEAN]
  /\ count \in [changes : 0 .. MaxChanges, configs : 0 .. MaxConfigs]

\* A value that was taken for reported and was not sent, since the round ran
\* out of buffers, is due again at the next round ("repeat after").
RepeatsAfter(e) ==
  Active(e) /\ prevData[e] # heard[e] => \A dt \in Steps : Due(e, dt)

Repeats == \A e \in Entries : RepeatsAfter(e)

\* ... of an entry with a minimum interval.
RepeatsIfLimited == \A e \in Entries : minInterval[e] # 0 => RepeatsAfter(e)

SilentAtMost(e) == Active(e) => quiet[e] = 0 \/ quiet[e] < maxInterval[e]

\* No entry with a minimum interval is silent for longer than its maxInterval.
NeverSilentIfLimited == \A e \in Entries : minInterval[e] # 0 => SilentAtMost(e)

\* Two reports of an entry are at least minInterval apart, but for the repeat
\* of one that was not sent and the report after a configuration.
KeepsDistance ==
  \A e \in Entries :
    minInterval[e] <= maxInterval[e] => gap[e] >= Least(minInterval[e], Ample)

\* A remote device hears every value in the end, if it stays.
HearsInTheEnd ==
  \A e \in Entries :
    []<>(heard[e] = attr[e] \/ minInterval[e] = 0 \/ ~Active(e))
=============================================================================
