----------------------------- MODULE ReportReset -----------------------------
(***************************************************************************)
(* The two reporters of the reporting table: app_chk_report of the bridge, *)
(* as in Reporting, and the report timer of the SDK (zcl_reporting.c).     *)
(*                                                                         *)
(* The bridge never calls report_handler, which would start that timer     *)
(* again and again.  A remote device that resets an entry to its default   *)
(* configuration starts it once: it expires when the first interval of     *)
(* any entry is over, and takes its seconds from the counters of all       *)
(* entries, from which app_chk_report takes them too.                      *)
(***************************************************************************)
EXTENDS Reporting, FiniteSets, FiniteSetsExt

CONSTANT MaxResets   \* bound: resets of an entry

\* A reset sets the reportable change to 0.
ASSUME ResetAssumption == MaxResets \in Nat /\ Change = 0 /\ NoMax > 0

VARIABLES
  timer,    \* seconds reportAttrTimerEvt was started with; 0: not scheduled
  expires,  \* ... seconds from the last round to its expiry
  since,    \* seconds that have passed since the last round, at least
  early,    \* per entry: reports before its minInterval was over
  resets    \* resets so far

sdk == <<timer, expires, since>>
allvars == <<vars, sdk, early, resets>>

InitReset ==
  /\ Init
  /\ timer = 0 /\ expires = 0 /\ since = 0
  /\ early = [e \in Entries |-> 0]
  /\ resets = 0

-----------------------------------------------------------------------------
\* reportAttrTimerStart: the seconds of the timer, the least of the intervals
\* that run; 0 if none does, and the timer is not started.
reportAttrTimerStart(min, max) ==
  LET running == UNION {{min[e], max[e]} : e \in {d \in Entries : maxInterval'[d] # NoMax}}
                   \ {0}
  IN IF running = {} THEN 0 ELSE Min(running)

\* zcl_reportCfgInfoEntryRst, from a Configure Reporting command with the
\* intervals 0xffff and 0, w seconds after the last round; then
\* app_zclCfgReportCmd as for every configuration.
zcl_reportCfgInfoEntryRst(e, w) ==
  LET min == [minIntCnt EXCEPT ![e] = Defaults[e][1]]
      max == [maxIntCnt EXCEPT ![e] = Defaults[e][2]]
  IN /\ resets < MaxResets
     /\ w >= since /\ (timer # 0 => w <= expires)
     /\ resets' = resets + 1
     /\ app_zclCfgReportCmd(e, Defaults[e])
     /\ timer' = reportAttrTimerStart(min, max)
     /\ expires' = IF timer' = 0 THEN 0 ELSE w + timer'
     /\ since' = w
     /\ UNCHANGED early

\* Seeded fault: the callback returns 0 and runs again.
AfterExpiry_Again == timer' = timer /\ expires' = expires + timer

\* The callback returns -1.
AfterExpiry == timer' = 0 /\ expires' = 0

\* reportAttrTimerCb, before the next round.
reportAttrTimerCb ==
  /\ timer # 0 /\ \E dt \in Steps : expires <= dt
  /\ minIntCnt' = [e \in Entries |->
                     IF Active(e) THEN Down(minIntCnt[e], timer) ELSE minIntCnt[e]]
  /\ maxIntCnt' = [e \in Entries |->
                     IF Active(e) THEN Down(maxIntCnt[e], timer) ELSE maxIntCnt[e]]
  /\ since' = expires
  /\ AfterExpiry
  /\ UNCHANGED <<config, prevData, attr, heard, quiet, gap, exempt, count,
                 early, resets>>

TooEarly(e) == minInterval[e] <= maxInterval[e] /\ gap'[e] < Least(minInterval[e], Ample)

\* A round of the bridge, dt seconds after the last one.
Round(dt, fail) ==
  /\ dt >= since /\ (timer # 0 => dt <= expires)
  /\ app_chk_report(dt, fail)
  /\ expires' = IF timer = 0 THEN 0 ELSE expires - dt
  /\ since' = 0
  /\ early' = [e \in Entries |->
                 IF Due(e, dt) /\ TooEarly(e) THEN early[e] + 1 ELSE early[e]]
  /\ UNCHANGED <<timer, resets>>

NextReset ==
  \/ \E dt \in Steps, fail \in Entries \cup {NoFailure} : Round(dt, fail)
  \/ \E e \in Entries, v \in Values : Write(e, v) /\ UNCHANGED <<sdk, early, resets>>
  \/ \E e \in Entries, i \in Intervals :
       app_zclCfgReportCmd(e, i) /\ UNCHANGED <<sdk, early, resets>>
  \/ \E e \in Entries, w \in 0 .. Max(Steps) : zcl_reportCfgInfoEntryRst(e, w)
  \/ reportAttrTimerCb

ResetSpec == InitReset /\ [][NextReset]_allvars

\* A timer that is started expires, and rounds go on as in Reporting.
ResetFairSpec ==
  /\ ResetSpec
  /\ WF_allvars(reportAttrTimerCb)
  /\ SF_allvars(\E dt \in Steps : Round(dt, NoFailure))

-----------------------------------------------------------------------------
(* Properties *)

\* The seconds of the SDK's timer are taken from an entry once: however many
\* rounds follow, a reset makes no more than one report of an entry early.
EarlyOnce == \A e \in Entries : early[e] <= resets
=============================================================================
