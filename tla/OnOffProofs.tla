----------------------------- MODULE OnOffProofs -----------------------------
(***************************************************************************)
(* Proofs about OnOff, for every number of devices, bindings, frames under *)
(* way, commands and losses of the network.                                *)
(***************************************************************************)
EXTENDS OnOff, WellFoundedInduction, TLAPS

-----------------------------------------------------------------------------
(* The inductive invariant *)

\* What is under way and not old carries the state wanted.
NewestIsWanted(j) ==
  \A f \in Frame : ~f.old /\ net[j][f] > 0 => f.val = onOffrm[SrcEp[j]]

\* Where such a command was received it is the last one that was.
GotIsDelivered(j) ==
  \A f \in Frame :
    ~lapsed[j] /\ ~f.old /\ f.got /\ net[j][f] > 0 => delivered[j] = f.val

\* Chased and RepeatsToBoundEndpoint of one binding.
IsChased(j) ==
  WindowOpen(SrcEp[j]) /\ ~lapsed[j] =>
    Marked(j) \/ Awaited(j) \/ delivered[j] = onOffrm[SrcEp[j]]

IsBound(j) == used[j] > 1 => To(j, used[j] - 1) # {}

\* A frame that was received before the mark was taken away is what ties
\* Chased to the confirmations: without the first two parts the success of a
\* command would say nothing of the state of its relay.
Binding(j) ==
  NewestIsWanted(j) /\ GotIsDelivered(j) /\ IsChased(j) /\ IsBound(j)

Remote == \A j \in Slots : Binding(j)

\* What is off has no time to run.
NoTimeLeftWhenOff == \A n \in Devs : onOff[n] = OFF => onTime[n] = 0

IInv ==
  /\ TypeOK
  /\ Remote
  /\ OffWithoutPermission
  /\ NoTimeLeftWhenOff
  /\ Armed

-----------------------------------------------------------------------------
(* Lemmas *)

\* The least element of a set of naturals is in it.
LEMMA LeastIn ==
  ASSUME NEW S \in SUBSET Nat, S # {}
  PROVE  Least(S) \in S
  <1>1. IsWellFoundedOn(OpToRel(<, Nat), Nat)
    BY NatLessThanWellFounded
  <1>2. PICK x \in S : \A y \in S : ~(<<y, x>> \in OpToRel(<, Nat))
    BY <1>1, WFMin
  <1>3. \A y \in S : ~(y < x)
    BY <1>2 DEF OpToRel
  <1>4. \A y \in S : x <= y
    BY <1>3
  <1> QED
    BY <1>4 DEF Least

\* The device and the binding that are repeated to, when there are any.
LEMMA RepeatedBinding ==
  ASSUME TypeOK, NEW now, Repeating(now) # {}
  PROVE  LET j == Least(Pending(Least(Repeating(now))))
         IN j \in Slots /\ used[j] > 1 /\ ~Switched(SrcEp[j])
  <1>1. Repeating(now) \in SUBSET Nat
    BY ConstantsAssumption DEF Repeating
  <1>2. Least(Repeating(now)) \in Repeating(now)
    BY <1>1, LeastIn
  <1>3. Pending(Least(Repeating(now))) \in SUBSET Nat
    BY ConstantsAssumption DEF Pending
  <1>4. Pending(Least(Repeating(now))) # {}
    BY <1>2 DEF Repeating
  <1>5. Least(Pending(Least(Repeating(now)))) \in Pending(Least(Repeating(now)))
    BY <1>3, <1>4, LeastIn
  <1> QED
    BY <1>2, <1>5 DEF Pending, Repeating

-----------------------------------------------------------------------------
(* Frames and types *)

\* The number of frames of a kind grows and shrinks.
LEMMA Counted1 ==
  ASSUME NEW c \in [Frame -> Nat], NEW f \in Frame
  PROVE  /\ [c EXCEPT ![f] = @ + 1] \in [Frame -> Nat]
         /\ c[f] > 0 => [c EXCEPT ![f] = @ - 1] \in [Frame -> Nat]
  OBVIOUS

LEMMA FrameKinds ==
  /\ Report \in Frame /\ Report.old /\ Report.val \notin State
  /\ \A v \in State : /\ Command(v) \in Frame /\ Command(v).val = v
                       /\ ~Command(v).old /\ ~Command(v).got
  BY DEF Frame, Report, Command, State, REPORT, ON, OFF

\* Nothing that is under way is new once it has aged.
LEMMA AgedFrames ==
  ASSUME NEW c \in [Frame -> Nat]
  PROVE  /\ Aged(c) \in [Frame -> Nat]
         /\ \A f \in Frame : ~f.old => Aged(c)[f] = 0
  <1>1. \A f \in Frame : [f EXCEPT !.old = FALSE] \in Frame
    BY DEF Frame
  <1>2. ASSUME NEW f \in Frame
        PROVE  c[f] + c[[f EXCEPT !.old = FALSE]] \in Nat
    <2> DEFINE g == [f EXCEPT !.old = FALSE]
    <2>1. g \in Frame
      BY <1>1
    <2> HIDE DEF g
    <2>2. c[f] \in Nat /\ c[g] \in Nat
      BY <2>1
    <2>3. c[f] + c[g] \in Nat
      BY <2>2
    <2> QED
      BY <2>3 DEF g
  <1> QED
    BY <1>2 DEF Aged

\* What is under way to a binding after new commands and a repeat.
LEMMA SentFrames ==
  ASSUME TypeOK, onOffrm' \in [Devs -> State], NEW ns, NEW taken, NEW j \in Slots
  PROVE  LET c == Command(onOffrm'[SrcEp[j]])
             s == Sent(ns, taken)[j]
         IN /\ c \in Frame /\ s \in [Frame -> Nat]
            /\ j \in taken => s[c] > 0
            /\ SrcEp[j] \in ns => \A f \in Frame : ~f.old /\ s[f] > 0 => f = c
            /\ SrcEp[j] \notin ns =>
                 \A f \in Frame : /\ s[f] >= net[j][f]
                                  /\ f # c => s[f] = net[j][f]
  <1> DEFINE c == Command(onOffrm'[SrcEp[j]])
             frames == IF SrcEp[j] \in ns THEN Aged(net[j]) ELSE net[j]
  <1>1. c \in Frame
    <2>1. onOffrm'[SrcEp[j]] \in State
      BY ConstantsAssumption
    <2> QED
      BY <2>1, FrameKinds
  <1>2. net[j] \in [Frame -> Nat]
    BY DEF TypeOK
  <1>3. /\ frames \in [Frame -> Nat]
        /\ SrcEp[j] \in ns => \A f \in Frame : ~f.old => frames[f] = 0
        /\ SrcEp[j] \notin ns => frames = net[j]
    BY <1>2, AgedFrames
  <1>4. Sent(ns, taken)[j] = IF j \in taken THEN [frames EXCEPT ![c] = @ + 1]
                                             ELSE frames
    BY DEF Sent
  <1> HIDE DEF c, frames
  <1>5. CASE j \in taken
    <2>1. Sent(ns, taken)[j] = [frames EXCEPT ![c] = @ + 1]
      BY <1>4, <1>5
    <2>2. /\ [frames EXCEPT ![c] = @ + 1] \in [Frame -> Nat]
          /\ [frames EXCEPT ![c] = @ + 1][c] = frames[c] + 1
          /\ frames[c] \in Nat
          /\ \A f \in Frame : f # c => [frames EXCEPT ![c] = @ + 1][f] = frames[f]
      BY <1>1, <1>3, Counted1
    <2> QED
      BY <1>1, <1>2, <1>3, <2>1, <2>2 DEF c
  <1>6. CASE j \notin taken
    <2>1. Sent(ns, taken)[j] = frames
      BY <1>4, <1>6
    <2> QED
      BY <1>1, <1>2, <1>3, <1>6, <2>1 DEF c
  <1> QED
    BY <1>5, <1>6

\* What newCmdOnOff leaves in the table and sends.
LEMMA CommandType ==
  ASSUME TypeOK, onOffrm' \in [Devs -> State], NEW ns, NEW taken
  PROVE  /\ Restarted(ns) \in [Slots -> 1 .. 255]
         /\ Sent(ns, taken) \in [Slots -> [Frame -> Nat]]
         /\ Lapsed(ns, taken) \in [Slots -> BOOLEAN]
  <1>1. Restarted(ns) \in [Slots -> 1 .. 255]
    BY DEF Restarted, TypeOK
  <1>2. \A j \in Slots : Sent(ns, taken)[j] \in [Frame -> Nat]
    BY SentFrames
  <1>3. Sent(ns, taken) = [j \in Slots |-> Sent(ns, taken)[j]]
    BY DEF Sent
  <1>4. Sent(ns, taken) \in [Slots -> [Frame -> Nat]]
    BY <1>2, <1>3
  <1>5. Lapsed(ns, taken) \in [Slots -> BOOLEAN]
    BY DEF Lapsed, TypeOK
  <1> QED
    BY <1>1, <1>4, <1>5

RemoteType ==
  /\ onOffrm \in [Devs -> State]
  /\ timeStamp \in [Devs -> Nat]
  /\ used \in [Slots -> 1 .. 255]
  /\ net \in [Slots -> [Frame -> Nat]]
  /\ lapsed \in [Slots -> BOOLEAN]

LEMMA RemoteKept ==
  ASSUME TypeOK, UNCHANGED remote
  PROVE  RemoteType'
  <1>1. RemoteType
    BY DEF TypeOK, RemoteType
  <1>2. UNCHANGED <<onOffrm, timeStamp, used, net, lapsed>>
    BY DEF remote
  <1> QED
    BY <1>1, <1>2 DEF RemoteType

LEMMA UpdateType ==
  ASSUME TypeOK, NEW n \in Devs, NEW v \in State,
         NEW t \in 0 .. Forever, NEW w \in 0 .. Forever,
         app_onOffUpdate(n, v, t, w)
  PROVE  /\ onOff' \in [Devs -> State]
         /\ onTime' \in [Devs -> 0 .. Forever]
         /\ offWait' \in [Devs -> 0 .. Forever]
         /\ RemoteType'
  <1>1. 0 \in 0 .. Forever
    BY ConstantsAssumption
  <1>2. /\ onOff' \in [Devs -> State]
        /\ onTime' \in [Devs -> 0 .. Forever]
        /\ offWait' \in [Devs -> 0 .. Forever]
    BY <1>1 DEF app_onOffUpdate, TypeOK
  <1>3. CASE n \in Ble /\ v = ON
    <2>1. UNCHANGED remote
      BY <1>3 DEF app_onOffUpdate
    <2> QED
      BY <1>2, <2>1, RemoteKept
  <1>4. CASE ~(n \in Ble /\ v = ON)
    <2>1. onOffrm' \in [Devs -> State] /\ timeStamp' \in [Devs -> Nat]
      BY <1>4 DEF app_onOffUpdate, TypeOK
    <2>2. newCmdOnOff({n})
      BY <1>4 DEF app_onOffUpdate
    <2>5. PICK taken : /\ used' = Restarted({n})
                       /\ net' = Sent({n}, taken)
                       /\ lapsed' = Lapsed({n}, taken)
      BY <2>2 DEF newCmdOnOff
    <2>3. /\ used' \in [Slots -> 1 .. 255]
          /\ net' \in [Slots -> [Frame -> Nat]]
          /\ lapsed' \in [Slots -> BOOLEAN]
      BY <2>1, <2>5, CommandType
    <2>4. RemoteType'
      BY <2>1, <2>3 DEF RemoteType
    <2> QED
      BY <1>2, <2>4
  <1> QED
    BY <1>3, <1>4

\* What a turn of test_ble_trigger does to a binding: it gets a new command if
\* its device is switched, and at most one of the others is repeated to.
LEMMA TriggerEffect ==
  ASSUME TypeOK, NEW now, NEW ns, NewAndRepeated(ns, now),
         \A n \in ns : Switched(n)
  PROVE  \E taken :
           /\ net' = Sent(ns, taken)
           /\ \/ used' = Restarted(ns) /\ lapsed' = Lapsed(ns, taken)
              \/ \E r \in Slots :
                   /\ SrcEp[r] \notin ns
                   /\ used' = [Restarted(ns) EXCEPT ![r] = 1]
                   /\ lapsed' = [Lapsed(ns, taken) EXCEPT
                                   ![r] = @ \/ (Marked(r) /\ r \notin taken)]
  <1>1. CASE Repeating(now) = {}
    BY <1>1 DEF NewAndRepeated, newCmdOnOff
  <1>2. CASE Repeating(now) # {}
    <2> DEFINE r == Least(Pending(Least(Repeating(now))))
    <2>1. r \in Slots /\ ~Switched(SrcEp[r])
      BY <1>2, RepeatedBinding
    <2>2. \E taken \in Taken(Bound(ns) \cup To(r, used[r] - 1)) :
            /\ used' = [Restarted(ns) EXCEPT ![r] = 1]
            /\ net' = Sent(ns, taken)
            /\ lapsed' = [Lapsed(ns, taken) EXCEPT
                            ![r] = @ \/ (Marked(r) /\ r \notin taken)]
      BY <1>2 DEF NewAndRepeated
    <2> HIDE DEF r
    <2> QED
      BY <2>1, <2>2
  <1> QED
    BY <1>1, <1>2

LEMMA TriggerType ==
  ASSUME TypeOK, NEW now \in Nat, test_ble_trigger(now)
  PROVE  RemoteType' /\ fresh' \in [Devs -> BOOLEAN]
  <1> DEFINE ns == {n \in {m \in Reached(now) : HasTrigger(m)} : Switched(n)}
  <1>1. onOffrm' \in [Devs -> State] /\ timeStamp' \in [Devs -> Nat]
    BY DEF test_ble_trigger, TypeOK
  <1>2. fresh' \in [Devs -> BOOLEAN]
    BY DEF test_ble_trigger, TypeOK
  <1>3. NewAndRepeated(ns, now) /\ \A n \in ns : Switched(n)
    BY DEF test_ble_trigger
  <1> HIDE DEF ns
  <1>4. PICK taken :
           /\ net' = Sent(ns, taken)
           /\ \/ used' = Restarted(ns) /\ lapsed' = Lapsed(ns, taken)
              \/ \E r \in Slots :
                   /\ used' = [Restarted(ns) EXCEPT ![r] = 1]
                   /\ lapsed' = [Lapsed(ns, taken) EXCEPT
                                   ![r] = @ \/ (Marked(r) /\ r \notin taken)]
    BY <1>3, TriggerEffect
  <1>5. /\ Restarted(ns) \in [Slots -> 1 .. 255]
        /\ Sent(ns, taken) \in [Slots -> [Frame -> Nat]]
        /\ Lapsed(ns, taken) \in [Slots -> BOOLEAN]
    BY <1>1, CommandType
  <1>6. used' \in [Slots -> 1 .. 255] /\ lapsed' \in [Slots -> BOOLEAN]
    <2>1. CASE used' = Restarted(ns) /\ lapsed' = Lapsed(ns, taken)
      BY <1>5, <2>1
    <2>2. ASSUME NEW r \in Slots,
                 used' = [Restarted(ns) EXCEPT ![r] = 1],
                 lapsed' = [Lapsed(ns, taken) EXCEPT
                              ![r] = @ \/ (Marked(r) /\ r \notin taken)]
          PROVE  used' \in [Slots -> 1 .. 255] /\ lapsed' \in [Slots -> BOOLEAN]
      <3>1. 1 \in 1 .. 255
        OBVIOUS
      <3>2. used' \in [Slots -> 1 .. 255]
        BY <1>5, <2>2, <3>1
      <3> DEFINE l == (Lapsed(ns, taken)[r] \/ (Marked(r) /\ r \notin taken))
      <3>3. l \in BOOLEAN /\ lapsed' = [Lapsed(ns, taken) EXCEPT ![r] = l]
        BY <2>2
      <3> HIDE DEF l
      <3> QED
        BY <1>5, <3>2, <3>3
    <2> QED
      BY <1>4, <2>1, <2>2
  <1> QED
    BY <1>1, <1>2, <1>4, <1>5, <1>6 DEF RemoteType

LEMMA CountType ==
  ASSUME TypeOK, NEW kind \in {"cmds", "reports", "leaves"}, NEW max,
         Counted(kind, max)
  PROVE  count' \in [cmds : Nat, reports : Nat, leaves : Nat]
  <1>1. count \in [cmds : Nat, reports : Nat, leaves : Nat]
    BY DEF TypeOK
  <1>2. CASE kind = "cmds"
    BY <1>1, <1>2 DEF Counted
  <1>3. CASE kind = "reports"
    BY <1>1, <1>3 DEF Counted
  <1>4. CASE kind = "leaves"
    BY <1>1, <1>4 DEF Counted
  <1> QED
    BY <1>2, <1>3, <1>4

\* A round of reports adds a report to the frames of some bindings.
LEMMA Reports ==
  ASSUME TypeOK, app_chk_report
  PROVE  /\ UNCHANGED <<onOffrm, timeStamp, used, lapsed, fresh>>
         /\ net' \in [Slots -> [Frame -> Nat]]
         /\ count' \in [cmds : Nat, reports : Nat, leaves : Nat]
         /\ \A j \in Slots : \A f \in Frame : ~f.old => net'[j][f] = net[j][f]
  <1>1. PICK taken \in Taken(Slots) :
          /\ net' = [j \in Slots |-> IF j \in taken
                                     THEN [net[j] EXCEPT ![Report] = @ + 1]
                                     ELSE net[j]]
          /\ IF taken = {} THEN UNCHANGED count ELSE Counted("reports", MaxReports)
          /\ UNCHANGED <<onOffrm, timeStamp, used, lapsed, fresh>>
    BY DEF app_chk_report
  <1>2. \A j \in Slots : net[j] \in [Frame -> Nat]
    BY DEF TypeOK
  <1>3. ASSUME NEW j \in Slots
        PROVE  /\ net'[j] \in [Frame -> Nat]
               /\ \A f \in Frame : ~f.old => net'[j][f] = net[j][f]
    <2>1. CASE j \in taken
      <3>1. net'[j] = [net[j] EXCEPT ![Report] = @ + 1]
        BY <1>1, <2>1
      <3> QED
        BY <1>2, <3>1, FrameKinds, Counted1
    <2>2. CASE j \notin taken
      BY <1>1, <1>2, <2>2
    <2> QED
      BY <2>1, <2>2
  <1>4. net' \in [Slots -> [Frame -> Nat]]
    BY <1>1, <1>3
  <1>5. count' \in [cmds : Nat, reports : Nat, leaves : Nat]
    <2>1. CASE UNCHANGED count
      BY <2>1 DEF TypeOK
    <2>2. CASE Counted("reports", MaxReports)
      BY <2>2, CountType
    <2> QED
      BY <1>1, <2>1, <2>2
  <1> QED
    BY <1>1, <1>3, <1>4, <1>5

\* The mark of a binding stays in its byte.
LEMMA MarkType ==
  ASSUME NEW ep \in 1 .. 254
  PROVE  RetryMark(ep) = ep + 1
  BY DEF RetryMark

\* A command that is received is not on its way any more.
LEMMA ReceivedEffect ==
  ASSUME TypeOK, NEW j \in Slots, NEW f \in Frame, Received(j, f)
  PROVE  /\ net' \in [Slots -> [Frame -> Nat]]
         /\ lapsed' \in [Slots -> BOOLEAN]
         /\ \A k \in Slots : k # j => net'[k] = net[k] /\ lapsed'[k] = lapsed[k]
         /\ ~lapsed'[j] => ~lapsed[j] /\ ~Undone(j, f)
         /\ \A g \in Frame :
              /\ g # f /\ g # [f EXCEPT !.got = TRUE] => net'[j][g] = net[j][g]
              /\ g = [f EXCEPT !.got = TRUE] => net'[j][g] = net[j][g] + 1
              /\ g = f => net'[j][g] = net[j][g] - 1
  <1> DEFINE h == [f EXCEPT !.got = TRUE]
             c == net[j]
             less == [c EXCEPT ![f] = @ - 1]
             l == (lapsed[j] \/ Undone(j, f))
  <1>1. h \in Frame /\ h # f /\ c \in [Frame -> Nat] /\ c[f] > 0
    BY DEF Received, TypeOK, Frame
  <1>2. less \in [Frame -> Nat]
    BY <1>1, Counted1
  <1>3. net' = [net EXCEPT ![j] = [less EXCEPT ![h] = @ + 1]]
    <2>1. /\ net' = [net EXCEPT ![j][f] = @ - 1, ![j][h] = @ + 1]
          /\ net \in [Slots -> [Frame -> Nat]]
      BY DEF Received, TypeOK
    <2> HIDE DEF h
    <2> QED
      BY <1>1, <2>1
  <1>4. lapsed' = [lapsed EXCEPT ![j] = l] /\ l \in BOOLEAN
    BY DEF Received
  <1>5. [less EXCEPT ![h] = @ + 1] \in [Frame -> Nat]
    BY <1>1, <1>2, Counted1
  <1>6. net'[j] = [less EXCEPT ![h] = @ + 1]
    BY <1>3 DEF TypeOK
  <1>7. net' \in [Slots -> [Frame -> Nat]] /\ \A k \in Slots : k # j => net'[k] = net[k]
    <2> HIDE DEF less, h
    <2> QED
      BY <1>3, <1>5 DEF TypeOK
  <1>8. \A g \in Frame :
              /\ g # f /\ g # h => net'[j][g] = net[j][g]
              /\ g = h => net'[j][g] = net[j][g] + 1
              /\ g = f => net'[j][g] = net[j][g] - 1
    <2> HIDE DEF h
    <2> QED
      BY <1>1, <1>2, <1>6
  <1>9. /\ lapsed' \in [Slots -> BOOLEAN] /\ lapsed'[j] = l
        /\ \A k \in Slots : k # j => lapsed'[k] = lapsed[k]
    <2> HIDE DEF l
    <2> QED
      BY <1>4 DEF TypeOK
  <1> QED
    BY <1>7, <1>8, <1>9

\* What a confirmation does to the frames, the marks and the window.
LEMMA ConfirmedEffect ==
  ASSUME TypeOK, NEW j \in Slots, NEW f \in Frame, NEW status \in Statuses,
         Confirmed(j, f, status)
  PROVE  /\ RemoteType'
         /\ \A k \in Slots : k # j => net'[k] = net[k]
         /\ net'[j][f] = net[j][f] - 1
         /\ \A g \in Frame : g # f => net'[j][g] = net[j][g]
         /\ \A k \in Slots : ~lapsed'[k] =>
              /\ ~lapsed[k] /\ ~Overwritten(k, j, f, status)
              /\ k = j => ~Unnoted(j, f, status)
         /\ \A m \in Devs : timeStamp'[m] = timeStamp[m] \/ timeStamp'[m] = 0
         /\ \A k \in Slots :
              \/ used'[k] = used[k] /\ ~(joined /\ Confirms(j, k))
              \/ /\ joined /\ Confirms(j, k)
                 /\ \/ used'[k] = 1 /\ (NoAck(status) => ~WindowOpen(SrcEp[j])')
                    \/ used'[k] = DstEp[j] + 1 /\ NoAck(status)
  <1> DEFINE n == SrcEp[j]
             mark == IF InWindow(n, utc) /\ NoAck(status) THEN RetryMark(DstEp[j])
                                                          ELSE 1
  <1>1. net[j] \in [Frame -> Nat] /\ net[j][f] > 0
    BY DEF Confirmed, TypeOK
  <1>2. net' = [net EXCEPT ![j] = [net[j] EXCEPT ![f] = @ - 1]]
    BY DEF Confirmed, TypeOK
  <1>3. [net[j] EXCEPT ![f] = @ - 1] \in [Frame -> Nat]
    BY <1>1, Counted1
  <1>4. /\ net' \in [Slots -> [Frame -> Nat]]
        /\ \A k \in Slots : k # j => net'[k] = net[k]
        /\ net'[j] = [net[j] EXCEPT ![f] = @ - 1]
    BY <1>2, <1>3 DEF TypeOK
  <1>5. net'[j][f] = net[j][f] - 1 /\ \A g \in Frame : g # f => net'[j][g] = net[j][g]
    BY <1>1, <1>4
  <1>6. lapsed' = [k \in Slots |->
                     \/ lapsed[k]
                     \/ k = j /\ Unnoted(j, f, status)
                     \/ Overwritten(k, j, f, status)]
    BY DEF Confirmed
  <1>7. lapsed' \in [Slots -> BOOLEAN]
    BY <1>6
  <1>8. onOffrm' = onOffrm /\ utc' = utc
    BY DEF Confirmed, clock
  <1>9. DstEp[j] \in 1 .. 254 /\ n \in Devs
    BY ConstantsAssumption
  <1>10. CASE joined
    <2>1. /\ used' = [k \in Slots |-> IF Confirms(j, k) THEN mark ELSE used[k]]
          /\ timeStamp' = [timeStamp EXCEPT ![n] =
                             IF InWindow(n, utc) THEN @ ELSE 0]
      BY <1>10 DEF Confirmed, afTestOnOffCb
    <2>2. RetryMark(DstEp[j]) = DstEp[j] + 1
      BY <1>9, MarkType
    <2>3. /\ timeStamp' \in [Devs -> Nat]
          /\ \A m \in Devs : timeStamp'[m] = timeStamp[m] \/ timeStamp'[m] = 0
          /\ ~InWindow(n, utc) => timeStamp'[n] = 0
      BY <1>9, <2>1 DEF TypeOK
    <2>4. \/ mark = 1 /\ (NoAck(status) => ~WindowOpen(n)')
          \/ mark = DstEp[j] + 1 /\ NoAck(status)
      BY <2>2, <2>3 DEF WindowOpen
    <2>5. mark \in 1 .. 255
      BY <1>9, <2>2
    <2> HIDE DEF mark
    <2>6. used' \in [Slots -> 1 .. 255]
      BY <2>1, <2>5 DEF TypeOK
    <2>7. RemoteType'
      BY <1>4, <1>7, <1>8, <2>3, <2>6 DEF RemoteType, TypeOK
    <2> QED
      BY <1>4, <1>5, <1>6, <1>10, <2>1, <2>3, <2>4, <2>7
  <1>11. CASE ~joined
    <2>1. UNCHANGED <<used, timeStamp>>
      BY <1>11 DEF Confirmed
    <2>2. RemoteType'
      BY <1>4, <1>7, <1>8, <2>1 DEF RemoteType, TypeOK
    <2> QED
      BY <1>4, <1>5, <1>6, <1>11, <2>1, <2>2
  <1> QED
    BY <1>10, <1>11

LEMMA TypeStep ==
  ASSUME IInv, Next
  PROVE  TypeOK'
  <1> USE DEF IInv, clock, ble, RemoteType
  <1>1. ASSUME NEW n \in Devs, NEW v \in State, app_onOffCb(n, v)
        PROVE  TypeOK'
    <2>1. onTime[n] \in 0 .. Forever /\ offWait[n] \in 0 .. Forever
      BY DEF TypeOK
    <2>2. /\ onOff' \in [Devs -> State]
          /\ onTime' \in [Devs -> 0 .. Forever]
          /\ offWait' \in [Devs -> 0 .. Forever]
          /\ RemoteType'
      BY <1>1, <2>1, UpdateType DEF app_onOffCb
    <2>3. count' \in [cmds : Nat, reports : Nat, leaves : Nat]
      BY <1>1, CountType DEF app_onOffCb
    <2> QED
      BY <1>1, <2>2, <2>3 DEF app_onOffCb, TypeOK
  <1>2. ASSUME NEW n \in Devs, NEW v \in State, Advertised(n, v)
        PROVE  TypeOK'
    <2>1. count' \in [cmds : Nat, reports : Nat, leaves : Nat]
      BY <1>2, CountType DEF Advertised
    <2> QED
      BY <1>2, <2>1 DEF Advertised, TypeOK, local, remote
  <1>3. ASSUME NEW n \in Devs, NEW only \in BOOLEAN, NEW t \in Times, NEW w \in Times,
               app_onoff_onWithTimedOffProcess(n, only, t, w)
        PROVE  TypeOK'
    <2>1. count' \in [cmds : Nat, reports : Nat, leaves : Nat]
      BY <1>3, CountType DEF app_onoff_onWithTimedOffProcess
    <2>2. t \in 0 .. Forever /\ w \in 0 .. Forever
      BY ConstantsAssumption
    <2>3. timer' \in [Devs -> BOOLEAN]
      BY <1>3 DEF app_onoff_onWithTimedOffProcess, TypeOK
    <2>4. /\ onOff' \in [Devs -> State]
          /\ onTime' \in [Devs -> 0 .. Forever]
          /\ offWait' \in [Devs -> 0 .. Forever]
          /\ RemoteType'
      <3>1. CASE offWait[n] > 0 /\ onOff[n] = OFF
        <4>1. Smaller(offWait[n], w) \in 0 .. Forever
          BY <2>2 DEF Smaller, TypeOK
        <4> QED
          <5>1. /\ offWait' = [offWait EXCEPT ![n] = Smaller(@, w)]
                /\ UNCHANGED <<onOff, onTime>> /\ UNCHANGED remote
            BY <1>3, <3>1 DEF app_onoff_onWithTimedOffProcess
          <5>2. RemoteType'
            BY <5>1, RemoteKept
          <5> QED
            BY <4>1, <5>1, <5>2 DEF TypeOK
      <3>2. CASE ~(offWait[n] > 0 /\ onOff[n] = OFF)
        <4>1. Larger(onTime[n], t) \in 0 .. Forever /\ ON \in State
          BY <2>2 DEF Larger, TypeOK, State
        <4>2. app_onOffUpdate(n, ON, Larger(onTime[n], t), w)
          BY <1>3, <3>2 DEF app_onoff_onWithTimedOffProcess
        <4> QED
          BY <2>2, <4>1, <4>2, UpdateType
      <3> QED
        BY <3>1, <3>2
    <2> QED
      BY <1>3, <2>1, <2>3, <2>4 DEF app_onoff_onWithTimedOffProcess, TypeOK
  <1>4. ASSUME NEW n \in Devs, app_onWithTimedOffTimerCb(n)
        PROVE  TypeOK'
    <2>1. timer' \in [Devs -> BOOLEAN]
      BY <1>4 DEF app_onWithTimedOffTimerCb, KeepsRunning, TypeOK
    <2>2. /\ onOff' \in [Devs -> State]
          /\ onTime' \in [Devs -> 0 .. Forever]
          /\ offWait' \in [Devs -> 0 .. Forever]
          /\ RemoteType'
      <3>1. CASE Counting(n, ON, onTime[n]) /\ onTime[n] = 1
        <4>1. 0 \in 0 .. Forever /\ OFF \in State
          BY ConstantsAssumption DEF State
        <4>2. app_onOffUpdate(n, OFF, 0, 0)
          BY <1>4, <3>1 DEF app_onWithTimedOffTimerCb
        <4> QED
          BY <4>1, <4>2, UpdateType
      <3>2. CASE ~(Counting(n, ON, onTime[n]) /\ onTime[n] = 1)
        <4>1. /\ onTime[n] \in 0 .. Forever /\ offWait[n] \in 0 .. Forever
              /\ Forever \in Nat
          BY ConstantsAssumption DEF TypeOK
        <4>2. Counting(n, ON, onTime[n]) => onTime[n] - 1 \in 0 .. Forever
          BY <4>1 DEF Counting
        <4>3. Counting(n, OFF, offWait[n]) => offWait[n] - 1 \in 0 .. Forever
          BY <4>1 DEF Counting
        <4>4. /\ onTime' = [onTime EXCEPT ![n] =
                              IF Counting(n, ON, @) THEN @ - 1 ELSE @]
              /\ offWait' = [offWait EXCEPT ![n] =
                               IF Counting(n, OFF, @) THEN @ - 1 ELSE @]
              /\ UNCHANGED <<onOff, remote>>
          BY <1>4, <3>2 DEF app_onWithTimedOffTimerCb
        <4>5. onTime' \in [Devs -> 0 .. Forever] /\ offWait' \in [Devs -> 0 .. Forever]
          BY <4>1, <4>2, <4>3, <4>4 DEF TypeOK
        <4> QED
          BY <4>4, <4>5 DEF TypeOK, remote
      <3> QED
        BY <3>1, <3>2
    <2> QED
      BY <1>4, <2>1, <2>2 DEF app_onWithTimedOffTimerCb, TypeOK
  <1>5. ASSUME NEW dt \in 0 .. MaxStep, app_zb_task(dt)
        PROVE  TypeOK'
    <2>1. utc + dt \in Nat /\ upsec + dt \in Nat /\ utc' = utc + dt
      BY <1>5, ConstantsAssumption DEF app_zb_task, TypeOK
    <2>2. CASE upsec + dt >= MinReport
      <3>1. app_chk_report /\ upsec' = 0
        BY <1>5, <2>2 DEF app_zb_task
      <3>2. /\ UNCHANGED <<onOffrm, timeStamp, used, lapsed, fresh>>
            /\ net' \in [Slots -> [Frame -> Nat]]
            /\ count' \in [cmds : Nat, reports : Nat, leaves : Nat]
        BY <3>1, Reports
      <3>3. 0 \in 0 .. MinReport - 1
        BY ConstantsAssumption
      <3> QED
        BY <1>5, <2>1, <3>1, <3>2, <3>3 DEF app_zb_task, TypeOK, local
    <2>3. CASE ~(upsec + dt >= MinReport)
      <3>1. /\ test_ble_trigger(utc + dt)
            /\ upsec' = upsec + dt
            /\ UNCHANGED count
        BY <1>5, <2>1, <2>3 DEF app_zb_task
      <3>2. RemoteType' /\ fresh' \in [Devs -> BOOLEAN]
        BY <2>1, <3>1, TriggerType
      <3>3. upsec' \in 0 .. MinReport - 1
        BY <2>1, <2>3, <3>1, ConstantsAssumption DEF TypeOK
      <3> QED
        BY <1>5, <2>1, <3>1, <3>2, <3>3 DEF app_zb_task, TypeOK, local
    <2> QED
      BY <2>2, <2>3
  <1>6. CASE app_zb_task_offline
    <2>1. 0 \in 0 .. MinReport - 1
      BY ConstantsAssumption
    <2> QED
      BY <1>6, <2>1 DEF app_zb_task_offline, TypeOK, local, remote
  <1>7. ASSUME NEW j \in Slots, NEW f \in Frame, Received(j, f)
        PROVE  TypeOK'
    <2>1. net' \in [Slots -> [Frame -> Nat]] /\ lapsed' \in [Slots -> BOOLEAN]
      BY <1>7, ReceivedEffect
    <2>2. delivered' \in [Slots -> State]
      BY <1>7 DEF Received, TypeOK
    <2> QED
      BY <1>7, <2>1, <2>2 DEF Received, TypeOK, local
  <1>10. ASSUME NEW j \in Slots, NEW f \in Frame, NEW status \in Statuses,
                Confirmed(j, f, status)
         PROVE  TypeOK'
    <2>1. RemoteType'
      BY <1>10, ConfirmedEffect
    <2> QED
      BY <1>10, <2>1 DEF Confirmed, TypeOK, local
  <1>8. CASE Leave
    <2>1. count' \in [cmds : Nat, reports : Nat, leaves : Nat]
      BY <1>8, CountType DEF Leave
    <2> QED
      BY <1>8, <2>1 DEF Leave, TypeOK, local, remote
  <1>9. CASE Rejoin
    BY <1>9 DEF Rejoin, TypeOK, local, remote
  <1> QED
    BY <1>1, <1>2, <1>3, <1>4, <1>5, <1>6, <1>7, <1>8, <1>9, <1>10 DEF Next

-----------------------------------------------------------------------------
(* Permission and timer *)

\* A step that leaves the switch of every device alone.
LEMMA LocalSame ==
  ASSUME IInv, UNCHANGED local, TypeOK',
         \A n \in Devs : onOffrm'[n] = onOffrm[n] \/ onOff[n] = ON
  PROVE  OffWithoutPermission' /\ NoTimeLeftWhenOff' /\ Armed'
  <1>1. OffWithoutPermission'
    BY DEF IInv, OffWithoutPermission, local, ON, OFF
  <1>2. NoTimeLeftWhenOff' /\ Armed'
    BY DEF IInv, NoTimeLeftWhenOff, Armed, local
  <1> QED
    BY <1>1, <1>2

LEMMA LocalUpdate ==
  ASSUME IInv, NEW n \in Devs, NEW v \in State, NEW t, NEW w,
         app_onOffUpdate(n, v, t, w)
  PROVE  OffWithoutPermission' /\ NoTimeLeftWhenOff'
  <1>1. \A m \in Devs \ {n} : /\ onOff'[m] = onOff[m] /\ onTime'[m] = onTime[m]
                             /\ onOffrm'[m] = onOffrm[m]
    BY DEF app_onOffUpdate, remote, IInv, TypeOK
  <1>2. onOff'[n] = v /\ (v = OFF => onTime'[n] = 0)
    BY DEF app_onOffUpdate, IInv, TypeOK, ON, OFF
  <1>3. v = OFF => onOffrm'[n] = OFF
    BY DEF app_onOffUpdate, IInv, TypeOK, ON, OFF
  <1> QED
    BY <1>1, <1>2, <1>3 DEF IInv, OffWithoutPermission, NoTimeLeftWhenOff

LEMMA LocalStep ==
  ASSUME IInv, Next, TypeOK'
  PROVE  OffWithoutPermission' /\ NoTimeLeftWhenOff' /\ Armed'
  <1>1. ASSUME NEW n \in Devs, NEW v \in State, app_onOffCb(n, v)
        PROVE  OffWithoutPermission' /\ NoTimeLeftWhenOff' /\ Armed'
    <2>1. app_onOffUpdate(n, v, onTime[n], offWait[n]) /\ timer' = timer
      BY <1>1 DEF app_onOffCb
    <2>2. OffWithoutPermission' /\ NoTimeLeftWhenOff'
      BY <2>1, LocalUpdate
    <2>3. \A m \in Devs \ {n} : /\ onOff'[m] = onOff[m] /\ onTime'[m] = onTime[m]
                               /\ offWait'[m] = offWait[m]
      BY <2>1 DEF app_onOffUpdate, IInv, TypeOK
    <2>4. /\ onOff'[n] = ON /\ onTime'[n] \in 1 .. Forever - 1
          /\ offWait'[n] < Forever
          => /\ onTime[n] = onTime'[n] /\ offWait[n] = offWait'[n]
             /\ onOff[n] = ON
      BY <2>1 DEF app_onOffUpdate, IInv, TypeOK, NoTimeLeftWhenOff, State, ON, OFF
    <2>5. Armed'
      BY <2>1, <2>3, <2>4 DEF IInv, Armed
    <2> QED
      BY <2>2, <2>5
  <1>2. ASSUME NEW n \in Devs, NEW v \in State, Advertised(n, v)
        PROVE  OffWithoutPermission' /\ NoTimeLeftWhenOff' /\ Armed'
    BY <1>2, LocalSame DEF Advertised, remote
  <1>3. ASSUME NEW n \in Devs, NEW only \in BOOLEAN, NEW t \in Times, NEW w \in Times,
               app_onoff_onWithTimedOffProcess(n, only, t, w)
        PROVE  OffWithoutPermission' /\ NoTimeLeftWhenOff' /\ Armed'
    <2>1. OffWithoutPermission' /\ NoTimeLeftWhenOff'
      <3>1. CASE offWait[n] > 0 /\ onOff[n] = OFF
        BY <1>3, <3>1 DEF app_onoff_onWithTimedOffProcess, remote, IInv,
           OffWithoutPermission, NoTimeLeftWhenOff
      <3>2. CASE ~(offWait[n] > 0 /\ onOff[n] = OFF)
        <4>1. app_onOffUpdate(n, ON, Larger(onTime[n], t), w) /\ ON \in State
          BY <1>3, <3>2 DEF app_onoff_onWithTimedOffProcess, State
        <4> QED
          BY <4>1, LocalUpdate
      <3> QED
        BY <3>1, <3>2
    <2>2. timer' = [timer EXCEPT ![n] =
                      \/ @
                      \/ /\ onTime'[n] < Forever /\ offWait'[n] < Forever
                         /\ onTime'[n] > 0 \/ offWait'[n] > 0]
      BY <1>3 DEF app_onoff_onWithTimedOffProcess
    <2>3. \A m \in Devs \ {n} : /\ onOff'[m] = onOff[m] /\ onTime'[m] = onTime[m]
                               /\ offWait'[m] = offWait[m] /\ timer'[m] = timer[m]
      <3>1. \A m \in Devs \ {n} : timer'[m] = timer[m]
        BY <2>2 DEF IInv, TypeOK
      <3>2. CASE offWait[n] > 0 /\ onOff[n] = OFF
        BY <1>3, <3>1, <3>2 DEF app_onoff_onWithTimedOffProcess, IInv, TypeOK
      <3>3. CASE ~(offWait[n] > 0 /\ onOff[n] = OFF)
        <4>1. app_onOffUpdate(n, ON, Larger(onTime[n], t), w)
          BY <1>3, <3>3 DEF app_onoff_onWithTimedOffProcess
        <4> QED
          BY <3>1, <4>1 DEF app_onOffUpdate, IInv, TypeOK
      <3> QED
        BY <3>2, <3>3
    <2>4. onTime'[n] \in 1 .. Forever - 1 /\ offWait'[n] < Forever => timer'[n]
      <3>1. onTime'[n] \in 1 .. Forever - 1 => onTime'[n] < Forever /\ onTime'[n] > 0
        BY ConstantsAssumption
      <3>2. timer'[n] = \/ timer[n]
                        \/ /\ onTime'[n] < Forever /\ offWait'[n] < Forever
                           /\ onTime'[n] > 0 \/ offWait'[n] > 0
        BY <2>2 DEF IInv, TypeOK
      <3> QED
        BY <3>1, <3>2
    <2>5. Armed'
      BY <2>3, <2>4 DEF IInv, Armed
    <2> QED
      BY <2>1, <2>5
  <1>4. ASSUME NEW n \in Devs, app_onWithTimedOffTimerCb(n)
        PROVE  OffWithoutPermission' /\ NoTimeLeftWhenOff' /\ Armed'
    <2>1. timer' = [timer EXCEPT ![n] = KeepsRunning(n)]
      BY <1>4 DEF app_onWithTimedOffTimerCb
    <2>2. CASE Counting(n, ON, onTime[n]) /\ onTime[n] = 1
      <3>1. app_onOffUpdate(n, OFF, 0, 0) /\ OFF \in State
        BY <1>4, <2>2 DEF app_onWithTimedOffTimerCb, State
      <3>2. OffWithoutPermission' /\ NoTimeLeftWhenOff'
        BY <3>1, LocalUpdate
      <3>3. \A m \in Devs \ {n} : /\ onOff'[m] = onOff[m] /\ onTime'[m] = onTime[m]
                                 /\ offWait'[m] = offWait[m] /\ timer'[m] = timer[m]
        BY <2>1, <3>1 DEF app_onOffUpdate, IInv, TypeOK
      <3>4. onOff'[n] = OFF
        BY <3>1 DEF app_onOffUpdate, IInv, TypeOK
      <3>5. Armed'
        BY <3>3, <3>4 DEF IInv, Armed, ON, OFF
      <3> QED
        BY <3>2, <3>5
    <2>3. CASE ~(Counting(n, ON, onTime[n]) /\ onTime[n] = 1)
      <3>1. /\ onTime' = [onTime EXCEPT ![n] =
                            IF Counting(n, ON, @) THEN @ - 1 ELSE @]
            /\ offWait' = [offWait EXCEPT ![n] =
                             IF Counting(n, OFF, @) THEN @ - 1 ELSE @]
            /\ UNCHANGED <<onOff, remote>>
        BY <1>4, <2>3 DEF app_onWithTimedOffTimerCb
      <3>2. \A m \in Devs \ {n} : /\ onTime'[m] = onTime[m]
                                 /\ offWait'[m] = offWait[m] /\ timer'[m] = timer[m]
        BY <2>1, <3>1 DEF IInv, TypeOK
      <3>3. onOff[n] = OFF => onTime'[n] = onTime[n]
        BY <3>1 DEF Counting, IInv, TypeOK, ON, OFF
      <3>4. OffWithoutPermission'
        BY <3>1 DEF IInv, OffWithoutPermission, remote
      <3>5. NoTimeLeftWhenOff'
        BY <3>1, <3>2, <3>3 DEF IInv, NoTimeLeftWhenOff
      <3>6. onOff'[n] = ON /\ onTime'[n] > 0 => timer'[n]
        BY <2>1, <3>1 DEF KeepsRunning, IInv, TypeOK, ON, OFF
      <3>7. onTime'[n] \in 1 .. Forever - 1 => onTime'[n] > 0
        BY ConstantsAssumption
      <3>8. Armed'
        BY <3>1, <3>2, <3>6, <3>7 DEF IInv, Armed
      <3> QED
        BY <3>4, <3>5, <3>8
    <2> QED
      BY <2>2, <2>3
  <1>5. ASSUME NEW dt \in 0 .. MaxStep, app_zb_task(dt)
        PROVE  OffWithoutPermission' /\ NoTimeLeftWhenOff' /\ Armed'
    <2>1. CASE upsec + dt >= MinReport
      <3>1. onOffrm' = onOffrm /\ UNCHANGED local
        BY <1>5, <2>1 DEF app_zb_task, app_chk_report
      <3> QED
        BY <3>1, LocalSame
    <2>2. CASE ~(upsec + dt >= MinReport)
      <3>1. test_ble_trigger(utc') /\ UNCHANGED local
        BY <1>5, <2>2 DEF app_zb_task
      <3>2. \A n \in Devs : onOffrm'[n] = onOffrm[n] \/ onOff[n] = ON
        BY <3>1 DEF test_ble_trigger, HasTrigger
      <3> QED
        BY <3>1, <3>2, LocalSame
    <2> QED
      BY <2>1, <2>2
  <1>6. CASE app_zb_task_offline
    BY <1>6, LocalSame DEF app_zb_task_offline, remote
  <1>7. ASSUME NEW j \in Slots, NEW f \in Frame, Received(j, f)
        PROVE  OffWithoutPermission' /\ NoTimeLeftWhenOff' /\ Armed'
    BY <1>7, LocalSame DEF Received
  <1>10. ASSUME NEW j \in Slots, NEW f \in Frame, NEW status \in Statuses,
                Confirmed(j, f, status)
         PROVE  OffWithoutPermission' /\ NoTimeLeftWhenOff' /\ Armed'
    BY <1>10, LocalSame DEF Confirmed
  <1>8. CASE Leave
    BY <1>8, LocalSame DEF Leave, remote
  <1>9. CASE Rejoin
    BY <1>9, LocalSame DEF Rejoin, remote
  <1> QED
    BY <1>1, <1>2, <1>3, <1>4, <1>5, <1>6, <1>7, <1>8, <1>9, <1>10 DEF Next

-----------------------------------------------------------------------------
(* Commands and repeats *)

LEMMA RemoteSame ==
  ASSUME IInv, UNCHANGED <<remote, utc, delivered>>
  PROVE  Remote'
  <1>1. UNCHANGED <<onOffrm, timeStamp, used, net, lapsed, utc, delivered>>
    BY DEF remote
  <1> QED
    BY <1>1 DEF IInv, Remote, Binding, NewestIsWanted, GotIsDelivered, IsChased,
       IsBound, WindowOpen, InWindow, Marked, Awaited, To

\* A binding whose device gets a command: it is under way or the relay is lost
\* sight of.
LEMMA CommandedBinding ==
  ASSUME IInv, NEW ns, NEW taken, NEW j \in Slots, SrcEp[j] \in ns,
         onOffrm' \in [Devs -> State], used'[j] = 1,
         net'[j] = Sent(ns, taken)[j], lapsed'[j] = Lapsed(ns, taken)[j]
  PROVE  Binding(j)'
  <1> DEFINE c == Command(onOffrm'[SrcEp[j]])
  <1>1. /\ c \in Frame /\ net'[j] \in [Frame -> Nat]
        /\ j \in taken => net'[j][c] > 0
        /\ \A f \in Frame : ~f.old /\ net'[j][f] > 0 => f = c
    BY SentFrames DEF IInv
  <1>2. c.val = onOffrm'[SrcEp[j]] /\ ~c.old /\ ~c.got
    <2>1. onOffrm'[SrcEp[j]] \in State
      BY ConstantsAssumption
    <2> QED
      BY <2>1, FrameKinds
  <1>3. lapsed'[j] = (j \notin taken)
    BY DEF Lapsed
  <1> HIDE DEF c
  <1>4. NewestIsWanted(j)' /\ GotIsDelivered(j)'
    BY <1>1, <1>2 DEF NewestIsWanted, GotIsDelivered
  <1>5. IsChased(j)'
    BY <1>1, <1>2, <1>3 DEF IsChased, Awaited
  <1>6. IsBound(j)'
    BY DEF IsBound
  <1> QED
    BY <1>4, <1>5, <1>6 DEF Binding

\* A binding whose device gets no command in this step: it may be repeated to,
\* and another endpoint of its node may be repeated to for it.
LEMMA OtherBinding ==
  ASSUME IInv, NEW ns, NEW taken, NEW j \in Slots, SrcEp[j] \notin ns,
         onOffrm' \in [Devs -> State], onOffrm'[SrcEp[j]] = onOffrm[SrcEp[j]],
         delivered' = delivered, WindowOpen(SrcEp[j])' => WindowOpen(SrcEp[j]),
         net'[j] = Sent(ns, taken)[j], lapsed[j] => lapsed'[j],
         \/ used'[j] = used[j]
         \/ used'[j] = 1 /\ (Marked(j) /\ j \notin taken => lapsed'[j])
  PROVE  Binding(j)'
  <1> DEFINE c == Command(onOffrm[SrcEp[j]])
  <1>1. /\ c \in Frame /\ net'[j] \in [Frame -> Nat]
        /\ j \in taken => net'[j][c] > 0
        /\ \A f \in Frame : net'[j][f] >= net[j][f]
        /\ \A f \in Frame : f # c => net'[j][f] = net[j][f]
    BY SentFrames DEF IInv
  <1>2. c.val = onOffrm[SrcEp[j]] /\ ~c.old /\ ~c.got
    <2>1. onOffrm'[SrcEp[j]] \in State
      BY ConstantsAssumption
    <2> QED
      BY <2>1, FrameKinds
  <1>3. Binding(j) /\ net[j] \in [Frame -> Nat]
    BY DEF IInv, Remote, TypeOK
  <1> HIDE DEF c
  <1>4. NewestIsWanted(j)'
    BY <1>1, <1>2, <1>3 DEF Binding, NewestIsWanted
  <1>5. GotIsDelivered(j)'
    BY <1>1, <1>2, <1>3 DEF Binding, GotIsDelivered
  <1>6. Awaited(j) => Awaited(j)'
    BY <1>1, <1>3 DEF Awaited
  <1>7. j \in taken => Awaited(j)'
    BY <1>1, <1>2 DEF Awaited
  <1>8. IsChased(j)'
    BY <1>3, <1>6, <1>7 DEF Binding, IsChased, Marked
  <1>9. IsBound(j)'
    BY <1>3 DEF Binding, IsBound, To
  <1> QED
    BY <1>4, <1>5, <1>8, <1>9 DEF Binding

LEMMA RemoteUpdate ==
  ASSUME IInv, NEW n \in Devs, NEW v \in State, NEW t, NEW w,
         app_onOffUpdate(n, v, t, w), UNCHANGED <<utc, delivered>>
  PROVE  Remote'
  <1>1. CASE n \in Ble /\ v = ON
    BY <1>1, RemoteSame DEF app_onOffUpdate
  <1>2. CASE ~(n \in Ble /\ v = ON)
    <2>1. /\ onOffrm' = [onOffrm EXCEPT ![n] = v]
          /\ timeStamp' = [timeStamp EXCEPT ![n] = utc]
          /\ newCmdOnOff({n})
      BY <1>2 DEF app_onOffUpdate
    <2>2. PICK taken : /\ used' = Restarted({n})
                       /\ net' = Sent({n}, taken)
                       /\ lapsed' = Lapsed({n}, taken)
      BY <2>1 DEF newCmdOnOff
    <2>3. onOffrm' \in [Devs -> State]
      BY <2>1 DEF IInv, TypeOK
    <2>4. ASSUME NEW j \in Slots
          PROVE  Binding(j)'
      <3>1. CASE SrcEp[j] \in {n}
        <4>1. used'[j] = 1
          BY <2>2, <3>1 DEF Restarted
        <4> QED
          BY <2>2, <2>3, <3>1, <4>1, CommandedBinding
      <3>2. CASE SrcEp[j] \notin {n}
        <4>1. used'[j] = used[j] /\ lapsed'[j] = lapsed[j]
          BY <2>2, <3>2 DEF Restarted, Lapsed
        <4>2. SrcEp[j] \in Devs
          BY ConstantsAssumption
        <4>3. /\ onOffrm'[SrcEp[j]] = onOffrm[SrcEp[j]]
              /\ timeStamp'[SrcEp[j]] = timeStamp[SrcEp[j]]
          BY <2>1, <3>2, <4>2 DEF IInv, TypeOK
        <4>4. WindowOpen(SrcEp[j])' => WindowOpen(SrcEp[j])
          BY <4>3 DEF WindowOpen, InWindow
        <4> QED
          BY <2>2, <2>3, <3>2, <4>1, <4>3, <4>4, OtherBinding
      <3> QED
        BY <3>1, <3>2
    <2> QED
      BY <2>4 DEF Remote
  <1> QED
    BY <1>1, <1>2

\* Time only closes the window.
LEMMA WindowCloses ==
  ASSUME IInv, NEW n \in Devs, timeStamp'[n] = timeStamp[n],
         NEW dt \in Nat, utc' = utc + dt, WindowOpen(n)'
  PROVE  WindowOpen(n)
  <1>1. timeStamp[n] \in Nat /\ utc \in Nat /\ Window \in Nat
    BY ConstantsAssumption DEF IInv, TypeOK
  <1> QED
    BY <1>1 DEF WindowOpen, InWindow

LEMMA RemoteTurn ==
  ASSUME IInv, NEW dt \in 0 .. MaxStep, app_zb_task(dt), TypeOK'
  PROVE  Remote'
  <1>1. utc' = utc + dt /\ dt \in Nat /\ delivered' = delivered
    BY ConstantsAssumption DEF app_zb_task
  <1>2. CASE upsec + dt >= MinReport
    <2>1. /\ UNCHANGED <<onOffrm, timeStamp, used, lapsed>>
          /\ \A j \in Slots : \A f \in Frame : ~f.old => net'[j][f] = net[j][f]
      BY <1>2, Reports DEF app_zb_task, IInv
    <2>2. ASSUME NEW j \in Slots
          PROVE  Binding(j)'
      <3>1. SrcEp[j] \in Devs
        BY ConstantsAssumption
      <3>2. WindowOpen(SrcEp[j])' => WindowOpen(SrcEp[j])
        BY <1>1, <2>1, <3>1, WindowCloses
      <3>3. Binding(j)
        BY DEF IInv, Remote
      <3>4. NewestIsWanted(j)' /\ GotIsDelivered(j)'
        BY <1>1, <2>1, <3>3 DEF Binding, NewestIsWanted, GotIsDelivered
      <3>5. Awaited(j)' = Awaited(j)
        BY <2>1 DEF Awaited
      <3>6. IsChased(j)' /\ IsBound(j)'
        BY <1>1, <2>1, <3>2, <3>3, <3>5 DEF Binding, IsChased, IsBound, Marked, To
      <3> QED
        BY <3>4, <3>6 DEF Binding
    <2> QED
      BY <2>2 DEF Remote
  <1>3. CASE ~(upsec + dt >= MinReport)
    <2>1. test_ble_trigger(utc')
      BY <1>3 DEF app_zb_task
    <2> DEFINE now == utc'
               ns == {n \in {m \in Reached(now) : HasTrigger(m)} : Switched(n)}
    <2>2. /\ onOffrm' = [n \in Devs |-> IF n \in ns THEN trigger[n] ELSE onOffrm[n]]
          /\ timeStamp' = [n \in Devs |-> IF n \in ns THEN now ELSE timeStamp[n]]
          /\ NewAndRepeated(ns, now)
      BY <2>1 DEF test_ble_trigger
    <2>3. \A n \in ns : Switched(n)
      OBVIOUS
    <2> HIDE DEF now, ns
    <2>4. onOffrm' \in [Devs -> State]
      BY DEF TypeOK
    <2>5. PICK taken :
            /\ net' = Sent(ns, taken)
            /\ \/ used' = Restarted(ns) /\ lapsed' = Lapsed(ns, taken)
               \/ \E r \in Slots :
                    /\ SrcEp[r] \notin ns
                    /\ used' = [Restarted(ns) EXCEPT ![r] = 1]
                    /\ lapsed' = [Lapsed(ns, taken) EXCEPT
                                    ![r] = @ \/ (Marked(r) /\ r \notin taken)]
      BY <2>2, <2>3, TriggerEffect DEF IInv
    <2>6. \A j \in Slots :
            /\ SrcEp[j] \in ns => /\ Restarted(ns)[j] = 1
            /\ SrcEp[j] \notin ns => /\ Restarted(ns)[j] = used[j]
                                    /\ Lapsed(ns, taken)[j] = lapsed[j]
      BY DEF Restarted, Lapsed
    <2>7. /\ DOMAIN Restarted(ns) = Slots /\ DOMAIN Lapsed(ns, taken) = Slots
          /\ Lapsed(ns, taken) \in [Slots -> BOOLEAN]
      BY DEF Restarted, Lapsed, IInv, TypeOK
    <2>8. ASSUME NEW j \in Slots
          PROVE  \/ used'[j] = Restarted(ns)[j] /\ lapsed'[j] = Lapsed(ns, taken)[j]
                 \/ /\ SrcEp[j] \notin ns /\ used'[j] = 1
                    /\ lapsed'[j] = \/ Lapsed(ns, taken)[j]
                                    \/ Marked(j) /\ j \notin taken
      BY <2>5, <2>7
    <2>9. ASSUME NEW j \in Slots
          PROVE  Binding(j)'
      <3>1. CASE SrcEp[j] \in ns
        <4>1. used'[j] = 1 /\ lapsed'[j] = Lapsed(ns, taken)[j]
          BY <2>6, <2>8, <3>1
        <4> QED
          BY <2>4, <2>5, <3>1, <4>1, CommandedBinding
      <3>2. CASE SrcEp[j] \notin ns
        <4>1. SrcEp[j] \in Devs
          BY ConstantsAssumption
        <4>2. /\ onOffrm'[SrcEp[j]] = onOffrm[SrcEp[j]]
              /\ timeStamp'[SrcEp[j]] = timeStamp[SrcEp[j]]
          BY <2>2, <3>2, <4>1
        <4>3. WindowOpen(SrcEp[j])' => WindowOpen(SrcEp[j])
          BY <1>1, <4>1, <4>2, WindowCloses
        <4>4. /\ lapsed[j] => lapsed'[j]
              /\ \/ used'[j] = used[j]
                 \/ used'[j] = 1 /\ (Marked(j) /\ j \notin taken => lapsed'[j])
          BY <2>6, <2>8, <3>2
        <4> QED
          BY <1>1, <2>4, <2>5, <3>2, <4>2, <4>3, <4>4, OtherBinding
      <3> QED
        BY <3>1, <3>2
    <2> QED
      BY <2>9 DEF Remote
  <1> QED
    BY <1>2, <1>3

\* A command is received: by the newest one the relay has the state wanted; an
\* older one is harmless as long as the newest has still to come.
LEMMA RemoteReceived ==
  ASSUME IInv, NEW j \in Slots, NEW f \in Frame, Received(j, f)
  PROVE  Remote'
  <1> DEFINE h == [f EXCEPT !.got = TRUE]
  <1>1. /\ UNCHANGED <<onOffrm, timeStamp, used, utc>>
        /\ delivered'[j] = f.val /\ f.val \in State /\ ~f.got /\ net[j][f] > 0
        /\ \A k \in Slots : k # j => delivered'[k] = delivered[k]
    BY DEF Received, clock, IInv, TypeOK
  <1>2. /\ \A k \in Slots : k # j => net'[k] = net[k] /\ lapsed'[k] = lapsed[k]
        /\ ~lapsed'[j] => ~lapsed[j] /\ ~Undone(j, f)
        /\ \A g \in Frame :
             /\ g # f /\ g # h => net'[j][g] = net[j][g]
             /\ g = h => net'[j][g] = net[j][g] + 1
             /\ g = f => net'[j][g] = net[j][g] - 1
    BY ReceivedEffect DEF IInv
  <1>3. h \in Frame /\ h.val = f.val /\ h.got /\ h.old = f.old
    BY DEF Frame
  <1>4. \A k \in Slots : Binding(k)
    BY DEF IInv, Remote
  <1>5. net[j] \in [Frame -> Nat]
    BY DEF IInv, TypeOK
  <1> HIDE DEF h
  <1>6. ASSUME NEW k \in Slots, k # j
        PROVE  Binding(k)'
    BY <1>1, <1>2, <1>4, <1>6 DEF Binding, NewestIsWanted, GotIsDelivered,
       IsChased, IsBound, WindowOpen, InWindow, Marked, Awaited, To
  <1>7. Binding(j)'
    <2>1. NewestIsWanted(j)'
      BY <1>1, <1>2, <1>3, <1>4, <1>5 DEF Binding, NewestIsWanted
    <2>2. GotIsDelivered(j)'
      <3> SUFFICES ASSUME NEW g \in Frame, ~lapsed'[j], ~g.old, g.got, net'[j][g] > 0
                   PROVE  f.val = g.val
        BY <1>1 DEF GotIsDelivered
      <3>1. g.val = onOffrm[SrcEp[j]]
        BY <1>1, <2>1 DEF NewestIsWanted
      <3>2. CASE ~f.old
        BY <1>1, <1>4, <3>1, <3>2 DEF Binding, NewestIsWanted
      <3>3. CASE f.old
        <4>1. g # f /\ g # h
          BY <1>1, <1>3, <3>3
        <4>2. net[j][g] > 0
          BY <1>2, <4>1
        <4> QED
          BY <1>2, <3>1, <3>3, <4>2 DEF Undone
      <3> QED
        BY <3>2, <3>3
    <2>3. IsChased(j)'
      <3> SUFFICES ASSUME ~lapsed'[j], f.val # onOffrm[SrcEp[j]]
                   PROVE  Marked(j)' \/ Awaited(j)'
        BY <1>1 DEF IsChased
      <3>1. f.old
        BY <1>1, <1>4 DEF Binding, NewestIsWanted
      <3>2. Awaited(j) \/ Marked(j)
        BY <1>2, <3>1 DEF Undone
      <3>3. Marked(j)' = Marked(j)
        BY <1>1 DEF Marked
      <3>4. Awaited(j) => Awaited(j)'
        <4>1. \A g \in Frame : ~g.old => net'[j][g] = net[j][g]
          BY <1>2, <1>3, <3>1
        <4> QED
          BY <4>1 DEF Awaited
      <3> QED
        BY <3>2, <3>3, <3>4
    <2>4. IsBound(j)'
      BY <1>1, <1>4 DEF Binding, IsBound, To
    <2> QED
      BY <2>1, <2>2, <2>3, <2>4 DEF Binding
  <1> QED
    BY <1>6, <1>7 DEF Remote

\* A frame to j is confirmed: k may be another endpoint of its node.
LEMMA RemoteConfirm ==
  ASSUME IInv, NEW j \in Slots, NEW f \in Frame, NEW status \in Statuses,
         Confirmed(j, f, status)
  PROVE  Remote'
  <1>1. /\ UNCHANGED <<onOffrm, utc, delivered>>
        /\ net[j][f] > 0
        /\ status = "APS_STATUS_SUCCESS" => f.got \/ f = Report
    BY DEF Confirmed, clock
  <1>2. /\ \A k \in Slots : k # j => net'[k] = net[k]
        /\ net'[j][f] = net[j][f] - 1
        /\ \A g \in Frame : g # f => net'[j][g] = net[j][g]
        /\ \A k \in Slots : ~lapsed'[k] =>
             /\ ~lapsed[k] /\ ~Overwritten(k, j, f, status)
             /\ k = j => ~Unnoted(j, f, status)
        /\ \A m \in Devs : timeStamp'[m] = timeStamp[m] \/ timeStamp'[m] = 0
        /\ \A k \in Slots :
             \/ used'[k] = used[k] /\ ~(joined /\ Confirms(j, k))
             \/ /\ joined /\ Confirms(j, k)
                /\ \/ used'[k] = 1 /\ (NoAck(status) => ~WindowOpen(SrcEp[j])')
                   \/ used'[k] = DstEp[j] + 1 /\ NoAck(status)
    BY ConfirmedEffect DEF IInv
  <1>3. ASSUME NEW k \in Slots
        PROVE  Binding(k)'
    <2>1. Binding(k) /\ SrcEp[k] \in Devs /\ net[j] \in [Frame -> Nat]
      BY ConstantsAssumption DEF IInv, Remote, TypeOK
    <2>2. \A g \in Frame : net'[k][g] > 0 => net[k][g] > 0
      BY <1>1, <1>2, <2>1
    <2>3. NewestIsWanted(k)' /\ GotIsDelivered(k)'
      BY <1>1, <1>2, <2>1, <2>2 DEF Binding, NewestIsWanted, GotIsDelivered
    <2>4. IsBound(k)'
      <3>1. CASE used'[k] = used[k] \/ used'[k] = 1
        BY <2>1, <3>1 DEF Binding, IsBound, To
      <3>2. CASE used'[k] = DstEp[j] + 1 /\ Confirms(j, k)
        <4>1. used'[k] - 1 = DstEp[j]
          BY <3>2, ConstantsAssumption
        <4>2. j \in To(k, DstEp[j])
          BY <3>2 DEF Confirms, To
        <4> QED
          BY <4>1, <4>2 DEF IsBound, To
      <3> QED
        BY <1>2, <3>1, <3>2
    <2>5. ASSUME WindowOpen(SrcEp[k])', ~lapsed'[k],
                 delivered[k] # onOffrm[SrcEp[k]]
          PROVE  Marked(k)' \/ Awaited(k)'
      <3>1. Marked(k) \/ Awaited(k)
        <4>1. WindowOpen(SrcEp[k])
          BY <1>1, <1>2, <2>1, <2>5 DEF WindowOpen, InWindow
        <4> QED
          BY <1>2, <2>1, <2>5, <4>1 DEF Binding, IsChased
      <3>2. CASE ~(k = j /\ ~f.old /\ ~f.got) /\ Awaited(k)
        <4>1. PICK g \in Frame : ~g.old /\ ~g.got /\ net[k][g] > 0
          BY <3>2 DEF Awaited
        <4>2. net'[k][g] = net[k][g]
          BY <1>2, <3>2, <4>1
        <4> QED
          BY <4>1, <4>2 DEF Awaited
      <3>3. CASE k = j /\ ~f.old /\ ~f.got
        <4>1. joined /\ status \in Unanswered
          BY <1>2, <2>5, <3>3 DEF Unnoted
        <4>2. NoAck(status) /\ Confirms(j, k)
          BY <3>3, <4>1 DEF NoAck, Unanswered, Confirms
        <4>3. used'[k] = DstEp[k] + 1
          BY <1>2, <2>5, <3>3, <4>1, <4>2
        <4> QED
          BY <4>3 DEF Marked
      <3>4. CASE ~(k = j /\ ~f.old /\ ~f.got) /\ Marked(k)
        <4>1. CASE ~(joined /\ Confirms(j, k))
          BY <1>2, <3>4, <4>1 DEF Marked
        <4>2. CASE joined /\ Confirms(j, k)
          <5>1. k = j /\ (f.old => status \in Unanswered)
            BY <1>2, <2>5, <3>4, <4>2 DEF Overwritten
          <5>2. CASE f.old
            <6>1. NoAck(status)
              BY <5>1, <5>2 DEF NoAck, Unanswered
            <6>2. used'[k] = DstEp[k] + 1
              BY <1>2, <2>5, <4>2, <5>1, <6>1
            <6> QED
              BY <6>2 DEF Marked
          <5>3. CASE ~f.old
            <6>1. f.got
              BY <3>4, <5>1, <5>3
            <6>2. f.val = onOffrm[SrcEp[j]]
              BY <1>1, <2>1, <5>1, <5>3 DEF Binding, NewestIsWanted
            <6>3. delivered[j] = f.val
              BY <1>1, <1>2, <2>1, <2>5, <5>1, <5>3, <6>1 DEF Binding, GotIsDelivered
            <6> QED
              BY <2>5, <5>1, <6>2, <6>3
          <5> QED
            BY <5>2, <5>3
        <4> QED
          BY <4>1, <4>2
      <3> QED
        BY <3>1, <3>2, <3>3, <3>4
    <2>6. IsChased(k)'
      BY <1>1, <2>5 DEF IsChased
    <2> QED
      BY <2>3, <2>4, <2>6 DEF Binding
  <1> QED
    BY <1>3 DEF Remote

LEMMA RemoteStep ==
  ASSUME IInv, Next, TypeOK'
  PROVE  Remote'
  <1>1. ASSUME NEW n \in Devs, NEW v \in State, app_onOffCb(n, v)
        PROVE  Remote'
    BY <1>1, RemoteUpdate DEF app_onOffCb, clock
  <1>2. ASSUME NEW n \in Devs, NEW v \in State, Advertised(n, v)
        PROVE  Remote'
    BY <1>2, RemoteSame DEF Advertised, clock
  <1>3. ASSUME NEW n \in Devs, NEW only \in BOOLEAN, NEW t \in Times, NEW w \in Times,
               app_onoff_onWithTimedOffProcess(n, only, t, w)
        PROVE  Remote'
    <2>1. UNCHANGED <<utc, delivered>>
      BY <1>3 DEF app_onoff_onWithTimedOffProcess, clock
    <2>2. CASE offWait[n] > 0 /\ onOff[n] = OFF
      BY <1>3, <2>1, <2>2, RemoteSame DEF app_onoff_onWithTimedOffProcess
    <2>3. CASE ~(offWait[n] > 0 /\ onOff[n] = OFF)
      <3>1. app_onOffUpdate(n, ON, Larger(onTime[n], t), w) /\ ON \in State
        BY <1>3, <2>3 DEF app_onoff_onWithTimedOffProcess, State
      <3> QED
        BY <2>1, <3>1, RemoteUpdate
    <2> QED
      BY <2>2, <2>3
  <1>4. ASSUME NEW n \in Devs, app_onWithTimedOffTimerCb(n)
        PROVE  Remote'
    <2>1. UNCHANGED <<utc, delivered>>
      BY <1>4 DEF app_onWithTimedOffTimerCb, clock
    <2>2. CASE Counting(n, ON, onTime[n]) /\ onTime[n] = 1
      <3>1. app_onOffUpdate(n, OFF, 0, 0) /\ OFF \in State
        BY <1>4, <2>2 DEF app_onWithTimedOffTimerCb, State
      <3> QED
        BY <2>1, <3>1, RemoteUpdate
    <2>3. CASE ~(Counting(n, ON, onTime[n]) /\ onTime[n] = 1)
      BY <1>4, <2>1, <2>3, RemoteSame DEF app_onWithTimedOffTimerCb
    <2> QED
      BY <2>2, <2>3
  <1>5. ASSUME NEW dt \in 0 .. MaxStep, app_zb_task(dt)
        PROVE  Remote'
    BY <1>5, RemoteTurn
  <1>6. CASE app_zb_task_offline
    BY <1>6, RemoteSame DEF app_zb_task_offline
  <1>7. ASSUME NEW j \in Slots, NEW f \in Frame, Received(j, f)
        PROVE  Remote'
    BY <1>7, RemoteReceived
  <1>10. ASSUME NEW j \in Slots, NEW f \in Frame, NEW status \in Statuses,
                Confirmed(j, f, status)
         PROVE  Remote'
    BY <1>10, RemoteConfirm
  <1>8. CASE Leave
    BY <1>8, RemoteSame DEF Leave, clock
  <1>9. CASE Rejoin
    BY <1>9, RemoteSame DEF Rejoin, clock
  <1> QED
    BY <1>1, <1>2, <1>3, <1>4, <1>5, <1>6, <1>7, <1>8, <1>9, <1>10 DEF Next

-----------------------------------------------------------------------------
(* Theorems *)

LEMMA InitIInv == Init => IInv
  <1> SUFFICES ASSUME Init PROVE IInv
    OBVIOUS
  <1>1. TypeOK
    <2>1. 0 \in 0 .. Forever /\ 0 \in 0 .. MinReport - 1 /\ OFF \in State
      BY ConstantsAssumption DEF State
    <2>2. count \in [cmds : Nat, reports : Nat, leaves : Nat]
      BY DEF Init
    <2> QED
      BY <2>1, <2>2 DEF Init, TypeOK
  <1>2. Remote
    <2> SUFFICES ASSUME NEW j \in Slots PROVE Binding(j)
      BY DEF Remote
    <2>1. /\ SrcEp[j] \in Devs /\ used[j] = 1
          /\ \A f \in Frame : net[j][f] = 0
          /\ delivered[j] = OFF
      BY ConstantsAssumption DEF Init
    <2>2. onOffrm[SrcEp[j]] = OFF
      BY <2>1 DEF Init
    <2> QED
      BY <2>1, <2>2 DEF Binding, NewestIsWanted, GotIsDelivered, IsChased, IsBound
  <1>3. OffWithoutPermission /\ NoTimeLeftWhenOff /\ Armed
    BY DEF Init, OffWithoutPermission, NoTimeLeftWhenOff, Armed
  <1> QED
    BY <1>1, <1>2, <1>3 DEF IInv

\* The invariant is inductive: every action of the cluster keeps it.
THEOREM Invariance == Spec => []IInv
  <1>1. IInv /\ [Next]_vars => IInv'
    <2> SUFFICES ASSUME IInv, [Next]_vars PROVE IInv'
      OBVIOUS
    <2>1. CASE Next
      BY <2>1, TypeStep, LocalStep, RemoteStep DEF IInv
    <2>2. CASE UNCHANGED vars
      <3>1. TypeOK'
        BY <2>2 DEF IInv, TypeOK, vars, local, remote, ble, clock
      <3>2. OffWithoutPermission' /\ NoTimeLeftWhenOff' /\ Armed'
        BY <2>2, <3>1, LocalSame DEF vars, remote
      <3>3. Remote'
        BY <2>2, RemoteSame DEF vars, clock
      <3> QED
        BY <3>1, <3>2, <3>3 DEF IInv
    <2> QED
      BY <2>1, <2>2
  <1> QED
    BY <1>1, InitIInv, PTL DEF Spec

\* Types hold, and no binding is ever deleted by its mark.
THEOREM TypeCorrect == Spec => []TypeOK
  <1>1. IInv => TypeOK
    BY DEF IInv
  <1> QED
    BY <1>1, Invariance, PTL

\* A withdrawn permission turns the wanted state off, for every interleaving
\* of Zigbee commands, timers and advertisements.
THEOREM PermissionHolds == Spec => []OffWithoutPermission
  <1>1. IInv => OffWithoutPermission
    BY DEF IInv
  <1> QED
    BY <1>1, Invariance, PTL

\* A repeat goes to an endpoint that its device is bound to on that node.
THEOREM RepeatsWhereBound == Spec => []RepeatsToBoundEndpoint
  <1>1. IInv => RepeatsToBoundEndpoint
    BY DEF IInv, Remote, Binding, IsBound, RepeatsToBoundEndpoint
  <1> QED
    BY <1>1, Invariance, PTL

\* No command is lost while repeats last, but in the five ways of "lapsed".
THEOREM NothingLost == Spec => []Chased
  <1>1. IInv => Chased
    BY DEF IInv, Remote, Binding, IsChased, Chased
  <1> QED
    BY <1>1, Invariance, PTL

\* A limited time is always counted down by a scheduled timer.
THEOREM TimedIsArmed == Spec => []Armed
  <1>1. IInv => Armed
    BY DEF IInv
  <1> QED
    BY <1>1, Invariance, PTL
=============================================================================
