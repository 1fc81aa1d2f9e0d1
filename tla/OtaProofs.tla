------------------------------- MODULE OtaProofs -------------------------------
(***************************************************************************)
(* Proofs about OtaClient, for every length of the image and every number  *)
(* of versions and retries: the bridge always has a whole image to start,  *)
(* and a timer that is left off has one of the known causes.               *)
(***************************************************************************)
EXTENDS OtaClient, TLAPS

\* Both banks have a flag and an image, and the flagged one is executed.
BanksOK ==
  /\ started \in [{0, 1} -> BOOLEAN]
  /\ running \in {0, 1} /\ running = BootAddr(started)
  /\ image = [b \in {0, 1} |-> image[b]]

\* A bank that is not executed has a flag only when no download is under way
\* and none may be resumed.
FlagMeansOver ==
  started[Other] =>
    imageUpgradeStatus = "normal" /\ downloadFileVer = NoVer /\ nv.hdr = None

Record(n) == n = [hdr |-> n.hdr, hasCode |-> n.hasCode, code |-> n.code]

\* The inductive invariant of the banks.
IInv == BanksOK /\ BootsWholeImage /\ FlagMeansOver /\ Record(nv)

-----------------------------------------------------------------------------
\* A start from banks that may be started, with items that do not resume a
\* download into a bank with a flag.
LEMMA BootStep ==
  ASSUME NEW s \in [{0, 1} -> BOOLEAN], NEW n, Boot(s, n), Record(n),
         s[0] \/ s[1], s[0] /\ s[1] => n.hdr = None,
         image' = [b \in {0, 1} |-> image'[b]],
         \A b \in {0, 1} : s[b] => Whole(image'[b])
  PROVE  IInv'
<1>1. started' = s /\ nv' = n /\ running' = BootAddr(s) /\ imageUpgradeStatus' = "normal"
      /\ downloadFileVer' = IF Saved(n) THEN n.hdr.ver ELSE NoVer
  BY DEF Boot
<1>2. BanksOK' /\ Record(nv)'
  BY <1>1 DEF BanksOK, BootAddr, Record
<1>3. BootsWholeImage'
  BY <1>1 DEF BootsWholeImage, BootAddr
<1>4. FlagMeansOver'
  BY <1>1 DEF FlagMeansOver, Other, BootAddr, Saved
<1> QED
  BY <1>2, <1>3, <1>4 DEF IInv

\* A step that leaves the banks alone, and has no download to resume while
\* both have a flag.
LEMMA KeepStep ==
  ASSUME IInv, UNCHANGED banks, Record(nv'),
         started[Other] => /\ imageUpgradeStatus' = "normal"
                           /\ downloadFileVer' = NoVer /\ nv'.hdr = None
  PROVE  IInv'
BY DEF IInv, banks, BanksOK, BootsWholeImage, FlagMeansOver, Record, Other

\* A step that keeps what may be resumed as it is.
LEMMA QuietStep ==
  ASSUME IInv, UNCHANGED <<banks, downloadFileVer, nv>>,
         imageUpgradeStatus # "normal" \/ imageUpgradeStatus' = "normal"
  PROVE  IInv'
<1>1. Record(nv') /\ UNCHANGED banks
  BY DEF IInv, banks, Record
<1>2. started[Other] => /\ imageUpgradeStatus' = "normal"
                        /\ downloadFileVer' = NoVer /\ nv'.hdr = None
  BY DEF IInv, FlagMeansOver
<1> QED
  BY <1>1, <1>2, KeepStep

\* The end of an update starts the new image, if it is whole.
LEMMA FinishStep ==
  ASSUME IInv, NEW t, NEW others, Finish(t, others)
  PROVE  IInv'
<1>1. ASSUME NewImageValid(image[Other]), UNCHANGED image,
             NEW old \in BOOLEAN, Boot(Switch(old), NoItems)
      PROVE  IInv'
  <2>1. Other \in {0, 1} /\ running = 1 - Other /\ Other # running
    BY DEF IInv, BanksOK, Other
  <2>2. Switch(old) \in [{0, 1} -> BOOLEAN] /\ (Switch(old)[0] \/ Switch(old)[1])
    BY <2>1 DEF Switch
  <2>3. \A b \in {0, 1} : Whole(image'[b])
    BY <1>1, <2>1 DEF IInv, BootsWholeImage, NewImageValid
  <2>4. Record(NoItems) /\ NoItems.hdr = None
    BY DEF Record, NoItems
  <2>5. image' = [b \in {0, 1} |-> image'[b]]
    BY <1>1 DEF IInv, BanksOK
  <2> QED
    BY <1>1, <2>2, <2>3, <2>4, <2>5, BootStep
<1>2. ASSUME UNCHANGED <<downloadFileVer, banks>>, nv' = NoItems, imageUpgradeStatus' = "normal"
      PROVE  IInv'
  <2>1. Record(NoItems) /\ NoItems.hdr = None
    BY DEF Record, NoItems
  <2> QED
    BY <1>2, <2>1, KeepStep DEF IInv, FlagMeansOver
<1> QED
  BY <1>1, <1>2 DEF Finish

\* A failed update keeps what was received, or forgets it.
LEMMA EndStep ==
  ASSUME IInv, UNCHANGED banks, Abort \/ Invalid
  PROVE  IInv'
<1>1. CASE Abort
  BY <1>1, QuietStep DEF Abort
<1>2. CASE Invalid
  <2>1. Record(NoItems) /\ NoItems.hdr = None
    BY DEF Record, NoItems
  <2> QED
    BY <1>2, <2>1, KeepStep DEF Invalid
<1> QED
  BY <1>1, <1>2

-----------------------------------------------------------------------------
LEMMA ExpiresStep ==
  ASSUME IInv, Expires
  PROVE  IInv'
<1>1. CASE PeriodicQuery
  BY <1>1, QuietStep DEF PeriodicQuery, session, flash, banks
<1>2. CASE IeeeAddrRspWait
  <2>1. CASE Abort
    BY <1>2, <2>1, EndStep DEF IeeeAddrRspWait
  <2>2. CASE UNCHANGED <<session, nv>>
    BY <1>2, <2>2, QuietStep DEF IeeeAddrRspWait, session
  <2> QED
    BY <1>2, <2>1, <2>2 DEF IeeeAddrRspWait
<1>3. CASE ImageBlockRspWait \/ SendImageBlockReqDelay \/ ImageBlockWaitCb
  <2>1. UNCHANGED <<session, flash>>
    BY <1>3 DEF ImageBlockRspWait, SendImageBlockReqDelay, ImageBlockWaitCb, Posts
  <2> QED
    BY <2>1, QuietStep DEF session, flash, banks
<1>4. CASE UpgradeWaitCb
  <2>1. CASE Finish("off", UNCHANGED <<tasks, retries>>)
    BY <2>1, FinishStep
  <2>2. CASE UNCHANGED <<session, flash>>
    BY <2>2, QuietStep DEF session, flash, banks
  <2> QED
    BY <1>4, <2>1, <2>2 DEF UpgradeWaitCb
<1> QED
  BY <1>1, <1>2, <1>3, <1>4 DEF Expires

LEMMA TaskStep ==
  ASSUME IInv, Task
  PROVE  IInv'
<1>1. UNCHANGED banks
  BY DEF Task, Run
<1>2. CASE SaveUpdateInfo
  <2>1. nv' = nv \/ nv' = [nv EXCEPT !.hasCode = TRUE, !.code = clientInfo]
    BY <1>2 DEF SaveUpdateInfo
  <2>2. Record(nv') /\ nv'.hdr = nv.hdr
    BY <2>1 DEF IInv, Record
  <2>3. UNCHANGED session
    BY <1>2 DEF SaveUpdateInfo
  <2> QED
    BY <1>1, <2>2, <2>3, KeepStep DEF IInv, FlagMeansOver, session
<1>3. CASE BlockRspTimeout
  BY <1>1, <1>3, EndStep DEF BlockRspTimeout
<1>4. CASE UNCHANGED <<session, nv>>
  BY <1>1, <1>4, QuietStep DEF session
<1> QED
  BY <1>2, <1>3, <1>4 DEF Task, UpgradeWithWait, IeeeAddrReqSend

-----------------------------------------------------------------------------
\* A download from the start begins with the flag: the bank that is written
\* may no longer be started.
LEMMA EraseStep ==
  ASSUME IInv
  PROVE  /\ EraseFlag \in [{0, 1} -> BOOLEAN] /\ EraseFlag[running] /\ ~EraseFlag[Other]
         /\ BootAddr(EraseFlag) = running
         /\ \A n \in Blocks : EraseFirst(n) =>
               /\ image' = [b \in {0, 1} |-> image'[b]]
               /\ image'[running] = image[running]
<1>1. Other \in {0, 1} /\ running = 1 - Other /\ Other # running
  BY DEF IInv, BanksOK, Other
<1>2. started[running]
  BY DEF IInv, BootsWholeImage
<1>3. EraseFlag \in [{0, 1} -> BOOLEAN] /\ EraseFlag[running] /\ ~EraseFlag[Other]
  BY <1>1, <1>2 DEF IInv, BanksOK, EraseFlag
<1>4. BootAddr(EraseFlag) = running
  BY <1>1, <1>3 DEF BootAddr
<1>5. ASSUME NEW n \in Blocks, EraseFirst(n)
      PROVE  image' = [b \in {0, 1} |-> image'[b]] /\ image'[running] = image[running]
  BY <1>1, <1>5 DEF IInv, BanksOK, EraseFirst
<1> QED
  BY <1>3, <1>4, <1>5

LEMMA FromStartStep ==
  ASSUME IInv, NEW v, NEW n, NEW memory, FromStart(v, n, memory)
  PROVE  IInv'
<1>1. Body \in Blocks
  BY OtaAssumption DEF Blocks
<1>2. EraseFirst(Body) /\ started' = EraseFlag /\ UNCHANGED <<running, nv>>
  BY DEF FromStart
<1>3. BanksOK'
  BY <1>1, <1>2, EraseStep DEF IInv, BanksOK
<1>4. BootsWholeImage'
  BY <1>1, <1>2, EraseStep DEF IInv, BanksOK, BootsWholeImage, Other
<1>5. FlagMeansOver'
  BY <1>2, EraseStep DEF FlagMeansOver, Other
<1>6. Record(nv)'
  BY <1>2 DEF IInv, Record
<1> QED
  BY <1>3, <1>4, <1>5, <1>6 DEF IInv

\* Power fails while the bank is erased.
LEMMA EraseInterruptedStep ==
  ASSUME IInv, NEW v, EraseInterrupted(v)
  PROVE  IInv'
<1>1. PICK n \in Blocks : EraseFirst(n)
  BY DEF EraseInterrupted
<1>2. Boot(EraseFlag, nv)
  BY DEF EraseInterrupted
<1>3. running \in {0, 1} /\ Other \in {0, 1} /\ Other # running /\ running = 1 - Other
  BY DEF IInv, BanksOK, Other
<1>4. \A b \in {0, 1} : EraseFlag[b] => Whole(image'[b])
  BY <1>1, <1>3, EraseStep DEF IInv, BootsWholeImage
<1>5. (EraseFlag[0] \/ EraseFlag[1]) /\ ~(EraseFlag[0] /\ EraseFlag[1])
  BY <1>3, EraseStep
<1>6. Record(nv)
  BY DEF IInv
<1> QED
  BY <1>1, <1>2, <1>4, <1>5, <1>6, EraseStep, BootStep

LEMMA RestartStep ==
  ASSUME IInv, Restart
  PROVE  IInv'
<1>1. Boot(started, nv) /\ UNCHANGED image
  BY DEF Restart
<1>2. started \in [{0, 1} -> BOOLEAN] /\ (started[0] \/ started[1])
  BY DEF IInv, BanksOK, BootsWholeImage
<1>3. started[0] /\ started[1] => nv.hdr = None
  BY DEF IInv, BanksOK, FlagMeansOver, Other
<1>4. image' = [b \in {0, 1} |-> image'[b]] /\ \A b \in {0, 1} : started[b] => Whole(image'[b])
  BY <1>1 DEF IInv, BanksOK, BootsWholeImage
<1>5. Record(nv)
  BY DEF IInv
<1> QED
  BY <1>1, <1>2, <1>3, <1>4, <1>5, BootStep

-----------------------------------------------------------------------------
\* Data goes to the bank that is not executed, which has no flag.
LEMMA DataStep ==
  ASSUME IInv, NEW n, NEW v, NEW off, imageUpgradeStatus = "downloading", Data(n, v, off)
  PROVE  IInv'
<1>1. ~started[Other] /\ Other \in {0, 1} /\ running \in {0, 1} /\ Other # running /\ running = 1 - Other
  BY DEF IInv, FlagMeansOver, BanksOK, Other
<1>2. UNCHANGED <<started, running>>
  BY DEF Data
<1>3. PICK img : image' = [image EXCEPT ![Other] = img]
  BY DEF Data
<1>4. BanksOK'
  BY <1>1, <1>2, <1>3 DEF IInv, BanksOK
<1>5. BootsWholeImage'
  <2>1. image'[running] = image[running]
    BY <1>1, <1>3 DEF IInv, BanksOK
  <2> QED
    BY <1>1, <1>2, <2>1 DEF IInv, BootsWholeImage
<1>6. FlagMeansOver'
  BY <1>1, <1>2 DEF FlagMeansOver, Other
<1>7. Record(nv)'
  <2>1. nv' = nv \/ nv' = NoItems \/ nv' = [nv EXCEPT !.hdr = [ver |-> v, known |-> known]]
    BY DEF Data, Invalid
  <2> QED
    BY <2>1 DEF IInv, Record, NoItems
<1> QED
  BY <1>4, <1>5, <1>6, <1>7 DEF IInv

LEMMA AnswerStep ==
  ASSUME IInv, NEW r, Answer(r)
  PROVE  IInv'
<1>0. PICK n \in {net, net \ {r}} :
        \/ MatchDescRsp(n)
        \/ NwkAddrRsp(n)
        \/ \E ok \in BOOLEAN : IeeeAddrRsp(n, ok)
        \/ NoNewImage(n)
        \/ \E v \in Offers : QueryNextImageRsp(n, v)
        \/ \E v \in Offers : ImageBlockRsp(n, v, r.off)
        \/ WaitForData(n)
        \/ ServerAborts(n)
        \/ \E when \in {"now", "later", "unknown"} : UpgradeEndRsp(n, when)
  BY DEF Answer
<1>1. CASE MatchDescRsp(n) \/ NwkAddrRsp(n) \/ NoNewImage(n) \/ WaitForData(n)
  <2>1. UNCHANGED <<session, flash>>
    BY <1>1 DEF MatchDescRsp, NwkAddrRsp, NoNewImage, WaitForData
  <2> QED
    BY <2>1, QuietStep DEF session, flash, banks
<1>2. ASSUME NEW ok, IeeeAddrRsp(n, ok) PROVE IInv'
  <2>1. UNCHANGED banks
    BY <1>2 DEF IeeeAddrRsp
  <2>2. CASE Abort
    BY <2>1, <2>2, EndStep
  <2>3. CASE UNCHANGED <<imageUpgradeStatus, downloadFileVer, nv>>
    BY <2>1, <2>3, QuietStep
  <2> QED
    BY <1>2, <2>2, <2>3 DEF IeeeAddrRsp, session
<1>3. ASSUME NEW v \in Offers, QueryNextImageRsp(n, v) PROVE IInv'
  <2>1. CASE Finish("off", imageBlockRetry' = 0 /\ UNCHANGED <<tasks, upgradeEndRetry, addrCnt>>)
    BY <2>1, FinishStep
  <2>2. CASE Resumable(v) /\ imageUpgradeStatus' = "downloading" /\ UNCHANGED <<downloadFileVer, flash>>
    <3>1. ~started[Other]
      BY <2>2, OtaAssumption DEF Resumable, IInv, FlagMeansOver
    <3> QED
      BY <2>2, <3>1, KeepStep DEF IInv, flash, Record
  <2>3. CASE \E memory \in BOOLEAN : FromStart(v, n, memory)
    BY <2>3, FromStartStep
  <2> QED
    BY <1>3, <2>1, <2>2, <2>3 DEF QueryNextImageRsp
<1>4. ASSUME NEW v \in Offers, ImageBlockRsp(n, v, r.off) PROVE IInv'
  <2>1. CASE Data(n, v, r.off)
    BY <1>4, <2>1, DataStep DEF ImageBlockRsp
  <2>2. CASE imageUpgradeStatus' = "normal" /\ UNCHANGED <<downloadFileVer, flash>>
    BY <2>2, QuietStep DEF flash, banks
  <2> QED
    BY <1>4, <2>1, <2>2 DEF ImageBlockRsp
<1>5. CASE ServerAborts(n)
  BY <1>5, EndStep DEF ServerAborts
<1>6. ASSUME NEW when, UpgradeEndRsp(n, when) PROVE IInv'
  <2>1. imageUpgradeStatus # "normal"
    BY <1>6 DEF UpgradeEndRsp
  <2>2. CASE Finish(timer, UNCHANGED <<tasks, retries>>)
    BY <2>2, FinishStep
  <2>3. CASE UNCHANGED <<downloadFileVer, flash>>
    BY <2>1, <2>3, QuietStep DEF flash, banks
  <2> QED
    BY <1>6, <2>2, <2>3 DEF UpgradeEndRsp
<1> QED
  BY <1>0, <1>1, <1>2, <1>3, <1>4, <1>5, <1>6

-----------------------------------------------------------------------------
LEMMA InitBanks == Init => IInv
<1> SUFFICES ASSUME Init PROVE IInv
  OBVIOUS
<1>0. started = [b \in {0, 1} |-> b = 0] /\ running = 0 /\ nv = NoItems
      /\ image = [b \in {0, 1} |-> IF b = 0 THEN Image(Factory) ELSE Blank]
  BY DEF Init
<1>1. BanksOK
  BY <1>0 DEF BanksOK, BootAddr
<1>4. FlagMeansOver
  <2>1. Other = 1
    BY <1>0 DEF Other
  <2>2. started[1] = (1 = 0)
    BY <1>0
  <2>3. 1 # 0
    OBVIOUS
  <2>4. ~started[1]
    BY <2>2, <2>3
  <2>5. ~started[Other]
    BY <2>1, <2>4
  <2> QED
    BY <2>5 DEF FlagMeansOver
<1>2. BootsWholeImage
  BY <1>0, OtaAssumption DEF BootsWholeImage, Whole
<1>3. Record(nv)
  BY DEF Init, Record, NoItems
<1> QED
  BY <1>1, <1>2, <1>3, <1>4 DEF IInv

LEMMA NextBanks == IInv /\ [Next]_vars => IInv'
<1> SUFFICES ASSUME IInv, [Next]_vars PROVE IInv'
  OBVIOUS
<1>1. CASE Answered
  BY <1>1, AnswerStep DEF Answered
<1>2. CASE ImageNotify \/ Lost \/ Rejoined \/ UNCHANGED vars
  <2>1. UNCHANGED <<session, flash>>
    BY <1>2 DEF ImageNotify, Lost, Rejoined, vars
  <2> QED
    BY <2>1, QuietStep DEF session, flash, banks
<1> QED
  BY <1>1, <1>2, ExpiresStep, TaskStep, RestartStep, EraseInterruptedStep DEF Next

\* The inductive invariant holds.
THEOREM Invariance == Spec => []IInv
BY InitBanks, NextBanks, PTL DEF Spec

\* Whatever was lost, repeated, resumed or interrupted, the bank that runs and
\* every bank that may be started holds one whole image.
THEOREM AlwaysBoots == Spec => []BootsWholeImage
<1>1. IInv => BootsWholeImage
  BY DEF IInv
<1> QED
  BY <1>1, Invariance, PTL

-----------------------------------------------------------------------------
(* The timer *)

\* A timer that waits for what is over by now has missed its cause.
OverIsNoted ==
  /\ timer = "wait" /\ imageUpgradeStatus # "downloading" => cutOff # "no"
  /\ timer = "upgrade" /\ imageUpgradeStatus \notin Ending => cutOff # "no"

\* The inductive invariant of the timer.
AskInv == tasks \in Seq(TaskNames) /\ KeepsAsking /\ OverIsNoted

-----------------------------------------------------------------------------
\* What a step may do to the timer: arm it anew, ...
LEMMA ArmStep ==
  ASSUME tasks' \in Seq(TaskNames),
         \/ timer' \in {"query", "addr", "block", "delay"}
         \/ timer' = "wait" /\ imageUpgradeStatus' = "downloading"
         \/ timer' = "upgrade" /\ imageUpgradeStatus' \in Ending
  PROVE  AskInv'
BY DEF AskInv, KeepsAsking, OverIsNoted

\* ... leave it with a cause, ...
LEMMA NotedStep ==
  ASSUME tasks' \in Seq(TaskNames), cutOff' # "no"
  PROVE  AskInv'
BY DEF AskInv, KeepsAsking, OverIsNoted

\* ... leave it to a task, ...
LEMMA PostStep ==
  ASSUME AskInv, NEW t \in TaskNames, t # "save", tasks' = Append(tasks, t), timer' = "off"
  PROVE  AskInv'
<1>1. tasks' \in Seq(TaskNames) /\ Len(tasks) + 1 \in 1 .. Len(tasks') /\ tasks'[Len(tasks) + 1] = t
  BY DEF AskInv
<1> QED
  BY <1>1 DEF AskInv, KeepsAsking, OverIsNoted

\* ... or leave it as it is.
LEMMA SameStep ==
  ASSUME AskInv, UNCHANGED <<timer, cutOff, tasks>>,
         imageUpgradeStatus' = imageUpgradeStatus
  PROVE  AskInv'
BY DEF AskInv, KeepsAsking, OverIsNoted

LEMMA PacedStep ==
  ASSUME tasks' \in Seq(TaskNames), NEW n, NEW v, NEW off, NEW paced, PacedBlockReq(n, v, off, paced)
  PROVE  AskInv'
<1>1. timer' \in {"block", "delay"}
  BY DEF PacedBlockReq, SendBlockReq, Arm
<1> QED
  BY <1>1, ArmStep

\* ota_queryStart finds the timer off, with the query, or busy.
LEMMA QueryStartStep ==
  ASSUME tasks' \in Seq(TaskNames), NEW t, QueryStart(t)
  PROVE  AskInv'
<1>1. CASE t \in {"off", "query"}
  BY <1>1, ArmStep DEF QueryStart
<1>2. CASE t \notin {"off", "query"}
  BY <1>2, NotedStep DEF QueryStart
<1> QED
  BY <1>1, <1>2

LEMMA FinishAsks ==
  ASSUME AskInv, tasks' = tasks \/ tasks' = <<>>, NEW t, NEW others, Finish(t, others)
  PROVE  AskInv'
<1>0. tasks' \in Seq(TaskNames)
  <2>1. <<>> \in Seq(TaskNames)
    OBVIOUS
  <2> QED
    BY <2>1 DEF AskInv
<1>1. CASE cutOff' = "refused"
  BY <1>0, <1>1, NotedStep
<1>2. CASE timer' = "query"
  BY <1>0, <1>2, ArmStep
<1> QED
  BY <1>1, <1>2 DEF Finish, Boot

LEMMA ExpiresAsks ==
  ASSUME AskInv, Expires
  PROVE  AskInv'
<1>0. tasks \in Seq(TaskNames)
  BY DEF AskInv
<1>1. CASE PeriodicQuery
  BY <1>1, SameStep DEF PeriodicQuery, session
<1>2. CASE IeeeAddrRspWait
  <2>1. UNCHANGED tasks
    BY <1>2 DEF IeeeAddrRspWait
  <2>2. CASE cutOff' = "missed"
    BY <1>0, <2>1, <2>2, NotedStep
  <2>3. CASE UNCHANGED <<session, timer, cutOff>>
    BY <2>1, <2>3, SameStep DEF session
  <2> QED
    BY <1>2, <2>2, <2>3 DEF IeeeAddrRspWait
<1>3. CASE ImageBlockRspWait
  BY <1>3, PostStep DEF ImageBlockRspWait, Posts, Post, TaskNames
<1>4. CASE SendImageBlockReqDelay
  BY <1>4, PostStep DEF SendImageBlockReqDelay, Posts, Post, TaskNames
<1>5. CASE ImageBlockWaitCb
  <2>1. CASE imageUpgradeStatus = "downloading"
    BY <1>5, <2>1, PostStep DEF ImageBlockWaitCb, Posts, Post, TaskNames
  <2>2. CASE imageUpgradeStatus # "downloading"
    <3>1. cutOff' # "no" /\ UNCHANGED tasks
      BY <1>5, <2>2 DEF ImageBlockWaitCb, AskInv, OverIsNoted
    <3> QED
      BY <1>0, <3>1, NotedStep
  <2> QED
    BY <2>1, <2>2
<1>6. CASE UpgradeWaitCb
  <2>1. CASE Finish("off", UNCHANGED <<tasks, retries>>)
    <3>1. tasks' = tasks \/ tasks' = <<>>
      BY <2>1 DEF Finish, Boot
    <3> QED
      BY <2>1, <3>1, FinishAsks
  <2>2. CASE Post("endReq") /\ timer' = "off"
    BY <2>2, PostStep DEF Post, TaskNames
  <2>3. CASE imageUpgradeStatus \notin Ending /\ UNCHANGED <<tasks, cutOff>>
    <3>1. cutOff' # "no"
      BY <1>6, <2>3 DEF UpgradeWaitCb, AskInv, OverIsNoted
    <3> QED
      BY <1>0, <2>3, <3>1, NotedStep
  <2> QED
    BY <1>6, <2>1, <2>2, <2>3 DEF UpgradeWaitCb
<1> QED
  BY <1>1, <1>2, <1>3, <1>4, <1>5, <1>6 DEF Expires

LEMMA TaskAsks ==
  ASSUME AskInv, Task
  PROVE  AskInv'
<1>0. tasks \in Seq(TaskNames) /\ tasks # <<>> /\ tasks' = Tail(tasks)
  BY DEF Task, Run, AskInv
<1>1. tasks' \in Seq(TaskNames) /\ Len(tasks') = Len(tasks) - 1
      /\ \A i \in 1 .. Len(tasks') : tasks'[i] = tasks[i + 1]
  BY <1>0
<1>2. CASE Run("save") /\ SaveUpdateInfo
  <2>1. tasks[1] = "save" /\ UNCHANGED <<imageUpgradeStatus, timer, cutOff>>
    BY <1>0, <1>2 DEF Run, SaveUpdateInfo, session
  <2>2. ASSUME timer' = "off", \A i \in 1 .. Len(tasks') : tasks'[i] = "save"
        PROVE  cutOff' # "no"
    <3>1. \A i \in 1 .. Len(tasks) : tasks[i] = "save"
      <4>1. SUFFICES ASSUME NEW i \in 1 .. Len(tasks), i # 1 PROVE tasks[i] = "save"
        BY <2>1
      <4>2. Len(tasks) \in Nat
        BY <1>0
      <4>3. i - 1 \in 1 .. Len(tasks') /\ i - 1 + 1 = i
        BY <1>1, <4>1, <4>2
      <4> QED
        BY <1>1, <2>2, <4>3
    <3> QED
      BY <2>1, <2>2, <3>1 DEF AskInv, KeepsAsking
  <2> QED
    BY <1>1, <2>1, <2>2 DEF AskInv, KeepsAsking, OverIsNoted
<1>3. CASE BlockRspTimeout
  BY <1>1, <1>3, QueryStartStep DEF BlockRspTimeout
<1>4. CASE PacedBlockReq(net, downloadFileVer, fileOffset, minBlockPeriod)
  BY <1>1, <1>4, PacedStep
<1>5. CASE SendBlockReq(net, downloadFileVer, fileOffset)
  BY <1>1, <1>5, ArmStep DEF SendBlockReq, Arm
<1>6. CASE UpgradeWithWait
  <2>1. CASE imageUpgradeStatus \in Ending
    BY <1>1, <1>6, <2>1, ArmStep DEF UpgradeWithWait, session
  <2>2. CASE imageUpgradeStatus \notin Ending
    BY <1>1, <1>6, <2>2, NotedStep DEF UpgradeWithWait
  <2> QED
    BY <2>1, <2>2
<1>7. CASE IeeeAddrReqSend
  BY <1>1, <1>7, ArmStep DEF IeeeAddrReqSend, Arm
<1> QED
  BY <1>2, <1>3, <1>4, <1>5, <1>6, <1>7 DEF Task

LEMMA DataAsks ==
  ASSUME AskInv, NEW n, NEW v, NEW off, imageUpgradeStatus = "downloading", Data(n, v, off)
  PROVE  AskInv'
<1>1. Append(tasks, "save") \in Seq(TaskNames) /\ tasks \in Seq(TaskNames)
  BY DEF AskInv, TaskNames
<1>2. CASE QueryStart("off") /\ UNCHANGED tasks
  BY <1>1, <1>2, QueryStartStep
<1>3. CASE Post("save") /\ imageUpgradeStatus' = "complete" /\ Arm("upgrade")
  BY <1>1, <1>3, ArmStep DEF Post, Arm, Ending
<1>4. CASE Post("save") /\ PacedBlockReq(n, v, off + 1, minBlockPeriod)
  BY <1>1, <1>4, PacedStep DEF Post
<1> QED
  BY <1>2, <1>3, <1>4 DEF Data

LEMMA AnswerAsks ==
  ASSUME AskInv, NEW r, Answer(r)
  PROVE  AskInv'
<1>0. tasks \in Seq(TaskNames)
  BY DEF AskInv
<1>1. PICK n \in {net, net \ {r}} :
        \/ MatchDescRsp(n)
        \/ NwkAddrRsp(n)
        \/ \E ok \in BOOLEAN : IeeeAddrRsp(n, ok)
        \/ NoNewImage(n)
        \/ \E v \in Offers : QueryNextImageRsp(n, v)
        \/ \E v \in Offers : ImageBlockRsp(n, v, r.off)
        \/ WaitForData(n)
        \/ ServerAborts(n)
        \/ \E when \in {"now", "later", "unknown"} : UpgradeEndRsp(n, when)
  BY DEF Answer
<1>2. CASE MatchDescRsp(n) \/ NoNewImage(n)
  BY <1>2, SameStep DEF MatchDescRsp, NoNewImage, session
<1>3. CASE NwkAddrRsp(n)
  <2>1. CASE UNCHANGED <<timer, cutOff>>
    BY <1>3, <2>1, SameStep DEF NwkAddrRsp, session
  <2>2. CASE PacedBlockReq(n, downloadFileVer, fileOffset, minBlockPeriod)
    BY <1>0, <1>3, <2>2, PacedStep DEF NwkAddrRsp
  <2> QED
    BY <1>3, <2>1, <2>2 DEF NwkAddrRsp
<1>4. ASSUME NEW ok, IeeeAddrRsp(n, ok) PROVE AskInv'
  <2>0. UNCHANGED tasks
    BY <1>4 DEF IeeeAddrRsp
  <2>1. CASE UNCHANGED <<session, timer, cutOff>>
    BY <2>0, <2>1, SameStep DEF session
  <2>2. CASE PacedBlockReq(n, downloadFileVer, fileOffset, minBlockPeriod)
    BY <1>0, <2>0, <2>2, PacedStep
  <2>3. CASE QueryStart("off")
    BY <1>0, <2>0, <2>3, QueryStartStep
  <2> QED
    BY <1>4, <2>1, <2>2, <2>3 DEF IeeeAddrRsp
<1>5. ASSUME NEW v, QueryNextImageRsp(n, v) PROVE AskInv'
  <2>1. CASE Finish("off", imageBlockRetry' = 0 /\ UNCHANGED <<tasks, upgradeEndRetry, addrCnt>>)
    <3>1. tasks' = tasks \/ tasks' = <<>>
      BY <2>1 DEF Finish, Boot
    <3> QED
      BY <2>1, <3>1, FinishAsks
  <2>2. CASE PacedBlockReq(n, downloadFileVer, fileOffset, minBlockPeriod) /\ UNCHANGED tasks
    BY <1>0, <2>2, PacedStep
  <2>3. ASSUME NEW memory, FromStart(v, n, memory) PROVE AskInv'
    <3>1. CASE cutOff' = "noMemory" /\ UNCHANGED tasks
      BY <1>0, <3>1, NotedStep
    <3>2. CASE PacedBlockReq(n, v, 0, minBlockPeriod) /\ UNCHANGED tasks
      BY <1>0, <3>2, PacedStep
    <3>3. CASE Post("addrReq") /\ timer' = "off"
      BY <3>3, PostStep DEF Post, TaskNames
    <3> QED
      BY <2>3, <3>1, <3>2, <3>3 DEF FromStart
  <2> QED
    BY <1>5, <2>1, <2>2, <2>3 DEF QueryNextImageRsp
<1>6. ASSUME NEW v, ImageBlockRsp(n, v, r.off) PROVE AskInv'
  <2>0. imageUpgradeStatus = "downloading"
    BY <1>6 DEF ImageBlockRsp
  <2>1. CASE Data(n, v, r.off)
    BY <2>0, <2>1, DataAsks
  <2>2. CASE /\ imageUpgradeStatus' = "normal" /\ UNCHANGED <<timer, tasks>>
             /\ cutOff' = IF timer = "wait" THEN "mismatch" ELSE cutOff
    BY <2>0, <2>2 DEF AskInv, KeepsAsking, OverIsNoted, Ending
  <2> QED
    BY <1>6, <2>1, <2>2 DEF ImageBlockRsp
<1>7. CASE WaitForData(n)
  <2>1. UNCHANGED tasks /\ imageUpgradeStatus' = "downloading"
    BY <1>7 DEF WaitForData, session
  <2>2. CASE Arm("wait")
    BY <1>0, <2>1, <2>2, ArmStep DEF Arm
  <2>3. ASSUME NEW paced, PacedBlockReq(n, downloadFileVer, fileOffset, paced) PROVE AskInv'
    BY <1>0, <2>1, <2>3, PacedStep
  <2> QED
    BY <1>7, <2>2, <2>3 DEF WaitForData
<1>8. CASE ServerAborts(n)
  BY <1>0, <1>8, QueryStartStep DEF ServerAborts
<1>9. ASSUME NEW when, UpgradeEndRsp(n, when) PROVE AskInv'
  <2>1. CASE Finish(timer, UNCHANGED <<tasks, retries>>)
    <3>1. tasks' = tasks \/ tasks' = <<>>
      BY <2>1 DEF Finish, Boot
    <3> QED
      BY <2>1, <3>1, FinishAsks
  <2>2. CASE Arm("upgrade") /\ imageUpgradeStatus' \in {"countdown", "waiting"} /\ UNCHANGED tasks
    BY <1>0, <2>2, ArmStep DEF Arm, Ending
  <2> QED
    BY <1>9, <2>1, <2>2 DEF UpgradeEndRsp
<1> QED
  BY <1>1, <1>2, <1>3, <1>4, <1>5, <1>6, <1>7, <1>8, <1>9

LEMMA NextAsks == AskInv /\ [Next]_vars => AskInv'
<1> SUFFICES ASSUME AskInv, [Next]_vars PROVE AskInv'
  OBVIOUS
<1>0. tasks \in Seq(TaskNames) /\ <<>> \in Seq(TaskNames)
  BY DEF AskInv
<1>1. CASE Answered
  BY <1>1, AnswerAsks DEF Answered
<1>2. CASE ImageNotify \/ Lost \/ UNCHANGED vars
  BY <1>2, SameStep DEF ImageNotify, Lost, vars, session
<1>3. CASE Rejoined
  BY <1>0, <1>3, QueryStartStep DEF Rejoined
<1>4. CASE Restart \/ \E v \in Offers : EraseInterrupted(v)
  <2>1. timer' = "query" /\ tasks' = <<>>
    BY <1>4 DEF Restart, EraseInterrupted, Boot
  <2> QED
    BY <1>0, <2>1, ArmStep
<1> QED
  BY <1>1, <1>2, <1>3, <1>4, ExpiresAsks, TaskAsks DEF Next

\* The bridge asks the server for an update again one day: otaTimer is left
\* off for one of the known causes only.
THEOREM AlwaysAsks == Spec => []KeepsAsking
<1>1. Init => AskInv
  BY DEF Init, AskInv, KeepsAsking, OverIsNoted
<1>2. AskInv => KeepsAsking
  BY DEF AskInv
<1> QED
  BY <1>1, <1>2, NextAsks, PTL DEF Spec

-----------------------------------------------------------------------------
(* Types *)

ClientOK(c) ==
  /\ c \in [flg : {"init", "header", "body"}, offset : 0 .. Size, pos : 0 .. Body,
            crc : Seq(Version \X (0 .. Size))]
  /\ Len(c.crc) <= c.pos
  /\ c.flg # "body" => c.crc = <<>>

ItemsOK(n) ==
  /\ Record(n)
  /\ n.hdr.ver \in Version \cup {NoVer}
  /\ ClientOK(n.code)

-----------------------------------------------------------------------------
LEMMA Bounds ==
  /\ Body \in Nat /\ Body > 0 /\ Size = Body + 1 /\ Unset = Size + 1
  /\ BlockRetries \in Nat /\ BlockRetries > 0 /\ EndRetries \in Nat /\ EndRetries > 0
  /\ AddrRetries \in Nat /\ AddrRetries > 0 /\ SaveEvery \in Nat /\ SaveEvery > 0
  /\ MaxTasks \in Nat /\ MaxTasks > 0 /\ Offers \subseteq Version
BY OtaAssumption DEF Size, Unset

LEMMA InitItems == ClientOK(InitInfo) /\ ItemsOK(NoItems)
<1>1. InitInfo = [flg |-> "init", offset |-> 0, pos |-> 0, crc |-> <<>>]
  BY DEF InitInfo, NoItems
<1>2. <<>> \in Seq(Version \X (0 .. Size)) /\ Len(<<>>) = 0 /\ 0 \in 0 .. Size /\ 0 \in 0 .. Body
  BY Bounds
<1>3. ClientOK(InitInfo)
  BY <1>1, <1>2 DEF ClientOK
<1> QED
  BY <1>3 DEF ItemsOK, NoItems, InitInfo, Record, None

\* What a session is, apart from the timer and the tasks.
SessionOK ==
  /\ imageUpgradeStatus \in Statuses
  /\ ClientOK(clientInfo)
  /\ fileOffset \in 0 .. Size \cup {Unset}
  /\ downloadFileVer \in Version \cup {NoVer}

TasksOK == timer \in Callbacks /\ tasks \in Seq(TaskNames) /\ Len(tasks) <= MaxTasks

CountsOK ==
  /\ imageBlockRetry \in 0 .. BlockRetries /\ upgradeEndRetry \in 0 .. EndRetries
  /\ addrCnt \in 0 .. AddrRetries - 1

\* The inductive invariant of the types: the checksum grows with the place in
\* the bank, and what is saved has the types of what is in use.
TypeInv ==
  /\ SessionOK /\ TasksOK /\ CountsOK
  /\ saveCnt \in 0 .. SaveEvery - 1 /\ running \in {0, 1} /\ ItemsOK(nv)

LEMMA TypeParts == TypeInv => TypeOK
<1> SUFFICES ASSUME TypeInv PROVE TypeOK
  OBVIOUS
<1>1. clientInfo.crc \in Seq(Version \X (0 .. Size)) /\ clientInfo.pos \in 0 .. Body
  BY DEF TypeInv, SessionOK, ClientOK
<1>2. Len(clientInfo.crc) \in Nat /\ Len(clientInfo.crc) <= clientInfo.pos
  BY <1>1 DEF TypeInv, SessionOK, ClientOK
<1>3. Len(clientInfo.crc) <= Body
  BY <1>1, <1>2, Bounds
<1>4. clientInfo.flg \in {"init", "header", "body"} /\ clientInfo.offset \in 0 .. Size
  BY DEF TypeInv, SessionOK, ClientOK
<1> QED
  BY <1>1, <1>3, <1>4 DEF TypeInv, TypeOK, SessionOK, TasksOK, CountsOK

LEMMA BootTypes ==
  ASSUME NEW s, NEW n, Boot(s, n), ItemsOK(n)
  PROVE  TypeInv'
<1>1. timer' = "query" /\ tasks' = <<>> /\ imageUpgradeStatus' = "normal" /\ running' = BootAddr(s)
      /\ imageBlockRetry' = 0 /\ upgradeEndRetry' = 0 /\ addrCnt' = 0 /\ saveCnt' = 0 /\ nv' = n
  BY DEF Boot
<1>2. <<>> \in Seq(TaskNames) /\ Len(<<>>) = 0
  OBVIOUS
<1>3. TasksOK' /\ CountsOK' /\ saveCnt' \in 0 .. SaveEvery - 1 /\ running' \in {0, 1} /\ ItemsOK(nv)'
  <2>1. TasksOK' /\ running' \in {0, 1}
    BY <1>1, <1>2, Bounds DEF TasksOK, Callbacks, BootAddr
  <2>2. CountsOK' /\ saveCnt' \in 0 .. SaveEvery - 1
    BY <1>1, Bounds DEF CountsOK
  <2>3. ItemsOK(nv)'
    BY <1>1 DEF ItemsOK, ClientOK, Record
  <2> QED
    BY <2>1, <2>2, <2>3
<1>4. SessionOK'
  <2>1. ClientOK(clientInfo')
    BY InitItems DEF Boot, ItemsOK
  <2>2. fileOffset' \in 0 .. Size \cup {Unset}
    BY DEF Boot, ItemsOK, ClientOK
  <2>3. downloadFileVer' \in Version \cup {NoVer}
    BY DEF Boot, ItemsOK
  <2> QED
    BY <1>1, <2>1, <2>2, <2>3 DEF SessionOK, Statuses, ClientOK
<1> QED
  BY <1>3, <1>4 DEF TypeInv

\* A step of the session that leaves the other parts typed.
LEMMA PacedTypes ==
  ASSUME NEW n, NEW v, NEW off, NEW paced, PacedBlockReq(n, v, off, paced)
  PROVE  timer' \in Callbacks
BY DEF PacedBlockReq, SendBlockReq, Arm, Callbacks

LEMMA PostTypes ==
  ASSUME TasksOK, NEW t \in TaskNames, Len(tasks) < MaxTasks, Post(t)
  PROVE  tasks' \in Seq(TaskNames) /\ Len(tasks') <= MaxTasks
<1>1. tasks \in Seq(TaskNames) /\ Len(tasks) \in Nat /\ tasks' = Append(tasks, t)
  BY DEF TasksOK, Post
<1>2. tasks' \in Seq(TaskNames) /\ Len(tasks') = Len(tasks) + 1
  BY <1>1
<1> QED
  BY <1>1, <1>2, Bounds

LEMMA EndTypes ==
  ASSUME SessionOK, ItemsOK(nv), Abort \/ Invalid
  PROVE  SessionOK' /\ ItemsOK(nv)'
<1>1. CASE Abort
  BY <1>1 DEF Abort, SessionOK, Statuses, ClientOK, ItemsOK, Record
<1>2. CASE Invalid
  BY <1>2, InitItems, Bounds DEF Invalid, SessionOK, Statuses, ClientOK, ItemsOK, Record
<1> QED
  BY <1>1, <1>2

LEMMA FinishTypes ==
  ASSUME TypeInv, NEW t \in Callbacks, NEW others, Finish(t, others),
         others => tasks' = tasks /\ CountsOK'
  PROVE  TypeInv'
<1>1. ASSUME NEW old \in BOOLEAN, Boot(Switch(old), NoItems) PROVE TypeInv'
  BY <1>1, InitItems, BootTypes
<1>2. ASSUME imageUpgradeStatus' = "normal", nv' = NoItems, timer' = t, others,
             UNCHANGED <<clientInfo, fileOffset, downloadFileVer, saveCnt, running>>
      PROVE  TypeInv'
  <2>1. SessionOK'
    BY <1>2 DEF TypeInv, SessionOK, Statuses, ClientOK
  <2>2. ItemsOK(nv)'
    BY <1>2, InitItems DEF ItemsOK, ClientOK, Record
  <2> QED
    BY <1>2, <2>1, <2>2 DEF TypeInv, TasksOK
<1> QED
  BY <1>1, <1>2 DEF Finish, banks

LEMMA ExpiresTypes ==
  ASSUME TypeInv, Expires
  PROVE  TypeInv'
<1>0. Len(tasks) < MaxTasks /\ TasksOK
  BY Bounds DEF Expires, TypeInv
<1>1. CASE PeriodicQuery
  BY <1>1 DEF PeriodicQuery, session, retries, flash, banks, TypeInv, SessionOK, TasksOK, CountsOK, ItemsOK, ClientOK, Record
<1>2. CASE IeeeAddrRspWait
  <2>1. SessionOK' /\ ItemsOK(nv)'
    <3>1. CASE Abort
      BY <3>1, EndTypes DEF TypeInv
    <3>2. CASE UNCHANGED <<session, nv>>
      BY <3>2 DEF TypeInv, session, SessionOK, ClientOK, ItemsOK, Record
    <3> QED
      BY <1>2, <3>1, <3>2 DEF IeeeAddrRspWait
  <2>2. TasksOK'
    BY <1>2 DEF IeeeAddrRspWait, TypeInv, TasksOK, Callbacks
  <2>3. CountsOK'
    BY <1>2, Bounds DEF IeeeAddrRspWait, TypeInv, CountsOK
  <2>4. UNCHANGED <<saveCnt, running>>
    BY <1>2 DEF IeeeAddrRspWait, banks
  <2> QED
    BY <2>1, <2>2, <2>3, <2>4 DEF TypeInv
<1>3. ASSUME NEW callback, NEW t \in TaskNames, Posts(callback, t), imageBlockRetry' \in 0 .. BlockRetries
      PROVE  TypeInv'
  <2>1. tasks' \in Seq(TaskNames) /\ Len(tasks') <= MaxTasks
    BY <1>0, <1>3, PostTypes DEF Posts
  <2>2. SessionOK' /\ ItemsOK(nv)'
    BY <1>3 DEF Posts, TypeInv, session, flash, SessionOK, ClientOK, ItemsOK, Record
  <2>3. TasksOK' /\ CountsOK'
    BY <1>3, <2>1 DEF Posts, TypeInv, TasksOK, CountsOK, Callbacks
  <2> QED
    BY <1>3, <2>2, <2>3 DEF Posts, TypeInv, flash, banks
<1>4. CASE ImageBlockRspWait
  <2>1. imageBlockRetry' \in 0 .. BlockRetries
    BY <1>4, Bounds DEF ImageBlockRspWait, TypeInv, CountsOK
  <2> QED
    BY <1>3, <1>4, <2>1 DEF ImageBlockRspWait, TaskNames
<1>5. CASE SendImageBlockReqDelay
  BY <1>3, <1>5 DEF SendImageBlockReqDelay, TaskNames, TypeInv, CountsOK
<1>6. CASE ImageBlockWaitCb
  <2>1. CASE imageUpgradeStatus = "downloading"
    BY <1>3, <1>6, <2>1 DEF ImageBlockWaitCb, TaskNames, TypeInv, CountsOK
  <2>2. CASE imageUpgradeStatus # "downloading"
    BY <1>6, <2>2 DEF ImageBlockWaitCb, session, retries, flash, banks, TypeInv, SessionOK, TasksOK,
                      CountsOK, ItemsOK, ClientOK, Record, Callbacks
  <2> QED
    BY <2>1, <2>2
<1>7. CASE UpgradeWaitCb
  <2>1. CASE Finish("off", UNCHANGED <<tasks, retries>>)
    <3>1. UNCHANGED <<tasks, retries>> => tasks' = tasks /\ CountsOK'
      BY DEF TypeInv, CountsOK, retries
    <3>2. "off" \in Callbacks
      BY DEF Callbacks
    <3> QED
      BY <2>1, <3>1, <3>2, FinishTypes
  <2>2. CASE /\ upgradeEndRetry + 1 < EndRetries /\ upgradeEndRetry' = upgradeEndRetry + 1
             /\ Post("endReq") /\ timer' = "off"
             /\ UNCHANGED <<session, imageBlockRetry, addrCnt, saveCnt, server, flash, cutOff>>
    <3>1. "endReq" \in TaskNames
      BY DEF TaskNames
    <3>2. tasks' \in Seq(TaskNames) /\ Len(tasks') <= MaxTasks
      BY <1>0, <2>2, <3>1, PostTypes
    <3>3. CountsOK' /\ TasksOK'
      BY <2>2, <3>2, Bounds DEF TypeInv, CountsOK, TasksOK, Callbacks
    <3>4. SessionOK' /\ ItemsOK(nv)'
      BY <2>2 DEF TypeInv, session, flash, SessionOK, ClientOK, ItemsOK, Record
    <3> QED
      BY <2>2, <3>3, <3>4 DEF TypeInv, flash, banks
  <2>3. CASE timer' = "off" /\ UNCHANGED <<session, tasks, retries, saveCnt, server, flash, cutOff>>
    BY <2>3 DEF session, retries, flash, banks, TypeInv, SessionOK, TasksOK,
                CountsOK, ItemsOK, ClientOK, Record, Callbacks
  <2>4. imageUpgradeStatus \in Ending /\ ~(imageUpgradeStatus = "countdown" \/ upgradeEndRetry + 1 >= EndRetries)
        => upgradeEndRetry + 1 < EndRetries
    BY Bounds DEF TypeInv, CountsOK
  <2> QED
    BY <1>7, <2>1, <2>2, <2>3, <2>4 DEF UpgradeWaitCb
<1> QED
  BY <1>1, <1>2, <1>4, <1>5, <1>6, <1>7 DEF Expires

LEMMA TaskTypes ==
  ASSUME TypeInv, Task
  PROVE  TypeInv'
<1>1. tasks' \in Seq(TaskNames) /\ Len(tasks') <= MaxTasks
  <2>1. tasks \in Seq(TaskNames) /\ tasks # <<>> /\ tasks' = Tail(tasks) /\ Len(tasks) <= MaxTasks
    BY DEF Task, Run, TypeInv, TasksOK
  <2>2. tasks' \in Seq(TaskNames) /\ Len(tasks') = Len(tasks) - 1 /\ Len(tasks) \in Nat
    BY <2>1
  <2> QED
    BY <2>1, <2>2, Bounds
<1>2. running' \in {0, 1}
  BY DEF Task, Run, banks, TypeInv
<1>3. CASE SaveUpdateInfo
  <2>1. ItemsOK(nv')
    <3>1. CASE nv' = nv
      BY <3>1 DEF TypeInv
    <3>2. CASE nv' = [nv EXCEPT !.hasCode = TRUE, !.code = clientInfo]
      <4>1. Record(nv') /\ nv'.hdr = nv.hdr /\ nv'.code = clientInfo
        BY <3>2 DEF TypeInv, ItemsOK, Record
      <4> QED
        BY <4>1 DEF TypeInv, ItemsOK, SessionOK
    <3> QED
      BY <1>3, <3>1, <3>2 DEF SaveUpdateInfo
  <2>2. saveCnt' \in 0 .. SaveEvery - 1
    BY <1>3, Bounds DEF SaveUpdateInfo, TypeInv
  <2>3. SessionOK' /\ CountsOK' /\ TasksOK'
    BY <1>1, <1>3 DEF SaveUpdateInfo, TypeInv, session, retries, SessionOK, CountsOK, TasksOK, ClientOK
  <2>4. ItemsOK(nv)'
    BY <2>1 DEF ItemsOK, ClientOK, Record
  <2> QED
    BY <1>2, <2>2, <2>3, <2>4 DEF TypeInv
<1>4. CASE BlockRspTimeout
  <2>1. SessionOK' /\ ItemsOK(nv)'
    BY <1>4, EndTypes DEF BlockRspTimeout, TypeInv
  <2>2. CountsOK' /\ TasksOK'
    BY <1>1, <1>4 DEF BlockRspTimeout, QueryStart, TypeInv, retries, CountsOK, TasksOK, Callbacks
  <2> QED
    BY <1>2, <1>4, <2>1, <2>2 DEF TypeInv, BlockRspTimeout
<1>5. CASE timer' \in Callbacks /\ UNCHANGED <<session, retries, saveCnt, nv>>
  BY <1>1, <1>2, <1>5 DEF TypeInv, session, retries, SessionOK, CountsOK, TasksOK, ClientOK, ItemsOK, Record
<1> QED
  BY <1>3, <1>4, <1>5, PacedTypes
     DEF Task, SendBlockReq, UpgradeWithWait, IeeeAddrReqSend, Arm, Callbacks

-----------------------------------------------------------------------------
\* A client is changed field by field.
LEMMA ClientFields ==
  ASSUME NEW c, ClientOK(c), NEW f \in {"init", "header", "body"}, NEW o \in 0 .. Size,
         NEW p \in 0 .. Body, NEW crc \in Seq(Version \X (0 .. Size)), Len(crc) <= p,
         f # "body" => crc = <<>>
  PROVE  ClientOK([c EXCEPT !.flg = f, !.offset = o, !.pos = p, !.crc = crc])
<1> DEFINE S == Seq(Version \X (0 .. Size))
           d == [c EXCEPT !.flg = f, !.offset = o, !.pos = p, !.crc = crc]
<1>1. c \in [flg : {"init", "header", "body"}, offset : 0 .. Size, pos : 0 .. Body, crc : S]
  BY DEF ClientOK
<1>2. crc \in S
  OBVIOUS
<1> HIDE DEF S
<1>3. d \in [flg : {"init", "header", "body"}, offset : 0 .. Size, pos : 0 .. Body, crc : S]
  BY <1>1, <1>2
<1>4. d.flg = f /\ d.pos = p /\ d.crc = crc
  BY <1>1
<1> HIDE DEF d
<1>5. ClientOK(d)
  BY <1>3, <1>4 DEF ClientOK, S
<1> QED
  BY <1>5 DEF d

LEMMA FromStartTypes ==
  ASSUME TypeInv, NEW v \in Offers, NEW n, NEW memory, FromStart(v, n, memory),
         Len(tasks) < MaxTasks, imageBlockRetry' = 0, UNCHANGED <<upgradeEndRetry, addrCnt>>
  PROVE  TypeInv'
<1>1. SessionOK'
  <2>1. clientInfo' = [clientInfo EXCEPT
          !.crc = <<>>, !.flg = IF memory /\ known THEN "header" ELSE clientInfo.flg]
    BY DEF FromStart, FirstCrc
  <2>2. <<>> \in Seq(Version \X (0 .. Size)) /\ Len(<<>>) = 0
    OBVIOUS
  <2>3. ClientOK(clientInfo')
    <3>1. ClientOK(clientInfo) /\ clientInfo.offset \in 0 .. Size /\ clientInfo.pos \in 0 .. Body
          /\ clientInfo.flg \in {"init", "header", "body"} /\ 0 <= clientInfo.pos
      BY Bounds DEF TypeInv, SessionOK, ClientOK
    <3>2. PICK f \in {"init", "header", "body"} : f = IF memory /\ known THEN "header" ELSE clientInfo.flg
      BY <3>1
    <3>3. clientInfo' = [clientInfo EXCEPT !.flg = f, !.offset = clientInfo.offset,
                                           !.pos = clientInfo.pos, !.crc = <<>>]
      BY <2>1, <3>1, <3>2 DEF ClientOK
    <3> QED
      BY <2>2, <3>1, <3>3, ClientFields
  <2> QED
    BY <2>3, Bounds DEF FromStart, SessionOK, Statuses, ClientOK
<1>2. TasksOK'
  <2>1. CASE timer' = "off" /\ UNCHANGED tasks
    BY <2>1 DEF TypeInv, TasksOK, Callbacks
  <2>2. CASE PacedBlockReq(n, v, 0, minBlockPeriod) /\ UNCHANGED tasks
    BY <2>2, PacedTypes DEF TypeInv, TasksOK
  <2>3. CASE Post("addrReq") /\ timer' = "off"
    BY <2>3, PostTypes DEF TypeInv, TasksOK, TaskNames, Callbacks
  <2> QED
    BY <2>1, <2>2, <2>3 DEF FromStart
<1>3. CountsOK'
  BY Bounds DEF TypeInv, CountsOK
<1>4. UNCHANGED <<saveCnt, running, nv>>
  BY DEF FromStart
<1> QED
  BY <1>1, <1>2, <1>3, <1>4 DEF TypeInv, ItemsOK, ClientOK, Record

\* What data does to the checksum and to the place in the bank.
LEMMA DataClient ==
  ASSUME ClientOK(clientInfo), NEW v \in Version, NEW off \in 0 .. Size, off < Size
  PROVE  /\ ~Stores(<<v, off>>) \/
            ClientOK([clientInfo EXCEPT !.offset = off + 1, !.pos = clientInfo.pos + 1,
                                        !.crc = Append(clientInfo.crc, <<v, off>>)])
         /\ ~Parses(off) \/ ClientOK([clientInfo EXCEPT !.flg = "body", !.pos = 0])
<1>1. clientInfo.crc \in Seq(Version \X (0 .. Size)) /\ clientInfo.pos \in 0 .. Body
      /\ Len(clientInfo.crc) \in Nat
  BY DEF ClientOK
<1>2. ASSUME Stores(<<v, off>>)
      PROVE  ClientOK([clientInfo EXCEPT !.offset = off + 1, !.pos = clientInfo.pos + 1,
                                         !.crc = Append(clientInfo.crc, <<v, off>>)])
  <2>1. clientInfo.flg = "body" /\ clientInfo.pos < Body
    BY <1>2 DEF Stores
  <2>2. <<v, off>> \in Version \X (0 .. Size)
    OBVIOUS
  <2>3. DEFINE crc == Append(clientInfo.crc, <<v, off>>)
  <2>4. crc \in Seq(Version \X (0 .. Size)) /\ Len(crc) = Len(clientInfo.crc) + 1
    BY <1>1, <2>2
  <2>5. off + 1 \in 0 .. Size /\ clientInfo.pos + 1 \in 0 .. Body /\ Len(crc) <= clientInfo.pos + 1
    BY <1>1, <2>1, <2>4, Bounds DEF ClientOK
  <2> HIDE DEF crc
  <2>6. ClientOK([clientInfo EXCEPT !.offset = off + 1, !.pos = clientInfo.pos + 1, !.crc = crc])
    BY <2>1, <2>4, <2>5 DEF ClientOK
  <2> QED
    BY <2>6 DEF crc
<1>3. ASSUME Parses(off)
      PROVE  ClientOK([clientInfo EXCEPT !.flg = "body", !.pos = 0])
  <2>1. clientInfo.crc = <<>> /\ Len(clientInfo.crc) <= 0
    BY <1>3 DEF Parses, ClientOK
  <2>2. [clientInfo EXCEPT !.flg = "body", !.pos = 0] =
        [clientInfo EXCEPT !.flg = "body", !.offset = clientInfo.offset, !.pos = 0, !.crc = clientInfo.crc]
    BY DEF ClientOK
  <2>3. clientInfo.offset \in 0 .. Size /\ 0 \in 0 .. Body
    BY Bounds DEF ClientOK
  <2> QED
    <3>1. ClientOK([clientInfo EXCEPT !.flg = "body", !.offset = clientInfo.offset, !.pos = 0,
                                      !.crc = clientInfo.crc])
      BY <1>1, <2>1, <2>3, ClientFields
    <3> QED
      BY <2>2, <3>1
<1> QED
  BY <1>2, <1>3

LEMMA DataTypes ==
  ASSUME TypeInv, NEW n, NEW v, NEW off, off < Size, v = downloadFileVer, off = fileOffset,
         imageUpgradeStatus = "downloading", Len(tasks) < MaxTasks, v \in Version, Data(n, v, off)
  PROVE  TypeInv'
<1>0. off \in 0 .. Size
  BY Bounds DEF TypeInv, SessionOK
<1>1. UNCHANGED <<addrCnt, saveCnt, running>> /\ imageBlockRetry' = 0
  BY DEF Data
<1>2. CASE Invalid /\ QueryStart("off") /\ UNCHANGED <<tasks, upgradeEndRetry>>
  <2>1. SessionOK' /\ ItemsOK(nv)'
    BY <1>2, EndTypes DEF TypeInv
  <2>2. TasksOK' /\ CountsOK'
    BY <1>1, <1>2, Bounds DEF QueryStart, TypeInv, TasksOK, CountsOK, Callbacks
  <2> QED
    BY <1>1, <2>1, <2>2 DEF TypeInv
<1>3. ASSUME fileOffset' = off + 1, UNCHANGED downloadFileVer, Post("save"),
             \/ clientInfo' = clientInfo
             \/ Parses(off) /\ clientInfo' = [clientInfo EXCEPT !.flg = "body", !.pos = 0]
             \/ /\ Stores(<<v, off>>)
                /\ clientInfo' = [clientInfo EXCEPT !.offset = off + 1, !.pos = clientInfo.pos + 1,
                                                    !.crc = Append(clientInfo.crc, <<v, off>>)],
             nv' = nv \/ nv' = [nv EXCEPT !.hdr = [ver |-> v, known |-> known]],
             \/ imageUpgradeStatus' = "complete" /\ upgradeEndRetry' = 0 /\ Arm("upgrade")
             \/ /\ PacedBlockReq(n, v, off + 1, minBlockPeriod)
                /\ UNCHANGED <<imageUpgradeStatus, upgradeEndRetry>>
      PROVE  TypeInv'
  <2>1. ClientOK(clientInfo')
    <3>1. ClientOK(clientInfo)
      BY DEF TypeInv, SessionOK
    <3>2. /\ ~Stores(<<v, off>>) \/
             ClientOK([clientInfo EXCEPT !.offset = off + 1, !.pos = clientInfo.pos + 1,
                                         !.crc = Append(clientInfo.crc, <<v, off>>)])
          /\ ~Parses(off) \/ ClientOK([clientInfo EXCEPT !.flg = "body", !.pos = 0])
      BY <1>0, <3>1, DataClient
    <3> QED
      BY <1>3, <3>1, <3>2
  <2>2. SessionOK'
    <3>1. fileOffset' \in 0 .. Size
      BY <1>0, <1>3, Bounds
    <3>2. imageUpgradeStatus' \in Statuses /\ downloadFileVer' \in Version \cup {NoVer}
      BY <1>3 DEF TypeInv, SessionOK, Statuses
    <3> QED
      BY <2>1, <3>1, <3>2 DEF SessionOK, ClientOK
  <2>3. ItemsOK(nv)'
    <3>1. CASE nv' = nv
      BY <3>1 DEF TypeInv, ItemsOK, ClientOK, Record
    <3>2. CASE nv' = [nv EXCEPT !.hdr = [ver |-> v, known |-> known]]
      <4>1. Record(nv') /\ nv'.code = nv.code /\ nv'.hdr.ver = v
        BY <3>2 DEF TypeInv, ItemsOK, Record
      <4> QED
        BY <4>1 DEF TypeInv, ItemsOK, ClientOK, Record
    <3> QED
      BY <1>3, <3>1, <3>2
  <2>4. TasksOK'
    <3>1. "save" \in TaskNames /\ TasksOK
      BY DEF TypeInv, TaskNames
    <3>2. tasks' \in Seq(TaskNames) /\ Len(tasks') <= MaxTasks
      BY <1>3, <3>1, PostTypes
    <3>3. timer' \in Callbacks
      BY <1>3, PacedTypes DEF Arm, Callbacks
    <3> QED
      BY <3>2, <3>3 DEF TasksOK
  <2>5. CountsOK'
    BY <1>1, <1>3, Bounds DEF TypeInv, CountsOK
  <2> QED
    BY <1>1, <2>2, <2>3, <2>4, <2>5 DEF TypeInv
<1>4. CASE Skips
  BY <1>2, <1>3, <1>4 DEF Data, Skips, Parses
<1>5. CASE ~Skips
  BY <1>2, <1>3, <1>5 DEF Data
<1> QED
  BY <1>4, <1>5

\* A step that leaves the session, the items and the counters of a download.
LEMMA TimerTypes ==
  ASSUME TypeInv, UNCHANGED <<session, tasks, upgradeEndRetry, addrCnt, saveCnt, flash>>,
         timer' = timer \/ timer' \in Callbacks,
         imageBlockRetry' = imageBlockRetry \/ imageBlockRetry' = 0
  PROVE  TypeInv'
<1>1. SessionOK' /\ ItemsOK(nv)'
  BY DEF TypeInv, session, flash, SessionOK, ClientOK, ItemsOK, Record
<1>2. TasksOK'
  BY DEF TypeInv, TasksOK
<1>3. CountsOK'
  BY Bounds DEF TypeInv, CountsOK
<1> QED
  BY <1>1, <1>2, <1>3 DEF TypeInv, flash, banks

LEMMA IeeeAddrTypes ==
  ASSUME TypeInv, NEW n, NEW ok, IeeeAddrRsp(n, ok)
  PROVE  TypeInv'
<1>0. UNCHANGED <<tasks, retries, saveCnt, banks>>
  BY DEF IeeeAddrRsp
<1>1. CASE UNCHANGED <<session, nv, timer, cutOff>>
  BY <1>0, <1>1, TimerTypes DEF flash, retries
<1>2. CASE /\ clientInfo.flg = "init" /\ clientInfo' = [clientInfo EXCEPT !.flg = "header"]
           /\ UNCHANGED <<imageUpgradeStatus, fileOffset, downloadFileVer, header, nv>>
           /\ PacedBlockReq(n, downloadFileVer, fileOffset, minBlockPeriod)
  <2>1. ClientOK(clientInfo')
    BY <1>2 DEF TypeInv, SessionOK, ClientOK
  <2>2. timer' \in Callbacks
    BY <1>2, PacedTypes
  <2> QED
    BY <1>0, <1>2, <2>1, <2>2
       DEF TypeInv, banks, retries, SessionOK, TasksOK, CountsOK, ClientOK, ItemsOK, Record
<1>3. CASE Abort /\ QueryStart("off")
  <2>1. SessionOK' /\ ItemsOK(nv)'
    BY <1>3, EndTypes DEF TypeInv
  <2> QED
    BY <1>0, <1>3, <2>1 DEF QueryStart, TypeInv, banks, retries, TasksOK, CountsOK, Callbacks
<1> QED
  BY <1>1, <1>2, <1>3 DEF IeeeAddrRsp

LEMMA AnswerTypes ==
  ASSUME TypeInv, Len(tasks) < MaxTasks, NEW r, Answer(r)
  PROVE  TypeInv'
<1>1. PICK n \in {net, net \ {r}} :
        \/ MatchDescRsp(n)
        \/ NwkAddrRsp(n)
        \/ \E ok \in BOOLEAN : IeeeAddrRsp(n, ok)
        \/ NoNewImage(n)
        \/ \E v \in Offers : QueryNextImageRsp(n, v)
        \/ r.off < Size /\ \E v \in Offers : ImageBlockRsp(n, v, r.off)
        \/ WaitForData(n)
        \/ ServerAborts(n)
        \/ \E when \in {"now", "later", "unknown"} : UpgradeEndRsp(n, when)
  BY DEF Answer
<1>2. CASE MatchDescRsp(n) \/ NwkAddrRsp(n) \/ NoNewImage(n)
  <2>1. /\ UNCHANGED <<session, tasks, upgradeEndRetry, addrCnt, saveCnt, flash>>
        /\ imageBlockRetry' = imageBlockRetry \/ imageBlockRetry' = 0
    BY <1>2 DEF MatchDescRsp, NwkAddrRsp, NoNewImage, retries
  <2>2. timer' = timer \/ timer' \in Callbacks
    BY <1>2, PacedTypes DEF MatchDescRsp, NwkAddrRsp, NoNewImage
  <2> QED
    BY <2>1, <2>2, TimerTypes
<1>3. ASSUME NEW ok, IeeeAddrRsp(n, ok) PROVE TypeInv'
  BY <1>3, IeeeAddrTypes
<1>4. ASSUME NEW v \in Offers, QueryNextImageRsp(n, v) PROVE TypeInv'
  <2>1. CASE Finish("off", imageBlockRetry' = 0 /\ UNCHANGED <<tasks, upgradeEndRetry, addrCnt>>)
    <3>1. (imageBlockRetry' = 0 /\ UNCHANGED <<tasks, upgradeEndRetry, addrCnt>>)
          => tasks' = tasks /\ CountsOK'
      BY Bounds DEF TypeInv, CountsOK
    <3>2. "off" \in Callbacks
      BY DEF Callbacks
    <3> QED
      BY <2>1, <3>1, <3>2, FinishTypes
  <2>2. CASE /\ imageBlockRetry' = 0 /\ UNCHANGED <<upgradeEndRetry, addrCnt>>
             /\ imageUpgradeStatus' = "downloading"
             /\ PacedBlockReq(n, downloadFileVer, fileOffset, minBlockPeriod)
             /\ UNCHANGED <<clientInfo, fileOffset, downloadFileVer, tasks, saveCnt, flash>>
    <3>1. timer' \in Callbacks
      BY <2>2, PacedTypes
    <3>2. SessionOK'
      BY <2>2 DEF TypeInv, SessionOK, Statuses, ClientOK
    <3>3. TasksOK' /\ CountsOK'
      BY <2>2, <3>1, Bounds DEF TypeInv, TasksOK, CountsOK
    <3> QED
      BY <2>2, <3>2, <3>3 DEF TypeInv, flash, banks, ItemsOK, ClientOK, Record
  <2>3. CASE /\ imageBlockRetry' = 0 /\ UNCHANGED <<upgradeEndRetry, addrCnt>>
             /\ \E memory \in BOOLEAN : FromStart(v, n, memory)
    BY <2>3, FromStartTypes
  <2> QED
    BY <1>4, <2>1, <2>2, <2>3 DEF QueryNextImageRsp
<1>5. ASSUME r.off < Size, NEW v \in Offers, ImageBlockRsp(n, v, r.off) PROVE TypeInv'
  <2>1. CASE v = downloadFileVer /\ r.off = fileOffset /\ Data(n, v, r.off)
    BY <1>5, <2>1, DataTypes, Bounds DEF ImageBlockRsp
  <2>2. CASE /\ imageUpgradeStatus' = "normal"
             /\ UNCHANGED <<clientInfo, fileOffset, downloadFileVer, timer, tasks, retries, saveCnt, flash>>
    BY <2>2 DEF TypeInv, flash, banks, retries, SessionOK, Statuses, TasksOK, CountsOK, ClientOK, ItemsOK, Record
  <2> QED
    BY <1>5, <2>1, <2>2 DEF ImageBlockRsp
<1>6. CASE WaitForData(n)
  <2>1. /\ UNCHANGED <<session, tasks, upgradeEndRetry, addrCnt, saveCnt, flash>>
        /\ imageBlockRetry' = imageBlockRetry \/ imageBlockRetry' = 0
    BY <1>6 DEF WaitForData
  <2>2. timer' \in Callbacks
    BY <1>6, PacedTypes DEF WaitForData, Arm, Callbacks
  <2> QED
    BY <2>1, <2>2, TimerTypes
<1>7. CASE ServerAborts(n)
  <2>1. SessionOK' /\ ItemsOK(nv)'
    BY <1>7, EndTypes DEF TypeInv, ServerAborts
  <2>2. TasksOK' /\ CountsOK'
    BY <1>7, Bounds DEF ServerAborts, QueryStart, TypeInv, TasksOK, CountsOK, Callbacks
  <2> QED
    BY <1>7, <2>1, <2>2 DEF ServerAborts, TypeInv, banks
<1>8. ASSUME NEW when, UpgradeEndRsp(n, when) PROVE TypeInv'
  <2>1. CASE Finish(timer, UNCHANGED <<tasks, retries>>)
    <3>1. UNCHANGED <<tasks, retries>> => tasks' = tasks /\ CountsOK'
      BY DEF TypeInv, CountsOK, retries
    <3>2. timer \in Callbacks
      BY DEF TypeInv, TasksOK
    <3> QED
      BY <2>1, <3>1, <3>2, FinishTypes
  <2>2. CASE /\ imageUpgradeStatus' \in {"countdown", "waiting"}
             /\ upgradeEndRetry' \in {0, upgradeEndRetry} /\ Arm("upgrade")
             /\ UNCHANGED <<clientInfo, fileOffset, downloadFileVer, tasks, imageBlockRetry, addrCnt, saveCnt, flash>>
    <3>1. SessionOK'
      BY <2>2 DEF TypeInv, SessionOK, Statuses, ClientOK
    <3>2. TasksOK' /\ CountsOK'
      BY <2>2, Bounds DEF TypeInv, TasksOK, CountsOK, Arm, Callbacks
    <3> QED
      BY <2>2, <3>1, <3>2 DEF TypeInv, flash, banks, ItemsOK, ClientOK, Record
  <2> QED
    BY <1>8, <2>1, <2>2 DEF UpgradeEndRsp
<1> QED
  BY <1>1, <1>2, <1>3, <1>4, <1>5, <1>6, <1>7, <1>8

LEMMA InitTypes == Init => TypeInv
<1> SUFFICES ASSUME Init PROVE TypeInv
  OBVIOUS
<1>1. <<>> \in Seq(TaskNames) /\ Len(<<>>) = 0
  OBVIOUS
<1>2. SessionOK
  BY InitItems DEF Init, SessionOK, Statuses
<1>3. TasksOK /\ CountsOK /\ saveCnt \in 0 .. SaveEvery - 1
  BY <1>1, Bounds DEF Init, TasksOK, CountsOK, Callbacks
<1> QED
  BY <1>2, <1>3, InitItems DEF Init, TypeInv

LEMMA NextTypes == TypeInv /\ [Next]_vars => TypeInv'
<1> SUFFICES ASSUME TypeInv, [Next]_vars PROVE TypeInv'
  OBVIOUS
<1>1. CASE Answered
  BY <1>1, AnswerTypes DEF Answered
<1>2. CASE ImageNotify \/ Lost \/ UNCHANGED vars
  BY <1>2, TimerTypes DEF ImageNotify, Lost, vars, retries
<1>3. CASE Rejoined
  <2>1. timer' = timer \/ timer' \in Callbacks
    BY <1>3 DEF Rejoined, QueryStart, Callbacks
  <2> QED
    BY <1>3, <2>1, TimerTypes DEF Rejoined, retries
<1>4. CASE Restart
  BY <1>4, BootTypes DEF Restart, TypeInv
<1>5. ASSUME NEW v, EraseInterrupted(v) PROVE TypeInv'
  BY <1>5, BootTypes DEF EraseInterrupted, TypeInv
<1> QED
  BY <1>1, <1>2, <1>3, <1>4, <1>5, ExpiresTypes, TaskTypes DEF Next

\* The types of the update, for every length of an image and every number of
\* retries: offsets stay in the file, and the checksum in the bank.
THEOREM TypeCorrect == Spec => []TypeOK
BY InitTypes, NextTypes, TypeParts, PTL DEF Spec

===============================================================================
