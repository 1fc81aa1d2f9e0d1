------------------------------- MODULE OtaClient -------------------------------
(***************************************************************************)
(* The client of the Zigbee firmware update: src/patch_sdk/ota.c, the      *)
(* SDK's file with its own limit for the image size, and the application's *)
(* callback in zb_appCb.c.                                                 *)
(*                                                                         *)
(* The new image is written into the bank that is not running, block by    *)
(* block, with what is needed to resume kept in two non-volatile items;    *)
(* the bank is started once its checksum holds.  One static timer,         *)
(* otaTimer, serves the periodic query, every retry and the countdown:     *)
(* what it does next is the callback stored last, and nothing but it ever  *)
(* asks the server again.                                                  *)
(*                                                                         *)
(* The server and the network are external: a request under way is         *)
(* answered late, more than once or never, and the server changes its      *)
(* mind about the version it offers.  Power may fail between two events    *)
(* and inside the erase and switch of the banks.                           *)
(*                                                                         *)
(* An offset is a number of blocks: block 0 is the header of the file, the *)
(* others are the image, of the same length in all versions.  A block of   *)
(* an image is its version and number, a checksum the blocks it was        *)
(* computed over.                                                          *)
(***************************************************************************)
EXTENDS Integers, Sequences, FiniteSets

CONSTANTS
  Version,         \* versions of the firmware, the one delivered among them
  Factory,         \* the version delivered
  Offers,          \* bound: the versions the server has
  Body,            \* blocks of an image
  ResumeAfter,     \* blocks in 4096 bytes, up to which a download starts anew
  SaveEvery,       \* FLASH_WRITE_COUNT_GET
  BlockRetries,    \* OTA_MAX_IMAGE_BLOCK_RETRIES, 10 in the code
  EndRetries,      \* OTA_MAX_UPGRADE_END_REQ_RETRIES
  AddrRetries,     \* OTA_IEEE_ADDR_REQ_RETRIES, 3 in the code
  MaxTasks,        \* bound: tasks queued before an answer and after it
  MaxUnderWay,     \* bound: requests without an answer so far
  NoVer            \* no version: 0xffffffff

ASSUME OtaAssumption ==
  /\ Factory \in Version /\ Offers \subseteq Version /\ NoVer \notin Version
  /\ Body \in Nat \ {0} /\ ResumeAfter \in Nat
  /\ SaveEvery \in Nat \ {0} /\ BlockRetries \in Nat \ {0} /\ EndRetries \in Nat \ {0}
  /\ AddrRetries \in Nat \ {0} /\ MaxTasks \in Nat \ {0} /\ MaxUnderWay \in Nat

VARIABLES
  imageUpgradeStatus, \* zcl_attr_imageUpgradeStatus
  clientInfo,         \* otaClientInfo: parser state, offset, place in the bank, checksum
  fileOffset,         \* zcl_attr_fileOffset
  downloadFileVer,    \* zcl_attr_downloadFileVer
  header,             \* pOtaUpdateInfo is allocated
  timer,              \* the callback of otaTimer, or "off"
  tasks,              \* queued by TL_SCHEDULE_TASK
  imageBlockRetry,    \* g_otaCtx.imageBlockRetry, counted no further than its limit
  upgradeEndRetry,    \* g_otaCtx.upgradeEndRetry
  addrCnt,            \* cnt of ota_ieeeAddrRspWait
  saveCnt,            \* cnt of ota_saveUpdateInfo2NV
  known,              \* zcl_attr_upgradeServerID is valid
  minBlockPeriod,     \* zcl_attr_minBlockPeriod is not 0
  started,            \* per bank: its start flag, TL_IMAGE_START_FLAG
  image,              \* per bank: the blocks written
  running,            \* mcuBootAddr: the bank that is executed
  nv,                 \* NV_ITEM_OTA_HDR_SERVERINFO and NV_ITEM_OTA_CODE
  net,                \* external: requests that may still be answered
  cutOff              \* why otaTimer was last left without a periodic query

session == <<imageUpgradeStatus, clientInfo, fileOffset, downloadFileVer, header>>
retries == <<imageBlockRetry, upgradeEndRetry, addrCnt>>
server == <<known, minBlockPeriod>>
banks == <<started, image, running>>
flash == <<banks, nv>>
vars == <<session, timer, tasks, retries, saveCnt, server, flash, net, cutOff>>

Ending == {"complete", "countdown", "waiting"}
Size == Body + 1
Unset == Size + 1   \* an offset of 0xffffffff
Erased == <<NoVer, 0>>
Junk == <<NoVer, 1>>
Blocks == 1 .. Body
Image(v) == [i \in Blocks |-> <<v, i>>]
Blank == [i \in Blocks |-> Erased]
Other == 1 - running

None == [ver |-> NoVer, known |-> FALSE]
NoItems == [hdr |-> None, hasCode |-> FALSE, code |-> [flg |-> "init", offset |-> 0, pos |-> 0, crc |-> <<>>]]
InitInfo == NoItems.code

-----------------------------------------------------------------------------
(* Start *)

\* mcuBootAddrGet
BootAddr(s) == IF s[0] THEN 0 ELSE 1

\* Both items are read by ota_clientInfoRecover.
Saved(n) == n.hdr # None /\ n.hasCode

\* ota_init with ota_clientInfoRecover, then ota_queryStart in the network.
Boot(s, n) ==
  /\ started' = s /\ nv' = n /\ running' = BootAddr(s)
  /\ imageUpgradeStatus' = "normal"
  /\ clientInfo' = IF Saved(n) THEN n.code ELSE InitInfo
  /\ fileOffset' = IF Saved(n) THEN n.code.offset ELSE Unset
  /\ downloadFileVer' = IF Saved(n) THEN n.hdr.ver ELSE NoVer
  /\ known' = (Saved(n) /\ n.hdr.known)
  /\ header' = FALSE /\ minBlockPeriod' = FALSE
  /\ tasks' = <<>> /\ imageBlockRetry' = 0 /\ upgradeEndRetry' = 0
  /\ addrCnt' = 0 /\ saveCnt' = 0
  /\ timer' = "query" /\ cutOff' = "no"

Init ==
  /\ started = [b \in {0, 1} |-> b = 0]
  /\ image = [b \in {0, 1} |-> IF b = 0 THEN Image(Factory) ELSE Blank]
  /\ nv = NoItems /\ running = 0
  /\ imageUpgradeStatus = "normal" /\ clientInfo = InitInfo
  /\ fileOffset = Unset /\ downloadFileVer = NoVer
  /\ known = FALSE /\ header = FALSE /\ minBlockPeriod = FALSE
  /\ tasks = <<>> /\ imageBlockRetry = 0 /\ upgradeEndRetry = 0 /\ addrCnt = 0 /\ saveCnt = 0
  /\ timer = "query" /\ cutOff = "no" /\ net = {}

\* Power fails between two events.
Restart == Boot(started, nv) /\ UNCHANGED <<image, net>>

-----------------------------------------------------------------------------
(* Requests, the timer and the end of an update *)

Request(type) == [type |-> type, ver |-> NoVer, off |-> 0]

\* The requests of rs go out while n are under way; what finds no room is lost,
\* a broadcast for the address of the server apart.
Sent(n, rs) ==
  LET all == n \cup rs IN
  IF Cardinality({r \in all : r.type # "nwk"}) <= MaxUnderWay THEN all ELSE n

Arm(callback) == timer' = callback /\ cutOff' = "no"
Post(task) == tasks' = Append(tasks, task)

\* sendImageBlockReq
SendBlockReq(n, v, off) ==
  /\ net' = Sent(n, {[type |-> "block", ver |-> v, off |-> off]})
  /\ Arm("block")

\* ota_sendImageBlockReq
PacedBlockReq(n, v, off, paced) ==
  IF paced THEN Arm("delay") /\ net' = n ELSE SendBlockReq(n, v, off)

\* Seeded fault: after a failure the server is not asked again.
QueryStart_Never(t) == timer' = t /\ cutOff' = IF t \in {"off", "query"} THEN "no" ELSE "missed"

\* ota_queryStart, called while otaTimer is t.
QueryStart(t) ==
  /\ timer' = IF t = "off" THEN "query" ELSE t
  /\ cutOff' = IF t \in {"off", "query"} THEN "no" ELSE "missed"

\* ota_upgradeComplete with ZCL_STA_ABORT: what was received is kept.
Abort ==
  /\ imageUpgradeStatus' = "normal" /\ header' = FALSE
  /\ UNCHANGED <<clientInfo, fileOffset, downloadFileVer, nv>>

\* ota_upgradeComplete with ZCL_STA_INVALID_IMAGE: the next one starts anew.
Invalid ==
  /\ imageUpgradeStatus' = "normal" /\ header' = FALSE
  /\ nv' = NoItems /\ clientInfo' = InitInfo
  /\ fileOffset' = Unset /\ downloadFileVer' = NoVer

Whole(img) == \E v \in Version : img = Image(v)

\* Seeded fault: a bank whose last block arrived is started unchecked.
NewImageValid_Tail(img) == img[Body] \notin {Erased, Junk}

\* ota_newImageValid
NewImageValid(img) == Whole(img)

\* ota_mcuReboot: the new bank is marked, then the old one unmarked, unless
\* power fails in between.
Switch(old) == [b \in {0, 1} |-> b = Other \/ old]

\* ota_upgradeComplete with ZCL_STA_SUCCESS while otaTimer is t: the new image
\* is started, or refused.  others is what else the caller changes.
Finish(t, others) ==
  \/ /\ NewImageValid(image[Other])
     /\ \E old \in BOOLEAN : Boot(Switch(old), NoItems)
     /\ UNCHANGED image
  \/ /\ ~NewImageValid(image[Other])
     /\ imageUpgradeStatus' = "normal" /\ header' = FALSE /\ nv' = NoItems
     /\ timer' = t /\ cutOff' = "refused"
     /\ UNCHANGED <<clientInfo, fileOffset, downloadFileVer, saveCnt, server, banks>>
     /\ others

-----------------------------------------------------------------------------
(* otaTimer expires: its callback, then off if it returned -1 *)

\* ota_periodicQueryServerCb; the short address of a known server may be stale.
PeriodicQuery ==
  /\ timer = "query"
  /\ \E r \in {"match", "nwk", "query"} :
       /\ r = "match" => clientInfo.flg = "init" /\ ~known
       /\ r = "nwk" => clientInfo.flg = "init" /\ known
       /\ r = "query" => clientInfo.flg # "init" \/ known
       /\ net' = Sent(net, {Request(r)})
  /\ UNCHANGED <<session, timer, tasks, retries, saveCnt, server, flash, cutOff>>

\* ota_ieeeAddrRspWait: ota_queryStart finds the timer whose callback this is,
\* and that timer ends with the callback.
IeeeAddrRspWait ==
  /\ timer = "addr"
  /\ IF addrCnt + 1 >= AddrRetries
     THEN /\ addrCnt' = 0
          /\ Abort
          /\ timer' = "off" /\ cutOff' = "missed"
          /\ UNCHANGED net
     ELSE /\ addrCnt' = addrCnt + 1
          /\ net' = Sent(net, {Request("addr")})
          /\ UNCHANGED <<session, nv, timer, cutOff>>
  /\ UNCHANGED <<tasks, imageBlockRetry, upgradeEndRetry, saveCnt, server, banks>>

Posts(callback, task) ==
  /\ timer = callback
  /\ Post(task)
  /\ timer' = "off"
  /\ UNCHANGED <<session, upgradeEndRetry, addrCnt, saveCnt, server, flash, net, cutOff>>

\* ota_imageBlockRspWait
ImageBlockRspWait ==
  LET last == imageBlockRetry + 1 >= BlockRetries IN
  /\ imageBlockRetry' = IF last THEN BlockRetries ELSE imageBlockRetry + 1
  /\ Posts("block", IF last THEN "blockTimeout" ELSE "sendBlock")

\* ota_sendImageBlockReqDelay
SendImageBlockReqDelay == Posts("delay", "send") /\ UNCHANGED imageBlockRetry

\* ota_imageBlockWaitCb
ImageBlockWaitCb ==
  IF imageUpgradeStatus = "downloading"
  THEN Posts("wait", "send") /\ UNCHANGED imageBlockRetry
  ELSE /\ timer = "wait" /\ timer' = "off"
       /\ UNCHANGED <<session, tasks, retries, saveCnt, server, flash, net, cutOff>>

\* ota_upgradeWaitCb with ota_upgrade: the countdown is over, or the server was
\* asked in vain.
UpgradeWaitCb ==
  LET last == imageUpgradeStatus = "countdown" \/ upgradeEndRetry + 1 >= EndRetries IN
  /\ timer = "upgrade"
  /\ UNCHANGED net
  /\ \/ /\ imageUpgradeStatus \in Ending /\ last
        /\ Finish("off", UNCHANGED <<tasks, retries>>)
     \/ /\ imageUpgradeStatus \in Ending /\ ~last
        /\ upgradeEndRetry' = upgradeEndRetry + 1
        /\ Post("endReq")
        /\ timer' = "off"
        /\ UNCHANGED <<session, imageBlockRetry, addrCnt, saveCnt, server, flash, cutOff>>
     \/ /\ imageUpgradeStatus \notin Ending
        /\ timer' = "off"
        /\ UNCHANGED <<session, tasks, retries, saveCnt, server, flash, cutOff>>

\* The shortest wait is a turn of the main loop, which runs what is queued.
Expires ==
  /\ tasks = <<>>
  /\ \/ PeriodicQuery \/ IeeeAddrRspWait \/ ImageBlockRspWait
     \/ SendImageBlockReqDelay \/ ImageBlockWaitCb \/ UpgradeWaitCb

-----------------------------------------------------------------------------
(* The tasks *)

\* ota_saveUpdateInfo2NV
SaveUpdateInfo ==
  LET due == saveCnt + 1 >= SaveEvery \/ imageUpgradeStatus = "complete" IN
  /\ saveCnt' = IF due THEN 0 ELSE saveCnt + 1
  /\ nv' = IF due THEN [nv EXCEPT !.hasCode = TRUE, !.code = clientInfo] ELSE nv
  /\ UNCHANGED <<session, timer, retries, net, cutOff>>

\* ota_imageBlockRspTimeout
BlockRspTimeout == Abort /\ QueryStart(timer) /\ UNCHANGED <<retries, saveCnt, net>>

\* ota_upgradeWithWait: the timer is taken even if the update is over by now.
UpgradeWithWait ==
  /\ net' = Sent(net, {Request("end")})
  /\ timer' = "upgrade" /\ cutOff' = IF imageUpgradeStatus \in Ending THEN "no" ELSE "late"
  /\ UNCHANGED <<session, retries, saveCnt, nv>>

\* ota_ieeeAddrReqSend
IeeeAddrReqSend ==
  /\ net' = Sent(net, {Request("addr")})
  /\ Arm("addr")
  /\ UNCHANGED <<session, retries, saveCnt, nv>>

Run(task) ==
  /\ tasks # <<>> /\ Head(tasks) = task
  /\ tasks' = Tail(tasks)
  /\ UNCHANGED <<server, banks>>

Task ==
  \/ Run("save") /\ SaveUpdateInfo
  \/ Run("blockTimeout") /\ BlockRspTimeout
  \/ /\ Run("sendBlock")
     /\ PacedBlockReq(net, downloadFileVer, fileOffset, minBlockPeriod)
     /\ UNCHANGED <<session, retries, saveCnt, nv>>
  \/ /\ Run("send")
     /\ SendBlockReq(net, downloadFileVer, fileOffset)
     /\ UNCHANGED <<session, retries, saveCnt, nv>>
  \/ Run("endReq") /\ UpgradeWithWait
  \/ Run("addrReq") /\ IeeeAddrReqSend

-----------------------------------------------------------------------------
(* Answers of the server; n is what stays under way, the request answered  *)
(* once more included                                                      *)

\* ota_matchDescRspCb; the query goes out 500 ms later.
MatchDescRsp(n) ==
  /\ net' = Sent(n, {Request("addr")} \cup
                    (IF clientInfo.flg = "init" THEN {Request("query")} ELSE {}))
  /\ UNCHANGED <<session, timer, tasks, retries, saveCnt, server, flash, cutOff>>

\* ota_nwkAddrReqCb
NwkAddrRsp(n) ==
  /\ IF clientInfo.flg = "init"
     THEN net' = Sent(n, {Request("query")}) /\ UNCHANGED <<timer, imageBlockRetry, cutOff>>
     ELSE imageBlockRetry' = 0 /\ PacedBlockReq(n, downloadFileVer, fileOffset, minBlockPeriod)
  /\ UNCHANGED <<session, tasks, upgradeEndRetry, addrCnt, saveCnt, server, flash>>

\* ota_ieeeAddrRspCb
IeeeAddrRsp(n, ok) ==
  /\ known' = (known \/ ok)
  /\ \/ /\ imageUpgradeStatus # "downloading" \/ clientInfo.flg # "init"
        /\ net' = n /\ UNCHANGED <<session, nv, timer, cutOff>>
     \/ /\ imageUpgradeStatus = "downloading" /\ clientInfo.flg = "init"
        /\ \/ /\ ok
              /\ clientInfo' = [clientInfo EXCEPT !.flg = "header"]
              /\ UNCHANGED <<imageUpgradeStatus, fileOffset, downloadFileVer, header, nv>>
              /\ PacedBlockReq(n, downloadFileVer, fileOffset, minBlockPeriod)
           \/ ~ok /\ Abort /\ QueryStart("off") /\ net' = n
  /\ UNCHANGED <<tasks, retries, saveCnt, minBlockPeriod, banks>>

\* What a query can be answered with and the client acts upon.
Offered(v) ==
  /\ imageUpgradeStatus # "downloading"
  /\ v # image[running][1][1]

Resumable(v) == downloadFileVer = v /\ fileOffset > ResumeAfter

\* The last bytes of image block b hold the checksum of its version.
CrcReceived(b) == IF b # Junk /\ b[2] = Body THEN Image(b[1]) ELSE <<>>

\* All blocks are said to be there, and the checksum was computed over them.
Received ==
  /\ clientInfo.pos = Body
  /\ image[Other][1] # Erased
  /\ clientInfo.crc # <<>> /\ clientInfo.crc = CrcReceived(image[Other][Body])

\* The sectors of the other bank are erased from its start, where the flag is:
\* the first n blocks.
EraseFirst(n) ==
  image' = [image EXCEPT ![Other] =
              [i \in Blocks |-> IF i <= n THEN Erased ELSE image[Other][i]]]
EraseFlag == [started EXCEPT ![Other] = FALSE]

FirstCrc == <<>>

\* A download from the start, the memory for the header being there or not.
FromStart(v, n, memory) ==
  /\ EraseFirst(Body) /\ started' = EraseFlag
  /\ imageUpgradeStatus' = "downloading"
  /\ fileOffset' = 0 /\ downloadFileVer' = v
  /\ header' = memory
  /\ clientInfo' = [clientInfo EXCEPT
       !.crc = FirstCrc, !.flg = IF memory /\ known THEN "header" ELSE @]
  /\ \/ ~memory /\ timer' = "off" /\ cutOff' = "noMemory" /\ net' = n /\ UNCHANGED tasks
     \/ memory /\ known /\ PacedBlockReq(n, v, 0, minBlockPeriod) /\ UNCHANGED tasks
     \/ /\ memory /\ ~known
        /\ Post("addrReq") /\ timer' = "off" /\ cutOff' = "no" /\ net' = n
  /\ UNCHANGED <<saveCnt, server, running, nv>>

\* ota_queryNextImageRspHandler
QueryNextImageRsp(n, v) ==
  /\ Offered(v)
  /\ \/ /\ Resumable(v) /\ clientInfo.offset = Size /\ Received
        /\ net' = n
        /\ Finish("off", imageBlockRetry' = 0 /\ UNCHANGED <<tasks, upgradeEndRetry, addrCnt>>)
     \/ /\ imageBlockRetry' = 0 /\ UNCHANGED <<upgradeEndRetry, addrCnt>>
        /\ \/ /\ Resumable(v) /\ clientInfo.offset # Size
              /\ imageUpgradeStatus' = "downloading"
              /\ PacedBlockReq(n, downloadFileVer, fileOffset, minBlockPeriod)
              /\ UNCHANGED <<clientInfo, fileOffset, downloadFileVer, header, tasks, saveCnt, server, flash>>
           \/ /\ ~Resumable(v) \/ (clientInfo.offset = Size /\ ~Received)
              /\ \E memory \in BOOLEAN : FromStart(v, n, memory)

\* No image, or the one that runs, is offered.
NoNewImage(n) ==
  /\ imageUpgradeStatus # "downloading"
  /\ imageBlockRetry' = 0 /\ net' = n
  /\ UNCHANGED <<session, timer, tasks, upgradeEndRetry, addrCnt, saveCnt, server, flash, cutOff>>

\* The power fails while the bank is erased for v.
EraseInterrupted(v) ==
  /\ Offered(v) /\ Request("query") \in net
  /\ ~Resumable(v) \/ (clientInfo.offset = Size /\ ~Received)
  /\ \E n \in Blocks : EraseFirst(n)
  /\ Boot(EraseFlag, nv)
  /\ UNCHANGED net

-----------------------------------------------------------------------------
(* A block of the file: ota_imageDataProcess *)

\* A late block, while the server's address is asked for, is skipped.
Skips == clientInfo.flg = "init"

\* The header is parsed and stored.
Parses(off) == clientInfo.flg = "header" /\ off = 0 /\ header

\* flash_writeWithCheck: only erased flash takes new data.
Written(old, new) == IF old \in {Erased, new} THEN new ELSE Junk

\* A block of the image goes to its place in the bank.
Stores(b) ==
  /\ clientInfo.flg = "body" /\ clientInfo.pos < Body
  /\ image[Other][clientInfo.pos + 1] \in {Erased, b}

Data(n, v, off) ==
  LET place == clientInfo.pos + 1
      b == <<v, off>>
      crc == Append(clientInfo.crc, b)
      img == IF clientInfo.flg = "body" /\ clientInfo.pos < Body
             THEN [image[Other] EXCEPT ![place] = Written(@, b)] ELSE image[Other]
      valid == /\ Stores(b) /\ place = Body
               /\ img[1] # Erased /\ crc = CrcReceived(img[Body])
      accepted == \/ ((Skips \/ Parses(off)) /\ off + 1 < Size)
                  \/ (Stores(b) /\ (place = Body => valid) /\ (off + 1 = Size => valid))
  IN
  /\ image' = [image EXCEPT ![Other] = img]
  /\ imageBlockRetry' = 0
  /\ IF accepted
     THEN /\ fileOffset' = off + 1
          /\ clientInfo' =
               CASE Skips -> clientInfo
                 [] Parses(off) -> [clientInfo EXCEPT !.flg = "body", !.pos = 0]
                 [] Stores(b) -> [clientInfo EXCEPT !.offset = off + 1, !.pos = place, !.crc = crc]
          /\ nv' = IF Parses(off) THEN [nv EXCEPT !.hdr = [ver |-> v, known |-> known]] ELSE nv
          /\ header' = (header /\ ~Parses(off))
          /\ UNCHANGED downloadFileVer
          /\ Post("save")
          /\ IF off + 1 = Size
             THEN /\ imageUpgradeStatus' = "complete"
                  /\ upgradeEndRetry' = 0
                  /\ net' = Sent(n, {Request("end")}) /\ Arm("upgrade")
             ELSE PacedBlockReq(n, v, off + 1, minBlockPeriod) /\ UNCHANGED <<imageUpgradeStatus, upgradeEndRetry>>
     ELSE Invalid /\ QueryStart("off") /\ net' = n /\ UNCHANGED <<tasks, upgradeEndRetry>>
  /\ UNCHANGED <<addrCnt, saveCnt, server, started, running>>

\* ota_imageBlockRspHandler: data for version v and offset off.
ImageBlockRsp(n, v, off) ==
  /\ imageUpgradeStatus = "downloading"
  /\ \/ /\ v = downloadFileVer /\ off = fileOffset
        /\ Data(n, v, off)
     \/ /\ v # downloadFileVer  \* the timer is left as it is
        /\ imageUpgradeStatus' = "normal" /\ net' = n
        /\ cutOff' = IF timer = "wait" THEN "mismatch" ELSE cutOff
        /\ UNCHANGED <<clientInfo, fileOffset, downloadFileVer, header, timer, tasks, retries,
                       saveCnt, server, flash>>

\* The server asks to wait, or to leave time between requests.
WaitForData(n) ==
  /\ imageUpgradeStatus = "downloading"
  /\ \/ Arm("wait") /\ imageBlockRetry' = 0 /\ net' = n /\ UNCHANGED minBlockPeriod
     \/ /\ \E paced \in BOOLEAN :
          minBlockPeriod' = paced /\ PacedBlockReq(n, downloadFileVer, fileOffset, paced)
        /\ UNCHANGED imageBlockRetry
  /\ UNCHANGED <<session, tasks, upgradeEndRetry, addrCnt, saveCnt, known, flash>>

ServerAborts(n) ==
  /\ imageUpgradeStatus = "downloading"
  /\ Abort /\ QueryStart("off") /\ imageBlockRetry' = 0 /\ net' = n
  /\ UNCHANGED <<tasks, upgradeEndRetry, addrCnt, saveCnt, server, banks>>

\* ota_upgradeEndRspHandler: upgrade now, later, or after another answer.
UpgradeEndRsp(n, when) ==
  /\ imageUpgradeStatus = "complete" \/ (imageUpgradeStatus = "waiting" /\ when # "unknown")
  /\ \/ when = "now" /\ net' = n /\ Finish(timer, UNCHANGED <<tasks, retries>>)
     \/ /\ when # "now"
        /\ imageUpgradeStatus' = IF when = "later" THEN "countdown" ELSE "waiting"
        /\ upgradeEndRetry' = IF when = "unknown" THEN 0 ELSE upgradeEndRetry
        /\ Arm("upgrade") /\ net' = n
        /\ UNCHANGED <<clientInfo, fileOffset, downloadFileVer, header, tasks, imageBlockRetry,
                       addrCnt, saveCnt, server, flash>>

\* Request r is answered; the answer to another of its kind may follow.
Answer(r) ==
  \E n \in {net, net \ {r}} :
    \/ r.type = "match" /\ MatchDescRsp(n)
    \/ r.type = "nwk" /\ NwkAddrRsp(n)
    \/ r.type = "addr" /\ \E ok \in BOOLEAN : IeeeAddrRsp(n, ok)
    \/ r.type = "query" /\ NoNewImage(n)
    \/ r.type = "query" /\ \E v \in Offers : QueryNextImageRsp(n, v)
    \/ /\ r.type = "block" /\ r.off < Size
       /\ \E v \in Offers : ImageBlockRsp(n, v, r.off)
    \/ r.type = "block" /\ (WaitForData(n) \/ ServerAborts(n))
    \/ r.type = "end" /\ \E when \in {"now", "later", "unknown"} : UpgradeEndRsp(n, when)

Answered == Len(tasks) < MaxTasks /\ \E r \in net : Answer(r)

\* ota_imageNotifyHandler
ImageNotify ==
  /\ imageUpgradeStatus = "normal"
  /\ net' = Sent(net, {Request("query")})
  /\ UNCHANGED <<session, timer, tasks, retries, saveCnt, server, flash, cutOff>>

Lost ==
  /\ \E r \in net : net' = net \ {r}
  /\ UNCHANGED <<session, timer, tasks, retries, saveCnt, server, flash, cutOff>>

\* The bridge is back in the network.
Rejoined ==
  /\ QueryStart(timer)
  /\ UNCHANGED <<session, tasks, retries, saveCnt, server, flash, net>>

Next ==
  \/ Expires \/ Task \/ Answered \/ ImageNotify \/ Rejoined
  \/ Lost \/ Restart \/ \E v \in Offers : EraseInterrupted(v)

Spec == Init /\ [][Next]_vars

-----------------------------------------------------------------------------
(* Properties *)

Statuses == {"normal", "downloading", "complete", "countdown", "waiting"}
Callbacks == {"off", "query", "addr", "block", "delay", "wait", "upgrade"}
TaskNames == {"save", "blockTimeout", "sendBlock", "send", "endReq", "addrReq"}

\* A file is downloaded by one timer and few tasks, and offsets stay in it.
TypeOK ==
  /\ imageUpgradeStatus \in Statuses
  /\ clientInfo.flg \in {"init", "header", "body"}
  /\ clientInfo.offset \in 0 .. Size /\ clientInfo.pos \in 0 .. Body
  /\ Len(clientInfo.crc) <= Body
  /\ fileOffset \in 0 .. Size \cup {Unset}
  /\ downloadFileVer \in Version \cup {NoVer}
  /\ timer \in Callbacks /\ tasks \in Seq(TaskNames) /\ Len(tasks) <= MaxTasks
  /\ imageBlockRetry \in 0 .. BlockRetries /\ upgradeEndRetry \in 0 .. EndRetries
  /\ addrCnt \in 0 .. AddrRetries - 1 /\ saveCnt \in 0 .. SaveEvery - 1
  /\ running \in {0, 1}

\* Whatever was lost, repeated, resumed or interrupted: the bank that runs and
\* every bank that may be started holds one whole image.
BootsWholeImage ==
  /\ started[running]
  /\ \A b \in {0, 1} : started[b] => Whole(image[b])

\* The client asks the server again one day: otaTimer is off only while a task
\* will arm it, but for five ways of the code to leave it so.  ota_queryStart
\* finds it busy ("missed"), no memory is left for the header ("noMemory"), a
\* block of another version ends the download ("mismatch"), the whole image is
\* refused ("refused"), or a task arms it for an update that is over ("late").
KeepsAsking ==
  timer = "off" /\ (\A i \in 1 .. Len(tasks) : tasks[i] = "save") => cutOff # "no"
===============================================================================
