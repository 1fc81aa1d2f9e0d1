------------------------------- MODULE DualMode -------------------------------
(***************************************************************************)
(* One radio for two stacks: concurrent_mode_main_loop, zb_ble_switch.c,   *)
(* with the button, app_ui.c, and the BLE callbacks of app_BLESlave.c.     *)
(*                                                                         *)
(* BLE listens for sensors all the time and lends the radio to Zigbee      *)
(* between its events.  The button turns on a period of connectable        *)
(* advertising, counted in advertising events; a bridge that is in no      *)
(* Zigbee network then runs nothing but BLE until the period is over.      *)
(***************************************************************************)
EXTENDS Integers

CONSTANTS
  AdvPeriod,   \* advertising events after the button: 80000/900 in the code
  AfterConn,   \* and around a connection: 6 in the code
  MaxPresses   \* bound: presses of the button

ASSUME DualModeAssumption ==
  AdvPeriod \in Nat \ {0} /\ AfterConn \in 1 .. AdvPeriod /\ MaxPresses \in Nat

VARIABLES
  at,          \* where the main loop is
  slot,        \* g_dualModeInfo.slot
  ble_on,      \* ble_wrk.ble_on
  key1flag,    \* ble_wrk.key1flag
  adv_restore_count,
  ota_is_working,
  link,        \* the BLE stack scans only, advertises too, or is connected
  joined,      \* external: zb_isDeviceJoinedNwk
  key,         \* the button as task_keys sees it: pressed for 10 ms or not yet
  presses      \* presses so far

wrk == <<ble_on, key1flag, adv_restore_count, ota_is_working>>
radioVars == <<at, slot, wrk, link, joined, key, presses>>

RadioInit ==
  /\ at = "top" /\ slot = "ble"
  /\ ble_on = FALSE /\ key1flag = FALSE
  /\ adv_restore_count = 0 /\ ota_is_working = FALSE
  /\ link = "scan" /\ joined = FALSE
  /\ key = "up" /\ presses = 0

-----------------------------------------------------------------------------
(* The button *)

\* Pressed for more than 10 ms.
Held ==
  /\ key' = "held"
  /\ ble_on' = TRUE
  /\ key1flag' = (key1flag \/ ~ble_on)
  /\ adv_restore_count' = IF adv_restore_count # 0 THEN AdvPeriod ELSE 0
  /\ UNCHANGED presses

Released == key' = "up" /\ UNCHANGED <<ble_on, key1flag, adv_restore_count, presses>>

task_keys ==
  /\ \/ Released
     \/ /\ key = "up" /\ presses < MaxPresses
        /\ key' = "down" /\ presses' = presses + 1
        /\ UNCHANGED <<ble_on, key1flag, adv_restore_count>>
     \/ key = "down" /\ UNCHANGED <<key, ble_on, key1flag, adv_restore_count, presses>>
     \/ key # "up" /\ Held
  /\ UNCHANGED <<slot, ota_is_working, link, joined>>

\* After 7 s, or at the end of an update over BLE, the bridge restarts.
Reboot ==
  /\ key = "held" \/ ota_is_working
  /\ at' = "top" /\ slot' = "ble"
  /\ ble_on' = FALSE /\ key1flag' = FALSE
  /\ adv_restore_count' = 0 /\ ota_is_working' = FALSE
  /\ link' = "scan" /\ joined' = FALSE
  /\ key' = "up" /\ UNCHANGED presses

-----------------------------------------------------------------------------
(* blt_sdk_main_loop, with the callbacks of app_BLESlave.c *)

\* Seeded fault: the advertising ends, the period of BLE does not.
BleOnAfter_Kept(count) == ble_on

BleOnAfter(count) == ble_on /\ count # 0

\* Seeded fault: the events are not counted.
Counted_Kept == adv_restore_count

Counted == IF adv_restore_count = 0 THEN 0 ELSE adv_restore_count - 1

app_advertise_prepare_handler ==
  /\ link = "adv"
  /\ adv_restore_count' = Counted
  /\ IF adv_restore_count = 0 THEN UNCHANGED <<ble_on, link>>
     ELSE /\ ble_on' = BleOnAfter(adv_restore_count')
          /\ link' = IF adv_restore_count' = 0 THEN "scan" ELSE "adv"
  /\ UNCHANGED ota_is_working

ConnCount == AfterConn

task_connect ==
  /\ link = "adv" /\ link' = "conn" /\ adv_restore_count' = ConnCount
  /\ UNCHANGED <<ble_on, ota_is_working>>

\* task_conn_update_req and task_conn_update_done
task_conn_update ==
  /\ link = "conn" /\ adv_restore_count' = ConnCount
  /\ UNCHANGED <<ble_on, ota_is_working, link>>

ble_remote_terminate ==
  /\ link = "conn" /\ link' = "adv" /\ adv_restore_count' = ConnCount
  /\ UNCHANGED <<ble_on, ota_is_working>>

app_enter_ota_mode ==
  /\ link = "conn" /\ ota_is_working' = TRUE
  /\ UNCHANGED <<ble_on, link, adv_restore_count>>

blt_sdk_main_loop ==
  /\ \/ UNCHANGED <<ble_on, adv_restore_count, ota_is_working, link>>
     \/ app_advertise_prepare_handler
     \/ task_connect \/ task_conn_update \/ ble_remote_terminate \/ app_enter_ota_mode
  /\ UNCHANGED <<slot, key1flag, joined, key, presses>>

-----------------------------------------------------------------------------
(* concurrent_mode_main_loop *)

OnlyBle(on) == ota_is_working \/ (on /\ ~joined)

\* The button is looked at first, in each slot.
Top == at = "top" /\ task_keys /\ at' = "slot"

Buttoned ==
  IF key1flag
  THEN /\ key1flag' = FALSE /\ ble_on' = TRUE
       /\ adv_restore_count' = AdvPeriod
       /\ link' = IF link = "conn" THEN "conn" ELSE "adv"
  ELSE UNCHANGED <<key1flag, ble_on, adv_restore_count, link>>

BleSlot ==
  /\ at = "slot" /\ slot = "ble"
  /\ Buttoned
  /\ at' = IF OnlyBle(ble_on') THEN "inner" ELSE "do"
  /\ UNCHANGED <<slot, ota_is_working, joined, key, presses>>

\* while(ota_is_working || (ble_on && !joined)), a pass in two steps
Inner == at = "inner" /\ blt_sdk_main_loop /\ at' = "innerKeys"

InnerKeys ==
  /\ at = "innerKeys" /\ task_keys
  /\ at' = IF OnlyBle(ble_on') THEN "inner" ELSE "do"

\* do { } while(app_zigbeeIdle())
Do == at = "do" /\ blt_sdk_main_loop /\ at' = "doKeys"

DoKeys(zigbeeIdle) ==
  /\ at = "doKeys" /\ task_keys
  /\ at' = IF zigbeeIdle THEN "do" ELSE "switch"

\* The time is there or not; BLS_LINK_STATE_IDLE does not occur, the stack scans.
ToZigbee(time) ==
  /\ at = "switch"
  /\ at' = IF time THEN "zb" ELSE "top"
  /\ slot' = IF time THEN "zigbee" ELSE "ble"
  /\ UNCHANGED <<wrk, link, joined, key, presses>>

ToBle ==
  /\ at = "slot" /\ slot = "zigbee"
  /\ slot' = "ble" /\ at' = "top"
  /\ UNCHANGED <<wrk, link, joined, key, presses>>

\* zb_task, after the switch or in its slot: the network is joined or lost.
zb_task ==
  /\ at = "zb" \/ (at = "slot" /\ slot = "zigbee")
  /\ at' = "top"
  /\ joined' \in BOOLEAN
  /\ UNCHANGED <<slot, wrk, link, key, presses>>

Loop ==
  \/ Top \/ BleSlot
  \/ Inner \/ InnerKeys
  \/ Do \/ \E zigbeeIdle \in BOOLEAN : DoKeys(zigbeeIdle)
  \/ \E time \in BOOLEAN : ToZigbee(time)
  \/ ToBle \/ zb_task

RadioNext == Loop \/ Reboot

RadioSpec == RadioInit /\ [][RadioNext]_radioVars

\* The loop never stops; the events of an advertising BLE stack come; Zigbee
\* has something to do now and then; the time between BLE events is long
\* enough for it and ends; the button is let go; an update ends, or times out
\* after the 16 s of bls_ota_setTimeout.
RadioFairSpec ==
  /\ RadioSpec
  /\ WF_radioVars(Loop)
  /\ SF_radioVars((Inner \/ Do) /\ app_advertise_prepare_handler)
  /\ SF_radioVars(DoKeys(FALSE)) /\ SF_radioVars(ToZigbee(TRUE)) /\ SF_radioVars(ToBle)
  /\ SF_radioVars((Top \/ InnerKeys \/ DoKeys(FALSE)) /\ Released)
  /\ WF_radioVars(ota_is_working /\ Reboot)

-----------------------------------------------------------------------------
(* Properties *)

\* The radio is in one of the places of the loop of zb_ble_switch.c,
\* and adv_restore_count never wraps below zero.
RadioTypeOK ==
  /\ at \in {"top", "slot", "inner", "innerKeys", "do", "doKeys", "switch", "zb"}
  /\ slot \in {"ble", "zigbee"}
  /\ ble_on \in BOOLEAN /\ key1flag \in BOOLEAN
  /\ ota_is_working \in BOOLEAN /\ joined \in BOOLEAN
  /\ adv_restore_count \in 0 .. AdvPeriod
  /\ link \in {"scan", "adv", "conn"}
  /\ key \in {"up", "down", "held"}
  /\ presses \in 0 .. MaxPresses

\* BLE is on exactly while somebody can connect or is connected, or a press of
\* the button waits to be taken; and advertising is always counted down, or it
\* would never end.
OnMeansReachable ==
  /\ ble_on <=> (link # "scan" \/ key1flag)
  /\ link # "scan" => adv_restore_count > 0

\* A press that the main loop took note of, and that did not reach a bridge
\* already on, turns on advertising ("switch the module to the BLE connection
\* standby mode", README.md).
PressServed == key1flag ~> ~key1flag

\* A period of advertising ends, or somebody has connected.
AdvertisingEnds == (link = "adv") ~> (link # "adv")

\* A press that came as the period ended, found while the loop is in BLE alone.
Trapped == at \in {"inner", "innerKeys"} /\ key1flag

\* Zigbee gets the radio again and again, unless BLE is connected or the press
\* of the button was trapped.
ZigbeeRuns == []<>(at = "zb" \/ link = "conn" \/ Trapped)
===============================================================================
