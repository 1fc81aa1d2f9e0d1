------------------------------- MODULE Settings -------------------------------
(***************************************************************************)
(* The settings of the bridge: restored when it starts, app_main.c, saved  *)
(* by the commands that change them, ble_cmd_parser.c and zcl_EpCb.c, in   *)
(* the two banks of the settings store.  A write is whole or not done at   *)
(* all, which is what KvStore promises and FlashEep keeps; this module is  *)
(* about the order of several writes and the power failing between them.   *)
(***************************************************************************)
EXTENDS Integers, Sequences

CONSTANTS
  Channels,   \* MAX_SCAN_DEVS
  MaxSets,    \* bound: changes of settings
  MaxStarts   \* bound: starts

ASSUME SettingsAssumption ==
  Channels \in Nat \ {0} /\ MaxSets \in Nat /\ MaxStarts \in Nat

Chan == 1 .. Channels

Version == {1, 2}
Type == {"switch", "light"}

\* Objects, and what they hold; Foreign: written by a firmware with another layout;
\* Raw: written by CMD_ID_EEP_RW, and not what the object is (its size, or no
\* version that is supported).
None == <<"none">>
Foreign == <<"foreign">>
Raw == <<"raw">>
Ver(v) == <<"ver", v>>
Mac(m) == <<"mac", m>>
OnOff(on, start) == <<"onoff", on, start>>
Types(ts) == <<"types", ts>>

Vers == {Ver(v) : v \in Version}
Macs == {Mac(m) : m \in BOOLEAN}
OnOffs == {OnOff(on, start) : on \in BOOLEAN, start \in BOOLEAN}
TypeLists == {Types(ts) : ts \in [Chan -> Type]}

Ids0 == {<<"ver">>, <<"type">>} \cup {<<"mac", c>> : c \in Chan}
Ids1 == {<<"onoff", c>> : c \in Chan}

AllOnOff == [c \in Chan |-> <<"onoff", c>>]

VARIABLES
  pc,      \* where the start is; "run" afterwards
  fw,      \* version of the firmware
  bank0,   \* EEP_ID_VER, EEP_ID_ONOFF_TYPE, EEP_ID_DMAC
  bank1,   \* EEP_ID_ONOFF
  mac,     \* dev_MAC # 0
  onOff, startUp, type,  \* attributes
  todo,    \* objects that the handler at work has still to save
  unsaved, \* channels whose type was set over BLE since the types were saved
  poked,   \* objects written by CMD_ID_EEP_RW, and neither saved nor read since
  sets,
  starts

ram == <<mac, onOff, startUp, type>>
behind == <<unsaved, poked>>
vars == <<pc, fw, bank0, bank1, ram, todo, behind, sets, starts>>

\* A module as it comes, or one that ran something else.
Init ==
  /\ pc = "check" /\ fw = 1
  /\ \E old \in {None, Foreign} :
       /\ bank0 = [id \in Ids0 |-> old] /\ bank1 = [id \in Ids1 |-> old]
  /\ mac = [c \in Chan |-> FALSE]
  /\ onOff = [c \in Chan |-> FALSE] /\ startUp = [c \in Chan |-> FALSE]
  /\ type = [c \in Chan |-> "switch"]
  /\ todo = <<>> /\ unsaved = {} /\ poked = {}
  /\ sets = 0 /\ starts = 0

-----------------------------------------------------------------------------
(* The start: flash_supported_eep_ver and user_app_init *)

\* Seeded fault: an update does not know the settings of the last version.
Supported_Same == bank0[<<"ver">>] = Ver(fw)

\* The board is not looked at, and each version is above the least one.
Supported == \E v \in Version : bank0[<<"ver">>] = Ver(v)

\* Seeded fault: only one bank is erased.
AfterErase0_Version == "version"

AfterErase0 == "erase1"

\* What flash_supported_eep_ver returns: false for a store just erased, and
\* for the version that was there before ...
Updated == \E v \in Version \ {fw} : bank0[<<"ver">>] = Ver(v)

\* Seeded fault: ... and the caller believes it.
Restores_Believed(ret) == ret

\* ... which the caller turns into true with "| IMAGE_TYPE".
Restores(ret) == TRUE

Start ==
  /\ pc = "check"
  /\ pc' = IF Supported THEN "version" ELSE "erase0"
  /\ UNCHANGED <<fw, bank0, bank1, ram, todo, behind, sets, starts>>

EraseBank0 ==
  /\ pc = "erase0"
  /\ bank0' = [id \in Ids0 |-> None]
  /\ pc' = AfterErase0
  /\ UNCHANGED <<fw, bank1, ram, todo, behind, sets, starts>>

EraseBank1 ==
  /\ pc = "erase1"
  /\ bank1' = [id \in Ids1 |-> None]
  /\ pc' = "version"
  /\ UNCHANGED <<fw, bank0, ram, todo, behind, sets, starts>>

\* flash_read_cfg of EEP_ID_DMAC, zcl_onOffAttr_restore, which reads into a
\* local variable and uses it found or not, zcl_onOffTypeAttr_restore; with a
\* relay app_onOffUpdate saves what was restored.
ReadOnOff(c, i) ==
  LET saved == bank1[<<"onoff", c>>]
  IN IF saved \in {None, Foreign} THEN BOOLEAN ELSE {saved[i]}

\* Bytes are read up to the size of the smaller, object or attribute.
ReadMac(c) ==
  LET saved == bank0[<<"mac", c>>]
  IN CASE saved = Raw -> BOOLEAN
       [] saved \in Macs -> {saved[2]}
       [] OTHER -> {mac[c]}

RestoredTypes(saved) ==
  IF saved \in {None, Foreign, Raw} THEN [c \in Chan |-> "switch"] ELSE saved[2]

Restore ==
  /\ mac' \in {f \in [Chan -> BOOLEAN] : \A c \in Chan : f[c] \in ReadMac(c)}
  /\ onOff' \in {f \in [Chan -> BOOLEAN] : \A c \in Chan : f[c] \in ReadOnOff(c, 2)}
  /\ startUp' \in {f \in [Chan -> BOOLEAN] : \A c \in Chan : f[c] \in ReadOnOff(c, 3)}
  /\ type' = RestoredTypes(bank0[<<"type">>])
  /\ todo' = AllOnOff

WriteVersion ==
  /\ pc = "version"
  /\ bank0' = [bank0 EXCEPT ![<<"ver">>] = Ver(fw)]
  /\ pc' = "run"
  /\ IF Restores(Updated) THEN Restore ELSE UNCHANGED <<ram, todo>>
  /\ UNCHANGED <<fw, bank1, behind, sets, starts>>

-----------------------------------------------------------------------------
(* The handlers: one at a time, on RAM first, then object by object *)

Content(id) ==
  CASE id[1] = "type" -> Types(type)
    [] id[1] = "mac" -> Mac(mac[id[2]])
    [] id[1] = "onoff" -> OnOff(onOff[id[2]], startUp[id[2]])

Save ==
  /\ pc = "run" /\ todo # <<>>
  /\ LET id == Head(todo)
     IN /\ IF id \in Ids0
           THEN bank0' = [bank0 EXCEPT ![id] = Content(id)] /\ UNCHANGED bank1
           ELSE bank1' = [bank1 EXCEPT ![id] = Content(id)] /\ UNCHANGED bank0
        /\ unsaved' = IF id[1] = "type" THEN {} ELSE unsaved
        /\ poked' = poked \ {id}
  /\ todo' = Tail(todo)
  /\ UNCHANGED <<pc, fw, ram, sets, starts>>

Handler(saved) ==
  /\ pc = "run" /\ todo = <<>> /\ sets < MaxSets
  /\ sets' = sets + 1
  /\ todo' = saved
  /\ UNCHANGED <<pc, fw, bank0, bank1, starts>>

\* CMD_ID_DEV_MAC sets, and reads back what it has saved; the bind key of
\* CMD_ID_BKEY is kept the same way.
SetMac(c, m) ==
  /\ Handler(<< <<"mac", c>> >>)
  /\ mac' = [mac EXCEPT ![c] = m]
  /\ UNCHANGED <<onOff, startUp, type, behind>>

\* app_onOffUpdate
Switch(c, on) ==
  /\ Handler(<< <<"onoff", c>> >>)
  /\ onOff' = [onOff EXCEPT ![c] = on]
  /\ UNCHANGED <<mac, startUp, type, behind>>

\* app_zclWriteReqCmd: startUpOnOff of a channel ...
WriteStartUp(c, v) ==
  /\ Handler(<< <<"onoff", c>> >>)
  /\ startUp' = [startUp EXCEPT ![c] = v]
  /\ UNCHANGED <<mac, onOff, type, behind>>

\* ... or its type, which is saved with the others.
WriteType(c, t) ==
  /\ Handler(<< <<"type">> >>)
  /\ type' = [type EXCEPT ![c] = t]
  /\ UNCHANGED <<mac, onOff, startUp, behind>>

\* CMD_ID_CMDONOFF sets all types, and saves every onOff.
BleType(ts) ==
  /\ Handler(AllOnOff)
  /\ type' = ts
  /\ unsaved' = unsaved \cup {c \in Chan : ts[c] # type[c]}
  /\ UNCHANGED <<mac, onOff, startUp, poked>>

\* CMD_ID_DEV_MAC without an address: what is stored is read into RAM.
GetMac(c) ==
  /\ Handler(<<>>)
  /\ \E m \in ReadMac(c) : mac' = [mac EXCEPT ![c] = m]
  /\ poked' = poked \ {<<"mac", c>>}
  /\ UNCHANGED <<onOff, startUp, type, unsaved>>

Writable(id) ==
  {Raw} \cup (CASE id[1] = "ver" -> Vers
                [] id[1] = "type" -> TypeLists
                [] id[1] = "mac" -> Macs)

\* CMD_ID_EEP_RW writes any bytes to an object of the first bank, the version
\* too, and leaves RAM alone.
EepRw(id, x) ==
  /\ pc = "run" /\ todo = <<>> /\ sets < MaxSets
  /\ sets' = sets + 1
  /\ bank0' = [bank0 EXCEPT ![id] = x]
  /\ poked' = poked \cup {id}
  /\ UNCHANGED <<pc, fw, bank1, ram, todo, unsaved, starts>>

\* A reset, or the power fails: RAM is lost, and the firmware may be new.
Restart(v) ==
  /\ starts < MaxStarts /\ starts' = starts + 1
  /\ fw' = v
  /\ pc' = "check"
  /\ mac' = [c \in Chan |-> FALSE]
  /\ onOff' = [c \in Chan |-> FALSE] /\ startUp' = [c \in Chan |-> FALSE]
  /\ type' = [c \in Chan |-> "switch"]
  /\ todo' = <<>> /\ unsaved' = {} /\ poked' = {}
  /\ UNCHANGED <<bank0, bank1, sets>>

Next ==
  \/ Start \/ EraseBank0 \/ EraseBank1 \/ WriteVersion
  \/ Save
  \/ \E c \in Chan, b \in BOOLEAN : SetMac(c, b) \/ Switch(c, b) \/ WriteStartUp(c, b)
  \/ \E c \in Chan, t \in Type : WriteType(c, t)
  \/ \E ts \in [Chan -> Type] : BleType(ts)
  \/ \E c \in Chan : GetMac(c)
  \/ \E id \in Ids0 : \E x \in Writable(id) : EepRw(id, x)
  \/ \E v \in Version : Restart(v)

Spec == Init /\ [][Next]_vars

-----------------------------------------------------------------------------
(* Properties *)

\* Banks hold values of their kind or the marks of another firmware; RAM
\* always holds a value of the program (app_EpCfg.c, app_main.c).
TypeOK ==
  /\ pc \in {"check", "erase0", "erase1", "version", "run"}
  /\ fw \in Version
  /\ DOMAIN bank0 = Ids0 /\ DOMAIN bank1 = Ids1
  /\ bank0[<<"ver">>] \in {None, Foreign, Raw} \cup Vers
  /\ bank0[<<"type">>] \in {None, Foreign, Raw} \cup TypeLists
  /\ \A c \in Chan : /\ bank0[<<"mac", c>>] \in {None, Foreign, Raw} \cup Macs
                     /\ bank1[<<"onoff", c>>] \in {None, Foreign} \cup OnOffs
  /\ mac \in [Chan -> BOOLEAN] /\ type \in [Chan -> Type]
  /\ onOff \in [Chan -> BOOLEAN] /\ startUp \in [Chan -> BOOLEAN]
  /\ todo \in Seq((Ids0 \ {<<"ver">>}) \cup Ids1) /\ unsaved \subseteq Chan
  /\ poked \subseteq Ids0
  /\ sets \in 0 .. MaxSets /\ starts \in 0 .. MaxStarts

\* Once a version is in the store nothing of another layout is, in neither
\* bank, wherever the power failed while they were erased (flash_eep.c).
NothingForeign ==
  Supported => Foreign \notin {bank0[id] : id \in Ids0} \cup {bank1[id] : id \in Ids1}

Unwritten == {todo[i] : i \in DOMAIN todo}

\* A bridge that runs works with what is stored, whatever was set, saved and
\* restored before, for all but the objects that are about to be saved, those
\* that were never saved, types set over BLE, and what CMD_ID_EEP_RW wrote
\* behind its back, until that is read or saved over (ble_cmd_parser.c).
RamIsStored ==
  pc = "run" =>
    \A c \in Chan :
      /\ <<"mac", c>> \in Unwritten \cup poked
           \/ bank0[<<"mac", c>>] \in {None, Raw, Mac(mac[c])}
      /\ <<"onoff", c>> \in Unwritten
           \/ bank1[<<"onoff", c>>] \in {None, OnOff(onOff[c], startUp[c])}
      /\ <<"type">> \in Unwritten \cup poked \/ c \in unsaved
           \/ type[c] = IF bank0[<<"type">>] \in {None, Raw} THEN "switch"
                        ELSE bank0[<<"type">>][2][c]

\* A store that has a version is never erased again: what was saved is there
\* after any number of starts and updates, until CMD_ID_EEP_RW breaks the version.
NeverErased ==
  [][bank0[<<"ver">>] \in Vers =>
       \A id \in Ids0 : bank0[id] # None => bank0'[id] # None]_vars
===============================================================================
