---------------------------- MODULE BridgeProofs ----------------------------
(***************************************************************************)
(* Proofs about the program of the bridge, app_main.c.                     *)
(*                                                                         *)
(* Its start and its settings (Settings), for any number of channels,      *)
(* changes, starts and updates: nothing foreign survives an interrupted    *)
(* erase, nothing saved is erased, and RAM holds what is stored.           *)
(*                                                                         *)
(* Its main loop (DualMode), for every length of the periods and any       *)
(* number of presses of the button: BLE is on exactly while it can be      *)
(* reached.                                                                *)
(*                                                                         *)
(* What it takes from its sensors (ScanFilter), for any advertisements of  *)
(* any length: no trigger is lost; and if each sensor speaks at one place, *)
(* readings and triggers are what it said last.                            *)
(***************************************************************************)
EXTENDS Settings, DualMode, ScanFilter, SequenceTheorems, WellFoundedInduction,
        TLAPS

\* No object of another layout is in the banks.
Cleared ==
  /\ \A id \in Ids0 : bank0[id] # Foreign
  /\ \A id \in Ids1 : bank1[id] # Foreign

\* What each step of the start has done: the erase comes before the version,
\* and the version before anything runs.
Progress ==
  /\ pc \in {"erase0", "erase1"} => ~Supported
  /\ pc = "erase1" => \A id \in Ids0 : bank0[id] = None
  /\ pc \in {"version", "run"} \/ Supported => Cleared

\* The inductive invariant.
IInv == TypeOK /\ Progress /\ RamIsStored

-----------------------------------------------------------------------------
(* The objects and their contents *)

LEMMA Ids ==
  /\ <<"ver">> \in Ids0 /\ <<"type">> \in Ids0
  /\ \A c \in Chan : <<"mac", c>> \in Ids0 /\ <<"onoff", c>> \in Ids1
  /\ \A id \in Ids0 :
       id = <<"ver">> \/ id = <<"type">> \/ \E c \in Chan : id = <<"mac", c>>
  /\ \A id \in Ids1 : \E c \in Chan : id = <<"onoff", c>>
BY DEF Ids0, Ids1

\* The first field tells the objects apart.
LEMMA Apart ==
  /\ <<"ver">> # <<"type">>
  /\ \A c \in Chan : <<"ver">> # <<"mac", c>> /\ <<"type">> # <<"mac", c>>
  /\ \A id \in Ids0 : id \notin Ids1
BY DEF Ids0, Ids1

\* ... and the contents.
LEMMA Tags ==
  /\ None # Foreign /\ Mac(TRUE) # Mac(FALSE)
  /\ Macs = {Mac(TRUE), Mac(FALSE)}
  /\ Raw # None /\ Raw # Foreign
  /\ \A x \in {None, Foreign, Raw} :
       x \notin Vers /\ x \notin TypeLists /\ x \notin Macs /\ x \notin OnOffs
  /\ \A v \in Version : Ver(v) \in Vers
  /\ \A ts \in [Chan -> Type] : Types(ts) \in TypeLists /\ Types(ts)[2] = ts
  /\ \A x \in TypeLists : x[2] \in [Chan -> Type]
  /\ \A on, start \in BOOLEAN : OnOff(on, start) \in OnOffs
  /\ \A x \in OnOffs :
       x[2] \in BOOLEAN /\ x[3] \in BOOLEAN /\ x = OnOff(x[2], x[3])
  /\ \A m \in BOOLEAN : Mac(m) \in Macs /\ Mac(m)[2] = m
<1>1. /\ None # Foreign /\ Mac(TRUE) # Mac(FALSE) /\ Raw # None /\ Raw # Foreign
      /\ Macs = {Mac(TRUE), Mac(FALSE)}
  BY DEF None, Foreign, Raw, Mac, Macs
<1>2. ASSUME NEW x \in {None, Foreign, Raw}
      PROVE  x \notin Vers /\ x \notin TypeLists /\ x \notin Macs /\ x \notin OnOffs
  BY DEF None, Foreign, Raw, Vers, TypeLists, Macs, OnOffs, Ver, Types, Mac, OnOff
<1>3. \A v \in Version : Ver(v) \in Vers
  BY DEF Vers
<1>4. \A ts \in [Chan -> Type] : Types(ts) \in TypeLists /\ Types(ts)[2] = ts
  BY DEF TypeLists, Types
<1>5. \A x \in TypeLists : x[2] \in [Chan -> Type]
  BY DEF TypeLists, Types
<1>6. \A on, start \in BOOLEAN : OnOff(on, start) \in OnOffs
  BY DEF OnOffs
<1>7. \A x \in OnOffs :
        x[2] \in BOOLEAN /\ x[3] \in BOOLEAN /\ x = OnOff(x[2], x[3])
  BY DEF OnOffs, OnOff
<1>8. \A m \in BOOLEAN : Mac(m) \in Macs /\ Mac(m)[2] = m
  BY DEF Macs, Mac
<1> QED
  BY <1>1, <1>2, <1>3, <1>4, <1>5, <1>6, <1>7, <1>8

\* A type invariant that fits the provers: what Supported leaves open.
LEMMA Unsupported ==
  ASSUME TypeOK
  PROVE  /\ Supported <=> bank0[<<"ver">>] \in Vers
         /\ Supported <=> bank0[<<"ver">>] \notin {None, Foreign, Raw}
BY Tags DEF TypeOK, Supported, Vers

\* The rest of a queue holds all but its head.
LEMMA QueueTail ==
  ASSUME NEW S, NEW q \in Seq(S), q # <<>>, NEW x,
         \E i \in DOMAIN q : q[i] = x
  PROVE  /\ Head(q) \in S /\ Tail(q) \in Seq(S)
         /\ x = Head(q) \/ \E i \in DOMAIN Tail(q) : Tail(q)[i] = x
<1>1. PICK i \in 1 .. Len(q) : q[i] = x
  OBVIOUS
<1>2. Head(q) \in S /\ Tail(q) \in Seq(S)
  OBVIOUS
<1>3. CASE i = 1
  BY <1>1, <1>2, <1>3
<1>4. CASE i # 1
  <2>1. i - 1 \in 1 .. Len(Tail(q)) /\ Tail(q)[i - 1] = x
    BY <1>1, <1>4
  <2>2. i - 1 \in DOMAIN Tail(q)
    BY <1>2, <2>1
  <2> QED
    BY <1>2, <2>1, <2>2
<1> QED
  BY <1>3, <1>4

Objects == (Ids0 \ {<<"ver">>}) \cup Ids1

\* The queue of one object, and the one of all onOff.
LEMMA Queues ==
  /\ AllOnOff \in Seq(Objects)
  /\ \A c \in Chan : \E i \in DOMAIN AllOnOff : AllOnOff[i] = <<"onoff", c>>
  /\ \A o \in Objects : <<o>> \in Seq(Objects) /\ (\E i \in DOMAIN <<o>> : <<o>>[i] = o)
<1>1. AllOnOff \in [1 .. Channels -> Objects]
  BY Ids DEF AllOnOff, Chan, Objects
<1>2. AllOnOff \in Seq(Objects)
  BY <1>1, SettingsAssumption
<1>3. ASSUME NEW c \in Chan
      PROVE  \E i \in DOMAIN AllOnOff : AllOnOff[i] = <<"onoff", c>>
  BY <1>3 DEF AllOnOff
<1>4. ASSUME NEW o \in Objects
      PROVE  <<o>> \in Seq(Objects) /\ \E i \in DOMAIN <<o>> : <<o>>[i] = o
  <2>1. 1 \in DOMAIN <<o>> /\ <<o>>[1] = o
    OBVIOUS
  <2> QED
    BY <2>1, <1>4
<1> QED
  BY <1>2, <1>3, <1>4

-----------------------------------------------------------------------------
(* The start *)

LEMMA InitIInv ==
  ASSUME Init
  PROVE  IInv
<1>1. TypeOK
  BY Ids, SettingsAssumption DEF Init, TypeOK, Type, Version
<1>2. ~Supported
  BY <1>1, Unsupported, Ids DEF Init
<1> QED
  BY <1>1, <1>2 DEF Init, IInv, Progress, RamIsStored

LEMMA StartStep ==
  ASSUME IInv, Start
  PROVE  IInv'
<1>1. TypeOK'
  BY DEF IInv, Start, TypeOK, ram, behind
<1>2. Progress'
  BY DEF IInv, Start, Progress, Supported, Cleared, ram
<1> QED
  BY <1>1, <1>2 DEF IInv, RamIsStored, Start

LEMMA EraseBank0Step ==
  ASSUME IInv, EraseBank0
  PROVE  IInv'
<1>1. TypeOK'
  BY Ids DEF IInv, EraseBank0, TypeOK, AfterErase0, ram, behind
<1>2. bank0'[<<"ver">>] = None
  BY Ids DEF EraseBank0
<1>3. Progress'
  BY <1>2, Tags, Ids DEF IInv, EraseBank0, Progress, Supported, AfterErase0
<1> QED
  BY <1>1, <1>3 DEF IInv, RamIsStored, EraseBank0, AfterErase0

LEMMA EraseBank1Step ==
  ASSUME IInv, EraseBank1
  PROVE  IInv'
<1>1. TypeOK'
  BY Ids DEF IInv, EraseBank1, TypeOK, ram, behind
<1>2. Cleared'
  BY Tags DEF IInv, EraseBank1, Progress, Cleared
<1>3. Progress'
  BY <1>2 DEF EraseBank1, Progress
<1> QED
  BY <1>1, <1>3 DEF IInv, RamIsStored, EraseBank1

\* What is read of a stored address.
LEMMA StoredMac ==
  ASSUME NEW c, NEW m \in ReadMac(c), bank0[<<"mac", c>>] \in {None, Raw} \cup Macs
  PROVE  bank0[<<"mac", c>>] \in {None, Raw, Mac(m)}
<1>1. CASE bank0[<<"mac", c>>] \in Macs
  <2>1. PICK k \in BOOLEAN : bank0[<<"mac", c>>] = Mac(k)
    BY <1>1 DEF Macs
  <2>2. bank0[<<"mac", c>>] # Raw /\ bank0[<<"mac", c>>][2] = k
    BY <1>1, <2>1, Tags
  <2>3. m = k
    BY <1>1, <2>2 DEF ReadMac
  <2> QED
    BY <2>1, <2>3
<1> QED
  BY <1>1

\* It is on or off.
LEMMA MacRead ==
  ASSUME TypeOK, NEW c \in Chan, NEW m \in ReadMac(c)
  PROVE  m \in BOOLEAN
<1>1. CASE bank0[<<"mac", c>>] \in Macs /\ bank0[<<"mac", c>>] # Raw
  <2>1. PICK k \in BOOLEAN : bank0[<<"mac", c>>] = Mac(k)
    BY <1>1 DEF Macs
  <2>2. m = bank0[<<"mac", c>>][2]
    BY <1>1 DEF ReadMac
  <2> QED
    BY <2>1, <2>2, Tags
<1>2. CASE bank0[<<"mac", c>>] = Raw
  BY <1>2, Tags DEF ReadMac
<1>3. CASE bank0[<<"mac", c>>] \notin Macs /\ bank0[<<"mac", c>>] # Raw
  BY <1>3 DEF ReadMac, TypeOK
<1> QED
  BY <1>1, <1>2, <1>3

LEMMA WriteVersionStep ==
  ASSUME IInv, WriteVersion
  PROVE  IInv'
<1>0. TypeOK /\ Cleared /\ Restore /\ pc' = "run" /\ UNCHANGED <<fw, bank1, behind, sets, starts>>
  BY DEF IInv, Progress, WriteVersion, Restores
<1>1. bank0' = [bank0 EXCEPT ![<<"ver">>] = Ver(fw)]
  BY DEF WriteVersion
<1>2. /\ bank0'[<<"ver">>] = Ver(fw) /\ bank0'[<<"type">>] = bank0[<<"type">>]
      /\ \A c \in Chan : bank0'[<<"mac", c>>] = bank0[<<"mac", c>>]
  BY <1>0, <1>1, Ids, Apart DEF TypeOK
<1>3. todo' = AllOnOff /\ type' \in [Chan -> Type]
  BY <1>0, Tags, Ids DEF Restore, RestoredTypes, TypeOK, Type
<1>4. TypeOK'
  <2>1. todo' \in Seq(Objects)
    BY <1>3, Queues
  <2>2. /\ mac' \in [Chan -> BOOLEAN]
        /\ onOff' \in [Chan -> BOOLEAN] /\ startUp' \in [Chan -> BOOLEAN]
    BY <1>0 DEF Restore
  <2>3. Ver(fw) \in Vers
    BY <1>0, Tags DEF TypeOK
  <2> QED
    BY <1>0, <1>1, <1>2, <1>3, <2>1, <2>2, <2>3 DEF TypeOK, Objects, behind
<1>5. Progress'
  BY <1>0, <1>1, <1>2, Tags, Ids DEF Progress, Cleared, TypeOK
<1>6. RamIsStored'
  <2> SUFFICES ASSUME NEW c \in Chan
               PROVE  /\ bank0'[<<"mac", c>>] \in {None, Raw, Mac(mac'[c])}
                      /\ <<"onoff", c>> \in Unwritten'
                      /\ type'[c] = IF bank0'[<<"type">>] \in {None, Raw} THEN "switch"
                                     ELSE bank0'[<<"type">>][2][c]
    BY DEF RamIsStored
  <2>2. bank0'[<<"mac", c>>] \in {None, Raw, Mac(mac'[c])}
    <3>1. bank0[<<"mac", c>>] \in {None, Raw} \cup Macs
      BY <1>0, Ids DEF TypeOK, Cleared
    <3>2. mac'[c] \in ReadMac(c)
      BY <1>0 DEF Restore
    <3> QED
      BY <1>2, <3>1, <3>2, StoredMac
  <2>3. <<"onoff", c>> \in Unwritten'
    BY <1>3, Queues DEF Unwritten
  <2>4. type'[c] = IF bank0'[<<"type">>] \in {None, Raw} THEN "switch"
                   ELSE bank0'[<<"type">>][2][c]
    BY <1>0, <1>2, Ids DEF Restore, RestoredTypes, Cleared
  <2> QED
    BY <2>2, <2>3, <2>4
<1> QED
  BY <1>4, <1>5, <1>6 DEF IInv

-----------------------------------------------------------------------------
(* The handlers *)

\* Saving one object: it holds what RAM does, and leaves the queue.
LEMMA SaveStep ==
  ASSUME IInv, Save
  PROVE  IInv'
<1> DEFINE id == Head(todo)
<1>0. /\ TypeOK /\ Cleared /\ pc = "run" /\ RamIsStored /\ todo # <<>>
      /\ poked' = poked \ {id} /\ poked' \subseteq Ids0
      /\ todo \in Seq(Objects) /\ todo' = Tail(todo)
      /\ UNCHANGED <<pc, fw, mac, onOff, startUp, type, sets, starts>>
  BY DEF IInv, Progress, Save, TypeOK, Objects, ram
<1>1. id \in Objects /\ todo' \in Seq(Objects)
  BY <1>0
<1>2. ASSUME NEW x, x \in Unwritten
      PROVE  x = id \/ x \in Unwritten'
  <2>1. \E i \in DOMAIN todo : todo[i] = x
    BY <1>2 DEF Unwritten
  <2>2. x = Head(todo) \/ \E i \in DOMAIN Tail(todo) : Tail(todo)[i] = x
    BY <1>0, <2>1, QueueTail
  <2> QED
    BY <1>0, <2>2 DEF Unwritten
<1>3. bank0'[<<"ver">>] = bank0[<<"ver">>]
  BY <1>0, <1>1, Ids, Apart DEF Save, TypeOK, Objects
<1>4. CASE id = <<"type">>
  <2>1. /\ bank0' = [bank0 EXCEPT ![<<"type">>] = Types(type)] /\ bank1' = bank1
        /\ unsaved' = {}
    BY <1>4, Ids DEF Save, Content
  <2>2. Types(type) \in TypeLists /\ Types(type)[2] = type
    BY <1>0, Tags DEF TypeOK
  <2>3. bank0'[<<"type">>] = Types(type)
        /\ \A c \in Chan : bank0'[<<"mac", c>>] = bank0[<<"mac", c>>]
    BY <1>0, <2>1, Ids, Apart DEF TypeOK
  <2>4. TypeOK'
    BY <1>0, <1>1, <1>3, <2>1, <2>2, <2>3 DEF TypeOK, Objects
  <2>5. Cleared'
    BY <1>0, <2>1, <2>2, Tags, Ids DEF Cleared, TypeOK
  <2>6. RamIsStored'
    <3> SUFFICES ASSUME NEW d \in Chan
                 PROVE  /\ <<"mac", d>> \in Unwritten' \cup poked'
                             \/ bank0'[<<"mac", d>>] \in {None, Raw, Mac(mac'[d])}
                        /\ <<"onoff", d>> \in Unwritten'
                             \/ bank1'[<<"onoff", d>>] \in {None, OnOff(onOff'[d], startUp'[d])}
                        /\ bank0'[<<"type">>] \notin {None, Raw}
                        /\ type'[d] = bank0'[<<"type">>][2][d]
      BY <1>0 DEF RamIsStored
    <3>1. <<"mac", d>> \in Unwritten \cup poked => <<"mac", d>> \in Unwritten' \cup poked'
      BY <1>0, <1>2, <1>4, Apart
    <3>2. <<"onoff", d>> \in Unwritten => <<"onoff", d>> \in Unwritten'
      BY <1>2, <1>4, Apart, Ids
    <3> QED
      BY <1>0, <2>1, <2>2, <2>3, <3>1, <3>2, Tags DEF RamIsStored
  <2> QED
    BY <1>0, <2>4, <2>5, <2>6 DEF IInv, Progress
<1>5. ASSUME NEW c \in Chan, id = <<"mac", c>>
      PROVE  IInv'
  <2>1. /\ bank0' = [bank0 EXCEPT ![<<"mac", c>>] = Mac(mac[c])] /\ bank1' = bank1
        /\ unsaved' = unsaved
    <3>1. Content(id) = Mac(mac[c])
      BY <1>5 DEF Content
    <3>2. id \in Ids0 /\ id[1] # "type"
      <4>1. <<"mac", c>>[1] = "mac"
        OBVIOUS
      <4> QED
        BY <1>5, <4>1, Ids
    <3>3. bank0' = [bank0 EXCEPT ![id] = Content(id)] /\ bank1' = bank1
          /\ unsaved' = unsaved
      BY <3>2 DEF Save
    <3> QED
      BY <1>5, <3>1, <3>3
  <2>2. Mac(mac[c]) \in Macs
    BY <1>0, Tags DEF TypeOK
  <2>3. /\ bank0'[<<"mac", c>>] = Mac(mac[c])
        /\ bank0'[<<"type">>] = bank0[<<"type">>]
        /\ \A d \in Chan : d # c => bank0'[<<"mac", d>>] = bank0[<<"mac", d>>]
    BY <1>0, <2>1, Ids, Apart DEF TypeOK
  <2>4. TypeOK'
    BY <1>0, <1>1, <1>3, <2>1, <2>2, <2>3 DEF TypeOK, Objects
  <2>5. Cleared'
    BY <1>0, <2>1, <2>2, Tags, Ids DEF Cleared, TypeOK
  <2>6. RamIsStored'
    <3>1. ASSUME NEW x, x # <<"mac", c>>
          PROVE  /\ x \in Unwritten => x \in Unwritten'
                 /\ x \in poked => x \in poked'
      BY <1>0, <1>2, <1>5, <3>1
    <3>2. \A d \in Chan : <<"onoff", d>> # <<"mac", c>> /\ <<"type">> # <<"mac", c>>
                            /\ (d # c => <<"mac", d>> # <<"mac", c>>)
      BY Ids, Apart
    <3> QED
      BY <1>0, <2>1, <2>3, <3>1, <3>2 DEF RamIsStored
  <2> QED
    BY <1>0, <2>4, <2>5, <2>6 DEF IInv, Progress
<1>6. ASSUME NEW c \in Chan, id = <<"onoff", c>>
      PROVE  IInv'
  <2>1. /\ bank1' = [bank1 EXCEPT ![<<"onoff", c>>] = OnOff(onOff[c], startUp[c])]
        /\ bank0' = bank0 /\ unsaved' = unsaved
    BY <1>6, Ids, Apart DEF Save, Content
  <2>2. OnOff(onOff[c], startUp[c]) \in OnOffs
    BY <1>0, Tags DEF TypeOK
  <2>3. /\ bank1'[<<"onoff", c>>] = OnOff(onOff[c], startUp[c])
        /\ \A d \in Chan : d # c => bank1'[<<"onoff", d>>] = bank1[<<"onoff", d>>]
    BY <1>0, <2>1, Ids DEF TypeOK
  <2>4. TypeOK'
    BY <1>0, <1>1, <2>1, <2>2, <2>3 DEF TypeOK, Objects
  <2>5. Cleared'
    BY <1>0, <2>1, <2>2, Tags, Ids DEF Cleared, TypeOK
  <2>6. RamIsStored'
    <3>1. ASSUME NEW x, x # <<"onoff", c>>
          PROVE  /\ x \in Unwritten => x \in Unwritten'
                 /\ x \in poked => x \in poked'
      BY <1>0, <1>2, <1>6, <3>1
    <3>2. \A d \in Chan : <<"mac", d>> # <<"onoff", c>> /\ <<"type">> # <<"onoff", c>>
                            /\ (d # c => <<"onoff", d>> # <<"onoff", c>>)
      BY Ids, Apart
    <3> QED
      BY <1>0, <2>1, <2>3, <3>1, <3>2 DEF RamIsStored
  <2> QED
    BY <1>0, <2>4, <2>5, <2>6 DEF IInv, Progress
<1>7. id = <<"type">> \/ \E c \in Chan : id = <<"mac", c>> \/ id = <<"onoff", c>>
  BY <1>1, Ids DEF Objects
<1> QED
  BY <1>4, <1>5, <1>6, <1>7

\* A handler starts with nothing left to save.
LEMMA HandlerBegins ==
  ASSUME IInv, NEW saved \in Seq(Objects), Handler(saved)
  PROVE  /\ TypeOK /\ RamIsStored /\ pc = "run" /\ Unwritten = {}
         /\ sets' \in 0 .. MaxSets /\ todo' = saved
         /\ UNCHANGED <<pc, fw, bank0, bank1, starts>>
         /\ Progress'
<1>1. Unwritten = {}
  BY DEF Handler, Unwritten
<1>2. sets' \in 0 .. MaxSets
  BY SettingsAssumption DEF IInv, TypeOK, Handler
<1>3. Progress'
  BY DEF IInv, Progress, Supported, Cleared, Handler
<1> QED
  BY <1>1, <1>2, <1>3 DEF IInv, Handler

\* ... and queues what it changed in RAM.
LEMMA SetMacStep ==
  ASSUME IInv, NEW c \in Chan, NEW m \in BOOLEAN, SetMac(c, m)
  PROVE  IInv'
<1>1. <<"mac", c>> \in Objects
  BY Ids, Apart DEF Objects
<1>2. << <<"mac", c>> >> \in Seq(Objects) /\ Handler(<< <<"mac", c>> >>)
  BY <1>1, Queues DEF SetMac
<1>3. todo' = << <<"mac", c>> >> /\ <<"mac", c>> \in Unwritten'
  BY <1>1, <1>2, Queues, HandlerBegins DEF Unwritten
<1>4. TypeOK'
  BY <1>2, <1>3, HandlerBegins DEF TypeOK, SetMac, Objects, behind
<1>5. RamIsStored'
  BY <1>2, <1>3, HandlerBegins DEF TypeOK, RamIsStored, SetMac, behind
<1> QED
  BY <1>2, <1>4, <1>5, HandlerBegins DEF IInv

LEMMA OnOffStep ==
  ASSUME IInv, NEW c \in Chan, NEW v \in BOOLEAN, Switch(c, v) \/ WriteStartUp(c, v)
  PROVE  IInv'
<1>1. <<"onoff", c>> \in Objects
  BY Ids DEF Objects
<1>2. << <<"onoff", c>> >> \in Seq(Objects) /\ Handler(<< <<"onoff", c>> >>)
  BY <1>1, Queues DEF Switch, WriteStartUp
<1>3. todo' = << <<"onoff", c>> >> /\ <<"onoff", c>> \in Unwritten'
  BY <1>1, <1>2, Queues, HandlerBegins DEF Unwritten
<1>4. TypeOK'
  BY <1>2, <1>3, HandlerBegins DEF TypeOK, Switch, WriteStartUp, Objects, behind
<1>5. RamIsStored'
  BY <1>2, <1>3, HandlerBegins DEF TypeOK, RamIsStored, Switch, WriteStartUp, behind
<1> QED
  BY <1>2, <1>4, <1>5, HandlerBegins DEF IInv

LEMMA WriteTypeStep ==
  ASSUME IInv, NEW c \in Chan, NEW t \in Type, WriteType(c, t)
  PROVE  IInv'
<1>1. <<"type">> \in Objects
  BY Ids, Apart DEF Objects
<1>2. << <<"type">> >> \in Seq(Objects) /\ Handler(<< <<"type">> >>)
  BY <1>1, Queues DEF WriteType
<1>3. todo' = << <<"type">> >> /\ <<"type">> \in Unwritten'
  BY <1>1, <1>2, Queues, HandlerBegins DEF Unwritten
<1>4. TypeOK'
  BY <1>2, <1>3, HandlerBegins DEF TypeOK, WriteType, Objects, behind
<1>5. RamIsStored'
  BY <1>2, <1>3, HandlerBegins DEF TypeOK, RamIsStored, WriteType, behind
<1> QED
  BY <1>2, <1>4, <1>5, HandlerBegins DEF IInv

LEMMA BleTypeStep ==
  ASSUME IInv, NEW ts \in [Chan -> Type], BleType(ts)
  PROVE  IInv'
<1>1. AllOnOff \in Seq(Objects) /\ Handler(AllOnOff)
  BY Queues DEF BleType
<1>2. todo' = AllOnOff /\ \A c \in Chan : <<"onoff", c>> \in Unwritten'
  BY <1>1, Queues, HandlerBegins DEF Unwritten
<1>3. TypeOK'
  BY <1>1, <1>2, HandlerBegins DEF TypeOK, BleType, Objects, behind
<1>4. RamIsStored'
  BY <1>1, <1>2, HandlerBegins DEF TypeOK, RamIsStored, BleType, behind
<1> QED
  BY <1>1, <1>3, <1>4, HandlerBegins DEF IInv

\* An address is read into RAM.
LEMMA GetMacStep ==
  ASSUME IInv, NEW c \in Chan, GetMac(c)
  PROVE  IInv'
<1>1. <<>> \in Seq(Objects) /\ Handler(<<>>)
  BY DEF GetMac
<1>2. PICK m \in ReadMac(c) : mac' = [mac EXCEPT ![c] = m]
  BY DEF GetMac
<1>3. TypeOK /\ RamIsStored /\ Cleared /\ pc = "run" /\ m \in BOOLEAN
  BY <1>1, <1>2, HandlerBegins, MacRead DEF IInv, Progress
<1>4. TypeOK'
  BY <1>1, <1>2, <1>3, HandlerBegins DEF TypeOK, GetMac, Objects
<1>5. RamIsStored'
  <2>1. bank0[<<"mac", c>>] \in {None, Raw, Mac(m)}
    <3>1. bank0[<<"mac", c>>] \in {None, Raw} \cup Macs
      BY <1>3, Ids DEF TypeOK, Cleared
    <3> QED
      BY <3>1, StoredMac
  <2>2. /\ mac'[c] = m /\ \A d \in Chan : d # c => mac'[d] = mac[d]
        /\ \A x : x # <<"mac", c>> /\ x \in poked => x \in poked'
    BY <1>2, <1>3 DEF TypeOK, GetMac
  <2>3. \A d \in Chan : /\ <<"type">> # <<"mac", c>>
                         /\ (d # c => <<"mac", d>> # <<"mac", c>>)
    BY Apart
  <2>4. Unwritten = {} /\ UNCHANGED <<pc, bank0, bank1, onOff, startUp, type, unsaved>>
    BY <1>1, HandlerBegins DEF GetMac
  <2> QED
    BY <1>3, <2>1, <2>2, <2>3, <2>4 DEF RamIsStored
<1> QED
  BY <1>1, <1>4, <1>5, HandlerBegins DEF IInv

\* What may be written to an object.
LEMMA WritableIs ==
  ASSUME NEW id \in Ids0, NEW x \in Writable(id)
  PROVE  /\ id = <<"ver">> => x \in {Raw} \cup Vers
         /\ id = <<"type">> => x \in {Raw} \cup TypeLists
         /\ \A c \in Chan : id = <<"mac", c>> => x \in {Raw} \cup Macs
         /\ x # None /\ x # Foreign
<1>1. CASE id = <<"ver">>
  <2>1. id[1] = "ver"
    BY <1>1
  <2> QED
    BY <1>1, <2>1, Apart, Tags DEF Writable
<1>2. CASE id = <<"type">>
  <2>1. id[1] = "type"
    BY <1>2
  <2> QED
    BY <1>2, <2>1, Apart, Tags DEF Writable
<1>3. ASSUME NEW c \in Chan, id = <<"mac", c>>
      PROVE  /\ x \in {Raw} \cup Macs
             /\ id # <<"ver">> /\ id # <<"type">>
  <2>1. id[1] = "mac"
    BY <1>3
  <2> QED
    BY <1>3, <2>1, Apart DEF Writable
<1> QED
  BY <1>1, <1>2, <1>3, Ids, Tags

\* An object is written behind the back of RAM.
LEMMA EepRwStep ==
  ASSUME IInv, NEW id \in Ids0, NEW x \in Writable(id), EepRw(id, x)
  PROVE  IInv'
<1>0. /\ TypeOK /\ Cleared /\ RamIsStored /\ pc = "run" /\ pc' = "run"
      /\ bank0' = [bank0 EXCEPT ![id] = x] /\ poked' = poked \cup {id}
      /\ UNCHANGED <<fw, bank1, mac, onOff, startUp, type, todo, unsaved, starts>>
      /\ sets' \in 0 .. MaxSets
  BY SettingsAssumption DEF IInv, Progress, TypeOK, EepRw, ram
<1>1. /\ bank0'[id] = x /\ DOMAIN bank0' = Ids0
      /\ \A k \in Ids0 : k # id => bank0'[k] = bank0[k]
  BY <1>0 DEF TypeOK
<1>2. x # Foreign
  BY WritableIs
<1>3. /\ id = <<"ver">> => x \in {Raw} \cup Vers
      /\ id = <<"type">> => x \in {Raw} \cup TypeLists
      /\ \A c \in Chan : id = <<"mac", c>> => x \in {Raw} \cup Macs
  BY WritableIs
<1>4. TypeOK'
  <2>1. bank0'[<<"ver">>] \in {None, Foreign, Raw} \cup Vers
    BY <1>0, <1>1, <1>3, Ids DEF TypeOK
  <2>2. bank0'[<<"type">>] \in {None, Foreign, Raw} \cup TypeLists
    BY <1>0, <1>1, <1>3, Ids DEF TypeOK
  <2>3. \A c \in Chan : bank0'[<<"mac", c>>] \in {None, Foreign, Raw} \cup Macs
    BY <1>0, <1>1, <1>3, Ids DEF TypeOK
  <2> QED
    BY <1>0, <1>1, <2>1, <2>2, <2>3 DEF TypeOK
<1>5. Cleared'
  BY <1>0, <1>1, <1>2 DEF Cleared
<1>6. RamIsStored'
  <2>1. \A k \in Ids0 : k \in poked' \/ (k \notin poked /\ bank0'[k] = bank0[k])
    BY <1>0, <1>1
  <2>2. Unwritten' = Unwritten
    BY <1>0 DEF Unwritten
  <2> QED
    BY <1>0, <2>1, <2>2, Ids DEF RamIsStored
<1> QED
  BY <1>0, <1>4, <1>5, <1>6 DEF IInv, Progress

LEMMA RestartStep ==
  ASSUME IInv, NEW v \in Version, Restart(v)
  PROVE  IInv'
<1>1. TypeOK'
  BY SettingsAssumption DEF IInv, TypeOK, Restart, Type
<1>2. Progress'
  BY DEF IInv, Progress, Supported, Cleared, Restart
<1> QED
  BY <1>1, <1>2 DEF IInv, RamIsStored, Restart

-----------------------------------------------------------------------------
(* The theorems *)

\* The inductive invariant holds of every state.
THEOREM Invariance == Spec => []IInv
<1>1. Init => IInv
  BY InitIInv
<1>2. IInv /\ [Next]_vars => IInv'
  <2> SUFFICES ASSUME IInv, [Next]_vars PROVE IInv'
    OBVIOUS
  <2>1. CASE Start
    BY <2>1, StartStep
  <2>2. CASE EraseBank0
    BY <2>2, EraseBank0Step
  <2>3. CASE EraseBank1
    BY <2>3, EraseBank1Step
  <2>4. CASE WriteVersion
    BY <2>4, WriteVersionStep
  <2>5. CASE Save
    BY <2>5, SaveStep
  <2>6. CASE \E c \in Chan, b \in BOOLEAN : SetMac(c, b) \/ Switch(c, b) \/ WriteStartUp(c, b)
    BY <2>6, SetMacStep, OnOffStep
  <2>7. CASE \E c \in Chan, t \in Type : WriteType(c, t)
    BY <2>7, WriteTypeStep
  <2>8. CASE \E ts \in [Chan -> Type] : BleType(ts)
    BY <2>8, BleTypeStep
  <2>9. CASE \E v \in Version : Restart(v)
    BY <2>9, RestartStep
  <2>11. CASE \E c \in Chan : GetMac(c)
    BY <2>11, GetMacStep
  <2>12. CASE \E id \in Ids0 : \E x \in Writable(id) : EepRw(id, x)
    BY <2>12, EepRwStep
  <2>10. CASE UNCHANGED vars
    BY <2>10 DEF IInv, TypeOK, Progress, Supported, Cleared, RamIsStored, Unwritten, vars, ram,
                 behind
  <2> QED
    BY <2>1, <2>2, <2>3, <2>4, <2>5, <2>6, <2>7, <2>8, <2>9, <2>10, <2>11, <2>12
       DEF Next
<1> QED
  BY <1>1, <1>2, PTL DEF Spec

\* The variables and the objects in the banks keep their types; a read of an
\* object that was never stored does no harm but to onOff and startUpOnOff.
THEOREM TypeCorrect == Spec => []TypeOK
<1>1. IInv => TypeOK
  BY DEF IInv
<1> QED
  BY <1>1, Invariance, PTL

\* A store with a version holds nothing of another layout, wherever the power
\* failed while flash_supported_eep_ver erased the banks.
THEOREM ErasedBeforeVersion == Spec => []NothingForeign
<1>1. IInv => NothingForeign
  BY DEF IInv, Progress, Cleared, NothingForeign
<1> QED
  BY <1>1, Invariance, PTL

\* RAM holds what is stored, for any order of commands, saves, resets and
\* updates, but for types set over BLE.
THEOREM RamFollowsStore == Spec => []RamIsStored
<1>1. IInv => RamIsStored
  BY DEF IInv
<1> QED
  BY <1>1, Invariance, PTL

\* A store that has a version is never erased again.
THEOREM KeptForGood == Spec => NeverErased
<1>1. IInv /\ [Next]_vars =>
        [bank0[<<"ver">>] \in Vers =>
           \A id \in Ids0 : bank0[id] # None => bank0'[id] # None]_vars
  <2> SUFFICES ASSUME IInv, Next, Supported, NEW id \in Ids0, bank0[id] # None
               PROVE  bank0'[id] # None
    BY Unsupported DEF IInv
  <2>1. CASE EraseBank0
    BY <2>1 DEF IInv, Progress, EraseBank0
  <2>2. CASE WriteVersion
    <3>1. Ver(fw) # None
      BY Tags DEF IInv, TypeOK
    <3> QED
      BY <2>2, <3>1 DEF WriteVersion, IInv, TypeOK
  <2>3. CASE Save
    <3>1. TypeOK /\ Head(todo) \in Objects
      BY <2>3 DEF IInv, TypeOK, Save, Objects
    <3>2. Head(todo) \in Ids0 => Content(Head(todo)) # None
      BY <3>1, Ids, Apart DEF Objects, Content, Types, Mac, None
    <3> QED
      BY <2>3, <3>1, <3>2 DEF Save, TypeOK
  <2>4. ASSUME NEW o \in Ids0, NEW x \in Writable(o), EepRw(o, x)
        PROVE  bank0'[id] # None
    <3>1. x # None
      BY WritableIs
    <3> QED
      BY <2>4, <3>1 DEF EepRw, IInv, TypeOK
  <2>5. CASE UNCHANGED bank0
    BY <2>5
  <2> QED
    BY <2>1, <2>2, <2>3, <2>4, <2>5
       DEF Next, Start, EraseBank1, SetMac, Switch, WriteStartUp, WriteType, BleType,
           GetMac, Handler, Restart
<1> QED
  BY <1>1, Invariance, PTL DEF Spec, NeverErased

-----------------------------------------------------------------------------
(* The main loop and the radio (DualMode) *)

\* A press that waits to be taken has found BLE off, so that no period of
\* advertising ends before it is taken.
PressFoundOff == key1flag => link = "scan"

\* The inductive invariant.
RadioInv == RadioTypeOK /\ OnMeansReachable /\ PressFoundOff

-----------------------------------------------------------------------------
\* What the bounds say, one by one.
LEMMA RadioBounds ==
  /\ AdvPeriod \in Nat /\ AdvPeriod > 0 /\ MaxPresses \in Nat
  /\ AfterConn \in Nat /\ AfterConn > 0 /\ AfterConn <= AdvPeriod
BY DualModeAssumption

\* The button keeps the invariant at any point of the loop.
LEMMA KeysStep ==
  ASSUME RadioInv, task_keys, at' \in {"slot", "inner", "do", "switch"}
  PROVE  RadioInv'
<1>1. CASE Released
  BY <1>1 DEF task_keys, Released, RadioInv, RadioTypeOK, OnMeansReachable, PressFoundOff
<1>2. CASE key = "up" /\ presses < MaxPresses /\ key' = "down" /\ presses' = presses + 1
           /\ UNCHANGED <<ble_on, key1flag, adv_restore_count>>
  BY <1>2, RadioBounds
     DEF task_keys, RadioInv, RadioTypeOK, OnMeansReachable, PressFoundOff
<1>3. CASE key = "down" /\ UNCHANGED <<key, ble_on, key1flag, adv_restore_count, presses>>
  BY <1>3 DEF task_keys, RadioInv, RadioTypeOK, OnMeansReachable, PressFoundOff
<1>4. CASE key # "up" /\ Held
  <2>1. adv_restore_count' \in 0 .. AdvPeriod /\ (adv_restore_count > 0 => adv_restore_count' > 0)
    BY <1>4, RadioBounds DEF Held, RadioInv, RadioTypeOK
  <2>2. OnMeansReachable' /\ PressFoundOff'
    BY <1>4, <2>1 DEF task_keys, Held, RadioInv, RadioTypeOK, OnMeansReachable, PressFoundOff
  <2>3. RadioTypeOK'
    BY <1>4, <2>1 DEF task_keys, Held, RadioInv, RadioTypeOK
  <2> QED
    BY <2>2, <2>3 DEF RadioInv
<1> QED
  BY <1>1, <1>2, <1>3, <1>4 DEF task_keys

\* So do the callbacks of the BLE stack: the advertising that ends takes the
\* period with it, and a connection starts another one.
LEMMA BleStep ==
  ASSUME RadioInv, blt_sdk_main_loop, at' \in {"innerKeys", "doKeys"}
  PROVE  RadioInv'
<1>0. UNCHANGED <<slot, key1flag, joined, key, presses>>
  BY DEF blt_sdk_main_loop
<1>1. CASE UNCHANGED <<ble_on, adv_restore_count, ota_is_working, link>>
  BY <1>0, <1>1 DEF RadioInv, RadioTypeOK, OnMeansReachable, PressFoundOff
<1>2. CASE app_advertise_prepare_handler
  <2>1. adv_restore_count # 0 /\ adv_restore_count > 0 /\ ble_on /\ ~key1flag
    BY <1>2, RadioBounds DEF app_advertise_prepare_handler, RadioInv, RadioTypeOK,
       OnMeansReachable, PressFoundOff
  <2>2. adv_restore_count' \in 0 .. AdvPeriod
    BY <1>2, <2>1, RadioBounds DEF app_advertise_prepare_handler, Counted, RadioInv, RadioTypeOK
  <2>3. CASE adv_restore_count' = 0
    <3>1. ble_on' = FALSE /\ link' = "scan" /\ key1flag' = FALSE /\ ota_is_working' = ota_is_working
      <4>1. ble_on = TRUE /\ key1flag = FALSE
        BY <2>1 DEF RadioInv, RadioTypeOK
      <4>2. BleOnAfter(adv_restore_count') = FALSE
        BY <4>1, <2>3 DEF BleOnAfter
      <4> QED
        BY <1>0, <1>2, <2>1, <2>3, <4>1, <4>2 DEF app_advertise_prepare_handler
    <3>2. OnMeansReachable' /\ PressFoundOff'
      BY <3>1 DEF OnMeansReachable, PressFoundOff
    <3> QED
      BY <1>0, <2>2, <3>1, <3>2 DEF RadioInv, RadioTypeOK
  <2>4. CASE adv_restore_count' > 0
    <3>1. ble_on' = TRUE /\ link' = "adv" /\ key1flag' = FALSE /\ ota_is_working' = ota_is_working
      <4>1. ble_on = TRUE /\ key1flag = FALSE
        BY <2>1 DEF RadioInv, RadioTypeOK
      <4>2. BleOnAfter(adv_restore_count') = TRUE
        BY <4>1, <2>4 DEF BleOnAfter
      <4> QED
        BY <1>0, <1>2, <2>1, <2>4, <4>1, <4>2 DEF app_advertise_prepare_handler
    <3>2. OnMeansReachable' /\ PressFoundOff'
      BY <2>4, <3>1 DEF OnMeansReachable, PressFoundOff
    <3> QED
      BY <1>0, <2>2, <3>1, <3>2 DEF RadioInv, RadioTypeOK
  <2> QED
    BY <2>2, <2>3, <2>4
<1>3. CASE task_connect \/ task_conn_update \/ ble_remote_terminate
  BY <1>0, <1>3, RadioBounds
     DEF task_connect, task_conn_update, ble_remote_terminate, ConnCount, RadioInv, RadioTypeOK,
         OnMeansReachable,
         PressFoundOff
<1>4. CASE app_enter_ota_mode
  BY <1>0, <1>4 DEF app_enter_ota_mode, RadioInv, RadioTypeOK, OnMeansReachable, PressFoundOff
<1> QED
  BY <1>1, <1>2, <1>3, <1>4 DEF blt_sdk_main_loop

LEMMA LoopStep ==
  ASSUME RadioInv, Loop
  PROVE  RadioInv'
<1>1. CASE Top \/ InnerKeys \/ \E zigbeeIdle \in BOOLEAN : DoKeys(zigbeeIdle)
  BY <1>1, KeysStep DEF Top, InnerKeys, DoKeys
<1>2. CASE Inner \/ Do
  BY <1>2, BleStep DEF Inner, Do
<1>3. CASE BleSlot
  <2>1. CASE key1flag
    <3>1. /\ key1flag' = FALSE /\ ble_on' = TRUE /\ link' \in {"adv", "conn"}
          /\ adv_restore_count' \in 0 .. AdvPeriod /\ adv_restore_count' > 0
      BY <1>3, <2>1, RadioBounds DEF BleSlot, Buttoned
    <3>2. OnMeansReachable' /\ PressFoundOff'
      BY <3>1 DEF OnMeansReachable, PressFoundOff
    <3>3. RadioTypeOK'
      BY <1>3, <3>1 DEF BleSlot, RadioInv, RadioTypeOK
    <3> QED
      BY <3>2, <3>3 DEF RadioInv
  <2>2. CASE ~key1flag
    BY <1>3, <2>2 DEF BleSlot, Buttoned, RadioInv, RadioTypeOK, OnMeansReachable, PressFoundOff
  <2> QED
    BY <2>1, <2>2
<1>4. CASE ToBle \/ \E time \in BOOLEAN : ToZigbee(time)
  BY <1>4 DEF ToBle, ToZigbee, wrk, RadioInv, RadioTypeOK, OnMeansReachable, PressFoundOff
<1>5. CASE zb_task
  BY <1>5 DEF zb_task, wrk, RadioInv, RadioTypeOK, OnMeansReachable, PressFoundOff
<1> QED
  BY <1>1, <1>2, <1>3, <1>4, <1>5 DEF Loop

-----------------------------------------------------------------------------
\* The inductive invariant holds of every state.
THEOREM RadioInvariance == RadioSpec => []RadioInv
<1>1. RadioInit => RadioInv
  <2> SUFFICES ASSUME RadioInit PROVE RadioInv
    OBVIOUS
  <2>1. presses \in 0 .. MaxPresses /\ adv_restore_count \in 0 .. AdvPeriod
    BY RadioBounds DEF RadioInit
  <2>2. RadioTypeOK
    BY <2>1 DEF RadioInit, RadioTypeOK
  <2> QED
    BY <2>2 DEF RadioInit, RadioInv, OnMeansReachable, PressFoundOff
<1>2. RadioInv /\ [RadioNext]_radioVars => RadioInv'
  <2> SUFFICES ASSUME RadioInv, [RadioNext]_radioVars PROVE RadioInv'
    OBVIOUS
  <2>1. CASE Loop
    BY <2>1, LoopStep
  <2>2. CASE Reboot
    <3>1. adv_restore_count' \in 0 .. AdvPeriod
      BY <2>2, RadioBounds DEF Reboot
    <3>2. RadioTypeOK'
      BY <2>2, <3>1 DEF Reboot, RadioInv, RadioTypeOK
    <3> QED
      BY <2>2, <3>2 DEF Reboot, RadioInv, OnMeansReachable, PressFoundOff
  <2>3. CASE UNCHANGED radioVars
    BY <2>3 DEF radioVars, wrk, RadioInv, RadioTypeOK, OnMeansReachable, PressFoundOff
  <2> QED
    BY <2>1, <2>2, <2>3 DEF RadioNext
<1> QED
  BY <1>1, <1>2, PTL DEF RadioSpec

\* The count of advertising events never runs below 0 or above its period.
THEOREM RadioTypes == RadioSpec => []RadioTypeOK
<1>1. RadioInv => RadioTypeOK
  BY DEF RadioInv
<1> QED
  BY <1>1, RadioInvariance, PTL

\* ble_on, which keeps the radio from Zigbee, is set exactly while the bridge
\* can be reached over BLE or a press waits, and reaching it is always counted.
THEOREM OnIsReachable == RadioSpec => []OnMeansReachable
<1>1. RadioInv => OnMeansReachable
  BY DEF RadioInv
<1> QED
  BY <1>1, RadioInvariance, PTL

-----------------------------------------------------------------------------
(* The sensors: numbers, and attributes object by object *)

\* Induction: a set of numbers with 0 and every successor has them all.
LEMMA AllNumbers ==
  ASSUME NEW K \in SUBSET Nat, 0 \in K, \A k \in K : k + 1 \in K
  PROVE  K = Nat
<1> SUFFICES ASSUME Nat \ K # {} PROVE FALSE
  OBVIOUS
<1>1. IsWellFoundedOn(OpToRel(<, Nat), Nat)
  BY NatLessThanWellFounded
<1>2. PICK x \in Nat \ K : \A y \in Nat \ K : ~(<<y, x>> \in OpToRel(<, Nat))
  BY <1>1, WFMin, Nat \ K \subseteq Nat
<1>3. x \in Nat /\ x # 0 /\ x - 1 \in Nat
  OBVIOUS
<1>4. x - 1 \in K
  <2>1. \A y \in Nat \ K : ~(y < x)
    BY <1>2 DEF OpToRel
  <2> QED
    BY <1>3, <2>1
<1>5. (x - 1) + 1 \in K
  BY <1>4
<1>6. (x - 1) + 1 = x /\ x \notin K
  BY <1>3
<1> QED
  BY <1>5, <1>6

\* A set of numbers up to m has a greatest one.
LEMMA GreatestIn ==
  ASSUME NEW m \in Nat, NEW S \in SUBSET (1 .. m), S # {}
  PROVE  Max(S) \in S /\ \A y \in S : y <= Max(S)
<1> DEFINE down == {k \in Nat : m - k \in S}
<1>1. IsWellFoundedOn(OpToRel(<, Nat), Nat)
  BY NatLessThanWellFounded
<1>2. down # {} /\ down \subseteq Nat
  <2>1. PICK x \in S : TRUE
    OBVIOUS
  <2>2. m - x \in Nat /\ m - (m - x) = x
    OBVIOUS
  <2> QED
    BY <2>1, <2>2
<1>3. PICK x \in down : \A y \in down : ~(<<y, x>> \in OpToRel(<, Nat))
  <2> HIDE DEF down
  <2> QED
    BY <1>1, <1>2, WFMin
<1>4. \A y \in S : y <= m - x
  <2>1. ASSUME NEW y \in S, y > m - x PROVE FALSE
    <3>1. m - y \in down /\ m - y < x
      BY <2>1
    <3> QED
      BY <1>3, <3>1 DEF OpToRel
  <2> QED
    BY <2>1
<1>5. m - x \in S
  OBVIOUS
<1> HIDE DEF down
<1>6. \A y \in S : m - x >= y
  BY <1>4
<1> QED
  BY <1>5, <1>6 DEF Max

\* The attributes after the objects of a structure, one by one.
LEMMA ObjectByObject ==
  ASSUME NEW n, NEW s, NEW a, NEW b, Len(a.objs) \in Nat
  PROVE  /\ AfterObjects(n, s, a, b)[0] = s
         /\ \A i \in 1 .. Len(a.objs) :
              AfterObjects(n, s, a, b)[i] =
                Applied(n, AfterObjects(n, s, a, b)[i - 1], a, i, Behind(a, i, b))
<1> DEFINE Step(t, i) == Applied(n, t, a, i, Behind(a, i, b))
           Is(f, k) == f = [i \in 0 .. k |-> IF i = 0 THEN s ELSE Step(f[i - 1], i)]
           K == {k \in Nat : \E f : Is(f, k)}
<1> HIDE DEF Step
<1>1. 0 \in K
  <2>1. Is([i \in 0 .. 0 |-> s], 0)
    OBVIOUS
  <2> QED
    BY <2>1
<1>2. ASSUME NEW k \in K PROVE k + 1 \in K
  <2>1. PICK f : Is(f, k)
    OBVIOUS
  <2> DEFINE g == [i \in 0 .. k + 1 |-> IF i = 0 THEN s ELSE Step(f[i - 1], i)]
  <2>2. \A i \in 0 .. k : g[i] = f[i]
    BY <2>1
  <2>3. g = [i \in 0 .. k + 1 |-> IF i = 0 THEN s ELSE Step(f[i - 1], i)]
    OBVIOUS
  <2>4. k + 1 \in Nat /\ \A i \in 1 .. k + 1 : i - 1 \in 0 .. k
    OBVIOUS
  <2> HIDE DEF g
  <2>5. \A i \in 0 .. k + 1 : i # 0 => g[i - 1] = f[i - 1]
    BY <2>2, <2>4
  <2>6. Is(g, k + 1)
    BY <2>3, <2>5
  <2> QED
    BY <2>4, <2>6
<1>3. K = Nat
  <2>1. K \in SUBSET Nat
    OBVIOUS
  <2> HIDE DEF K
  <2> QED
    BY <1>1, <1>2, <2>1, AllNumbers
<1>4. \E f : Is(f, Len(a.objs))
  BY <1>3
<1> DEFINE L == Len(a.objs)
           F == CHOOSE f : Is(f, L)
<1>5. Is(F, L)
  BY <1>4
<1>6. AfterObjects(n, s, a, b) = F
  BY DEF AfterObjects, Step
<1>7. F[0] = s /\ \A i \in 1 .. L : F[i] = Step(F[i - 1], i)
  <2> HIDE DEF F, L
  <2>1. L \in Nat
    BY DEF L
  <2> QED
    BY <1>5, <2>1
<1> HIDE DEF F
<1> QED
  BY <1>6, <1>7 DEF Step
\* The attributes after the structures of an advertisement, one by one.
LEMMA StructByStruct ==
  ASSUME NEW n, NEW s, NEW ad, NEW b, Len(ad) \in Nat
  PROVE  /\ AfterStructs(n, s, ad, b)[0] = s
         /\ \A i \in 1 .. Len(ad) :
              AfterStructs(n, s, ad, b)[i] =
                Parsed(n, AfterStructs(n, s, ad, b)[i - 1], ad[i], b)
<1> DEFINE Step(t, i) == Parsed(n, t, ad[i], b)
           Is(f, k) == f = [i \in 0 .. k |-> IF i = 0 THEN s ELSE Step(f[i - 1], i)]
           K == {k \in Nat : \E f : Is(f, k)}
<1> HIDE DEF Step
<1>1. 0 \in K
  <2>1. Is([i \in 0 .. 0 |-> s], 0)
    OBVIOUS
  <2> QED
    BY <2>1
<1>2. ASSUME NEW k \in K PROVE k + 1 \in K
  <2>1. PICK f : Is(f, k)
    OBVIOUS
  <2> DEFINE g == [i \in 0 .. k + 1 |-> IF i = 0 THEN s ELSE Step(f[i - 1], i)]
  <2>2. \A i \in 0 .. k : g[i] = f[i]
    BY <2>1
  <2>3. g = [i \in 0 .. k + 1 |-> IF i = 0 THEN s ELSE Step(f[i - 1], i)]
    OBVIOUS
  <2>4. k + 1 \in Nat /\ \A i \in 1 .. k + 1 : i - 1 \in 0 .. k
    OBVIOUS
  <2> HIDE DEF g
  <2>5. \A i \in 0 .. k + 1 : i # 0 => g[i - 1] = f[i - 1]
    BY <2>2, <2>4
  <2>6. Is(g, k + 1)
    BY <2>3, <2>5
  <2> QED
    BY <2>4, <2>6
<1>3. K = Nat
  <2>1. K \in SUBSET Nat
    OBVIOUS
  <2> HIDE DEF K
  <2> QED
    BY <1>1, <1>2, <2>1, AllNumbers
<1>4. \E f : Is(f, Len(ad))
  BY <1>3
<1> DEFINE L == Len(ad)
           F == CHOOSE f : Is(f, L)
<1>5. Is(F, L)
  BY <1>4
<1>6. AfterStructs(n, s, ad, b) = F
  BY DEF AfterStructs, Step
<1>7. F[0] = s /\ \A i \in 1 .. L : F[i] = Step(F[i - 1], i)
  <2> HIDE DEF F, L
  <2>1. L \in Nat
    BY DEF L
  <2> QED
    BY <1>5, <2>1
<1> HIDE DEF F
<1> QED
  BY <1>6, <1>7 DEF Step

\* What the sensor has meant after the structures of an advertisement.
LEMMA MeantByStruct ==
  ASSUME NEW n, NEW s, NEW ad, Len(ad) \in Nat
  PROVE  /\ MeantAfter(n, s, ad)[0] = s
         /\ \A i \in 1 .. Len(ad) :
              MeantAfter(n, s, ad)[i] =
                IF Opened(n, ad[i]) THEN Meant(MeantAfter(n, s, ad)[i - 1], ad[i])
                ELSE MeantAfter(n, s, ad)[i - 1]
<1> DEFINE Step(t, i) == IF Opened(n, ad[i]) THEN Meant(t, ad[i]) ELSE t
           Is(f, k) == f = [i \in 0 .. k |-> IF i = 0 THEN s ELSE Step(f[i - 1], i)]
           K == {k \in Nat : \E f : Is(f, k)}
<1> HIDE DEF Step
<1>1. 0 \in K
  <2>1. Is([i \in 0 .. 0 |-> s], 0)
    OBVIOUS
  <2> QED
    BY <2>1
<1>2. ASSUME NEW k \in K PROVE k + 1 \in K
  <2>1. PICK f : Is(f, k)
    OBVIOUS
  <2> DEFINE g == [i \in 0 .. k + 1 |-> IF i = 0 THEN s ELSE Step(f[i - 1], i)]
  <2>2. \A i \in 0 .. k : g[i] = f[i]
    BY <2>1
  <2>3. g = [i \in 0 .. k + 1 |-> IF i = 0 THEN s ELSE Step(f[i - 1], i)]
    OBVIOUS
  <2>4. k + 1 \in Nat /\ \A i \in 1 .. k + 1 : i - 1 \in 0 .. k
    OBVIOUS
  <2> HIDE DEF g
  <2>5. \A i \in 0 .. k + 1 : i # 0 => g[i - 1] = f[i - 1]
    BY <2>2, <2>4
  <2>6. Is(g, k + 1)
    BY <2>3, <2>5
  <2> QED
    BY <2>4, <2>6
<1>3. K = Nat
  <2>1. K \in SUBSET Nat
    OBVIOUS
  <2> HIDE DEF K
  <2> QED
    BY <1>1, <1>2, <2>1, AllNumbers
<1>4. \E f : Is(f, Len(ad))
  BY <1>3
<1> DEFINE L == Len(ad)
           F == CHOOSE f : Is(f, L)
<1>5. Is(F, L)
  BY <1>4
<1>6. MeantAfter(n, s, ad) = F
  BY DEF MeantAfter, Step
<1>7. F[0] = s /\ \A i \in 1 .. L : F[i] = Step(F[i - 1], i)
  <2> HIDE DEF F, L
  <2>1. L \in Nat
    BY DEF L
  <2> QED
    BY <1>5, <2>1
<1> HIDE DEF F
<1> QED
  BY <1>6, <1>7 DEF Step

-----------------------------------------------------------------------------
(* What one object does *)

Fields == {"reading", "light", "level", "trigger", "fresh"}

\* The trigger is flagged when it is written.
Flagged(s, t) == t.fresh = TRUE \/ (t.trigger = s.trigger /\ t.fresh = s.fresh)

\* What object o makes of attributes s is t: it measures, or switches the way it
\* says.
Obeys(s, t, o, switches) ==
  /\ DOMAIN t = Fields /\ Flagged(s, t)
  /\ t.reading = IF o.id = "reading" THEN o.val ELSE s.reading
  /\ ~switches => t.trigger = s.trigger
  /\ switches => /\ SaysOf(o) = "off" => t.trigger = 0
                 /\ SaysOf(o) = "on" /\ s.trigger # 0 => t.trigger # 0

\* The identifiers of objects that switch.
Switches(id) ==
  id \in {"motion", "switch", "button", "moving", "still", "idle", "flags"}

LEMMA TriggeredSo ==
  ASSUME NEW s, DOMAIN s = Fields, NEW v
  PROVE  LET t == Triggered(s, v) IN
         DOMAIN t = Fields /\ t.trigger = v /\ t.fresh = TRUE /\ t.reading = s.reading
BY DEF Triggered, Fields

LEMMA LitSo ==
  ASSUME NEW s, DOMAIN s = Fields, NEW n, NEW lx
  PROVE  LET t == zb_illuminance(n, s, lx) IN
         /\ DOMAIN t = Fields /\ t.fresh = TRUE
         /\ t.trigger = s.trigger /\ t.reading = s.reading
<1> DEFINE v == LevelOf(Log10k[lx], minLevelLx[n])
<1> HIDE DEF v
<1>1. zb_illuminance(n, s, lx) = [s EXCEPT !.light = lx, !.level = v, !.fresh = TRUE]
  BY DEF zb_illuminance, v
<1> QED
  BY <1>1 DEF Fields

LEMMA MovedSo ==
  ASSUME NEW s, DOMAIN s = Fields, NEW n, NEW v
  PROVE  LET t == zb_moving(n, s, v) IN
         /\ DOMAIN t = Fields /\ Flagged(s, t) /\ t.reading = s.reading
         /\ v = 0 => t.trigger = 0
         /\ v # 0 /\ s.trigger # 0 => t.trigger # 0
<1>1. CASE zb_moving(n, s, v) = Triggered(s, v)
  <2>1. LET t == Triggered(s, v) IN
        DOMAIN t = Fields /\ t.trigger = v /\ t.fresh = TRUE /\ t.reading = s.reading
    BY TriggeredSo
  <2> QED
    BY <1>1, <2>1 DEF Flagged
<1>2. CASE v # 0 /\ zb_moving(n, s, v) = s
  BY <1>2 DEF Flagged
<1> QED
  BY <1>1, <1>2 DEF zb_moving

LEMMA LitAndMovedSo ==
  ASSUME NEW s, DOMAIN s = Fields, NEW n, NEW lx, NEW v
  PROVE  LET t == zb_moving(n, zb_illuminance(n, s, lx), v) IN
         /\ DOMAIN t = Fields /\ Flagged(s, t) /\ t.reading = s.reading
         /\ v = 0 => t.trigger = 0
         /\ v # 0 /\ s.trigger # 0 => t.trigger # 0
<1> DEFINE u == zb_illuminance(n, s, lx)
<1>1. DOMAIN u = Fields /\ u.fresh = TRUE /\ u.trigger = s.trigger /\ u.reading = s.reading
  BY LitSo
<1> HIDE DEF u
<1>2. LET t == zb_moving(n, u, v) IN
      /\ DOMAIN t = Fields /\ Flagged(u, t) /\ t.reading = u.reading
      /\ v = 0 => t.trigger = 0
      /\ v # 0 /\ u.trigger # 0 => t.trigger # 0
  BY <1>1, MovedSo
<1> QED
  BY <1>1, <1>2 DEF u, Flagged

LEMMA MeasuredSo ==
  ASSUME NEW s, DOMAIN s = Fields, NEW o, o.id = "reading"
  PROVE  Obeys(s, Measured(s, o), o, FALSE)
<1>1. LET t == Measured(s, o) IN
      /\ DOMAIN t = Fields /\ t.reading = o.val
      /\ t.trigger = s.trigger /\ t.fresh = s.fresh
  BY DEF Measured, Fields
<1> QED
  BY <1>1 DEF Obeys, Flagged

\* An object that is not looked at.
LEMMA IgnoredSo ==
  ASSUME NEW s, DOMAIN s = Fields, NEW o, o.id # "reading"
  PROVE  Obeys(s, s, o, FALSE)
BY DEF Obeys, Flagged

LEMMA LightSo ==
  ASSUME NEW s, DOMAIN s = Fields, NEW n, NEW lx, NEW o, o.id = "light"
  PROVE  Obeys(s, zb_illuminance(n, s, lx), o, FALSE)
BY LitSo DEF Obeys, Flagged

LEMMA SwitchSo ==
  ASSUME NEW s, DOMAIN s = Fields, NEW o, o.id \in {"switch", "flags"}
  PROVE  Obeys(s, Triggered(s, o.val), o, TRUE)
<1>1. SaysOf(o) = (IF o.val = 0 THEN "off" ELSE "on") /\ o.id # "reading"
  BY DEF SaysOf
<1>2. LET t == Triggered(s, o.val) IN
      DOMAIN t = Fields /\ t.trigger = o.val /\ t.fresh = TRUE /\ t.reading = s.reading
  BY TriggeredSo
<1> QED
  BY <1>1, <1>2 DEF Obeys, Flagged

LEMMA MotionSo ==
  ASSUME NEW s, DOMAIN s = Fields, NEW n, NEW o, o.id = "motion"
  PROVE  Obeys(s, zb_moving(n, s, o.val), o, TRUE)
BY MovedSo DEF Obeys, SaysOf

LEMMA MovingSo ==
  ASSUME NEW s, DOMAIN s = Fields, NEW n, NEW o, NEW lx, o.id = "moving"
  PROVE  Obeys(s, zb_moving(n, zb_illuminance(n, s, lx), 1), o, TRUE)
<1>1. SaysOf(o) = "on"
  BY DEF SaysOf
<1> QED
  BY <1>1, LitAndMovedSo DEF Obeys

LEMMA StillSo ==
  ASSUME NEW s, DOMAIN s = Fields, NEW n, NEW o, NEW lx, o.id \in {"still", "idle"}
  PROVE  Obeys(s, zb_moving(n, zb_illuminance(n, s, lx), 0), o, TRUE)
<1>1. SaysOf(o) = "off"
  BY DEF SaysOf
<1> QED
  BY <1>1, LitAndMovedSo DEF Obeys

LEMMA ButtonSo ==
  ASSUME NEW s, DOMAIN s = Fields, NEW o, NEW v, o.id = "button"
  PROVE  Obeys(s, Triggered(s, v), o, TRUE)
<1>1. SaysOf(o) = "any"
  BY DEF SaysOf
<1> QED
  BY <1>1, TriggeredSo DEF Obeys, Flagged

LEMMA BthomeObeys ==
  ASSUME NEW s, DOMAIN s = Fields, NEW n, NEW objs, NEW i, NEW next,
         objs[i].id \in Known.bthome
  PROVE  Obeys(s, Bthome(n, s, objs, i, next), objs[i],
               /\ Switches(objs[i].id)
               /\ objs[i].id = "switch" => \A j \in 1 .. i - 1 : objs[j].id # "switch")
<1> DEFINE o == objs[i]
<1> SUFFICES Obeys(s, Bthome(n, s, objs, i, next), o,
                   /\ Switches(o.id)
                   /\ o.id = "switch" => \A j \in 1 .. i - 1 : objs[j].id # "switch")
  OBVIOUS
<1>1. o.id \in {"reading", "light", "switch", "motion"}
  BY DEF Known
<1>2. CASE o.id = "reading"
  <2>1. ~Switches(o.id) /\ Bthome(n, s, objs, i, next) = Measured(s, o)
    BY <1>2 DEF Switches, Bthome
  <2> QED
    BY <1>2, <2>1, MeasuredSo DEF Obeys
<1>3. CASE o.id = "light"
  <2>1. ~Switches(o.id) /\ Bthome(n, s, objs, i, next) = zb_illuminance(n, s, ThreeBytes(o, next))
    BY <1>3 DEF Switches, Bthome
  <2> QED
    BY <1>3, <2>1, LightSo DEF Obeys
<1>4. CASE o.id = "switch"
  <2>1. CASE \E j \in 1 .. i - 1 : objs[j].id = "switch"
    <3>1. Bthome(n, s, objs, i, next) = s
      BY <1>4, <2>1 DEF Bthome
    <3> QED
      BY <1>4, <2>1, <3>1, IgnoredSo DEF Obeys
  <2>2. CASE ~\E j \in 1 .. i - 1 : objs[j].id = "switch"
    <3>1. Bthome(n, s, objs, i, next) = Triggered(s, o.val)
      BY <1>4, <2>2 DEF Bthome
    <3> QED
      BY <1>4, <2>2, <3>1, SwitchSo DEF Obeys, Switches
  <2> QED
    BY <2>1, <2>2
<1>5. CASE o.id = "motion"
  <2>1. Switches(o.id) /\ Bthome(n, s, objs, i, next) = zb_moving(n, s, o.val)
    BY <1>5 DEF Switches, Bthome
  <2> QED
    BY <1>5, <2>1, MotionSo DEF Obeys
<1> QED
  BY <1>1, <1>2, <1>3, <1>4, <1>5

LEMMA XiaomiObeys ==
  ASSUME NEW s, DOMAIN s = Fields, NEW n, NEW o, NEW next,
         o.id \in Known.xiaomi \cup {"unknown"}
  PROVE  Obeys(s, Xiaomi(n, s, o, next), o, Switches(o.id))
<1>1. o.id \in {"reading", "light", "switch", "button", "motion", "moving", "idle", "unknown"}
  BY DEF Known
<1>2. CASE o.id = "reading"
  <2>1. ~Switches(o.id) /\ Xiaomi(n, s, o, next) = Measured(s, o)
    BY <1>2 DEF Switches, Xiaomi
  <2> QED
    BY <1>2, <2>1, MeasuredSo DEF Obeys
<1>3. CASE o.id = "light"
  <2>1. ~Switches(o.id) /\ Xiaomi(n, s, o, next) = zb_illuminance(n, s, ThreeBytes(o, next))
    BY <1>3 DEF Switches, Xiaomi
  <2> QED
    BY <1>3, <2>1, LightSo DEF Obeys
<1>4. CASE o.id = "switch"
  <2>1. Switches(o.id) /\ Xiaomi(n, s, o, next) = Triggered(s, o.val)
    BY <1>4 DEF Switches, Xiaomi
  <2> QED
    BY <1>4, <2>1, SwitchSo DEF Obeys
<1>5. CASE o.id = "button"
  <2>1. Switches(o.id) /\ \E v : Xiaomi(n, s, o, next) = Triggered(s, v)
    BY <1>5 DEF Switches, Xiaomi
  <2> QED
    BY <1>5, <2>1, ButtonSo DEF Obeys
<1>6. CASE o.id = "motion"
  <2>1. Switches(o.id) /\ Xiaomi(n, s, o, next) = zb_moving(n, s, o.val)
    BY <1>6 DEF Switches, Xiaomi
  <2> QED
    BY <1>6, <2>1, MotionSo DEF Obeys
<1>7. CASE o.id = "moving"
  <2>1. /\ Switches(o.id)
        /\ Xiaomi(n, s, o, next) = zb_moving(n, zb_illuminance(n, s, ThreeBytes(o, next)), 1)
    BY <1>7 DEF Switches, Xiaomi
  <2> QED
    BY <1>7, <2>1, MovingSo DEF Obeys
<1>8. CASE o.id = "idle"
  <2>1. /\ Switches(o.id)
        /\ Xiaomi(n, s, o, next) = zb_moving(n, zb_illuminance(n, s, o.val), 0)
    BY <1>8 DEF Switches, Xiaomi
  <2> QED
    BY <1>8, <2>1, StillSo DEF Obeys
<1>9. CASE o.id = "unknown"
  <2>1. ~Switches(o.id) /\ Xiaomi(n, s, o, next) = s
    BY <1>9 DEF Switches, Xiaomi
  <2> QED
    BY <1>9, <2>1, IgnoredSo DEF Obeys
<1> QED
  BY <1>1, <1>2, <1>3, <1>4, <1>5, <1>6, <1>7, <1>8, <1>9

LEMMA QingpingObeys ==
  ASSUME NEW s, DOMAIN s = Fields, NEW n, NEW o,
         o.id \in Known.qingping \cup {"unknown"}
  PROVE  Obeys(s, Qingping(n, s, o), o, Switches(o.id))
<1> DEFINE lx == o.val[1] + Word * o.val[2]
<1>1. o.id \in {"reading", "light", "switch", "motion", "moving", "still", "unknown"}
  BY DEF Known
<1>2. CASE o.id = "reading"
  <2>1. ~Switches(o.id) /\ Qingping(n, s, o) = Measured(s, o)
    BY <1>2 DEF Switches, Qingping
  <2> QED
    BY <1>2, <2>1, MeasuredSo DEF Obeys
<1>3. CASE o.id = "light"
  <2>1. ~Switches(o.id) /\ Qingping(n, s, o) = zb_illuminance(n, s, lx)
    BY <1>3 DEF Switches, Qingping
  <2> HIDE DEF lx
  <2> QED
    BY <1>3, <2>1, LightSo DEF Obeys
<1>4. CASE o.id = "switch"
  <2>1. Switches(o.id) /\ Qingping(n, s, o) = Triggered(s, o.val)
    BY <1>4 DEF Switches, Qingping
  <2> QED
    BY <1>4, <2>1, SwitchSo DEF Obeys
<1>5. CASE o.id = "motion"
  <2>1. Switches(o.id) /\ Qingping(n, s, o) = zb_moving(n, s, o.val)
    BY <1>5 DEF Switches, Qingping
  <2> QED
    BY <1>5, <2>1, MotionSo DEF Obeys
<1>6. CASE o.id = "moving"
  <2>1. Switches(o.id) /\ Qingping(n, s, o) = zb_moving(n, zb_illuminance(n, s, lx), 1)
    BY <1>6 DEF Switches, Qingping
  <2> HIDE DEF lx
  <2> QED
    BY <1>6, <2>1, MovingSo DEF Obeys
<1>7. CASE o.id = "still"
  <2>1. Switches(o.id) /\ Qingping(n, s, o) = zb_moving(n, zb_illuminance(n, s, lx), 0)
    BY <1>7 DEF Switches, Qingping
  <2> HIDE DEF lx
  <2> QED
    BY <1>7, <2>1, StillSo DEF Obeys
<1>8. CASE o.id = "unknown"
  <2>1. ~Switches(o.id) /\ Qingping(n, s, o) = s
    BY <1>8 DEF Switches, Qingping
  <2> QED
    BY <1>8, <2>1, IgnoredSo DEF Obeys
<1> QED
  BY <1>1, <1>2, <1>3, <1>4, <1>5, <1>6, <1>7, <1>8

\* The plain own format.
LEMMA CustomObeys ==
  ASSUME NEW s, DOMAIN s = Fields, NEW o, o.id \in Known.custom \cup {"unknown"}
  PROVE  Obeys(s, Custom(s, "custom", o), o, Switches(o.id))
<1>1. o.id \in {"reading", "flags", "unknown"}
  BY DEF Known
<1>2. CASE o.id = "reading"
  <2>1. ~Switches(o.id) /\ Custom(s, "custom", o) = Measured(s, o)
    BY <1>2 DEF Switches, Custom
  <2> QED
    BY <1>2, <2>1, MeasuredSo DEF Obeys
<1>3. CASE o.id = "flags"
  <2>1. Switches(o.id) /\ Custom(s, "custom", o) = Triggered(s, o.val)
    BY <1>3 DEF Switches, Custom
  <2> QED
    BY <1>3, <2>1, SwitchSo DEF Obeys
<1>4. CASE o.id = "unknown"
  <2>1. ~Switches(o.id) /\ Custom(s, "custom", o) = s
    BY <1>4 DEF Switches, Custom
  <2> QED
    BY <1>4, <2>1, IgnoredSo DEF Obeys
<1> QED
  BY <1>1, <1>2, <1>3, <1>4

-----------------------------------------------------------------------------
(* What one structure does *)

Wellformed(a) ==
  /\ a.fmt \in Formats
  /\ Len(a.objs) \in Nat /\ DOMAIN a.objs = 1 .. Len(a.objs)
  /\ \A j \in DOMAIN a.objs : a.objs[j].id \in Known[a.fmt] \cup {"unknown"}

Plain(a) == a.fmt # "pvvx"

LEMMA AppliedObeys ==
  ASSUME NEW a, Wellformed(a), NEW n, NEW s, DOMAIN s = Fields, NEW i \in Read(a), NEW next,
         Plain(a)
  PROVE  Obeys(s, Applied(n, s, a, i, next), a.objs[i], i \in Switching(a))
<1> DEFINE o == a.objs[i]
<1>1. i \in DOMAIN a.objs /\ i \in 1 .. Len(a.objs) /\ o.id \in Known[a.fmt] \cup {"unknown"}
  BY DEF Read, Wellformed
<1>2. i \in Switching(a) <=>
        /\ Switches(o.id)
        /\ a.fmt = "bthome" /\ o.id = "switch" =>
             \A j \in 1 .. i - 1 : a.objs[j].id # "switch"
  BY DEF Switching, Switches
<1>3. CASE a.fmt = "bthome"
  <2>1. o.id # "unknown"
    BY <1>1, <1>3 DEF Read
  <2>2. o.id \in Known.bthome
    BY <1>1, <1>3, <2>1
  <2>3. Applied(n, s, a, i, next) = Bthome(n, s, a.objs, i, next)
    BY <1>3 DEF Applied
  <2>4. Obeys(s, Bthome(n, s, a.objs, i, next), o,
              /\ Switches(o.id)
              /\ o.id = "switch" => \A j \in 1 .. i - 1 : a.objs[j].id # "switch")
    BY <2>2, BthomeObeys
  <2> QED
    BY <1>2, <1>3, <2>3, <2>4 DEF Obeys
<1>4. CASE a.fmt = "xiaomi"
  <2>1. Applied(n, s, a, i, next) = Xiaomi(n, s, o, next) /\ o.id \in Known.xiaomi \cup {"unknown"}
    BY <1>1, <1>4 DEF Applied
  <2>2. Obeys(s, Xiaomi(n, s, o, next), o, Switches(o.id))
    BY <2>1, XiaomiObeys
  <2> QED
    BY <1>2, <1>4, <2>1, <2>2 DEF Obeys
<1>5. CASE a.fmt = "qingping"
  <2>1. Applied(n, s, a, i, next) = Qingping(n, s, o) /\ o.id \in Known.qingping \cup {"unknown"}
    BY <1>1, <1>5 DEF Applied
  <2>2. Obeys(s, Qingping(n, s, o), o, Switches(o.id))
    BY <2>1, QingpingObeys
  <2> QED
    BY <1>2, <1>5, <2>1, <2>2 DEF Obeys
<1>6. CASE a.fmt = "custom"
  <2>1. Applied(n, s, a, i, next) = Custom(s, "custom", o)
    BY <1>6 DEF Applied
  <2>2. o.id \in Known.custom \cup {"unknown"}
    BY <1>1, <1>6
  <2>3. Obeys(s, Custom(s, "custom", o), o, Switches(o.id))
    BY <2>2, CustomObeys
  <2> QED
    BY <1>2, <1>6, <2>1, <2>3 DEF Obeys
<1>7. CASE a.fmt = "other"
  <2>1. Applied(n, s, a, i, next) = s
    BY <1>7 DEF Applied
  <2>2. o.id = "unknown"
    BY <1>1, <1>7 DEF Known
  <2>3. ~Switches(o.id)
    BY <2>2 DEF Switches
  <2>4. Obeys(s, s, o, FALSE)
    BY <2>2, IgnoredSo
  <2> QED
    BY <1>2, <2>1, <2>3, <2>4 DEF Obeys
<1> QED
  BY <1>3, <1>4, <1>5, <1>6, <1>7 DEF Wellformed, Formats, Plain

\* What holds of every object, those of an encrypted structure too.
Notes(s, t, o) ==
  /\ DOMAIN t = Fields /\ Flagged(s, t)
  /\ t.reading = IF o.id = "reading" THEN o.val ELSE s.reading

LEMMA AppliedNotes ==
  ASSUME NEW a, Wellformed(a), NEW n, NEW s, DOMAIN s = Fields, NEW i \in Read(a), NEW next
  PROVE  Notes(s, Applied(n, s, a, i, next), a.objs[i])
<1> DEFINE o == a.objs[i]
<1>1. CASE a.fmt = "pvvx"
  <2>1. Applied(n, s, a, i, next) = IF o.id = "reading" THEN Measured(s, o) ELSE s
    BY <1>1 DEF Applied, Custom
  <2>2. o.id = "reading" => Obeys(s, Measured(s, o), o, FALSE)
    BY MeasuredSo
  <2>3. o.id # "reading" => Obeys(s, s, o, FALSE)
    BY IgnoredSo
  <2> QED
    BY <2>1, <2>2, <2>3 DEF Obeys, Notes
<1>2. CASE Plain(a)
  <2>1. Obeys(s, Applied(n, s, a, i, next), o, i \in Switching(a))
    BY <1>2, AppliedObeys
  <2> QED
    BY <2>1 DEF Obeys, Notes
<1> QED
  BY <1>1, <1>2 DEF Plain

\* The objects of a structure that measure.
Measures(a) == {i \in Read(a) : a.objs[i].id = "reading"}

LEMMA MeantReading ==
  ASSUME NEW a, NEW m
  PROVE  Meant(m, a).reading =
           IF Measures(a) = {} THEN m.reading ELSE a.objs[Max(Measures(a))].val
<1>1. Measures(a) = {i \in Read(a) : a.objs[i].id \in {"reading"}}
  BY DEF Measures
<1> QED
  BY <1>1 DEF Meant

Says(a) == {SaysOf(a.objs[i]) : i \in Switching(a)}

LEMMA MeantActive ==
  ASSUME NEW a, NEW m
  PROVE  /\ Says(a) = {} => Meant(m, a).active = m.active
         /\ Says(a) = {"on"} => Meant(m, a).active = "on"
         /\ Says(a) = {"off"} => Meant(m, a).active = "off"
         /\ Says(a) \notin {{}, {"on"}, {"off"}} => Meant(m, a).active = "any"
         /\ Meant(m, a).read <=> Plain(a) /\ (m.read \/ Says(a) # {})
<1>0. Meant(m, a).read = (Plain(a) /\ (m.read \/ Says(a) # {}))
  BY DEF Meant, Says, Plain
<1>1. Meant(m, a).active = CASE Says(a) = {} -> m.active
                             [] Says(a) \in {{"on"}, {"off"}} -> CHOOSE w \in Says(a) : TRUE
                             [] OTHER -> "any"
  BY DEF Meant, Says
<1> HIDE DEF Says
<1>2. Says(a) = {"on"} => (CHOOSE w \in Says(a) : TRUE) = "on"
  OBVIOUS
<1>3. Says(a) = {"off"} => (CHOOSE w \in Says(a) : TRUE) = "off"
  OBVIOUS
<1>4. {"on"} # {} /\ {"off"} # {}
  OBVIOUS
<1> QED
  BY <1>0, <1>1, <1>2, <1>3, <1>4

MeasuredBy(a, k) == {i \in Measures(a) : i <= k}

\* Attributes s have become t after k objects of structure a: reading and flag.
ReadSoFar(s, t, a, k) ==
  /\ DOMAIN t = Fields /\ Flagged(s, t)
  /\ \/ MeasuredBy(a, k) = {} /\ t.reading = s.reading
     \/ \E m \in MeasuredBy(a, k) :
          (\A y \in MeasuredBy(a, k) : y <= m) /\ t.reading = a.objs[m].val

LEMMA NotedSoFar ==
  ASSUME NEW a, Wellformed(a), NEW n, NEW s, DOMAIN s = Fields, NEW b,
         NEW k \in 0 .. Len(a.objs)
  PROVE  ReadSoFar(s, AfterObjects(n, s, a, b)[k], a, k)
<1> DEFINE L == Len(a.objs)
           T(i) == AfterObjects(n, s, a, b)[i]
           R(i) == MeasuredBy(a, i)
           P(i) == /\ DOMAIN T(i) = Fields /\ Flagged(s, T(i))
                   /\ \/ R(i) = {} /\ T(i).reading = s.reading
                      \/ \E m \in R(i) : (\A y \in R(i) : y <= m) /\ T(i).reading = a.objs[m].val
           K == {i \in Nat : i <= L => P(i)}
<1>0. L \in Nat /\ Measures(a) \subseteq 1 .. L /\ Read(a) \subseteq 1 .. L
  BY DEF Wellformed, Measures, Read
<1>1. /\ T(0) = s
      /\ \A i \in 1 .. L : T(i) = Applied(n, T(i - 1), a, i, Behind(a, i, b))
  BY <1>0, ObjectByObject
<1> HIDE DEF T, L
<1>2. 0 \in K
  <2>1. R(0) = {}
    BY <1>0 DEF MeasuredBy
  <2>2. Flagged(s, s)
    BY DEF Flagged
  <2> QED
    BY <1>1, <2>1, <2>2
<1>3. ASSUME NEW i \in K PROVE i + 1 \in K
  <2> SUFFICES ASSUME i + 1 <= L PROVE P(i + 1)
    OBVIOUS
  <2>1. i \in Nat /\ P(i) /\ i + 1 \in 1 .. L /\ (i + 1) - 1 = i
    BY <1>0
  <2>2. T(i + 1) = Applied(n, T(i), a, i + 1, Behind(a, i + 1, b))
    BY <1>1, <2>1
  <2>3. CASE i + 1 \notin Read(a)
    <3>1. T(i + 1) = T(i)
      BY <2>2, <2>3 DEF Applied
    <3>2. R(i + 1) = R(i)
      BY <1>0, <2>1, <2>3 DEF Measures, MeasuredBy
    <3> QED
      BY <2>1, <3>1, <3>2
  <2>4. CASE i + 1 \in Read(a)
    <3>1. Notes(T(i), T(i + 1), a.objs[i + 1])
      BY <2>1, <2>2, <2>4, AppliedNotes
    <3>2. DOMAIN T(i + 1) = Fields /\ Flagged(s, T(i + 1))
      BY <2>1, <3>1 DEF Notes, Flagged
    <3>3. CASE a.objs[i + 1].id = "reading"
      <4>1. i + 1 \in R(i + 1)
        BY <2>1, <2>4, <3>3 DEF Measures, MeasuredBy
      <4>2. \A y \in R(i + 1) : y <= i + 1
        BY DEF MeasuredBy
      <4>3. T(i + 1).reading = a.objs[i + 1].val
        BY <3>1, <3>3 DEF Notes
      <4> QED
        BY <3>2, <4>1, <4>2, <4>3
    <3>4. CASE a.objs[i + 1].id # "reading"
      <4>1. R(i + 1) = R(i)
        BY <1>0, <2>1, <3>4 DEF Measures, MeasuredBy
      <4>2. T(i + 1).reading = T(i).reading
        BY <3>1, <3>4 DEF Notes
      <4> QED
        BY <2>1, <3>2, <4>1, <4>2
    <3> QED
      BY <3>3, <3>4
  <2> QED
    BY <2>3, <2>4
<1>4. K = Nat
  <2>1. K \in SUBSET Nat
    OBVIOUS
  <2> HIDE DEF K
  <2> QED
    BY <1>2, <1>3, <2>1, AllNumbers
<1>5. P(k)
  <2>1. k \in Nat /\ k <= L
    BY <1>0 DEF L
  <2> HIDE DEF P
  <2> QED
    BY <1>4, <2>1
<1> QED
  BY <1>5 DEF T, L, ReadSoFar

SwitchedBy(a, k) == {i \in Switching(a) : i <= k}

\* Attributes s have become t after k objects of structure a: the trigger.
Switched(s, t, a, k) ==
  /\ SwitchedBy(a, k) = {} => t.trigger = s.trigger
  /\ SwitchedBy(a, k) # {} /\ (\A i \in SwitchedBy(a, k) : SaysOf(a.objs[i]) = "off") =>
       t.trigger = 0
  /\ s.trigger # 0 /\ (\A i \in SwitchedBy(a, k) : SaysOf(a.objs[i]) = "on") =>
       t.trigger # 0

LEMMA SwitchedSoFar ==
  ASSUME NEW a, Wellformed(a), Plain(a), NEW n, NEW s, DOMAIN s = Fields, NEW b,
         NEW k \in 0 .. Len(a.objs)
  PROVE  Switched(s, AfterObjects(n, s, a, b)[k], a, k)
<1> DEFINE L == Len(a.objs)
           T(i) == AfterObjects(n, s, a, b)[i]
           S(i) == SwitchedBy(a, i)
           Off(i) == \A j \in S(i) : SaysOf(a.objs[j]) = "off"
           On(i) == \A j \in S(i) : SaysOf(a.objs[j]) = "on"
           P(i) == /\ S(i) = {} => T(i).trigger = s.trigger
                   /\ S(i) # {} /\ Off(i) => T(i).trigger = 0
                   /\ s.trigger # 0 /\ On(i) => T(i).trigger # 0
           K == {i \in Nat : i <= L => P(i)}
<1>0. L \in Nat /\ Switching(a) \subseteq Read(a) /\ Read(a) \subseteq 1 .. L
  BY DEF Wellformed, Switching, Read
<1>1. /\ T(0) = s
      /\ \A i \in 1 .. L : T(i) = Applied(n, T(i - 1), a, i, Behind(a, i, b))
  BY <1>0, ObjectByObject
<1>2. \A i \in 0 .. L : DOMAIN T(i) = Fields
  <2> SUFFICES ASSUME NEW i \in 0 .. Len(a.objs)
               PROVE  DOMAIN AfterObjects(n, s, a, b)[i] = Fields
    OBVIOUS
  <2>1. ReadSoFar(s, AfterObjects(n, s, a, b)[i], a, i)
    BY NotedSoFar
  <2> QED
    BY <2>1 DEF ReadSoFar
<1> HIDE DEF T, L
<1>3. 0 \in K
  <2>1. S(0) = {}
    BY <1>0 DEF SwitchedBy
  <2> QED
    BY <1>1, <2>1
<1>4. ASSUME NEW i \in K PROVE i + 1 \in K
  <2> SUFFICES ASSUME i + 1 <= L PROVE P(i + 1)
    OBVIOUS
  <2>1. /\ i \in Nat /\ P(i) /\ i + 1 \in 1 .. L /\ (i + 1) - 1 = i /\ i \in 0 .. L
    BY <1>0
  <2>2. T(i + 1) = Applied(n, T(i), a, i + 1, Behind(a, i + 1, b)) /\ DOMAIN T(i) = Fields
    BY <1>1, <1>2, <2>1
  <2>3. CASE i + 1 \notin Read(a)
    <3>1. T(i + 1) = T(i)
      BY <2>2, <2>3 DEF Applied
    <3>2. S(i + 1) = S(i)
      BY <1>0, <2>1, <2>3 DEF SwitchedBy
    <3> QED
      BY <2>1, <3>1, <3>2
  <2>4. CASE i + 1 \in Read(a)
    <3> DEFINE o == a.objs[i + 1]
    <3>2. Obeys(T(i), T(i + 1), o, i + 1 \in Switching(a))
      BY <2>2, <2>4, AppliedObeys
    <3>3. CASE i + 1 \in Switching(a)
      <4>1. S(i + 1) = S(i) \cup {i + 1} /\ i + 1 \in S(i + 1)
        BY <1>0, <2>1, <3>3 DEF SwitchedBy
      <4>2. Off(i + 1) => SaysOf(o) = "off"
        BY <4>1
      <4>3. On(i + 1) => SaysOf(o) = "on" /\ On(i)
        BY <4>1
      <4>4. /\ SaysOf(o) = "off" => T(i + 1).trigger = 0
            /\ SaysOf(o) = "on" /\ T(i).trigger # 0 => T(i + 1).trigger # 0
        BY <3>2, <3>3 DEF Obeys
      <4>5. s.trigger # 0 /\ On(i) => T(i).trigger # 0
        BY <2>1
      <4> HIDE DEF S, Off, On, o
      <4> QED
        BY <4>1, <4>2, <4>3, <4>4, <4>5
    <3>4. CASE i + 1 \notin Switching(a)
      <4>1. S(i + 1) = S(i)
        BY <1>0, <2>1, <3>4 DEF SwitchedBy
      <4>2. T(i + 1).trigger = T(i).trigger
        BY <3>2, <3>4 DEF Obeys
      <4> QED
        BY <2>1, <4>1, <4>2
    <3> QED
      BY <3>3, <3>4
  <2> QED
    BY <2>3, <2>4
<1>5. K = Nat
  <2>1. K \in SUBSET Nat
    OBVIOUS
  <2> HIDE DEF K
  <2> QED
    BY <1>3, <1>4, <2>1, AllNumbers
<1>6. P(k)
  <2>1. k \in Nat /\ k <= L
    BY <1>0 DEF L
  <2> HIDE DEF P
  <2> QED
    BY <1>5, <2>1
<1> QED
  BY <1>6 DEF T, L, Switched

\* What the sensor has meant after structure a.
Told(n, m, a) == IF Opened(n, a) THEN Meant(m, a) ELSE m

\* What a structure makes of the attributes is what it means.
LEMMA ParsedReads ==
  ASSUME NEW a, Wellformed(a), NEW n, NEW s, DOMAIN s = Fields, NEW b, NEW m
  PROVE  LET t == Parsed(n, s, a, b) IN
         /\ DOMAIN t = Fields /\ Flagged(s, t)
         /\ s.reading = m.reading => t.reading = Told(n, m, a).reading
<1> DEFINE L == Len(a.objs)
           t == AfterObjects(n, s, a, b)[L]
           v == b % 2
<1>1. CASE ~Opened(n, a)
  <2>1. Parsed(n, s, a, b) = s /\ Told(n, m, a) = m
    BY <1>1 DEF Parsed, Told
  <2> QED
    BY <2>1 DEF Flagged
<1>2. CASE Opened(n, a)
  <2>1. /\ Parsed(n, s, a, b) = t \/ Parsed(n, s, a, b) = Triggered(t, v)
        /\ Told(n, m, a) = Meant(m, a)
    BY <1>2 DEF Parsed, Told
  <2>2. L \in Nat /\ L \in 0 .. L /\ Measures(a) \subseteq 1 .. L
    BY DEF Wellformed, Measures, Read
  <2> DEFINE R == MeasuredBy(a, L)
  <2>3. /\ DOMAIN t = Fields /\ Flagged(s, t)
        /\ \/ R = {} /\ t.reading = s.reading
           \/ \E j \in R : (\A y \in R : y <= j) /\ t.reading = a.objs[j].val
    <3>1. Len(a.objs) \in 0 .. Len(a.objs)
      BY <2>2
    <3>2. ReadSoFar(s, AfterObjects(n, s, a, b)[Len(a.objs)], a, Len(a.objs))
      BY <3>1, NotedSoFar
    <3>3. ReadSoFar(s, t, a, L)
      BY <3>2
    <3> HIDE DEF t, L
    <3> QED
      BY <3>3 DEF ReadSoFar
  <2>4. R = Measures(a)
    BY <2>2 DEF MeasuredBy
  <2> HIDE DEF t, L, R, v
  <2>4a. LET u == Triggered(t, v) IN
         DOMAIN u = Fields /\ u.fresh = TRUE /\ u.reading = t.reading
    BY <2>3, TriggeredSo
  <2>4b. /\ DOMAIN Parsed(n, s, a, b) = Fields /\ Flagged(s, Parsed(n, s, a, b))
         /\ Parsed(n, s, a, b).reading = t.reading
    BY <2>1, <2>3, <2>4a DEF Flagged
  <2>5. CASE Measures(a) = {} /\ t.reading = s.reading
    BY <2>1, <2>4b, <2>5, MeantReading
  <2>6. ASSUME NEW j \in Measures(a), \A y \in Measures(a) : y <= j,
               t.reading = a.objs[j].val
        PROVE  t.reading = Meant(m, a).reading
    <3>1. Max(Measures(a)) \in Measures(a) /\ \A y \in Measures(a) : y <= Max(Measures(a))
      BY <2>2, GreatestIn
    <3>2. j \in Nat /\ Max(Measures(a)) \in Nat
      BY <2>2, <3>1
    <3>3. Max(Measures(a)) = j
      BY <2>6, <3>1, <3>2
    <3> QED
      BY <2>6, <3>3, MeantReading
  <2> QED
    BY <2>1, <2>3, <2>4, <2>4b, <2>5, <2>6
<1> QED
  BY <1>1, <1>2

\* Attributes whose trigger is off if the sensor said so, where it is read.
OffHeard(s, m) == m.active = "off" /\ m.read => s.trigger = 0

LEMMA ParsedSwitches ==
  ASSUME NEW a, Wellformed(a), NEW n, NEW s, DOMAIN s = Fields, NEW b, NEW m
  PROVE  LET t == Parsed(n, s, a, b)
             u == Told(n, m, a)
         IN /\ OffHeard(s, m) => OffHeard(t, u)
            /\ s.trigger # 0 /\ u.active = "on" /\ u.read => t.trigger # 0
<1> DEFINE L == Len(a.objs)
           t == AfterObjects(n, s, a, b)[L]
<1>1. CASE ~Opened(n, a)
  BY <1>1 DEF Parsed, Told
<1>2. CASE Opened(n, a) /\ ~Plain(a)
  <2>1. ~Told(n, m, a).read
    BY <1>2, MeantActive DEF Told
  <2> QED
    BY <2>1 DEF OffHeard
<1>3. CASE Opened(n, a) /\ Plain(a)
  <2>1. Parsed(n, s, a, b) = t /\ Told(n, m, a) = Meant(m, a)
    BY <1>3 DEF Parsed, Told, Plain
  <2>2. L \in Nat /\ L \in 0 .. L /\ Switching(a) \subseteq 1 .. L
    BY DEF Wellformed, Switching, Read
  <2> DEFINE S == SwitchedBy(a, L)
  <2>3. /\ S = {} => t.trigger = s.trigger
        /\ S # {} /\ (\A i \in S : SaysOf(a.objs[i]) = "off") => t.trigger = 0
        /\ s.trigger # 0 /\ (\A i \in S : SaysOf(a.objs[i]) = "on") => t.trigger # 0
    <3>1. Len(a.objs) \in 0 .. Len(a.objs)
      BY <2>2
    <3>2. Switched(s, AfterObjects(n, s, a, b)[Len(a.objs)], a, Len(a.objs))
      BY <1>3, <3>1, SwitchedSoFar
    <3>3. Switched(s, t, a, L)
      BY <3>2
    <3> HIDE DEF t, L
    <3> QED
      BY <3>3 DEF Switched
  <2>3a. S = Switching(a)
    BY <2>2 DEF SwitchedBy
  <2>4. /\ Switching(a) = {} => t.trigger = s.trigger
        /\ Switching(a) # {} /\ (\A i \in Switching(a) : SaysOf(a.objs[i]) = "off") =>
             t.trigger = 0
        /\ s.trigger # 0 /\ (\A i \in Switching(a) : SaysOf(a.objs[i]) = "on") =>
             t.trigger # 0
    <3> HIDE DEF S, t, L
    <3> QED
      BY <2>3, <2>3a
  <2>5. /\ Says(a) = {} => Switching(a) = {}
        /\ Says(a) = {"off"} =>
             Switching(a) # {} /\ \A i \in Switching(a) : SaysOf(a.objs[i]) = "off"
        /\ Says(a) = {"on"} => \A i \in Switching(a) : SaysOf(a.objs[i]) = "on"
    BY DEF Says
  <2> HIDE DEF t, L
  <2>6. CASE Says(a) = {}
    BY <2>1, <2>4, <2>5, <2>6, MeantActive DEF OffHeard
  <2>7. CASE Says(a) = {"off"}
    BY <2>1, <2>4, <2>5, <2>7, MeantActive DEF OffHeard
  <2>8. CASE Says(a) = {"on"}
    BY <2>1, <2>4, <2>5, <2>8, MeantActive DEF OffHeard
  <2>9. CASE Says(a) \notin {{}, {"on"}, {"off"}}
    BY <2>1, <2>9, MeantActive DEF OffHeard
  <2> QED
    BY <2>6, <2>7, <2>8, <2>9
<1> QED
  BY <1>1, <1>2, <1>3

\* The same was said.
SameWord(u, m) ==
  u.reading = m.reading /\ u.active = m.active /\ (u.read <=> m.read)

\* A structure of no known format changes nothing.
LEMMA OtherSays ==
  ASSUME NEW a, Wellformed(a), a.fmt = "other", NEW n, NEW s, DOMAIN s = Fields, NEW b, NEW m
  PROVE  /\ Parsed(n, s, a, b).trigger = s.trigger
         /\ SameWord(Told(n, m, a), m)
<1>1. \A i \in Read(a) : a.objs[i].id = "unknown"
  BY DEF Wellformed, Read, Known
<1>2. Switching(a) = {} /\ Measures(a) = {} /\ Says(a) = {}
  BY <1>1 DEF Switching, Measures, Says
<1>4. Len(a.objs) \in 0 .. Len(a.objs) /\ Plain(a)
  BY DEF Wellformed, Plain
<1>3. SameWord(Meant(m, a), m)
  BY <1>2, <1>4, MeantReading, MeantActive DEF SameWord
<1>5. AfterObjects(n, s, a, b)[Len(a.objs)].trigger = s.trigger
  <2>1. Switched(s, AfterObjects(n, s, a, b)[Len(a.objs)], a, Len(a.objs))
    BY <1>4, SwitchedSoFar
  <2>2. SwitchedBy(a, Len(a.objs)) = {}
    BY <1>2 DEF SwitchedBy
  <2> QED
    BY <2>1, <2>2 DEF Switched
<1> QED
  BY <1>3, <1>4, <1>5 DEF Parsed, Told, Plain, SameWord

\* Said again, a structure means what it meant.
LEMMA ToldAgain ==
  ASSUME NEW a, NEW n, NEW m, NEW u, SameWord(u, Told(n, m, a))
  PROVE  SameWord(Told(n, u, a), u)
BY MeantReading, MeantActive DEF Told, SameWord

\* What a structure tells depends on what was told before it only.
LEMMA ToldSame ==
  ASSUME NEW a, NEW n, NEW m, NEW u, SameWord(u, m)
  PROVE  SameWord(Told(n, u, a), Told(n, m, a))
BY MeantReading, MeantActive DEF Told, SameWord

-----------------------------------------------------------------------------
(* What one advertisement does *)

Structures(n) == UNION {Range(a) : a \in Adverts[n]}

\* Sensor n has its structure of a known format at place p, or none if p = 0.
Speaks(n, p) ==
  \A a \in Adverts[n] : p <= Len(a) /\ \A i \in DOMAIN a : a[i].fmt # "other" => i = p

LEMMA AdvertTyped ==
  ASSUME NEW n \in Devs, NEW ad \in Adverts[n]
  PROVE  /\ ad \in Seq(Structures(n)) /\ Len(ad) \in Nat /\ DOMAIN ad = 1 .. Len(ad)
         /\ \A i \in 1 .. Len(ad) : Wellformed(ad[i])
<1>1. ad \in Seq(Range(ad))
  BY ScanAssumption
<1>2. Len(ad) \in Nat /\ DOMAIN ad = 1 .. Len(ad)
  BY <1>1, LenProperties
<1>3. ad \in Seq(Structures(n))
  <2>1. Range(ad) \subseteq Structures(n)
    BY DEF Structures
  <2> QED
    BY <1>1, <2>1, SeqMonotonic
<1>4. \A i \in 1 .. Len(ad) : Wellformed(ad[i])
  BY <1>2, ScanAssumption DEF Wellformed
<1> QED
  BY <1>2, <1>3, <1>4

LEMMA SpeakerPlace ==
  ASSUME OneSpeaker, NEW n \in Devs
  PROVE  \E p \in Nat : Speaks(n, p)
<1>1. PICK p \in {0} \cup UNION {DOMAIN a : a \in Adverts[n]} : Speaks(n, p)
  BY DEF OneSpeaker, Speaks
<1>2. \A a \in Adverts[n] : DOMAIN a \subseteq Nat
  BY AdvertTyped
<1> QED
  BY <1>1, <1>2

\* Attributes s have become t, and what was meant m has become u.
Agrees(s, t, m, u) ==
  /\ DOMAIN t = Fields /\ Flagged(s, t)
  /\ s.reading = m.reading => t.reading = u.reading
  /\ OffHeard(s, m) => OffHeard(t, u)

LEMMA AdvertAgrees ==
  ASSUME NEW n \in Devs, NEW ad \in Adverts[n], NEW s, DOMAIN s = Fields, NEW b, NEW m
  PROVE  Agrees(s, AfterStructs(n, s, ad, b)[Len(ad)], m, MeantAfter(n, m, ad)[Len(ad)])
<1> DEFINE L == Len(ad)
           T(i) == AfterStructs(n, s, ad, b)[i]
           M(i) == MeantAfter(n, m, ad)[i]
           K == {i \in Nat : i <= L => Agrees(s, T(i), m, M(i))}
<1>0. /\ L \in Nat /\ \A i \in 1 .. L : Wellformed(ad[i])
  BY AdvertTyped
<1>1. T(0) = s /\ \A i \in 1 .. L : T(i) = Parsed(n, T(i - 1), ad[i], b)
  BY <1>0, StructByStruct
<1>2. M(0) = m /\ \A i \in 1 .. L : M(i) = Told(n, M(i - 1), ad[i])
  BY <1>0, MeantByStruct DEF Told
<1> HIDE DEF T, M, L
<1>3. 0 \in K
  <2>1. Agrees(s, s, m, m)
    BY DEF Agrees, Flagged
  <2> QED
    BY <1>1, <1>2, <2>1
<1>4. ASSUME NEW i \in K PROVE i + 1 \in K
  <2> SUFFICES ASSUME i + 1 <= L PROVE Agrees(s, T(i + 1), m, M(i + 1))
    OBVIOUS
  <2>1. i \in Nat /\ Agrees(s, T(i), m, M(i)) /\ i + 1 \in 1 .. L /\ (i + 1) - 1 = i
    BY <1>0
  <2> DEFINE a == ad[i + 1]
  <2>2. T(i + 1) = Parsed(n, T(i), a, b) /\ M(i + 1) = Told(n, M(i), a)
    BY <1>1, <1>2, <2>1
  <2>3. Wellformed(a) /\ DOMAIN T(i) = Fields
    BY <1>0, <2>1 DEF Agrees
  <2> HIDE DEF a
  <2>4. /\ DOMAIN T(i + 1) = Fields /\ Flagged(T(i), T(i + 1))
        /\ T(i).reading = M(i).reading => T(i + 1).reading = M(i + 1).reading
    BY <2>2, <2>3, ParsedReads
  <2>5. OffHeard(T(i), M(i)) => OffHeard(T(i + 1), M(i + 1))
    BY <2>2, <2>3, ParsedSwitches
  <2> QED
    BY <2>1, <2>4, <2>5 DEF Agrees, Flagged
<1>5. K = Nat
  <2>1. K \in SUBSET Nat
    OBVIOUS
  <2> HIDE DEF K
  <2> QED
    BY <1>3, <1>4, <2>1, AllNumbers
<1>6. Agrees(s, T(L), m, M(L))
  BY <1>0, <1>5
<1> QED
  BY <1>6 DEF T, M, L

\* What was meant m has become u; trigger t was on, and is on if the speaker says
\* so.  Nothing changes but at the speaker's place.
Heard(n, ad, p, k, m, u, old, new) ==
  IF p \in 1 .. k
    THEN /\ SameWord(u, Told(n, m, ad[p]))
         /\ old # 0 /\ u.active = "on" /\ u.read => new # 0
    ELSE SameWord(u, m) /\ new = old

LEMMA AdvertHeard ==
  ASSUME NEW n \in Devs, NEW p \in Nat, Speaks(n, p), NEW ad \in Adverts[n],
         NEW s, DOMAIN s = Fields, NEW b, NEW m
  PROVE  Heard(n, ad, p, Len(ad), m, MeantAfter(n, m, ad)[Len(ad)],
               s.trigger, AfterStructs(n, s, ad, b)[Len(ad)].trigger)
<1> DEFINE L == Len(ad)
           T(i) == AfterStructs(n, s, ad, b)[i]
           M(i) == MeantAfter(n, m, ad)[i]
           P(i) == DOMAIN T(i) = Fields /\ Heard(n, ad, p, i, m, M(i), s.trigger, T(i).trigger)
           K == {i \in Nat : i <= L => P(i)}
<1>0. /\ L \in Nat /\ DOMAIN ad = 1 .. L /\ \A i \in 1 .. L : Wellformed(ad[i])
  BY AdvertTyped
<1>1. T(0) = s /\ \A i \in 1 .. L : T(i) = Parsed(n, T(i - 1), ad[i], b)
  BY <1>0, StructByStruct
<1>2. M(0) = m /\ \A i \in 1 .. L : M(i) = Told(n, M(i - 1), ad[i])
  BY <1>0, MeantByStruct DEF Told
<1>3. \A i \in 1 .. L : i # p => ad[i].fmt = "other"
  BY <1>0 DEF Speaks
<1> HIDE DEF T, M, L
<1>4. 0 \in K
  <2>1. Heard(n, ad, p, 0, m, m, s.trigger, s.trigger)
    BY DEF Heard, SameWord
  <2> QED
    BY <1>1, <1>2, <2>1
<1>5. ASSUME NEW i \in K PROVE i + 1 \in K
  <2> SUFFICES ASSUME i + 1 <= L PROVE P(i + 1)
    OBVIOUS
  <2>1. i \in Nat /\ P(i) /\ i + 1 \in 1 .. L /\ (i + 1) - 1 = i
    BY <1>0
  <2> DEFINE a == ad[i + 1]
  <2>2. T(i + 1) = Parsed(n, T(i), a, b) /\ M(i + 1) = Told(n, M(i), a)
    BY <1>1, <1>2, <2>1
  <2>3. Wellformed(a) /\ DOMAIN T(i) = Fields
    BY <1>0, <2>1
  <2>4. DOMAIN T(i + 1) = Fields
    BY <2>2, <2>3, ParsedReads
  <2>5. CASE i + 1 = p
    <3>1. p \notin 1 .. i /\ p \in 1 .. i + 1 /\ a = ad[p]
      BY <2>1, <2>5
    <3>2. SameWord(M(i), m) /\ T(i).trigger = s.trigger
      BY <2>1, <3>1 DEF Heard
    <3>3. SameWord(Told(n, M(i), a), Told(n, m, a))
      BY <3>2, ToldSame
    <3>4. LET u == Told(n, M(i), a) IN
            T(i).trigger # 0 /\ u.active = "on" /\ u.read => Parsed(n, T(i), a, b).trigger # 0
      <4> HIDE DEF a
      <4> QED
        BY <2>3, ParsedSwitches
    <3> QED
      BY <2>2, <2>4, <3>1, <3>2, <3>3, <3>4 DEF Heard
  <2>6. CASE i + 1 # p
    <3>1. a.fmt = "other" /\ (p \in 1 .. i <=> p \in 1 .. i + 1)
      BY <1>3, <2>1, <2>6
    <3>2. /\ T(i + 1).trigger = T(i).trigger
          /\ SameWord(M(i + 1), M(i))
      <4> HIDE DEF a
      <4> QED
        BY <2>2, <2>3, <3>1, OtherSays
    <3> QED
      BY <2>1, <2>4, <3>1, <3>2 DEF Heard, SameWord
  <2> QED
    BY <2>5, <2>6
<1>6. K = Nat
  <2>1. K \in SUBSET Nat
    OBVIOUS
  <2> HIDE DEF K
  <2> QED
    BY <1>4, <1>5, <2>1, AllNumbers
<1>7. P(L)
  <2> HIDE DEF P
  <2> QED
    BY <1>0, <1>6
<1> QED
  BY <1>7 DEF T, M, L

\* A repeated advertisement is in memory.
LEMMA RepeatedIs ==
  ASSUME NEW U, NEW ad \in Seq(U), NEW old \in Seq(U), IsPrefix(ad, old)
  PROVE  Len(ad) <= Len(old) /\ \A i \in 1 .. Len(ad) : old[i] = ad[i]
<1>1. Len(ad) \in Nat /\ Len(old) \in Nat /\ Len(ad) <= Len(old)
  BY DEF IsPrefix
<1>2. \A i \in 1 .. Len(ad) : ad[i] \in U /\ old[i] \in U
  BY <1>1, ElementOfSeq
<1>3. \A i \in 1 .. Len(ad) : SubSeq(ad, 1, Len(ad))[i] = ad[1 + i - 1]
  BY <1>1, <1>2, SubSeqProperties
<1>4. \A i \in 1 .. Len(ad) : SubSeq(old, 1, Len(ad))[i] = old[1 + i - 1]
  BY <1>1, <1>2, SubSeqProperties
<1>5. \A i \in 1 .. Len(ad) : 1 + i - 1 = i
  BY <1>1
<1>6. SubSeq(ad, 1, Len(ad)) = SubSeq(old, 1, Len(ad))
  BY DEF IsPrefix
<1> QED
  BY <1>1, <1>3, <1>4, <1>5, <1>6

\* The advertisement is noted in front of what is left of older ones.
LEMMA NotedIs ==
  ASSUME NEW U, NEW ad \in Seq(U), NEW old \in Seq(U)
  PROVE  /\ Noted(old, ad) \in Seq(U)
         /\ Len(ad) <= Len(Noted(old, ad))
         /\ \A i \in 1 .. Len(ad) : Noted(old, ad)[i] = ad[i]
<1> DEFINE places == {k \in 1 .. Len(old) : Bytes(SubSeq(old, 1, k)) = Bytes(ad)}
           c == CHOOSE k \in places : TRUE
           rest == SubSeq(old, c + 1, Len(old))
<1>0. Len(ad) \in Nat /\ Len(old) \in Nat
  BY LenProperties
<1>1. CASE places = {}
  <2>1. Noted(old, ad) = ad
    BY <1>1 DEF Noted
  <2> QED
    BY <1>0, <2>1
<1>2. CASE places # {}
  <2>1. Noted(old, ad) = ad \o rest
    BY <1>2 DEF Noted
  <2>2. c \in 1 .. Len(old)
    BY <1>2
  <2> HIDE DEF c
  <2>3. rest \in Seq(U)
    <3>1. c + 1 \in Int /\ Len(old) \in Int /\ \A i \in c + 1 .. Len(old) : old[i] \in U
      BY <1>0, <2>2, ElementOfSeq
    <3> QED
      BY <3>1, SubSeqProperties
  <2> HIDE DEF rest
  <2>4. /\ ad \o rest \in Seq(U) /\ Len(ad \o rest) = Len(ad) + Len(rest)
        /\ \A i \in 1 .. Len(ad) + Len(rest) :
             (ad \o rest)[i] = IF i <= Len(ad) THEN ad[i] ELSE rest[i - Len(ad)]
    BY <2>3, ConcatProperties
  <2>5. Len(rest) \in Nat
    BY <2>3, LenProperties
  <2> QED
    BY <1>0, <2>1, <2>4, <2>5
<1> QED
  BY <1>1, <1>2

-----------------------------------------------------------------------------
(* The invariants of the sensors *)

ScanTypes ==
  /\ DOMAIN prev_advs = Devs /\ \A n \in Devs : prev_advs[n] \in Seq(Structures(n))
  /\ DOMAIN attrs = Devs /\ \A n \in Devs : DOMAIN attrs[n] = Fields
  /\ DOMAIN taken = Devs /\ DOMAIN said = Devs

\* What is in memory at the speaker's place was said last: said again, it changes
\* nothing.
Settled ==
  \A n \in Devs : \A p \in Nat \ {0} :
    Speaks(n, p) /\ prev_advs[n] # <<>> =>
      /\ p <= Len(prev_advs[n])
      /\ SameWord(Told(n, said[n], prev_advs[n][p]), said[n])

\* The inductive invariant; the properties of the readings and of the trigger
\* are inductive beside it.
ScanInv == ScanTypes /\ Settled /\ NoTriggerLost

\* The step in which advertisement ad of sensor n is not a repetition.
LEMMA NewAdvert ==
  ASSUME ScanTypes, NEW n \in Devs, NEW ad \in Adverts[n], NEW b,
         scanning_event_callback(n, ad, b), ~Repeated(n, ad)
  PROVE  /\ prev_advs' = [prev_advs EXCEPT ![n] = Noted(prev_advs[n], ad)]
         /\ attrs' = [attrs EXCEPT ![n] = AfterStructs(n, attrs[n], ad, b)[Len(ad)]]
         /\ said' = [said EXCEPT ![n] = MeantAfter(n, said[n], ad)[Len(ad)]]
         /\ taken' = taken
         /\ Agrees(attrs[n], attrs'[n], said[n], said'[n])
         /\ \A p \in Nat : Speaks(n, p) =>
              Heard(n, ad, p, Len(ad), said[n], said'[n], attrs[n].trigger, attrs'[n].trigger)
<1>1. /\ prev_advs' = [prev_advs EXCEPT ![n] = Noted(prev_advs[n], ad)]
      /\ attrs' = [attrs EXCEPT ![n] = AfterStructs(n, attrs[n], ad, b)[Len(ad)]]
      /\ said' = [said EXCEPT ![n] = MeantAfter(n, said[n], ad)[Len(ad)]]
      /\ taken' = taken
  BY DEF scanning_event_callback
<1>2. /\ attrs'[n] = AfterStructs(n, attrs[n], ad, b)[Len(ad)]
      /\ said'[n] = MeantAfter(n, said[n], ad)[Len(ad)]
      /\ DOMAIN attrs[n] = Fields
  BY <1>1 DEF ScanTypes
<1>3. Agrees(attrs[n], attrs'[n], said[n], said'[n])
  BY <1>2, AdvertAgrees
<1>4. ASSUME NEW p \in Nat, Speaks(n, p)
      PROVE  Heard(n, ad, p, Len(ad), said[n], said'[n], attrs[n].trigger, attrs'[n].trigger)
  BY <1>2, <1>4, AdvertHeard
<1> QED
  BY <1>1, <1>3, <1>4

\* A repetition is dropped, and would have changed nothing.
LEMMA OldAdvert ==
  ASSUME ScanTypes, Settled, NEW n \in Devs, NEW ad \in Adverts[n], NEW b,
         scanning_event_callback(n, ad, b), Repeated(n, ad)
  PROVE  /\ prev_advs' = prev_advs /\ attrs' = attrs /\ taken' = taken
         /\ said' = [said EXCEPT ![n] = MeantAfter(n, said[n], ad)[Len(ad)]]
         /\ \A p \in Nat : Speaks(n, p) =>
              SameWord(said'[n], said[n])
<1>1. /\ prev_advs' = prev_advs /\ attrs' = attrs /\ taken' = taken
      /\ said' = [said EXCEPT ![n] = MeantAfter(n, said[n], ad)[Len(ad)]]
  BY DEF scanning_event_callback
<1>2. said'[n] = MeantAfter(n, said[n], ad)[Len(ad)] /\ DOMAIN attrs[n] = Fields
  BY <1>1 DEF ScanTypes
<1>3. ASSUME NEW p \in Nat, Speaks(n, p)
      PROVE  SameWord(said'[n], said[n])
  <2> DEFINE t == AfterStructs(n, attrs[n], ad, b)[Len(ad)].trigger
  <2>1. Heard(n, ad, p, Len(ad), said[n], said'[n], attrs[n].trigger, t)
    BY <1>2, <1>3, AdvertHeard
  <2>2. CASE p \notin 1 .. Len(ad)
    BY <2>1, <2>2 DEF Heard
  <2>3. CASE p \in 1 .. Len(ad)
    <3>1. ad \in Seq(Structures(n)) /\ prev_advs[n] \in Seq(Structures(n)) /\ Len(ad) \in Nat
      BY AdvertTyped DEF ScanTypes
    <3>2. Len(ad) <= Len(prev_advs[n]) /\ prev_advs[n][p] = ad[p]
      BY <2>3, <3>1, RepeatedIs DEF Repeated
    <3>3. prev_advs[n] # <<>> /\ p # 0
      BY <2>3, <3>1, <3>2
    <3>4. SameWord(Told(n, said[n], ad[p]), said[n])
      BY <1>3, <3>2, <3>3 DEF Settled
    <3> QED
      BY <2>1, <2>3, <3>4 DEF Heard, SameWord
  <2> QED
    BY <2>2, <2>3
<1> QED
  BY <1>1, <1>3

LEMMA ScanInit_Holds ==
  ASSUME ScanInit
  PROVE  ScanInv /\ ReadingsCurrent /\ OffMeansOff
<1>1. ScanTypes
  BY DEF ScanInit, ScanTypes, Fields
<1>2. Settled
  BY DEF ScanInit, Settled
<1>3. NoTriggerLost /\ ReadingsCurrent /\ OffMeansOff
  BY DEF ScanInit, NoTriggerLost, ReadingsCurrent, OffMeansOff
<1> QED
  BY <1>1, <1>2, <1>3 DEF ScanInv

LEMMA AdvertKeeps ==
  ASSUME ScanInv, NEW n \in Devs, NEW ad \in Adverts[n], NEW b,
         scanning_event_callback(n, ad, b)
  PROVE  ScanInv'
<1>0. ScanTypes /\ Settled /\ NoTriggerLost
  BY DEF ScanInv
<1>1. CASE Repeated(n, ad)
  <2>1. /\ prev_advs' = prev_advs /\ attrs' = attrs /\ taken' = taken
        /\ DOMAIN said' = Devs /\ \A k \in Devs : k # n => said'[k] = said[k]
        /\ \A p \in Nat : Speaks(n, p) =>
             SameWord(said'[n], said[n])
    BY <1>0, <1>1, OldAdvert DEF ScanTypes
  <2>2. ScanTypes' /\ NoTriggerLost'
    BY <1>0, <2>1 DEF ScanTypes, NoTriggerLost
  <2>3. ASSUME NEW k \in Devs, NEW p \in Nat \ {0}, Speaks(k, p), prev_advs[k] # <<>>
        PROVE  /\ p <= Len(prev_advs[k])
               /\ SameWord(Told(k, said'[k], prev_advs[k][p]), said'[k])
    <3>1. /\ p <= Len(prev_advs[k])
          /\ SameWord(Told(k, said[k], prev_advs[k][p]), said[k])
      BY <1>0, <2>3 DEF Settled
    <3>2. SameWord(said'[k], said[k])
      BY <2>1, <2>3 DEF SameWord
    <3>3. SameWord(Told(k, said'[k], prev_advs[k][p]), Told(k, said[k], prev_advs[k][p]))
      BY <3>2, ToldSame
    <3> QED
      BY <3>1, <3>2, <3>3 DEF SameWord
  <2>4. Settled'
    BY <2>1, <2>3 DEF Settled, Speaks
  <2> QED
    BY <2>2, <2>4 DEF ScanInv
<1>2. CASE ~Repeated(n, ad)
  <2>1. /\ DOMAIN prev_advs' = Devs /\ prev_advs'[n] = Noted(prev_advs[n], ad)
        /\ DOMAIN attrs' = Devs /\ DOMAIN said' = Devs /\ taken' = taken
        /\ \A k \in Devs : k # n => /\ prev_advs'[k] = prev_advs[k]
                                    /\ attrs'[k] = attrs[k] /\ said'[k] = said[k]
        /\ Agrees(attrs[n], attrs'[n], said[n], said'[n])
        /\ \A p \in Nat : Speaks(n, p) =>
             Heard(n, ad, p, Len(ad), said[n], said'[n], attrs[n].trigger, attrs'[n].trigger)
    BY <1>0, <1>2, NewAdvert DEF ScanTypes
  <2>2. ad \in Seq(Structures(n)) /\ prev_advs[n] \in Seq(Structures(n)) /\ Len(ad) \in Nat
    BY <1>0, AdvertTyped DEF ScanTypes
  <2>3. /\ prev_advs'[n] \in Seq(Structures(n)) /\ Len(ad) <= Len(prev_advs'[n])
        /\ \A i \in 1 .. Len(ad) : prev_advs'[n][i] = ad[i]
    BY <2>1, <2>2, NotedIs
  <2>4. ScanTypes'
    <3>1. DOMAIN attrs'[n] = Fields
      BY <2>1 DEF Agrees
    <3> QED
      BY <1>0, <2>1, <2>3, <3>1 DEF ScanTypes, Structures
  <2>5. NoTriggerLost'
    <3>1. attrs'[n].trigger # taken[n] => attrs'[n].fresh
      BY <1>0, <2>1 DEF Agrees, Flagged, NoTriggerLost
    <3> QED
      BY <1>0, <2>1, <3>1 DEF NoTriggerLost
  <2>6. ASSUME NEW k \in Devs, NEW p \in Nat \ {0}, Speaks(k, p), prev_advs'[k] # <<>>
        PROVE  /\ p <= Len(prev_advs'[k])
               /\ SameWord(Told(k, said'[k], prev_advs'[k][p]), said'[k])
    <3>1. CASE k # n
      BY <1>0, <2>1, <2>6, <3>1 DEF Settled
    <3>2. CASE k = n
      <4>1. p \in 1 .. Len(ad)
        BY <2>2, <2>6, <3>2 DEF Speaks
      <4>2. SameWord(said'[n], Told(n, said[n], ad[p]))
        BY <2>1, <2>6, <3>2, <4>1 DEF Heard
      <4>3. SameWord(Told(n, said'[n], ad[p]), said'[n])
        BY <4>2, ToldAgain
      <4>4. p <= Len(prev_advs'[n])
        <5>1. Len(prev_advs'[n]) \in Nat
          BY <2>3, LenProperties
        <5> QED
          BY <2>2, <2>3, <4>1, <5>1
      <4> QED
        BY <2>3, <3>2, <4>1, <4>3, <4>4
    <3> QED
      BY <3>1, <3>2
  <2>7. Settled'
    BY <2>6 DEF Settled, Speaks
  <2> QED
    BY <2>4, <2>5, <2>7 DEF ScanInv
<1> QED
  BY <1>1, <1>2

LEMMA TargetKeeps ==
  ASSUME ScanInv, NEW n \in Devs, NEW t, SetTarget(n, t)
  PROVE  ScanInv' /\ attrs' = attrs /\ said' = said
BY DEF SetTarget, ScanInv, ScanTypes, Structures, Settled, NoTriggerLost, Speaks

LEMMA TakenKeeps ==
  ASSUME ScanInv, NEW n \in Devs, test_ble_trigger(n)
  PROVE  /\ ScanInv' /\ said' = said
         /\ \A k \in Devs : attrs'[k].trigger = attrs[k].trigger
                            /\ attrs'[k].reading = attrs[k].reading
<1>0. ScanTypes /\ Settled /\ NoTriggerLost
  BY DEF ScanInv
<1>1. /\ attrs' = [attrs EXCEPT ![n] = [attrs[n] EXCEPT !.fresh = FALSE]]
      /\ taken' = [taken EXCEPT ![n] = attrs[n].trigger]
      /\ prev_advs' = prev_advs /\ said' = said
  BY DEF test_ble_trigger
<1>2. LET t == [attrs[n] EXCEPT !.fresh = FALSE] IN
      DOMAIN t = Fields /\ t.trigger = attrs[n].trigger /\ t.reading = attrs[n].reading
  BY <1>0 DEF ScanTypes, Fields
<1>3. /\ DOMAIN attrs' = Devs /\ DOMAIN taken' = Devs /\ DOMAIN attrs'[n] = Fields
      /\ attrs'[n].trigger = attrs[n].trigger /\ attrs'[n].reading = attrs[n].reading
      /\ taken'[n] = attrs[n].trigger
      /\ \A k \in Devs : k # n => attrs'[k] = attrs[k] /\ taken'[k] = taken[k]
  BY <1>0, <1>1, <1>2 DEF ScanTypes
<1>4. ScanTypes'
  BY <1>0, <1>1, <1>3 DEF ScanTypes, Structures
<1>5. NoTriggerLost'
  BY <1>0, <1>3 DEF NoTriggerLost
<1>6. Settled'
  BY <1>0, <1>1 DEF Settled, Speaks
<1> QED
  BY <1>1, <1>3, <1>4, <1>5, <1>6 DEF ScanInv

LEMMA ScanStep ==
  ASSUME ScanInv, [ScanNext]_scanVars
  PROVE  ScanInv'
<1>1. CASE ScanNext
  BY <1>1, AdvertKeeps, TargetKeeps, TakenKeeps DEF ScanNext
<1>2. CASE UNCHANGED scanVars
  BY <1>2 DEF scanVars, ScanInv, ScanTypes, Structures, Settled, NoTriggerLost, Speaks
<1> QED
  BY <1>1, <1>2

\* The inductive invariant of the sensors.
THEOREM ScanInvariance == ScanSpec => []ScanInv
<1>1. ScanInit => ScanInv
  BY ScanInit_Holds
<1>2. ScanInv /\ [ScanNext]_scanVars => ScanInv'
  BY ScanStep
<1> QED
  BY <1>1, <1>2, PTL DEF ScanSpec

\* A trigger that the relays have not taken is flagged.
THEOREM TriggerFlagged == ScanSpec => []NoTriggerLost
<1>1. ScanInv => NoTriggerLost
  BY DEF ScanInv
<1> QED
  BY <1>1, ScanInvariance, PTL

\* The readings are what the sensor said last, although repetitions are dropped
\* (scanning_event_callback): for sensors with one speaker.
THEOREM ReadingsKept == ASSUME OneSpeaker PROVE ScanSpec => []ReadingsCurrent
<1>1. ScanInit => ReadingsCurrent
  BY ScanInit_Holds
<1>2. ScanInv /\ ReadingsCurrent /\ [ScanNext]_scanVars => ReadingsCurrent'
  <2> SUFFICES ASSUME ScanInv, ReadingsCurrent, [ScanNext]_scanVars
               PROVE  ReadingsCurrent'
    OBVIOUS
  <2>0. ScanTypes /\ Settled
    BY DEF ScanInv
  <2>1. ASSUME NEW n \in Devs, NEW ad \in Adverts[n], NEW b, scanning_event_callback(n, ad, b)
        PROVE  ReadingsCurrent'
    <3>1. PICK p \in Nat : Speaks(n, p)
      BY SpeakerPlace
    <3>2. CASE Repeated(n, ad)
      <4>1. /\ attrs' = attrs /\ said'[n].reading = said[n].reading
            /\ \A k \in Devs : k # n => said'[k] = said[k]
        BY <2>0, <2>1, <3>1, <3>2, OldAdvert DEF ScanTypes, SameWord
      <4> QED
        BY <4>1 DEF ReadingsCurrent
    <3>3. CASE ~Repeated(n, ad)
      <4>1. /\ \A k \in Devs : k # n => attrs'[k] = attrs[k] /\ said'[k] = said[k]
            /\ Agrees(attrs[n], attrs'[n], said[n], said'[n])
        BY <2>0, <2>1, <3>3, NewAdvert DEF ScanTypes
      <4> QED
        BY <4>1 DEF ReadingsCurrent, Agrees
    <3> QED
      BY <3>2, <3>3
  <2>2. ASSUME NEW n \in Devs, NEW t, SetTarget(n, t) PROVE ReadingsCurrent'
    BY <2>2, TargetKeeps DEF ReadingsCurrent
  <2>3. ASSUME NEW n \in Devs, test_ble_trigger(n) PROVE ReadingsCurrent'
    BY <2>3, TakenKeeps DEF ReadingsCurrent
  <2>4. CASE UNCHANGED scanVars
    BY <2>4 DEF scanVars, ReadingsCurrent
  <2> QED
    BY <2>1, <2>2, <2>3, <2>4 DEF ScanNext
<1> QED
  BY <1>1, <1>2, ScanInvariance, PTL DEF ScanSpec

\* Who says off last is off, whatever target was set (zb_moving), where what it
\* says is read: for sensors with one speaker.
THEOREM OffIsOff == ASSUME OneSpeaker PROVE ScanSpec => []OffMeansOff
<1>1. ScanInit => OffMeansOff
  BY ScanInit_Holds
<1>2. ScanInv /\ OffMeansOff /\ [ScanNext]_scanVars => OffMeansOff'
  <2> SUFFICES ASSUME ScanInv, OffMeansOff, [ScanNext]_scanVars
               PROVE  OffMeansOff'
    OBVIOUS
  <2>0. ScanTypes /\ Settled
    BY DEF ScanInv
  <2>1. ASSUME NEW n \in Devs, NEW ad \in Adverts[n], NEW b, scanning_event_callback(n, ad, b)
        PROVE  OffMeansOff'
    <3>1. PICK p \in Nat : Speaks(n, p)
      BY SpeakerPlace
    <3>2. CASE Repeated(n, ad)
      <4>1. /\ attrs' = attrs /\ SameWord(said'[n], said[n])
            /\ \A k \in Devs : k # n => said'[k] = said[k]
        BY <2>0, <2>1, <3>1, <3>2, OldAdvert DEF ScanTypes
      <4> QED
        BY <4>1 DEF OffMeansOff, SameWord
    <3>3. CASE ~Repeated(n, ad)
      <4>1. /\ \A k \in Devs : k # n => attrs'[k] = attrs[k] /\ said'[k] = said[k]
            /\ Agrees(attrs[n], attrs'[n], said[n], said'[n])
        BY <2>0, <2>1, <3>3, NewAdvert DEF ScanTypes
      <4> QED
        BY <4>1 DEF OffMeansOff, Agrees, OffHeard
    <3> QED
      BY <3>2, <3>3
  <2>2. ASSUME NEW n \in Devs, NEW t, SetTarget(n, t) PROVE OffMeansOff'
    BY <2>2, TargetKeeps DEF OffMeansOff
  <2>3. ASSUME NEW n \in Devs, test_ble_trigger(n) PROVE OffMeansOff'
    BY <2>3, TakenKeeps DEF OffMeansOff
  <2>4. CASE UNCHANGED scanVars
    BY <2>4 DEF scanVars, OffMeansOff
  <2> QED
    BY <2>1, <2>2, <2>3, <2>4 DEF ScanNext
<1> QED
  BY <1>1, <1>2, ScanInvariance, PTL DEF ScanSpec

\* While somebody moves the trigger stays on, however bright it becomes
\* (zb_moving): for the same sensors.
THEOREM StaysOnWhileMoving ==
  ASSUME OneSpeaker PROVE ScanSpec => KeepsOnWhileMoving
<1> DEFINE Step == \A n \in Devs :
                     attrs[n].trigger = 1 /\ attrs'[n].trigger = 0 =>
                       said'[n].active # "on" \/ ~said'[n].read
<1>1. ScanInv /\ [ScanNext]_scanVars => [Step]_scanVars
  <2> SUFFICES ASSUME ScanInv, ScanNext PROVE Step
    BY DEF ScanNext
  <2>0. ScanTypes /\ Settled
    BY DEF ScanInv
  <2>1. ASSUME NEW n \in Devs, NEW ad \in Adverts[n], NEW b, scanning_event_callback(n, ad, b)
        PROVE  Step
    <3>1. CASE Repeated(n, ad)
      <4>1. attrs' = attrs
        BY <2>0, <2>1, <3>1, OldAdvert
      <4> QED
        BY <4>1
    <3>2. CASE ~Repeated(n, ad)
      <4>1. PICK p \in Nat : Speaks(n, p)
        BY SpeakerPlace
      <4>2. /\ \A k \in Devs : k # n => attrs'[k] = attrs[k]
            /\ Heard(n, ad, p, Len(ad), said[n], said'[n], attrs[n].trigger, attrs'[n].trigger)
        BY <2>0, <2>1, <3>2, <4>1, NewAdvert DEF ScanTypes
      <4>3. attrs[n].trigger # 0 /\ said'[n].active = "on" /\ said'[n].read =>
              attrs'[n].trigger # 0
        BY <4>2 DEF Heard, SameWord
      <4> QED
        BY <4>2, <4>3
    <3> QED
      BY <3>1, <3>2
  <2>2. ASSUME NEW n \in Devs, NEW t, SetTarget(n, t) PROVE Step
    <3>1. attrs' = attrs
      BY <2>2, TargetKeeps
    <3> QED
      BY <3>1
  <2>3. ASSUME NEW n \in Devs, test_ble_trigger(n) PROVE Step
    <3>1. \A k \in Devs : attrs'[k].trigger = attrs[k].trigger
      BY <2>3, TakenKeeps
    <3> QED
      BY <3>1
  <2> QED
    BY <2>1, <2>2, <2>3 DEF ScanNext
<1> QED
  BY <1>1, ScanInvariance, PTL DEF ScanSpec, KeepsOnWhileMoving
=============================================================================
