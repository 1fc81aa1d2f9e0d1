----------------------------- MODULE ScanFilter ------------------------------
(***************************************************************************)
(* What the bridge takes from the advertisements of its sensors:           *)
(* scanning_event_callback of ble_scaning.c with the parsers of BTHome,    *)
(* Xiaomi, Qingping and pvvx's own format, the measured illumination and   *)
(* its target, and the trigger that test_ble_trigger takes for the relays  *)
(* (fresh and trigger of OnOff).                                           *)
(*                                                                         *)
(* An advertisement is a sequence of structures, a structure of a format   *)
(* a sequence of objects.  Readings stand for temperature, humidity and    *)
(* battery, which are only stored.  An illumination has three bytes: its   *)
(* lower two, and the third; what follows an object in memory is the       *)
(* identifier of the next one, or else anything.  Sealed structures are    *)
(* encrypted; a device without the right key opens none.  The sensors are  *)
(* external.                                                               *)
(***************************************************************************)
EXTENDS Integers, Sequences, SequencesExt

CONSTANTS
  Devs,        \* sensors, MAX_SCAN_DEVS
  Adverts,     \* the advertisements that each of them sends
  Keyed,       \* sensors whose bindkey is right
  IdByte,      \* first byte of the identifier of an object
  Word,        \* values of two bytes: the weight of the third one
  Beyond,      \* bytes in memory behind an advertisement
  Log10k,      \* calk_10000_log10, over all illuminations that may be read
  Targets,     \* minLevelLx that are set
  NoTarget     \* 0xffff

ObjIds == {"reading", "light", "motion", "switch", "button", "moving", "still",
        "idle", "flags", "unknown"}
Formats == {"bthome", "xiaomi", "qingping", "custom", "pvvx", "other"}

\* The objects that the parser of a format looks at.
Known ==
  [bthome |-> {"reading", "light", "switch", "motion"},
   xiaomi |-> {"reading", "light", "switch", "button", "motion", "moving", "idle"},
   qingping |-> {"reading", "light", "switch", "motion", "moving", "still"},
   custom |-> {"reading", "flags"},
   pvvx |-> {"reading", "flags"},
   other |-> {}]

ASSUME ScanAssumption ==
  /\ DOMAIN Adverts = Devs /\ Keyed \subseteq Devs
  /\ Word \in Nat /\ Beyond \subseteq Nat
  /\ IdByte \in [ObjIds -> Nat]
  /\ \A x, y \in DOMAIN Log10k : x < y => Log10k[x] <= Log10k[y]
  /\ Targets \subseteq Nat /\ NoTarget \in Targets
  /\ \A n \in Devs : \A a \in Adverts[n] : a \in Seq(Range(a))
  /\ \A n \in Devs : \A a \in Adverts[n] : \A i \in DOMAIN a :
       /\ a[i].fmt \in Formats /\ a[i].sealed \in BOOLEAN /\ a[i].size \in Nat
       /\ Len(a[i].objs) \in Nat /\ DOMAIN a[i].objs = 1 .. Len(a[i].objs)
       /\ \A j \in DOMAIN a[i].objs :
            a[i].objs[j].id \in Known[a[i].fmt] \cup {"unknown"}

\* One structure of a known format in each advertisement of a sensor, always at
\* the same place.
OneSpeaker ==
  \A n \in Devs : \E p \in {0} \cup UNION {DOMAIN a : a \in Adverts[n]} :
    \A a \in Adverts[n] : p <= Len(a) /\ \A i \in DOMAIN a : a[i].fmt # "other" => i = p

VARIABLES
  prev_advs,     \* bytes of the last advertisement, over those before
  attrs,         \* reading, light, level, trigger and FLG_UPDATE_TRG
  minLevelLx,    \* target of the illumination
  taken,         \* trigger that was last taken for the relays
  said           \* what the sensor has said last, as it means it

scanVars == <<prev_advs, attrs, minLevelLx, taken, said>>

ScanInit ==
  /\ prev_advs = [n \in Devs |-> <<>>]
  /\ attrs = [n \in Devs |->
                [reading |-> 0, light |-> 0, level |-> "none",
                 trigger |-> 0, fresh |-> FALSE]]
  /\ minLevelLx = [n \in Devs |-> NoTarget]
  /\ taken = [n \in Devs |-> 0]
  /\ said = [n \in Devs |-> [reading |-> 0, light |-> 0, active |-> "any", read |-> TRUE]]

-----------------------------------------------------------------------------
(* Attributes, from one object *)

LevelOf(ilz, target) ==
  IF target = NoTarget THEN "none"
  ELSE IF target = 0 \/ ilz < target THEN "below"
  ELSE IF ilz = target THEN "on" ELSE "above"

zb_illuminance(n, s, lx) ==
  [s EXCEPT !.light = lx, !.level = LevelOf(Log10k[lx], minLevelLx[n]),
            !.fresh = TRUE]

Triggered(s, v) == [s EXCEPT !.trigger = v, !.fresh = TRUE]

\* Seeded fault: a room that has become bright switches its lamp off.
zb_moving_Gated(n, s, onoff) ==
  Triggered(s, IF s.level = "below" \/ minLevelLx[n] \in {0, NoTarget}
               THEN onoff ELSE 0)

\* Seeded fault: the flag of the trigger is forgotten.
zb_moving_Unflagged(n, s, onoff) ==
  IF onoff = 0 THEN [s EXCEPT !.trigger = 0] ELSE Triggered(s, onoff)

\* Seeded fault: in a bright room the end of motion is not looked at either.
zb_moving_Dark(n, s, onoff) ==
  IF minLevelLx[n] \notin {0, NoTarget} /\ s.level # "below" THEN s
  ELSE Triggered(s, onoff)

\* With a target, motion turns the trigger on in the dark only; it may always
\* turn it off.
zb_moving(n, s, onoff) ==
  IF /\ minLevelLx[n] \notin {0, NoTarget}
     /\ onoff # 0
     /\ ~(s.trigger = 0 /\ s.level = "below")
  THEN s
  ELSE Triggered(s, onoff)

Measured(s, o) == [s EXCEPT !.reading = o.val]

\* data_us[0] | (data_ub[3] << 16): the third byte is left out, and the one
\* behind it is taken.
ThreeBytes(o, next) == o.val[1] + Word * next

\* filter_bthome_ad: the first object of the type chosen for the device
\* switches.
Bthome(n, s, objs, i, next) ==
  LET o == objs[i] IN
  CASE o.id = "reading" -> Measured(s, o)
    [] o.id = "light" -> zb_illuminance(n, s, ThreeBytes(o, next))
    [] o.id = "switch" ->
         IF \E j \in 1 .. i - 1 : objs[j].id = "switch" THEN s
         ELSE Triggered(s, o.val)
    [] o.id = "motion" -> zb_moving(n, s, o.val)
    [] OTHER -> s

Pressed(s) == 1 - s.trigger

\* filter_xiaomi_ad: a button toggles, or does nothing but raise the flag.
Xiaomi(n, s, o, next) ==
  CASE o.id = "reading" -> Measured(s, o)
    [] o.id = "light" -> zb_illuminance(n, s, ThreeBytes(o, next))
    [] o.id = "switch" -> Triggered(s, o.val)
    [] o.id = "button" -> Triggered(s, IF o.val = 1 THEN Pressed(s) ELSE s.trigger)
    [] o.id = "motion" -> zb_moving(n, s, o.val)
    [] o.id = "moving" ->
         zb_moving(n, zb_illuminance(n, s, ThreeBytes(o, next)), 1)
    [] o.id = "idle" -> zb_moving(n, zb_illuminance(n, s, o.val), 0)
    [] OTHER -> s

\* filter_qingping_ad: the illumination is read as it is, before the motion.
Qingping(n, s, o) ==
  CASE o.id = "reading" -> Measured(s, o)
    [] o.id = "light" -> zb_illuminance(n, s, o.val[1] + Word * o.val[2])
    [] o.id = "moving" ->
         zb_moving(n, zb_illuminance(n, s, o.val[1] + Word * o.val[2]), 1)
    [] o.id = "still" ->
         zb_moving(n, zb_illuminance(n, s, o.val[1] + Word * o.val[2]), 0)
    [] o.id = "motion" -> zb_moving(n, s, o.val)
    [] o.id = "switch" -> Triggered(s, o.val)
    [] OTHER -> s

\* filter_custom_ad: the flags of an encrypted structure are not looked at.
Custom(s, fmt, o) ==
  CASE o.id = "reading" -> Measured(s, o)
    [] o.id = "flags" /\ fmt = "custom" -> Triggered(s, o.val)
    [] OTHER -> s

-----------------------------------------------------------------------------
(* An advertisement *)

\* The objects of structure a that are looked at: those of BTHome up to the
\* first one of an unknown type.
Read(a) ==
  {i \in DOMAIN a.objs :
     a.fmt = "bthome" => \A j \in 1 .. i : a.objs[j].id # "unknown"}

Opened(n, a) == ~a.sealed \/ n \in Keyed

\* What object i of structure a makes of the attributes, with byte next behind
\* it in memory.
Applied(n, s, a, i, next) ==
  CASE i \notin Read(a) -> s
    [] i \in Read(a) /\ a.fmt = "bthome" -> Bthome(n, s, a.objs, i, next)
    [] i \in Read(a) /\ a.fmt = "xiaomi" -> Xiaomi(n, s, a.objs[i], next)
    [] i \in Read(a) /\ a.fmt = "qingping" -> Qingping(n, s, a.objs[i])
    [] i \in Read(a) /\ a.fmt \in {"custom", "pvvx"} ->
         Custom(s, a.fmt, a.objs[i])
    [] OTHER -> s

Behind(a, i, b) == IF i < Len(a.objs) THEN IdByte[a.objs[i + 1].id] ELSE b

\* The attributes after each object of structure a, with byte b behind it.
AfterObjects(n, s, a, b) ==
  LET After[i \in 0 .. Len(a.objs)] ==
        IF i = 0 THEN s ELSE Applied(n, After[i - 1], a, i, Behind(a, i, b))
  IN After

\* An encrypted structure of the own format sets the trigger at each time, from
\* where the plain one has its flags, which is behind its end.
Parsed(n, s, a, b) ==
  LET t == AfterObjects(n, s, a, b)[Len(a.objs)]
  IN CASE ~Opened(n, a) -> s
       [] Opened(n, a) /\ a.fmt = "pvvx" -> Triggered(t, b % 2)
       [] OTHER -> t

\* The attributes after each structure of an advertisement.
AfterStructs(n, s, ad, b) ==
  LET After[i \in 0 .. Len(ad)] ==
        IF i = 0 THEN s ELSE Parsed(n, After[i - 1], ad[i], b)
  IN After

Bytes(ad) == FoldLeft(LAMBDA sum, a : sum + a.size, 0, ad)

\* Seeded fault: the last advertisement of any sensor is compared.
Repeated_Any(n, ad) == \E m \in Devs : IsPrefix(ad, prev_advs[m])

\* memcmp over the length of the new advertisement.
Repeated(n, ad) == IsPrefix(ad, prev_advs[n])

\* memcpy of the new advertisement: bytes behind it stay; they can be part of
\* a later one only if they begin where one of its structures does.
Noted(old, ad) ==
  LET behind == {k \in 1 .. Len(old) : Bytes(SubSeq(old, 1, k)) = Bytes(ad)}
  IN IF behind = {} THEN ad
     ELSE ad \o SubSeq(old, (CHOOSE k \in behind : TRUE) + 1, Len(old))

\* The objects of a structure that say on or off.
Switching(a) ==
  {i \in Read(a) :
     /\ a.objs[i].id \in {"motion", "switch", "button", "moving", "still", "idle",
                         "flags"}
     /\ a.fmt = "bthome" /\ a.objs[i].id = "switch" =>
          \A j \in 1 .. i - 1 : a.objs[j].id # "switch"}

SaysOf(o) ==
  CASE o.id = "button" -> "any"
    [] o.id = "moving" -> "on"
    [] o.id \in {"still", "idle"} -> "off"
    [] OTHER -> IF o.val = 0 THEN "off" ELSE "on"

\* What the sensor means: the last word about each attribute; on or off, if
\* the structure says one of them only; and whether it is in a format whose
\* switches are read.
Meant(s, a) ==
  LET of(ids) == {i \in Read(a) : a.objs[i].id \in ids}
      read == of({"reading"})
      lit == of({"light", "moving", "still"})
      lux == a.objs[Max(lit)].val
      says == {SaysOf(a.objs[i]) : i \in Switching(a)}
  IN [reading |-> IF read = {} THEN s.reading ELSE a.objs[Max(read)].val,
      light |-> IF lit = {} THEN s.light ELSE lux[1] + Word * lux[2],
      active |-> CASE says = {} -> s.active
                   [] says \in {{"on"}, {"off"}} -> CHOOSE w \in says : TRUE
                   [] OTHER -> "any",
      read |-> a.fmt # "pvvx" /\ (s.read \/ says # {})]

\* What it has meant after each structure of an advertisement.
MeantAfter(n, s, ad) ==
  LET After[i \in 0 .. Len(ad)] ==
        IF i = 0 THEN s
        ELSE IF Opened(n, ad[i]) THEN Meant(After[i - 1], ad[i]) ELSE After[i - 1]
  IN After

\* scanning_event_callback, for an advertisement of sensor n.
scanning_event_callback(n, ad, b) ==
  /\ IF Repeated(n, ad) THEN UNCHANGED <<prev_advs, attrs>>
     ELSE /\ prev_advs' = [prev_advs EXCEPT ![n] = Noted(@, ad)]
          /\ attrs' = [attrs EXCEPT ![n] = AfterStructs(n, @, ad, b)[Len(ad)]]
  /\ said' = [said EXCEPT ![n] = MeantAfter(n, @, ad)[Len(ad)]]
  /\ UNCHANGED <<minLevelLx, taken>>

\* The target is written over Zigbee or BLE; the level is not looked at.
SetTarget(n, t) ==
  /\ t # minLevelLx[n]
  /\ minLevelLx' = [minLevelLx EXCEPT ![n] = t]
  /\ UNCHANGED <<prev_advs, attrs, taken, said>>

\* test_ble_trigger takes the trigger of a sensor with permission.
test_ble_trigger(n) ==
  /\ attrs[n].fresh
  /\ attrs' = [attrs EXCEPT ![n].fresh = FALSE]
  /\ taken' = [taken EXCEPT ![n] = attrs[n].trigger]
  /\ UNCHANGED <<prev_advs, minLevelLx, said>>

ScanNext ==
  \/ \E n \in Devs : \E ad \in Adverts[n], b \in Beyond :
       scanning_event_callback(n, ad, b)
  \/ \E n \in Devs, t \in Targets : SetTarget(n, t)
  \/ \E n \in Devs : test_ble_trigger(n)

ScanSpec == ScanInit /\ [][ScanNext]_scanVars

-----------------------------------------------------------------------------
(* Properties *)

\* The attributes have what the sensor said last, although advertisements that
\* compare as repetitions are dropped (prev_advs).
ReadingsCurrent == \A n \in Devs : attrs[n].reading = said[n].reading

\* When a sensor has said last that nobody moves, or that its switch is off,
\* its trigger is off, whatever target was set and whatever came between; but
\* for what an encrypted structure of the own format says, or leaves behind
\* (filter_custom_ad reads its flags behind its end).
OffMeansOff ==
  \A n \in Devs : said[n].active = "off" /\ said[n].read => attrs[n].trigger = 0

\* The same without the exemption, which the code does not keep.
OffAlwaysMeansOff == \A n \in Devs : said[n].active = "off" => attrs[n].trigger = 0

\* A trigger that differs from what the relays were switched to last is
\* flagged, so that test_ble_trigger takes it (FLG_UPDATE_TRG).
NoTriggerLost ==
  \A n \in Devs : attrs[n].trigger # taken[n] => attrs[n].fresh

\* While somebody moves the trigger stays on, though the lamp it has switched
\* makes the room brighter than the target ("first On?" of zb_moving); an
\* encrypted structure of the own format may turn it off.
KeepsOnWhileMoving ==
  [][\A n \in Devs : attrs[n].trigger = 1 /\ attrs'[n].trigger = 0 =>
       said'[n].active # "on" \/ ~said'[n].read]_scanVars

\* The illumination of the bridge is the one the sensor has measured last, of
\* three bytes ("uint24, 0.01 lux", adv_bthome.h).
LightAsMeasured == \A n \in Devs : attrs[n].light = said[n].light
=============================================================================
