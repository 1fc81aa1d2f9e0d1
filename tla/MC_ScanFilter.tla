--------------------------- MODULE MC_ScanFilter ---------------------------
(* A sensor that sends all formats in turn, and one that sends one of the   *)
(* same advertisements.  Words of two values, third bytes 0 and 1;          *)
(* identifiers of objects are not 0.                                        *)
EXTENDS ScanFilter

CONSTANTS a, b

Obj(id, val) == [id |-> id, val |-> val]
Struct(fmt, sealed, objs) ==
  [fmt |-> fmt, sealed |-> sealed, size |-> Len(objs) + 1, objs |-> objs]

Dark == <<0, 0>>
Bright == <<1, 0>>
Name == Struct("other", FALSE, <<>>)

Motions ==
  {<<Struct("bthome", FALSE, <<Obj("light", l), Obj("motion", m)>>)>> :
     l \in {Dark, Bright}, m \in {0, 1}}
Reading(v) == Struct("bthome", FALSE, <<Obj("reading", v), Obj("switch", v)>>)
Named == {<<Reading(v), Name>> : v \in {0, 1}}
Mixed ==
  {<<Struct("bthome", FALSE, <<Obj("switch", 1), Obj("unknown", 0), Obj("reading", 1)>>)>>,
   <<Struct("bthome", FALSE, <<Obj("switch", 0), Obj("switch", 1), Obj("reading", 1)>>)>>}

Others ==
  {<<Struct("xiaomi", TRUE, <<o>>)>> :
     o \in {Obj("moving", Bright), Obj("idle", 1), Obj("button", 1), Obj("motion", 0)}}
  \cup {<<Struct("qingping", FALSE, <<Obj("still", Dark)>>)>>,
        <<Struct("custom", FALSE, <<Obj("reading", 1), Obj("flags", 1)>>)>>}

\* Encrypted structures of the own format.
Sealed == {<<Struct("pvvx", TRUE, <<Obj("reading", v), Obj("flags", v)>>)>> : v \in {0, 1}}

MCAdverts ==
  a :> (Motions \cup {<<Reading(1)>>} \cup Named \cup Mixed \cup Others \cup Sealed) @@
  b :> {<<Reading(1)>>}

\* A light whose third byte is not at the end, seconds without motion, and
\* encrypted structures of the own format only.
LightAdverts ==
  [n \in {a, b} |-> {<<Struct("bthome", FALSE, <<Obj("light", Dark), Obj("motion", 0)>>)>>}]
IdleAdverts == [n \in {a, b} |-> {<<Struct("xiaomi", TRUE, <<Obj("idle", 1)>>)>>}]
SealedAdverts == [n \in {a, b} |-> Sealed]

\* What the proofs suppose of the sensors.
ASSUME SensorsAssumption == OneSpeaker

MCIdByte == [i \in ObjIds |-> IF i = "unknown" THEN 0 ELSE 1]
MCLog10k == [lx \in 0 .. 3 |-> IF lx = 3 THEN 2 ELSE lx]
=============================================================================
