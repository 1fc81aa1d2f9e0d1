------------------------------ MODULE MC_OnOff ------------------------------
(* Instances of OnOff: two endpoints of one node bound from a device and a   *)
(* third one bound from another; two bindings and timed commands for         *)
(* liveness.                                                                  *)
EXTENDS OnOffProofs

\* 254 is the last endpoint there is.
MCSrcEp == <<0, 0, 1>>
MCAddr == <<"A", "A", "A">>
MCDstEp == <<254, 1, 2>>

\* Two relays, each bound from a device of its own.
LiveSrcEp == <<0, 1>>
LiveAddr == <<"A", "B">>
LiveDstEp == <<1, 1>>
=============================================================================
