---------------------------- MODULE MC_Reporting ----------------------------
(* Instances of Reporting: an on/off state without a minimum interval, a    *)
(* battery level and a temperature of the same cluster table.               *)
EXTENDS Reporting

MCCluster == <<"onoff", "battery", "battery">>
MCDefaults == <<<<0, 3>>, <<1, 3>>, <<2, 3>>>>
MCIntervals == {<<0, 3>>, <<1, 3>>, <<2, 3>>}

\* Two entries, with the intervals a remote device may choose.
DuoCluster == <<"level", "temperature">>
DuoDefaults == <<<<1, 2>>, <<2, 4>>>>
DuoIntervals == {<<0, 3>>, <<1, 2>>, <<2, 4>>, <<2, 0>>, <<2, 9>>}
=============================================================================
