--------------------------- MODULE MC_ReportReset ---------------------------
(* A discrete and an analog entry of different clusters; the intervals of   *)
(* each end while those of the other run.                                   *)
EXTENDS ReportingProofs

MCCluster == <<"level", "temperature">>
MCDefaults == <<<<2, 4>>, <<1, 3>>>>
MCIntervals == {<<2, 4>>, <<1, 3>>, <<0, 3>>, <<2, 9>>}
=============================================================================
