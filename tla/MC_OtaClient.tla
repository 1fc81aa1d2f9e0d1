----------------------------- MODULE MC_OtaClient -----------------------------
\* A small instance of OtaClient.
EXTENDS OtaClient, TLC

\* No other version differs from another.
Others == Permutations(Version \ {Factory})
===============================================================================
