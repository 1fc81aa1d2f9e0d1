------------------------------ MODULE MC_EvTimer ------------------------------
\* A small instance of EvTimer.
EXTENDS EvTimer
===============================================================================
