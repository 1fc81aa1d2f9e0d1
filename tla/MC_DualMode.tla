------------------------------ MODULE MC_DualMode ------------------------------
\* A small instance of DualMode.
EXTENDS DualMode
===============================================================================
