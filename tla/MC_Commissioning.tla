--------------------------- MODULE MC_Commissioning ---------------------------
\* A small instance of Commissioning.
EXTENDS Commissioning
===============================================================================
