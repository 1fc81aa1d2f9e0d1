------------------------------ MODULE MC_Settings ------------------------------
\* A small instance of Settings.
EXTENDS Settings
===============================================================================
