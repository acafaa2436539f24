---------------------------- MODULE MCWebRunner -----------------------------
EXTENDS WebRunner

MCEnvironments == {{}, {"refuses", "quit"}}
=============================================================================
