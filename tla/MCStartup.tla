----------------------------- MODULE MCStartup ------------------------------
EXTENDS Startup
=============================================================================
