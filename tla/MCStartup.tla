------------------------------ MODULE MCStartup ------------------------------
\* The instance of Startup for TLC.
EXTENDS Startup
==============================================================================
