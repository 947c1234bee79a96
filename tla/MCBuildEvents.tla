---------------------------- MODULE MCBuildEvents ----------------------------
\* The instance of BuildEvents for TLC: events are numbered, so that there is
\* nothing to define and no symmetry.
EXTENDS BuildEvents
==============================================================================
