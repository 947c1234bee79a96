--------------------------- MODULE MCNetrcRefresh ---------------------------
\* The instance of NetrcRefresh for TLC.
EXTENDS NetrcRefresh

\* Fresh inodes, whatever else happens; or reused ones, when nothing fails
\* and polls come between the rewrites.
MCEnvironments ==
  {[early |-> FALSE, often |-> TRUE, reuse |-> FALSE, fails |-> TRUE],
   [early |-> FALSE, often |-> FALSE, reuse |-> TRUE, fails |-> FALSE]}
=============================================================================
