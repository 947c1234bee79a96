--------------------------- MODULE MCNarinfoCache ---------------------------
\* Instances of NarinfoCache for TLC.
EXTENDS NarinfoCache, TLC

\* No action names a reader, a putting client or a path.
Symmetry == Permutations(Readers) \cup Permutations(Putters) \cup Permutations(Paths)
=============================================================================
