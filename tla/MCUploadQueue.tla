---------------------------- MODULE MCUploadQueue ----------------------------
\* Instances of UploadQueue for TLC.
EXTENDS UploadQueue, TLC

\* No action names a hook, a finisher or a path.
Symmetry == Permutations(Hooks) \cup Permutations(Finishers) \cup Permutations(Paths)
==============================================================================
