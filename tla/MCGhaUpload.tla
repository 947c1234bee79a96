----------------------------- MODULE MCGhaUpload -----------------------------
\* Instances of GhaUpload for TLC.
EXTENDS GhaUpload, TLC

\* Calls are interchangeable: no action names one.
Symmetry == Permutations(Uploads)
==============================================================================
