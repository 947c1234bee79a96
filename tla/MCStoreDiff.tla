----------------------------- MODULE MCStoreDiff -----------------------------
\* The instance of StoreDiff for TLC: two outputs of one derivation.  out
\* refers to dev; dev is a link to out, a reference that the derivation tells
\* Nix to discard, so that dev may be there without out.
EXTENDS StoreDiff, TLC

CONSTANTS out, dev

MCPaths == {out, dev}
MCClosure == out :> {out, dev} @@ dev :> {dev}
MCTarget == out :> out @@ dev :> out
MCWay == out :> {out} @@ dev :> {dev, out}

\* No action names a call.
Symmetry == Permutations(Starts) \cup Permutations(Finishers)
==============================================================================
