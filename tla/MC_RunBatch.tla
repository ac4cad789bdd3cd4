---------------------------- MODULE MC_RunBatch ----------------------------
EXTENDS RunBatch, TLC
CONSTANTS job, cli
Separate == job :> {1, 2} @@ cli :> {3}
Shared == job :> {1, 2} @@ cli :> {2}
=============================================================================
