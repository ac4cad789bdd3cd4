-------------------------- MODULE MC_RegistrySync --------------------------
EXTENDS RegistrySync, TLC
CONSTANTS pc1, pc2
McClock == (pc1 :> {2}) @@ (pc2 :> {1})
=============================================================================
