---------------------------- MODULE MC_TesterJobs ---------------------------
EXTENDS TesterJobs
CONSTANTS config, a, b, j1, j2
\* Each job installs a strategy file of a name the bot has too.
SameName == [j \in Jobs |-> a]
=============================================================================
