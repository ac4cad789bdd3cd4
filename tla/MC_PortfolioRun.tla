---------------------------- MODULE MC_PortfolioRun -------------------------
EXTENDS PortfolioRun
CONSTANTS r1, r2
OneRun == <<r1>>
TwoRuns == <<r1, r2>>
=============================================================================
