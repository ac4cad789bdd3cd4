--------------------------- MODULE MC_CsvRunLock ---------------------------
EXTENDS CsvRunLock, TLC
CONSTANTS r1, r2, r3, p1, p2
\* Two clicks in one process and one runner in another.
TwoProcesses == r1 :> p1 @@ r2 :> p2 @@ r3 :> p1
============================================================================
