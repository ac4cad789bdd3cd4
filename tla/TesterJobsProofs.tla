-------------------------- MODULE TesterJobsProofs --------------------------
(***************************************************************************)
(* What the job executor's backup keeps safe, for any files and jobs and   *)
(* any number of kills, interrupts and failed steps, while one executor    *)
(* runs at a time.  With two the backup protects nothing: the lock file is *)
(* created before it names its owner, and any executor unlinks it (the run *)
(* jobs_two_executors).                                                    *)
(***************************************************************************)
EXTENDS TesterJobs, TLAPS

USE ConstantsAssumption

\* The points at which an executor has a job in hand, of the queue or of recover.
AtJob == TryBlock \cup InRunJob \cup {"claim", "write", "unlock"}

FileTypes ==
    /\ bot \in [Names -> Contents]
    /\ dir \in [Jobs -> {"none", "open", "sealed"}]
    /\ copy \in [Jobs -> [Names -> Contents]] /\ manifest \in [Jobs -> [Names -> Contents]]

CatalogTypes ==
    /\ state \in [Jobs -> {"queued", "running", "done", "failed"}]
    /\ result \in [Jobs -> BOOLEAN]
    /\ lock \in Executors \cup {Nobody, Stale} /\ named \in BOOLEAN
    /\ lease \in Executors \cup {Nobody}

PointTypes == pc \in [Executors -> Points] /\ err \in [Executors -> {"none", "failed", "stop"}]

LocalTypes ==
    /\ job \in [Executors -> Jobs \cup {Absent}]
    /\ todo \in [Executors -> SUBSET Jobs] /\ restored \in [Executors -> SUBSET Jobs]
    /\ \A e \in Executors : pc[e] \in AtJob => job[e] \in Jobs

HistoryTypes == left \subseteq Jobs /\ overrun \in BOOLEAN

TInv ==
    /\ FileTypes /\ CatalogTypes /\ PointTypes /\ LocalTypes /\ HistoryTypes
    /\ faults \in 0..MaxFaults

-----------------------------------------------------------------------------
(* Types, for any number of executors.                                       *)

LEMMA InitTInv == Init => TInv
<1> SUFFICES ASSUME Init PROVE TInv
  OBVIOUS
<1>1. FileTypes
  BY DEF Init, FileTypes, Own, Nothing, Contents, Names
<1>2. CatalogTypes
  <2>1. result \in [Jobs -> BOOLEAN] /\ named \in BOOLEAN
    BY DEF Init
  <2> QED BY <2>1 DEF Init, CatalogTypes
<1>4. faults \in 0..MaxFaults
  BY DEF Init
<1>5. HistoryTypes
  BY DEF Init, HistoryTypes
<1>3. PointTypes /\ LocalTypes
  BY DEF Init, PointTypes, LocalTypes, Points, AtJob, TryBlock, InRunJob
<1> QED BY <1>1, <1>2, <1>3, <1>4, <1>5 DEF TInv

\* The steps that change the bot's files or a backup, of a job in hand.
LEMMA FilesTyped ==
    ASSUME TInv, NEW e \in Executors, Step(e) \/ Interrupt(e) \/ Kill(e)
    PROVE  FileTypes'
<1>a. FileTypes /\ (pc[e] \in AtJob => job[e] \in Jobs)
  BY DEF TInv, LocalTypes
<1>b. /\ Nothing \in [Names -> Contents] /\ Absent \in Contents /\ Jobs \subseteq Contents
      /\ Config \in Names /\ Strategies \subseteq Names
  BY DEF Nothing, Contents, Names
<1>c. {"backup", "copying", "move", "place", "undo", "clear", "config", "files", "remove"} \subseteq AtJob
  BY DEF AtJob, TryBlock, InRunJob
<1> DEFINE j == job[e]
<1> USE DEF FileTypes, At
<1>1. CASE UNCHANGED botFiles
  BY <1>1, <1>a DEF botFiles
<1>2. CASE BeginBackup(e) \/ CopyConfig(e)
  <2> DEFINE taken == [Nothing EXCEPT ![Config] = bot[Config]]
  <2>1. taken \in [Names -> Contents]
    BY <1>a, <1>b
  <2>2. /\ dir' = dir \/ dir' = [dir EXCEPT ![j] = "open"]
        /\ copy' = copy \/ \E c \in {Nothing, taken} : copy' = [copy EXCEPT ![j] = c]
        /\ UNCHANGED <<bot, manifest>>
    BY <1>2 DEF BeginBackup, CopyConfig
  <2> HIDE DEF taken
  <2>3. j \in Jobs
    BY <1>a, <1>c, <1>2 DEF BeginBackup, CopyConfig
  <2>4. copy' \in [Jobs -> [Names -> Contents]]
    <3>1. copy \in [Jobs -> [Names -> Contents]]
      BY <1>a
    <3>2. copy' = copy \/ \E c \in [Names -> Contents] : copy' = [copy EXCEPT ![j] = c]
      BY <1>b, <2>1, <2>2
    <3> HIDE DEF j, FileTypes, At
    <3> QED BY <2>3, <3>1, <3>2
  <2>5. dir' \in [Jobs -> {"none", "open", "sealed"}]
    <3> HIDE DEF j
    <3> QED BY <1>a, <2>2, <2>3
  <2> QED BY <1>a, <2>2, <2>4, <2>5
<1>3. CASE MoveAside(e) \/ UndoFile(e) \/ UndoFails(e) \/ RestoreFile(e) \/ RestoreBreaks(e)
  <2>1. j \in Jobs /\ UNCHANGED <<dir, manifest>>
    BY <1>3, <1>a, <1>c DEF MoveAside, UndoFile, UndoFails, RestoreFile, RestoreBreaks
  <2>2. /\ bot' = bot \/ \E n \in Names, c \in Contents : bot' = [bot EXCEPT ![n] = c]
        /\ copy' = copy \/ \E n \in Names, d \in Contents : copy' = [copy EXCEPT ![j][n] = d]
    <3>1. \A n \in Names : bot[n] \in Contents /\ copy[j][n] \in Contents
      BY <1>a, <2>1
    <3>2. CASE MoveAside(e)
      BY <1>b, <3>1, <3>2 DEF MoveAside
    <3>3. CASE UndoFile(e)
      BY <1>b, <3>1, <3>3 DEF UndoFile, Undoable
    <3>4. CASE UndoFails(e)
      BY <1>b, <3>1, <3>4 DEF UndoFails, Undoable
    <3>5. CASE RestoreFile(e)
      BY <1>b, <3>1, <3>5 DEF RestoreFile, Missing
    <3>6. CASE RestoreBreaks(e)
      BY <1>b, <3>1, <3>6 DEF RestoreBreaks, Missing
    <3> QED BY <1>3, <3>2, <3>3, <3>4, <3>5, <3>6
  <2>3. copy' \in [Jobs -> [Names -> Contents]]
    <3>1. ASSUME NEW n \in Names, NEW d \in Contents, copy' = [copy EXCEPT ![j][n] = d]
          PROVE  copy' \in [Jobs -> [Names -> Contents]]
      <4> DEFINE g == [copy[j] EXCEPT ![n] = d]
      <4>1. g \in [Names -> Contents]
        BY <1>a, <2>1
      <4>2. copy' = [copy EXCEPT ![j] = g]
        BY <3>1
      <4> HIDE DEF g
      <4> QED BY <1>a, <4>1, <4>2
    <3> QED BY <1>a, <2>2, <3>1
  <2>4. bot' \in [Names -> Contents]
    BY <1>a, <2>2
  <2> QED BY <1>a, <2>1, <2>3, <2>4
<1>4. CASE Seal(e)
  BY <1>4, <1>a, <1>c DEF Seal
<1>5. CASE Place(e)
  <2>1. j \in Contents /\ UNCHANGED <<dir, copy, manifest>>
    BY <1>5, <1>a, <1>b, <1>c DEF Place
  <2> QED BY <1>5, <1>a, <2>1 DEF Place
<1>6. CASE ClearExtras(e)
  BY <1>6, <1>a, <1>b DEF ClearExtras
<1>7. CASE RestoreConfig(e)
  <2>1. j \in Jobs /\ UNCHANGED <<dir, copy, manifest>>
    BY <1>7, <1>a, <1>c DEF RestoreConfig
  <2>2. bot' = bot \/ \E c \in Contents : bot' = [bot EXCEPT ![Config] = c]
    BY <1>7, <1>a, <1>b, <2>1 DEF RestoreConfig
  <2> QED BY <1>a, <2>1, <2>2
<1>8. CASE Undone(e) \/ RemovePart(e) \/ RemoveBackup(e)
  <2>1. UNCHANGED <<bot, manifest>>
    BY <1>8 DEF Undone, RemovePart, RemoveBackup
  <2>2. dir' = dir \/ \E d \in {"none", "open"} : dir' = [dir EXCEPT ![j] = d]
    BY <1>8 DEF Undone, RemovePart, RemoveBackup
  <2>3. copy' = copy \/ copy' = [copy EXCEPT ![j] = Nothing]
    BY <1>8 DEF Undone, RemovePart, RemoveBackup
  <2>4. copy' \in [Jobs -> [Names -> Contents]]
    <3> HIDE DEF j
    <3> QED BY <1>a, <1>b, <2>3
  <2>5. dir' \in [Jobs -> {"none", "open", "sealed"}]
    <3> HIDE DEF j
    <3> QED BY <1>a, <2>2
  <2> QED BY <1>a, <2>1, <2>4, <2>5
<1> QED BY <1>1, <1>2, <1>3, <1>4, <1>5, <1>6, <1>7, <1>8
        DEF Step, Start, CheckLock, LeaseToRecover, NextFolder, ReadRunning, MarkInterrupted,
            RemoveLock, ListQueued, Pick, Claim, WriteLock, AcquireTarget, SetRunning,
            RunTester, Verify, Report, Convert, SetDone, Unlock, Interrupt, Kill

LEMMA CatalogTyped ==
    ASSUME TInv, NEW e \in Executors, Step(e) \/ Interrupt(e) \/ Kill(e)
    PROVE  CatalogTypes'
<1> USE DEF TInv, CatalogTypes, SetState, catalog, locks, Caught
<1>1. CASE UNCHANGED <<catalog, locks>>
  BY <1>1
<1>2. CASE LeaseToRecover(e)
  BY <1>2 DEF LeaseToRecover
<1>3. CASE NextFolder(e)
  BY <1>3 DEF NextFolder
<1>4. CASE MarkInterrupted(e)
  BY <1>4 DEF MarkInterrupted
<1>5. CASE RemoveLock(e)
  BY <1>5 DEF RemoveLock
<1>6. CASE Pick(e)
  BY <1>6 DEF Pick
<1>7. CASE Claim(e)
  BY <1>7 DEF Claim
<1>8. CASE WriteLock(e)
  BY <1>8 DEF WriteLock
<1>9. CASE AcquireTarget(e)
  BY <1>9 DEF AcquireTarget
<1>10. CASE SetRunning(e)
  BY <1>10 DEF SetRunning
<1>11. CASE MoveAside(e)
  BY <1>11 DEF MoveAside
<1>12. CASE Place(e)
  BY <1>12 DEF Place
<1>13. CASE RunTester(e)
  BY <1>13 DEF RunTester
<1>14. CASE Undone(e)
  BY <1>14 DEF Undone, RestoreFails, BackupGone
<1>15. CASE RestoreConfig(e)
  BY <1>15 DEF RestoreConfig, RestoreFails
<1>16. CASE Verify(e) \/ RestoreBreaks(e)
  BY <1>16 DEF Verify, RestoreBreaks, RestoreFails
<1>23. CASE UndoFails(e)
  BY <1>23 DEF UndoFails
<1>17. CASE Report(e)
  BY <1>17 DEF Report
<1>18. CASE Convert(e)
  BY <1>18 DEF Convert
<1>19. CASE SetDone(e)
  BY <1>19 DEF SetDone
<1>20. CASE Unlock(e)
  BY <1>20 DEF Unlock
<1>21. CASE Interrupt(e)
  BY <1>21 DEF Interrupt
<1>22. CASE Kill(e)
  BY <1>22 DEF Kill
<1> QED BY <1>1, <1>2, <1>3, <1>4, <1>5, <1>6, <1>7, <1>8, <1>9, <1>10, <1>11, <1>12, <1>13,
        <1>14, <1>15, <1>16, <1>17, <1>18, <1>19, <1>20, <1>21, <1>22, <1>23
        DEF Step, Start, CheckLock, ReadRunning, ListQueued, BeginBackup, CopyConfig, Seal, UndoFile,
            ClearExtras, RestoreFile, RemovePart, RemoveBackup

LEMMA PointsTyped ==
    ASSUME TInv, NEW e \in Executors, Step(e) \/ Interrupt(e) \/ Kill(e)
    PROVE  PointTypes'
<1> USE DEF TInv, PointTypes, Points, TryBlock, InRunJob, At, Goto, Caught, local
<1>1. CASE UNCHANGED <<pc, err>>
  BY <1>1
<1>2. CASE Start(e)
  BY <1>2 DEF Start
<1>3. CASE CheckLock(e)
  BY <1>3 DEF CheckLock
<1>4. CASE LeaseToRecover(e)
  BY <1>4 DEF LeaseToRecover
<1>5. CASE NextFolder(e)
  BY <1>5 DEF NextFolder
<1>6. CASE ReadRunning(e)
  BY <1>6 DEF ReadRunning
<1>7. CASE RemoveLock(e)
  BY <1>7 DEF RemoveLock
<1>8. CASE ListQueued(e)
  BY <1>8 DEF ListQueued
<1>9. CASE Pick(e)
  BY <1>9 DEF Pick
<1>10. CASE Claim(e)
  BY <1>10 DEF Claim
<1>11. CASE WriteLock(e)
  BY <1>11 DEF WriteLock
<1>12. CASE AcquireTarget(e)
  BY <1>12 DEF AcquireTarget
<1>13. CASE SetRunning(e)
  BY <1>13 DEF SetRunning
<1>14. CASE BeginBackup(e)
  BY <1>14 DEF BeginBackup
<1>30. CASE CopyConfig(e)
  BY <1>30 DEF CopyConfig
<1>31. CASE UndoFails(e)
  BY <1>31 DEF UndoFails
<1>15. CASE MoveAside(e)
  BY <1>15 DEF MoveAside
<1>16. CASE Seal(e)
  BY <1>16 DEF Seal
<1>17. CASE Place(e)
  BY <1>17 DEF Place
<1>18. CASE RunTester(e)
  BY <1>18 DEF RunTester
<1>19. CASE Undone(e)
  BY <1>19 DEF Undone, RestoreFails, BackupGone
<1>20. CASE ClearExtras(e)
  BY <1>20 DEF ClearExtras
<1>21. CASE RestoreConfig(e)
  BY <1>21 DEF RestoreConfig, RestoreFails
<1>22. CASE Verify(e) \/ RestoreBreaks(e)
  BY <1>22 DEF Verify, RestoreBreaks, RestoreFails
<1>23. CASE RemoveBackup(e)
  BY <1>23 DEF RemoveBackup, BackupGone
<1>24. CASE Report(e)
  BY <1>24 DEF Report
<1>25. CASE Convert(e)
  BY <1>25 DEF Convert
<1>26. CASE SetDone(e)
  BY <1>26 DEF SetDone
<1>27. CASE Unlock(e)
  BY <1>27 DEF Unlock
<1>28. CASE Interrupt(e)
  BY <1>28 DEF Interrupt
<1>29. CASE Kill(e)
  BY <1>29 DEF Kill
<1> QED BY <1>1, <1>2, <1>3, <1>4, <1>5, <1>6, <1>7, <1>8, <1>9, <1>10, <1>11, <1>12, <1>13,
        <1>14, <1>15, <1>16, <1>17, <1>18, <1>19, <1>20, <1>21, <1>22, <1>23, <1>24, <1>25,
        <1>26, <1>27, <1>28, <1>29, <1>30, <1>31
        DEF Step, MarkInterrupted, UndoFile, RestoreFile, RemovePart

\* Only NextFolder and Pick bring an executor a job.
LEMMA LocalsTyped ==
    ASSUME TInv, NEW e \in Executors, Step(e) \/ Interrupt(e) \/ Kill(e)
    PROVE  LocalTypes' /\ faults' \in 0..MaxFaults
<1>a. LocalTypes /\ pc \in [Executors -> Points]
  BY DEF TInv, PointTypes
<1>b. /\ {"claim", "write", "acquire", "begin", "backup", "copying", "move", "place", "test",
          "undo", "clear", "config", "files", "remove", "report", "convert", "done", "unlock"}
         \subseteq AtJob
      /\ {"off", "check", "lease", "folder", "mark", "marking", "list", "pick"} \cap AtJob = {}
      /\ TryBlock \cup InRunJob \subseteq AtJob
  BY DEF AtJob, TryBlock, InRunJob
<1>f. faults' \in 0..MaxFaults
  <2>1. faults' = faults \/ Fault
    BY DEF Fine, Step, Start, CheckLock, LeaseToRecover, NextFolder, ReadRunning,
           MarkInterrupted, RemoveLock, ListQueued, Pick, Claim, WriteLock, AcquireTarget,
           SetRunning, BeginBackup, CopyConfig, MoveAside, Seal, Place, RunTester, UndoFile,
           UndoFails, Undone, ClearExtras, RestoreConfig, RestoreFile, Verify, RestoreBreaks,
           RemovePart, RemoveBackup, Report, Convert, SetDone, Unlock, Interrupt, Kill
  <2> QED BY <2>1, SMTT(30) DEF TInv, Fault
<1> USE DEF At, Goto, Caught, local
<1>1. CASE \/ NextFolder(e) \/ Pick(e) \/ Start(e) \/ CheckLock(e) \/ ReadRunning(e)
           \/ MarkInterrupted(e) \/ ListQueued(e)
  <2>1. /\ todo' \in [Executors -> SUBSET Jobs] /\ restored' \in [Executors -> SUBSET Jobs]
        /\ job' \in [Executors -> Jobs \cup {Absent}]
    <3> USE DEF LocalTypes
    <3>1. CASE NextFolder(e)
      BY <1>a, <3>1 DEF NextFolder
    <3>2. CASE Pick(e)
      BY <1>a, <3>2 DEF Pick
    <3>3. CASE Start(e)
      BY <1>a, <3>3 DEF Start
    <3>4. CASE CheckLock(e) \/ ReadRunning(e) \/ MarkInterrupted(e) \/ ListQueued(e)
      BY <1>a, <3>4 DEF CheckLock, ReadRunning, MarkInterrupted, ListQueued
    <3> QED BY <1>1, <3>1, <3>2, <3>3, <3>4
  <2>2. /\ \A f \in Executors \ {e} : pc'[f] = pc[f] /\ job'[f] = job[f]
        /\ pc'[e] \in AtJob => job'[e] \in Jobs
    <3> USE DEF LocalTypes
    <3>1. CASE NextFolder(e)
      BY <1>a, <1>b, <3>1 DEF NextFolder
    <3>2. CASE Pick(e)
      BY <1>a, <1>b, <3>2 DEF Pick
    <3>3. CASE Start(e) \/ CheckLock(e) \/ ReadRunning(e) \/ ListQueued(e)
      BY <1>a, <1>b, <3>3 DEF Start, CheckLock, ReadRunning, ListQueued
    <3>4. CASE MarkInterrupted(e)
      BY <1>a, <1>b, <3>4 DEF MarkInterrupted
    <3> QED BY <1>1, <3>1, <3>2, <3>3, <3>4
  <2>3. \A f \in Executors : pc[f] \in AtJob => job[f] \in Jobs
    BY <1>a DEF LocalTypes
  <2>4. \A f \in Executors : pc'[f] \in AtJob => job'[f] \in Jobs
    BY <2>2, <2>3
  <2> QED BY <1>f, <2>1, <2>4 DEF LocalTypes
<1>2. CASE \/ Claim(e) \/ WriteLock(e) \/ AcquireTarget(e) \/ SetRunning(e) \/ BeginBackup(e)
           \/ CopyConfig(e) \/ MoveAside(e) \/ Seal(e) \/ Place(e) \/ RunTester(e)
           \/ Interrupt(e) \/ UndoFile(e) \/ UndoFails(e) \/ Undone(e) \/ ClearExtras(e)
           \/ RestoreConfig(e) \/ RestoreFile(e) \/ Verify(e) \/ RestoreBreaks(e)
           \/ RemovePart(e) \/ RemoveBackup(e) \/ Report(e) \/ Convert(e) \/ SetDone(e)
  <2>1. UNCHANGED <<job, todo, restored>> /\ pc[e] \in AtJob
    <3>1. CASE \/ Claim(e) \/ WriteLock(e) \/ AcquireTarget(e) \/ SetRunning(e) \/ BeginBackup(e)
               \/ CopyConfig(e) \/ MoveAside(e) \/ Seal(e) \/ Place(e) \/ RunTester(e)
               \/ Interrupt(e)
      BY <1>b, <3>1 DEF Claim, WriteLock, AcquireTarget, SetRunning, BeginBackup, CopyConfig,
            MoveAside, Seal, Place, RunTester, Interrupt
    <3>2. CASE \/ UndoFile(e) \/ UndoFails(e) \/ Undone(e) \/ ClearExtras(e) \/ RestoreConfig(e)
               \/ RestoreFile(e) \/ Verify(e) \/ RestoreBreaks(e) \/ RemovePart(e)
      BY <1>b, <3>2 DEF UndoFile, UndoFails, Undone, ClearExtras, RestoreConfig, RestoreFile,
            Verify, RestoreBreaks, RemovePart
    <3>3. CASE RemoveBackup(e) \/ Report(e) \/ Convert(e) \/ SetDone(e)
      BY <1>b, <3>3 DEF RemoveBackup, Report, Convert, SetDone
    <3> QED BY <1>2, <3>1, <3>2, <3>3
  <2>2. \A f \in Executors \ {e} : pc'[f] = pc[f]
    <3>1. CASE \/ Claim(e) \/ WriteLock(e) \/ AcquireTarget(e) \/ SetRunning(e) \/ BeginBackup(e)
               \/ CopyConfig(e) \/ MoveAside(e) \/ Seal(e) \/ Place(e) \/ RunTester(e)
               \/ Interrupt(e)
      BY <1>a, <3>1 DEF Claim, WriteLock, AcquireTarget, SetRunning, BeginBackup, CopyConfig,
            MoveAside, Seal, Place, RunTester, Interrupt
    <3>2. CASE \/ UndoFile(e) \/ UndoFails(e) \/ Undone(e) \/ ClearExtras(e) \/ RestoreConfig(e)
               \/ RestoreFile(e) \/ Verify(e) \/ RestoreBreaks(e) \/ RemovePart(e)
               \/ RemoveBackup(e) \/ Report(e) \/ Convert(e) \/ SetDone(e)
      BY <1>a, <3>2 DEF UndoFile, UndoFails, Undone, ClearExtras, RestoreConfig, RestoreFile,
            Verify, RestoreBreaks, RemovePart, RemoveBackup, Report, Convert, SetDone, RestoreFails, BackupGone
    <3> QED BY <1>2, <3>1, <3>2
  <2>3. \A f \in Executors : pc'[f] \in AtJob => job[f] \in Jobs
    <3>1. \A f \in Executors : pc[f] \in AtJob => job[f] \in Jobs
      BY <1>a DEF LocalTypes
    <3> QED BY <2>1, <2>2, <3>1
  <2> QED BY <1>a, <1>f, <2>1, <2>3, SMTT(30) DEF LocalTypes
<1>3. CASE LeaseToRecover(e) \/ RemoveLock(e) \/ Unlock(e) \/ Kill(e)
  <2>1. UNCHANGED <<job, todo, restored>>
    BY <1>3 DEF LeaseToRecover, RemoveLock, Unlock, Kill
  <2>2. \E p \in {"off", "folder", "list", "pick"} : pc' = [pc EXCEPT ![e] = p]
    BY <1>3 DEF LeaseToRecover, RemoveLock, Unlock, Kill
  <2>3. \A f \in Executors : pc'[f] \in AtJob => pc[f] \in AtJob
    BY <1>a, <1>b, <2>2
  <2>4. \A f \in Executors : pc'[f] \in AtJob => job[f] \in Jobs
    BY <1>a, <2>3 DEF LocalTypes
  <2> QED BY <1>a, <1>f, <2>1, <2>4 DEF LocalTypes
<1> QED BY <1>1, <1>2, <1>3 DEF Step

\* Once a job was begun over a backup, that is remembered.
LEMMA HistoryTyped ==
    ASSUME TInv, NEW e \in Executors, Step(e) \/ Interrupt(e) \/ Kill(e)
    PROVE  HistoryTypes' /\ (overrun => overrun')
<1>a. HistoryTypes /\ (pc[e] = "undo" => job[e] \in Jobs)
  BY DEF TInv, LocalTypes, AtJob, TryBlock
<1>1. CASE UNCHANGED history
  BY <1>a, <1>1 DEF HistoryTypes, history
<1>2. CASE BeginBackup(e)
  BY <1>a, <1>2 DEF HistoryTypes, BeginBackup
<1>3. CASE UndoFails(e) \/ Undone(e) \/ RemoveBackup(e)
  <2>1. UNCHANGED overrun
    BY <1>3 DEF UndoFails, Undone, RemoveBackup
  <2>2. \/ left' = left
        \/ left' = left \ {job[e]}
        \/ left' = left \cup {job[e]} /\ pc[e] = "undo"
    BY <1>3 DEF UndoFails, Undone, RemoveBackup, At
  <2>3. left' \subseteq Jobs
    BY <1>a, <2>2 DEF HistoryTypes
  <2> QED BY <1>a, <2>1, <2>3 DEF HistoryTypes
<1> QED BY <1>1, <1>2, <1>3
        DEF history, botFiles, Step, Start, CheckLock, LeaseToRecover, NextFolder, ReadRunning,
            MarkInterrupted, RemoveLock, ListQueued, Pick, Claim, WriteLock, AcquireTarget,
            SetRunning, CopyConfig, MoveAside, Seal, Place, RunTester, UndoFile, ClearExtras,
            RestoreConfig, RestoreFile, Verify, RestoreBreaks, RemovePart, Report, Convert,
            SetDone, Unlock, Interrupt, Kill

LEMMA NextTInv == TInv /\ [Next]_vars => TInv' /\ (overrun => overrun')
<1> SUFFICES ASSUME TInv, [Next]_vars PROVE TInv' /\ (overrun => overrun')
  OBVIOUS
<1>1. CASE UNCHANGED vars
  BY <1>1 DEF vars, TInv, FileTypes, CatalogTypes, PointTypes, LocalTypes, HistoryTypes
<1>2. ASSUME NEW j \in Jobs, Retry(j) PROVE TInv' /\ (overrun => overrun')
  BY <1>2 DEF Retry, SetState, botFiles, locks, local, TInv, FileTypes, CatalogTypes, PointTypes,
              LocalTypes, HistoryTypes
<1>3. ASSUME NEW e \in Executors, Step(e) \/ Interrupt(e) \/ Kill(e)
      PROVE  TInv' /\ (overrun => overrun')
  BY <1>3, FilesTyped, CatalogTyped, PointsTyped, LocalsTyped, HistoryTyped DEF TInv
<1> QED BY <1>1, <1>2, <1>3 DEF Next

\* Every file holds the user's content, a job's or nothing, and every point and state is one of
\* those the module names, with any number of executors.
THEOREM TypeCorrect == Spec => []TypeOK
<1>1. TInv => TypeOK
  BY DEF TInv, TypeOK, FileTypes, CatalogTypes, PointTypes, LocalTypes, HistoryTypes
<1>2. TInv /\ [Next]_vars => TInv'
  BY NextTInv
<1> QED BY <1>1, <1>2, InitTInv, PTL DEF Spec

-----------------------------------------------------------------------------
(* Where the bot's own files are, while one executor runs at a time.         *)

OneExecutor == \A e, f \in Executors : e = f

\* Points where an executor has a backup in hand, or knows that there is none but for what
\* a job left when its undo failed.
Working == {"move", "place", "test", "undo", "clear", "config", "files", "remove"}
Clean == {"mark", "marking", "list", "pick", "claim", "write", "acquire", "begin", "backup",
          "convert", "done"}

Backups == {j \in Jobs : dir[j] # "none"}

\* A backup without its manifest that holds no strategy file: nothing depends on it.
Bare(j) == dir[j] = "open" /\ \A n \in Strategies : copy[j][n] = Absent

Kept == {j \in Backups : ~Bare(j)}

\* A backup without its manifest: each strategy file is in the bot or in the backup, or in both.
Open(j) ==
    /\ bot[Config] = Own[Config]
    /\ \A n \in Strategies :
        \/ copy[j][n] = Absent /\ bot[n] = Own[n]
        \/ copy[j][n] = Own[n] /\ bot[n] \in {Absent, Own[n]}

\* A backup with its manifest: what the bot lacks of its own is there.
Sealed(j) ==
    /\ manifest[j] = Own
    /\ \A n \in Names : copy[j][n] = Own[n] \/ (copy[j][n] = Absent /\ bot[n] = Own[n])

BackupFacts ==
    /\ \A i, j \in Kept : i = j
    /\ Kept = {} => bot = Own
    /\ \A j \in Kept : IF dir[j] = "open" THEN Open(j) ELSE Sealed(j)

\* The other backups that an executor with one in hand may yet have to restore.
Others(e) == IF Recovering(e) THEN todo[e] ELSE {}

PointFacts(e) ==
    /\ pc[e] \in {"lease", "folder"} => Kept \subseteq todo[e] /\ todo[e] \subseteq Backups
    /\ pc[e] \in Clean \/ (pc[e] \in {"report", "unlock"} /\ err[e] # "stop") => Kept \subseteq left
    /\ pc[e] = "copying" => Kept = {} /\ dir[job[e]] = "open"
    /\ pc[e] \in Working => /\ Kept \subseteq {job[e]} \cup Others(e)
                            /\ Others(e) \subseteq Backups \ {job[e]}
    /\ pc[e] \in (TryBlock \ {"undo"}) \cup {"claim", "write", "acquire"} => restored[e] = {}
    /\ pc[e] \in {"move", "undo"} => dir[job[e]] = "open"
    /\ pc[e] \in {"place", "test", "clear", "config", "files"} => dir[job[e]] = "sealed"
    /\ pc[e] = "move" => copy[job[e]][Config] = Own[Config]
    /\ pc[e] = "place" => copy[job[e]] = Own
    /\ pc[e] = "remove" =>
        Kept \subseteq {job[e]} /\ bot = Own /\ \A n \in Strategies : copy[job[e]][n] = Absent

FInv == BackupFacts /\ \A e \in Executors : PointFacts(e)

IInv == TInv /\ (overrun \/ FInv)

LEMMA OwnValues ==
    /\ Own \in [Names -> {User, Absent}] /\ User # Absent
    /\ \A n \in Names : Own[n] = IF n \in UserFiles THEN User ELSE Absent
    /\ Config \in Names /\ Config \notin Strategies /\ Strategies \subseteq Names
    /\ \A n \in Names : n = Config \/ n \in Strategies
    /\ Nothing \in [Names -> {Absent}] /\ \A n \in Names : Nothing[n] = Absent
BY DEF Own, Nothing, Names

LEMMA FilesUnchanged ==
    ASSUME UNCHANGED botFiles, BackupFacts
    PROVE  /\ BackupFacts' /\ Backups' = Backups /\ Kept' = Kept
           /\ dir' = dir /\ copy' = copy /\ bot' = bot /\ left' = left
BY DEF botFiles, BackupFacts, Backups, Kept, Bare, Open, Sealed

LEMMA KeptElsewhere ==
    ASSUME NEW j \in Jobs, NEW S,
           \A i \in Jobs \ {j} : dir'[i] = dir[i] /\ copy'[i] = copy[i],
           Kept \subseteq {j} \cup S
    PROVE  Kept' \subseteq {j} \cup S
BY DEF Kept, Backups, Bare

\* The open backup in hand, also where it holds nothing.
LEMMA OpenInHand ==
    ASSUME BackupFacts, NEW j \in Jobs, dir[j] = "open", Kept \subseteq {j}
    PROVE  Open(j)
<1>1. CASE j \in Kept
  BY <1>1 DEF BackupFacts
<1>2. CASE j \notin Kept
  <2>1. Kept = {} /\ \A n \in Strategies : copy[j][n] = Absent
    BY <1>2 DEF Kept, Backups, Bare
  <2> QED BY <2>1 DEF BackupFacts, Open, Names
<1> QED BY <1>1, <1>2

LEMMA SealedInHand ==
    ASSUME BackupFacts, NEW j \in Jobs, dir[j] = "sealed"
    PROVE  Sealed(j) /\ Kept = {j}
BY DEF BackupFacts, Kept, Backups, Bare

LEMMA OneOpen ==
    ASSUME FileTypes', NEW j \in Jobs, dir'[j] = "open", Kept' \subseteq {j}, Open(j)'
    PROVE  BackupFacts'
<1>1. Kept' = {} => bot' = Own
  <2> SUFFICES ASSUME Kept' = {} PROVE bot' = Own
    OBVIOUS
  <2>1. \A n \in Strategies : copy'[j][n] = Absent
    BY DEF Kept, Backups, Bare
  <2>2. \A n \in Names : bot'[n] = Own[n]
    BY <2>1, OwnValues DEF Open, Own
  <2> QED BY <2>2, OwnValues DEF FileTypes
<1> QED BY <1>1 DEF BackupFacts

LEMMA OneSealed ==
    ASSUME NEW j \in Jobs, dir'[j] = "sealed", Kept' \subseteq {j}, Sealed(j)'
    PROVE  BackupFacts'
<1>1. Kept' = {j}
  BY DEF Kept, Backups, Bare
<1> QED BY <1>1 DEF BackupFacts

\* The steps that move no file.
LEMMA QuietRecover ==
    ASSUME TInv, FInv, NEW e \in Executors,
           \/ Start(e) \/ CheckLock(e) \/ LeaseToRecover(e) \/ NextFolder(e) \/ ReadRunning(e)
           \/ MarkInterrupted(e) \/ RemoveLock(e) \/ ListQueued(e) \/ Pick(e) \/ Claim(e)
           \/ WriteLock(e) \/ AcquireTarget(e) \/ SetRunning(e)
    PROVE  BackupFacts' /\ PointFacts(e)'
<1>a. /\ pc \in [Executors -> Points] /\ e \in DOMAIN todo /\ e \in DOMAIN job
      /\ e \in DOMAIN restored /\ e \in DOMAIN err
  BY DEF TInv, PointTypes, LocalTypes
<1>b. PointFacts(e) /\ BackupFacts
  BY DEF FInv
<1>c. /\ BackupFacts' /\ Backups' = Backups /\ Kept' = Kept
      /\ dir' = dir /\ copy' = copy /\ bot' = bot /\ left' = left
  <2>1. UNCHANGED botFiles
    BY DEF Start, CheckLock, LeaseToRecover, NextFolder, ReadRunning, MarkInterrupted,
           RemoveLock, ListQueued, Pick, Claim, WriteLock, AcquireTarget, SetRunning
  <2> QED BY <1>b, <2>1, FilesUnchanged
<1> USE DEF PointFacts, Working, Clean, TryBlock, At, Goto, local
<1>1. CASE Start(e)
  BY <1>1, <1>a, <1>b, <1>c DEF Start
<1>2. CASE CheckLock(e)
  <2>1. todo'[e] = Backups /\ (pc'[e] = "mark" => Backups = {}) /\ pc'[e] \in {"off", "mark", "lease"}
    BY <1>2, <1>a DEF CheckLock, Backups
  <2> QED BY <1>c, <2>1 DEF Kept
<1>3. CASE LeaseToRecover(e)
  BY <1>3, <1>a, <1>b, <1>c DEF LeaseToRecover
<1>4. CASE ReadRunning(e)
  BY <1>4, <1>a, <1>b, <1>c DEF ReadRunning
<1>5. CASE MarkInterrupted(e)
  BY <1>5, <1>a, <1>b, <1>c DEF MarkInterrupted
<1>6. CASE RemoveLock(e)
  BY <1>6, <1>a, <1>b, <1>c DEF RemoveLock
<1>7. CASE ListQueued(e)
  BY <1>7, <1>a, <1>b, <1>c DEF ListQueued
<1>8. CASE Pick(e)
  BY <1>8, <1>a, <1>b, <1>c DEF Pick
<1>9. CASE Claim(e)
  BY <1>9, <1>a, <1>b, <1>c DEF Claim
<1>10. CASE WriteLock(e)
  BY <1>10, <1>a, <1>b, <1>c DEF WriteLock
<1>11. CASE AcquireTarget(e)
  BY <1>11, <1>a, <1>b, <1>c DEF AcquireTarget
<1>12. CASE SetRunning(e)
  BY <1>12, <1>a, <1>b, <1>c DEF SetRunning
<1>13. CASE NextFolder(e)
  <2>1. Kept \subseteq todo[e] /\ todo[e] \subseteq Backups
    BY <1>13, <1>b DEF NextFolder
  <2>2. CASE todo[e] = {}
    BY <1>13, <1>a, <1>b, <1>c, <2>1, <2>2 DEF NextFolder
  <2>3. CASE todo[e] # {}
    <3>1. PICK j \in Backups :
            /\ job'[e] = j /\ todo'[e] = todo[e] \ {j} /\ j \in restored'[e]
            /\ pc'[e] = IF dir[j] = "sealed" THEN "clear" ELSE "undo"
      BY <1>13, <1>a, <2>1, <2>3 DEF NextFolder
    <3>2. Others(e)' = todo[e] \ {j}
      BY <3>1 DEF Others, Recovering
    <3>3. dir[j] \in {"open", "sealed"}
      BY DEF TInv, FileTypes, Backups
    <3> QED BY <1>c, <2>1, <3>1, <3>2, <3>3
  <2> QED BY <2>2, <2>3
<1> QED BY <1>1, <1>2, <1>3, <1>4, <1>5, <1>6, <1>7, <1>8, <1>9, <1>10, <1>11, <1>12, <1>13,
        <1>c

LEMMA QuietEnd ==
    ASSUME TInv, FInv, NEW e \in Executors,
           \/ RunTester(e) \/ Verify(e) \/ Report(e) \/ Convert(e) \/ SetDone(e) \/ Unlock(e)
           \/ Interrupt(e) \/ Kill(e)
    PROVE  BackupFacts' /\ PointFacts(e)'
<1>a. /\ pc \in [Executors -> Points] /\ e \in DOMAIN todo /\ e \in DOMAIN job
      /\ e \in DOMAIN restored /\ e \in DOMAIN err
      /\ (pc[e] = "files" => job[e] \in Jobs)
  BY DEF TInv, PointTypes, LocalTypes, AtJob, InRunJob
<1>b. PointFacts(e) /\ BackupFacts
  BY DEF FInv
<1>c. /\ BackupFacts' /\ Backups' = Backups /\ Kept' = Kept
      /\ dir' = dir /\ copy' = copy /\ bot' = bot /\ left' = left
  <2>1. UNCHANGED botFiles
    BY DEF RunTester, Verify, Report, Convert, SetDone, Unlock, Interrupt, Kill
  <2> QED BY <1>b, <2>1, FilesUnchanged
<1> USE DEF PointFacts, Working, Clean, TryBlock, At, Goto, Others, Recovering, local
<1>1. CASE RunTester(e)
  BY <1>1, <1>a, <1>b, <1>c DEF RunTester, Caught
<1>2. CASE Report(e)
  BY <1>2, <1>a, <1>b, <1>c DEF Report
<1>3. CASE Convert(e)
  BY <1>3, <1>a, <1>b, <1>c DEF Convert
<1>4. CASE SetDone(e)
  BY <1>4, <1>a, <1>b, <1>c DEF SetDone
<1>5. CASE Unlock(e)
  BY <1>5, <1>a, <1>b, <1>c DEF Unlock
<1>6. CASE Kill(e)
  BY <1>6, <1>a, <1>b, <1>c DEF Kill
<1>7. CASE Interrupt(e)
  <2>1. UNCHANGED <<job, todo, restored>> /\ err'[e] = "stop"
    BY <1>7, <1>a DEF Interrupt, Caught
  <2>2. \/ pc'[e] = "report"
        \/ pc[e] = "move" /\ pc'[e] = "undo"
        \/ pc[e] \in {"place", "test"} /\ pc'[e] = "clear"
        \/ pc'[e] = "unlock"
    BY <1>7, <1>a DEF Interrupt, Caught
  <2> QED BY <1>b, <1>c, <2>1, <2>2
<1>8. CASE Verify(e)
  <2>1. /\ UNCHANGED <<job, todo, restored>> /\ pc[e] = "files"
        /\ \/ pc'[e] = "remove" /\ bot = manifest[job[e]] /\ Missing(e) = {}
           \/ pc'[e] = "off"
           \/ pc'[e] = "unlock" /\ err'[e] = "stop"
    BY <1>8, <1>a DEF Verify, RestoreFails, Caught
  <2>2. Sealed(job[e]) /\ Kept = {job[e]}
    BY <1>a, <1>b, <2>1, SealedInHand
  <2>3. ASSUME Missing(e) = {}, NEW n \in Strategies PROVE copy[job[e]][n] = Absent
    BY <2>2, <2>3, OwnValues DEF Sealed, Missing
  <2> QED BY <1>b, <1>c, <2>1, <2>2, <2>3 DEF Sealed
<1> QED BY <1>1, <1>2, <1>3, <1>4, <1>5, <1>6, <1>7, <1>8, <1>c

\* The steps that make a backup, and install.
LEMMA BackupSteps ==
    ASSUME TInv, FInv, TInv', ~overrun', NEW e \in Executors,
           BeginBackup(e) \/ CopyConfig(e) \/ MoveAside(e) \/ Seal(e) \/ Place(e)
    PROVE  BackupFacts' /\ PointFacts(e)'
<1>a. /\ pc \in [Executors -> Points] /\ e \in DOMAIN err
      /\ pc[e] \in {"backup", "copying", "move", "place"} => job[e] \in Jobs
  BY DEF TInv, PointTypes, LocalTypes, AtJob, TryBlock
<1>b. PointFacts(e) /\ BackupFacts /\ FileTypes /\ FileTypes'
  BY DEF FInv, TInv
<1>c. UNCHANGED <<job, todo, restored>>
  BY DEF BeginBackup, CopyConfig, MoveAside, Seal, Place, local
<1> DEFINE j == job[e]
<1>d. /\ j \in Jobs /\ restored[e] = {} /\ Others(e) = {} /\ Others(e)' = {}
      /\ pc[e] \in {"move", "place"} => Kept \subseteq {j}
  <2>1. pc[e] \in {"backup", "copying", "move", "place"}
    BY DEF BeginBackup, CopyConfig, MoveAside, Seal, Place, At
  <2>2. restored[e] = {}
    BY <1>b, <2>1 DEF PointFacts, TryBlock
  <2>3. Others(e) = {} /\ Others(e)' = {}
    BY <1>c, <2>2 DEF Others, Recovering
  <2>4. pc[e] \in {"move", "place"} => Kept \subseteq {j}
    BY <1>b, <2>3 DEF PointFacts, Working
  <2> QED BY <1>a, <2>1, <2>2, <2>3, <2>4
<1>1. CASE BeginBackup(e)
  <2>1. CASE dir[j] # "none"
    <3>1. UNCHANGED <<bot, dir, copy, manifest>> /\ pc'[e] = "report" /\ err'[e] = "stop"
      BY <1>1, <1>a, <2>1 DEF BeginBackup, Caught, Goto
    <3>2. BackupFacts'
      BY <1>b, <3>1 DEF BackupFacts, Kept, Backups, Bare, Open, Sealed
    <3> QED BY <3>1, <3>2 DEF PointFacts, Working, Clean, TryBlock
  <2>2. CASE dir[j] = "none"
    <3>1. /\ dir' = [dir EXCEPT ![j] = "open"] /\ copy' = [copy EXCEPT ![j] = Nothing]
          /\ pc'[e] = "copying" /\ UNCHANGED <<bot, manifest>> /\ left = {}
      BY <1>1, <1>a, <2>2 DEF BeginBackup, Goto
    <3>2. Kept = {} /\ bot = Own
      BY <1>1, <1>b, <3>1 DEF BeginBackup, At, PointFacts, Clean, BackupFacts
    <3>3. /\ dir'[j] = "open" /\ \A n \in Names : copy'[j][n] = Absent
          /\ \A i \in Jobs \ {j} : dir'[i] = dir[i] /\ copy'[i] = copy[i]
      BY <1>b, <1>d, <3>1, OwnValues DEF FileTypes
    <3>4. Kept' = {}
      <4>1. Kept' \subseteq {j}
        BY <1>d, <3>2, <3>3, KeptElsewhere, Zenon
      <4>2. j \notin Kept'
        BY <3>3, OwnValues DEF Kept, Backups, Bare
      <4> QED BY <4>1, <4>2
    <3>5. BackupFacts'
      BY <3>1, <3>2, <3>4 DEF BackupFacts, Own
    <3> QED BY <1>c, <1>d, <3>1, <3>3, <3>4, <3>5 DEF PointFacts, Working, Clean, TryBlock
  <2> QED BY <2>1, <2>2
<1>2. CASE CopyConfig(e)
  <2>1. Kept = {} /\ dir[j] = "open" /\ bot = Own
    BY <1>2, <1>b DEF CopyConfig, At, PointFacts, BackupFacts
  <2>2. /\ UNCHANGED <<bot, dir, manifest>>
        /\ \/ pc'[e] = "move" /\ copy' = [copy EXCEPT ![j] = [Nothing EXCEPT ![Config] = bot[Config]]]
           \/ pc'[e] = "report" /\ copy' = copy
    BY <1>2, <1>a DEF CopyConfig, Caught, Goto
  <2>3. CASE pc'[e] = "report" /\ copy' = copy
    <3>1. Kept' = {}
      BY <2>1, <2>2, <2>3 DEF Kept, Backups, Bare
    <3>2. BackupFacts'
      BY <2>1, <2>2, <3>1 DEF BackupFacts, Own
    <3> QED BY <2>3, <3>1, <3>2 DEF PointFacts, Working, Clean, TryBlock
  <2>4. CASE pc'[e] = "move" /\ copy' = [copy EXCEPT ![j] = [Nothing EXCEPT ![Config] = bot[Config]]]
    <3>1. copy'[j] = [Nothing EXCEPT ![Config] = Own[Config]]
      BY <1>b, <1>d, <2>1, <2>4 DEF FileTypes
    <3>2. copy'[j][Config] = Own[Config] /\ \A n \in Strategies : copy'[j][n] = Absent
      BY <3>1, OwnValues
    <3>3. \A i \in Jobs \ {j} : dir'[i] = dir[i] /\ copy'[i] = copy[i]
      BY <1>b, <1>d, <2>2, <2>4 DEF FileTypes
    <3>4. Kept' \subseteq {j} /\ dir'[j] = "open"
      BY <1>d, <2>1, <2>2, <3>3, KeptElsewhere, Zenon
    <3>5. Open(j)'
      BY <1>c, <2>1, <2>2, <3>2 DEF Open, Own
    <3>6. BackupFacts'
      BY <1>b, <1>c, <1>d, <3>4, <3>5, OneOpen
    <3> QED BY <1>c, <1>d, <2>4, <3>2, <3>4, <3>6 DEF PointFacts, Working, Clean, TryBlock
  <2> QED BY <2>2, <2>3, <2>4
<1>3. CASE MoveAside(e)
  <2>1. Kept \subseteq {j} /\ dir[j] = "open" /\ copy[j][Config] = Own[Config] /\ pc[e] = "move"
    BY <1>3, <1>b, <1>d DEF MoveAside, At, PointFacts
  <2>2. Open(j)
    BY <1>b, <1>d, <2>1, OpenInHand
  <2>3. /\ UNCHANGED <<dir, manifest>>
        /\ pc'[e] \in {"move", "undo"}
        /\ \/ copy' = copy /\ bot' = bot
           \/ \E n \in Strategies :
                /\ bot[n] # Absent /\ copy' = [copy EXCEPT ![j][n] = bot[n]]
                /\ bot' = bot \/ bot' = [bot EXCEPT ![n] = Absent]
    BY <1>3, <1>a, <2>1 DEF MoveAside, Present, Caught, Goto
  <2>4. Open(j)' /\ copy'[j][Config] = Own[Config] /\ \A i \in Jobs \ {j} : copy'[i] = copy[i]
    <3>1. CASE copy' = copy /\ bot' = bot
      BY <1>c, <2>1, <2>2, <3>1 DEF Open, Own
    <3>2. ASSUME NEW n \in Strategies, bot[n] # Absent, copy' = [copy EXCEPT ![j][n] = bot[n]],
                 bot' = bot \/ bot' = [bot EXCEPT ![n] = Absent]
          PROVE  Open(j)' /\ copy'[j][Config] = Own[Config] /\ \A i \in Jobs \ {j} : copy'[i] = copy[i]
      <4>1. bot[n] = Own[n] /\ n \in Names /\ n # Config
        BY <2>2, <3>2, OwnValues DEF Open
      <4>2. /\ bot'[n] \in {Absent, Own[n]} /\ copy'[j][n] = Own[n]
            /\ \A m \in Names \ {n} : bot'[m] = bot[m] /\ copy'[j][m] = copy[j][m]
            /\ \A i \in Jobs \ {j} : copy'[i] = copy[i]
        BY <1>b, <1>d, <3>2, <4>1 DEF FileTypes
      <4>3. Open(j)'
        BY <1>c, <2>2, <4>1, <4>2, OwnValues DEF Open
      <4> QED BY <2>1, <4>1, <4>2, <4>3, OwnValues
    <3> QED BY <2>3, <3>1, <3>2
  <2>5. Kept' \subseteq {j} /\ dir'[j] = "open"
    BY <1>d, <2>1, <2>3, <2>4, KeptElsewhere, Zenon
  <2>6. BackupFacts'
    BY <1>b, <1>c, <1>d, <2>4, <2>5, OneOpen
  <2> QED BY <1>c, <1>d, <2>3, <2>4, <2>5, <2>6 DEF PointFacts, Working, Clean, TryBlock
<1>4. CASE Seal(e)
  <2>1. Kept \subseteq {j} /\ dir[j] = "open" /\ copy[j][Config] = Own[Config]
    BY <1>4, <1>b, <1>d DEF Seal, At, PointFacts
  <2>2. copy[j] = Own
    <3>1. Open(j)
      BY <1>b, <1>d, <2>1, OpenInHand
    <3>2. \A n \in Strategies : bot[n] = Absent
      BY <1>4 DEF Seal, Present, Names
    <3>3. \A n \in Names : copy[j][n] = Own[n]
      BY <2>1, <3>1, <3>2, OwnValues DEF Open
    <3> QED BY <1>b, <1>d, <3>3, OwnValues DEF FileTypes
  <2>3. /\ dir' = [dir EXCEPT ![j] = "sealed"] /\ manifest' = [manifest EXCEPT ![j] = copy[j]]
        /\ UNCHANGED <<bot, copy>> /\ pc'[e] = "place"
    BY <1>4, <1>a DEF Seal, Goto
  <2>4. /\ dir'[j] = "sealed" /\ manifest'[j] = Own
        /\ \A i \in Jobs \ {j} : dir'[i] = dir[i] /\ copy'[i] = copy[i]
    BY <1>b, <1>d, <2>2, <2>3 DEF FileTypes
  <2>5. Sealed(j)'
    BY <1>c, <2>2, <2>3, <2>4 DEF Sealed, Own
  <2>6. Kept' \subseteq {j}
    BY <1>d, <2>1, <2>4, KeptElsewhere, Zenon
  <2>7. BackupFacts'
    BY <1>c, <1>d, <2>4, <2>5, <2>6, OneSealed
  <2> QED BY <1>c, <1>d, <2>2, <2>3, <2>4, <2>6, <2>7
          DEF PointFacts, Working, Clean, TryBlock, Own
<1>5. CASE Place(e)
  <2>1. dir[j] = "sealed" /\ copy[j] = Own
    BY <1>5, <1>b DEF Place, At, PointFacts
  <2>2. Sealed(j) /\ Kept = {j}
    BY <1>b, <1>d, <2>1, SealedInHand
  <2>3. UNCHANGED <<dir, copy, manifest>> /\ pc'[e] \in {"test", "clear"}
    BY <1>5, <1>a DEF Place, Goto, Caught
  <2>4. Sealed(j)' /\ Kept' = {j}
    BY <1>c, <2>1, <2>2, <2>3 DEF Sealed, Kept, Backups, Bare, Own
  <2>5. BackupFacts'
    BY <1>c, <1>d, <2>1, <2>3, <2>4, OneSealed
  <2> QED BY <1>c, <1>d, <2>1, <2>3, <2>4, <2>5
          DEF PointFacts, Working, Clean, TryBlock
<1> QED BY <1>1, <1>2, <1>3, <1>4, <1>5

\* The steps that put a file back, or fail to.
LEMMA UndoSteps ==
    ASSUME TInv, FInv, TInv', NEW e \in Executors, UndoFile(e) \/ UndoFails(e)
    PROVE  BackupFacts' /\ PointFacts(e)'
<1> DEFINE j == job[e]
<1>a. pc \in [Executors -> Points] /\ e \in DOMAIN err /\ FileTypes /\ FileTypes' /\ j \in Jobs
  <2>1. pc[e] = "undo"
    BY DEF UndoFile, UndoFails, At
  <2> QED BY <2>1 DEF TInv, PointTypes, LocalTypes, AtJob, TryBlock
<1>b. PointFacts(e) /\ BackupFacts
  BY DEF FInv
<1>c. UNCHANGED <<job, todo, restored, dir, manifest>> /\ pc[e] = "undo" /\ dir[j] = "open"
  BY <1>b DEF UndoFile, UndoFails, local, At, PointFacts
<1>1. PICK n \in Strategies :
        /\ copy[j][n] # Absent
        /\ \/ bot' = [bot EXCEPT ![n] = copy[j][n]] /\ copy' = [copy EXCEPT ![j][n] = Absent]
              /\ pc'[e] = "undo"
           \/ bot' \in {bot, [bot EXCEPT ![n] = copy[j][n]]} /\ copy' = copy
              /\ IF Recovering(e) THEN pc'[e] = "off" ELSE pc'[e] = "report" /\ j \in left'
  <2>1. CASE UndoFile(e)
    BY <1>c, <2>1 DEF UndoFile, Undoable
  <2>2. CASE UndoFails(e)
    BY <1>a, <2>2 DEF UndoFails, Undoable, Caught, Goto
  <2> QED BY <2>1, <2>2
<1>2. Kept = {j} /\ Open(j)
  BY <1>a, <1>b, <1>c, <1>1 DEF BackupFacts, Kept, Backups, Bare
<1>9. copy[j][n] = Own[n] /\ bot[n] \in {Absent, Own[n]} /\ n \in Names
  BY <1>1, <1>2, OwnValues DEF Open
<1>3. /\ \A m \in Names \ {n} : bot'[m] = bot[m] /\ copy'[j][m] = copy[j][m]
      /\ bot'[n] \in {Absent, Own[n]}
      /\ copy'[j][n] = Own[n] \/ (bot'[n] = Own[n] /\ copy'[j][n] = Absent)
      /\ \A i \in Jobs \ {j} : dir'[i] = dir[i] /\ copy'[i] = copy[i]
  <2>1. CASE bot' = [bot EXCEPT ![n] = copy[j][n]] /\ copy' = [copy EXCEPT ![j][n] = Absent]
    BY <1>a, <1>c, <1>9, <2>1 DEF FileTypes
  <2>2. CASE bot' = bot /\ copy' = copy
    BY <1>c, <1>9, <2>2
  <2>3. CASE bot' = [bot EXCEPT ![n] = copy[j][n]] /\ copy' = copy
    BY <1>a, <1>c, <1>9, <2>3 DEF FileTypes
  <2> QED BY <1>1, <2>1, <2>2, <2>3
<1>4. Open(j)'
  BY <1>c, <1>2, <1>3, OwnValues DEF Open
<1>5. Kept' \subseteq {j} /\ dir'[j] = "open"
  BY <1>a, <1>c, <1>2, <1>3, KeptElsewhere, Zenon
<1>6. BackupFacts'
  BY <1>a, <1>c, <1>4, <1>5, OneOpen
<1>7. CASE pc'[e] = "undo"
  <2>1. Others(e)' = Others(e) /\ Others(e) \subseteq Backups \ {j} /\ Backups' = Backups
    BY <1>b, <1>c DEF Others, Recovering, PointFacts, Working, Backups
  <2> QED BY <1>c, <1>5, <1>6, <1>7, <2>1 DEF PointFacts, Working, Clean, TryBlock
<1>8. CASE pc'[e] = "off" \/ (pc'[e] = "report" /\ j \in left')
  BY <1>5, <1>6, <1>8 DEF PointFacts, Working, Clean, TryBlock
<1> QED BY <1>1, <1>7, <1>8

LEMMA RestoreSteps ==
    ASSUME TInv, FInv, TInv', NEW e \in Executors,
           ClearExtras(e) \/ RestoreConfig(e) \/ RestoreFile(e) \/ RestoreBreaks(e)
    PROVE  BackupFacts' /\ PointFacts(e)'
<1> DEFINE j == job[e]
<1>b. PointFacts(e) /\ BackupFacts
  BY DEF FInv
<1>c. /\ UNCHANGED <<job, todo, restored, dir, manifest>>
      /\ pc[e] \in {"clear", "config", "files", "remove"}
  BY DEF ClearExtras, RestoreConfig, RestoreFile, RestoreBreaks, local, At
<1>a. pc \in [Executors -> Points] /\ e \in DOMAIN err /\ FileTypes /\ FileTypes' /\ j \in Jobs
  BY <1>c DEF TInv, PointTypes, LocalTypes, AtJob, InRunJob
<1>d. ASSUME \/ pc'[e] \in {"config", "files"}
             \/ pc'[e] = "off" \/ (pc'[e] = "unlock" /\ err'[e] = "stop"),
             dir[j] = "sealed", Sealed(j)', \A i \in Jobs \ {j} : copy'[i] = copy[i]
      PROVE  BackupFacts' /\ PointFacts(e)'
  <2>1. Kept = {j} /\ pc[e] \in {"clear", "config", "files", "remove"}
    BY <1>a, <1>b, <1>c, <1>d, SealedInHand
  <2>2. Kept' \subseteq {j} /\ dir'[j] = "sealed"
    BY <1>a, <1>c, <1>d, <2>1, KeptElsewhere, Zenon
  <2>3. BackupFacts'
    BY <1>a, <1>c, <1>d, <2>2, OneSealed
  <2>4. Others(e)' = Others(e) /\ Others(e) \subseteq Backups \ {j} /\ Backups' = Backups
    BY <1>b, <1>c DEF Others, Recovering, PointFacts, Working, Backups
  <2> QED BY <1>c, <1>d, <2>2, <2>3, <2>4 DEF PointFacts, Working, Clean, TryBlock
<1>2. CASE ClearExtras(e)
  <2>1. dir[j] = "sealed" /\ Sealed(j) /\ pc'[e] = "config" /\ copy' = copy
    BY <1>2, <1>a, <1>b, SealedInHand DEF ClearExtras, At, Goto, PointFacts
  <2>2. \A n \in Names : bot'[n] = bot[n] \/ (bot'[n] = Absent /\ Own[n] = Absent)
    BY <1>2, <2>1, OwnValues DEF ClearExtras, Sealed
  <2>3. Sealed(j)'
    BY <1>c, <2>1, <2>2 DEF Sealed, Own
  <2> QED BY <1>d, <2>1, <2>3
<1>3. CASE RestoreConfig(e)
  <2>1. dir[j] = "sealed" /\ Sealed(j) /\ copy' = copy
    BY <1>3, <1>a, <1>b, SealedInHand DEF RestoreConfig, At, PointFacts
  <2>2. \/ bot' = bot
        \/ bot' = [bot EXCEPT ![Config] = Own[Config]]
    BY <1>3, <2>1, OwnValues DEF RestoreConfig, Sealed
  <2>3. \A n \in Names : bot'[n] = bot[n] \/ bot'[n] = Own[n]
    BY <1>a, <2>2, OwnValues DEF FileTypes
  <2>4. Sealed(j)'
    BY <1>c, <2>1, <2>3 DEF Sealed, Own
  <2>5. pc'[e] \in {"files", "off"} \/ (pc'[e] = "unlock" /\ err'[e] = "stop")
    BY <1>3, <1>a DEF RestoreConfig, RestoreFails, Caught, Goto
  <2> QED BY <1>d, <2>1, <2>4, <2>5
<1>4. CASE RestoreFile(e)
  <2>1. dir[j] = "sealed" /\ Sealed(j) /\ pc[e] = "files" /\ pc' = pc
    BY <1>4, <1>a, <1>b, SealedInHand DEF RestoreFile, At, PointFacts
  <2>2. PICK n \in Strategies :
            /\ copy[j][n] # Absent /\ bot' = [bot EXCEPT ![n] = copy[j][n]]
            /\ copy' = [copy EXCEPT ![j][n] = Absent]
    BY <1>4 DEF RestoreFile, Missing
  <2>3. /\ bot'[n] = Own[n] /\ copy'[j][n] = Absent
        /\ \A m \in Names \ {n} : bot'[m] = bot[m] /\ copy'[j][m] = copy[j][m]
        /\ \A i \in Jobs \ {j} : copy'[i] = copy[i]
    BY <1>a, <1>c, <2>1, <2>2, OwnValues DEF FileTypes, Sealed
  <2>4. Sealed(j)'
    BY <1>c, <2>1, <2>3, OwnValues DEF Sealed, Own
  <2> QED BY <1>d, <2>1, <2>3, <2>4
<1>5. CASE RestoreBreaks(e)
  <2>4. copy' = copy /\ (pc'[e] = "off" \/ (pc'[e] = "unlock" /\ err'[e] = "stop"))
    BY <1>5, <1>a DEF RestoreBreaks, RestoreFails, Caught, Goto
  <2>5. \/ bot' = bot
        \/ pc[e] = "files" /\ \E n \in Strategies :
                copy[j][n] # Absent /\ bot' = [bot EXCEPT ![n] = copy[j][n]]
    BY <1>5 DEF RestoreBreaks, At, Missing
  <2>2. CASE bot' = bot
    <3>1. BackupFacts'
      BY <1>b, <1>c, <2>4, <2>2 DEF BackupFacts, Kept, Backups, Bare, Open, Sealed, Own
    <3> QED BY <2>4, <3>1 DEF PointFacts, Working, Clean, TryBlock
  <2>3. ASSUME pc[e] = "files", NEW n \in Strategies, copy[j][n] # Absent,
               bot' = [bot EXCEPT ![n] = copy[j][n]]
        PROVE  BackupFacts' /\ PointFacts(e)'
    <3>1. dir[j] = "sealed" /\ Sealed(j)
      BY <1>a, <1>b, <2>3, SealedInHand DEF PointFacts
    <3>2. \A m \in Names : bot'[m] = bot[m] \/ bot'[m] = Own[m]
      BY <1>a, <2>3, <3>1, OwnValues DEF FileTypes, Sealed
    <3>3. Sealed(j)'
      BY <1>c, <2>4, <3>1, <3>2 DEF Sealed, Own
    <3> QED BY <1>d, <2>4, <3>1, <3>3
  <2> QED BY <2>5, <2>2, <2>3
<1> QED BY <1>2, <1>3, <1>4, <1>5

\* A backup goes only when the bot has everything again.
LEMMA RemoveSteps ==
    ASSUME TInv, FInv, NEW e \in Executors, Undone(e) \/ RemovePart(e) \/ RemoveBackup(e)
    PROVE  BackupFacts' /\ PointFacts(e)'
<1> DEFINE j == job[e]
<1>b. PointFacts(e) /\ BackupFacts
  BY DEF FInv
<1>c. UNCHANGED <<job, todo, restored, bot, manifest>> /\ pc[e] \in {"undo", "remove"}
  BY DEF Undone, RemovePart, RemoveBackup, local, At
<1>a. pc \in [Executors -> Points] /\ e \in DOMAIN err /\ FileTypes /\ j \in Jobs
  BY <1>c DEF TInv, PointTypes, LocalTypes, AtJob, TryBlock, InRunJob
<1>d. /\ Kept \subseteq {j} \cup Others(e) /\ Others(e)' = Others(e)
      /\ Others(e) \subseteq Backups \ {j}
  BY <1>b, <1>c DEF PointFacts, Working, Others, Recovering
<1>e. ASSUME Kept' = Kept \ {j}, \A i \in Jobs \ {j} : dir'[i] = dir[i] /\ copy'[i] = copy[i],
             Kept \ {j} = {} => bot = Own, BackupGone(e)
      PROVE  BackupFacts' /\ PointFacts(e)'
  <2>1. pc'[e] = IF Recovering(e) THEN "folder" ELSE "report"
    BY <1>a, <1>e DEF BackupGone, Goto
  <2>2. BackupFacts'
    <3>1. \A i \in Kept' : i \in Kept /\ dir'[i] = dir[i] /\ copy'[i] = copy[i]
      BY <1>e DEF Kept, Backups
    <3> QED BY <1>b, <1>c, <1>e, <3>1 DEF BackupFacts, Open, Sealed, Own
  <2>3. Kept' \subseteq Others(e) /\ Others(e) \subseteq Backups'
    BY <1>d, <1>e DEF Backups
  <2> QED BY <1>c, <2>1, <2>2, <2>3
          DEF PointFacts, Working, Clean, TryBlock, Others, Recovering
<1>1. CASE Undone(e)
  <2>1. dir[j] = "open" /\ pc[e] = "undo"
    BY <1>1, <1>b DEF Undone, At, PointFacts
  <2>2. CASE \A n \in Strategies : copy[j][n] = Absent
    <3>1. /\ BackupGone(e)
          /\ \/ dir' = [dir EXCEPT ![j] = "none"] /\ copy' = [copy EXCEPT ![j] = Nothing]
             \/ dir' = dir /\ copy' = copy
      BY <1>1, <2>2 DEF Undone
    <3>2. j \notin Kept /\ j \notin Kept'
      BY <1>a, <2>1, <2>2, <3>1, OwnValues DEF Kept, Backups, Bare, FileTypes
    <3>3. \A i \in Jobs \ {j} : dir'[i] = dir[i] /\ copy'[i] = copy[i]
      BY <1>a, <3>1 DEF FileTypes
    <3>4. Kept' = Kept
      BY <3>2, <3>3 DEF Kept, Backups, Bare
    <3> QED BY <1>b, <1>e, <3>1, <3>2, <3>3, <3>4 DEF BackupFacts
  <2>3. CASE ~\A n \in Strategies : copy[j][n] = Absent
    <3>1. RestoreFails(e) /\ UNCHANGED <<dir, copy>>
      BY <1>1, <2>3 DEF Undone
    <3>2. pc'[e] = "off" \/ (pc'[e] = "unlock" /\ err'[e] = "stop")
      BY <1>a, <3>1 DEF RestoreFails, Caught, Goto
    <3>3. BackupFacts'
      BY <1>b, <1>c, <3>1 DEF BackupFacts, Kept, Backups, Bare, Open, Sealed
    <3> QED BY <3>2, <3>3 DEF PointFacts, Working, Clean, TryBlock
  <2> QED BY <2>2, <2>3
<1>2. CASE RemovePart(e)
  <2>1. bot = Own /\ Kept \subseteq {j} /\ \A n \in Strategies : copy[j][n] = Absent
    BY <1>2, <1>b DEF RemovePart, At, PointFacts
  <2>2. /\ pc' = pc /\ pc[e] = "remove"
        /\ \/ dir' = dir /\ copy' = [copy EXCEPT ![j] = Nothing]
           \/ dir' = [dir EXCEPT ![j] = "open"] /\ copy' = copy
    BY <1>2 DEF RemovePart, At
  <2>3. /\ dir'[j] = dir[j] \/ dir'[j] = "open"
        /\ \A n \in Names : copy'[j][n] = Absent \/ copy'[j][n] = copy[j][n]
        /\ \A i \in Jobs \ {j} : dir'[i] = dir[i] /\ copy'[i] = copy[i]
    BY <1>a, <2>2, OwnValues DEF FileTypes
  <2>4. (\A n \in Strategies : copy'[j][n] = Absent) /\ Kept' \subseteq {j}
    BY <1>a, <2>1, <2>3, KeptElsewhere, OwnValues, Zenon
  <2>5. ASSUME j \in Kept' PROVE j \in Kept /\ dir'[j] = dir[j] /\ dir[j] # "open" /\ Sealed(j)'
    <3>1. dir'[j] # "open"
      BY <2>4, <2>5 DEF Kept, Bare
    <3>2. dir'[j] = dir[j]
      BY <2>3, <3>1
    <3>3. j \in Kept
      BY <2>5, <3>1, <3>2 DEF Kept, Backups, Bare
    <3>4. Sealed(j)
      BY <1>b, <3>1, <3>2, <3>3 DEF BackupFacts
    <3> QED BY <1>c, <2>1, <2>3, <3>1, <3>2, <3>3, <3>4 DEF Sealed, Own
  <2>6. BackupFacts'
    BY <1>c, <2>1, <2>4, <2>5 DEF BackupFacts, Own
  <2>7. Others(e) \subseteq Backups' \ {j}
    BY <1>d, <2>3 DEF Backups
  <2> QED BY <1>c, <1>d, <2>1, <2>2, <2>4, <2>6, <2>7
          DEF PointFacts, Working, Clean, TryBlock
<1>3. CASE RemoveBackup(e)
  <2>1. bot = Own /\ Kept \subseteq {j} /\ dir' = [dir EXCEPT ![j] = "none"] /\ BackupGone(e)
    BY <1>3, <1>b DEF RemoveBackup, At, PointFacts
  <2>2. \A i \in Jobs \ {j} : dir'[i] = dir[i] /\ copy'[i] = copy[i]
    BY <1>3, <1>a DEF RemoveBackup, FileTypes
  <2>3. j \notin Kept'
    BY <1>a, <2>1 DEF Kept, Backups, FileTypes
  <2>4. Kept' = Kept \ {j}
    BY <2>2, <2>3 DEF Kept, Backups, Bare
  <2> QED BY <1>e, <2>1, <2>2, <2>4
<1> QED BY <1>1, <1>2, <1>3

LEMMA NextIInv == ASSUME OneExecutor, IInv, [Next]_vars PROVE IInv'
<1>1. TInv /\ TInv' /\ (overrun => overrun')
  BY NextTInv DEF IInv
<1> SUFFICES ASSUME ~overrun' PROVE FInv'
  BY <1>1 DEF IInv
<1>2. FInv
  BY <1>1 DEF IInv
<1>3. ASSUME NEW e \in Executors, Step(e) \/ Interrupt(e) \/ Kill(e) PROVE FInv'
  <2>1. BackupFacts' /\ PointFacts(e)'
    BY <1>1, <1>2, <1>3, QuietRecover, QuietEnd, BackupSteps, UndoSteps, RestoreSteps, RemoveSteps
       DEF Step
  <2> QED BY <2>1 DEF OneExecutor, FInv
<1>4. ASSUME UNCHANGED vars \/ \E j \in Jobs : Retry(j) PROVE FInv'
  <2>1. UNCHANGED <<botFiles, pc, job, err, todo, restored>>
    BY <1>4 DEF vars, botFiles, Retry, local
  <2>2. /\ BackupFacts' /\ Backups' = Backups /\ Kept' = Kept
        /\ dir' = dir /\ copy' = copy /\ bot' = bot /\ left' = left
    BY <1>2, <2>1, FilesUnchanged DEF FInv
  <2> QED BY <1>2, <2>1, <2>2 DEF FInv, PointFacts, Others, Recovering
<1> QED BY <1>3, <1>4 DEF Next

LEMMA IInvHolds == ASSUME OneExecutor PROVE Spec => []IInv
<1>1. Init => IInv
  BY InitTInv DEF Init, IInv, FInv, BackupFacts, Kept, Backups, PointFacts, Working, Clean, TryBlock
<1>2. IInv /\ [Next]_vars => IInv'
  BY NextIInv
<1> QED BY <1>1, <1>2, PTL DEF Spec

\* While executors run one at a time, no file of the bot's own is ever lost: it is in place or
\* in a backup that recover finds, whatever was killed, interrupted or failed, in a restore too;
\* until a job is begun over a backup that an earlier one could not undo.
THEOREM FilesKept == ASSUME OneExecutor PROVE Spec => []LostOnlyByOverrun
<1>1. ASSUME IInv PROVE LostOnlyByOverrun
  <2> SUFFICES ASSUME FInv, NEW n \in UserFiles, bot[n] # User
               PROVE  \E j \in Jobs : dir[j] # "none" /\ copy[j][n] = User
    BY <1>1 DEF IInv, LostOnlyByOverrun, NothingLost
  <2>1. Own[n] = User /\ n \in Names
    BY OwnValues
  <2>2. PICK j \in Kept : IF dir[j] = "open" THEN Open(j) ELSE Sealed(j)
    BY <2>1 DEF FInv, BackupFacts
  <2>3. copy[j][n] = User
    BY <2>1, <2>2, OwnValues DEF Open, Sealed
  <2> QED BY <2>3 DEF Kept, Backups
<1> QED BY <1>1, IInvHolds, PTL

\* Nor does a caller who finds the target free meet a job's files in the bot, unless a backup is
\* there to say so.
THEOREM CleanWithoutBackup == ASSUME OneExecutor PROVE Spec => []CleanOrBackedUp
<1>1. IInv => CleanOrBackedUp
  BY DEF IInv, FInv, BackupFacts, Kept, Backups, CleanOrBackedUp
<1> QED BY <1>1, IInvHolds, PTL
=============================================================================
