----------------------- MODULE UploadPathQuietProofs ------------------------
(***************************************************************************)
(* What fpga_drm_remove leaves behind when stop_uploads' wait never        *)
(* expires: nothing queued, armed, running or in flight.                   *)
(***************************************************************************)
EXTENDS UploadPathOrderProofs

USE DEF commitVars, removeVars, pipeVars, planeVars, uploadVars,
        completeVars, timerVars, stateVars, bufVars, engineVars

(* Step by step stop_uploads stops the threads that could start another    *)
(* one, and each stays stopped while it goes on to the next.               *)
THEOREM StillCorrect ==
  ASSUME StopWaits
  PROVE  Spec => []StillInv
<1> DEFINE Known == /\ TypeOK /\ LockInv /\ DmaInv /\ CommitInv
                    /\ RemoveInv /\ PipeInv /\ FlightInv
<1>1. Init => StillInv
  BY DEF Init, StillInv, CompleteLocked
<1>2. Known /\ StillInv /\ [Next]_vars => StillInv'
  <2> SUFFICES ASSUME Known, StillInv, [Next]_vars PROVE StillInv'
    OBVIOUS
  <2> USE DEF StillInv, CompleteLocked
  <2>1. CASE UserFlip
        BY <2>1, NotLateIsEarly DEF UserFlip, BeginUserCommit, Begin
  <2>2. CASE UserModeset
        BY <2>2, NotLateIsEarly DEF UserModeset, BeginUserCommit, Begin
  <2>3. CASE UserOff
        BY <2>3, NotLateIsEarly DEF UserOff, BeginUserCommit, Begin
  <2>4. CASE Remove
        BY <2>4 DEF Remove, Begin
  <2>5. CASE AtomicDisable
        BY <2>5 DEF AtomicDisable, PipeInv
  <2>6. CASE AtomicFlush
        BY <2>6 DEF AtomicFlush, FlushedFrame, RemoveInv
  <2>7. CASE QueueCommitUpload
        BY <2>7 DEF QueueCommitUpload, PipeInv, RemoveInv
  <2>8. CASE AtomicEnable
        BY <2>8 DEF AtomicEnable, PipeInv
  <2>9. CASE CancelUploadWork
        BY <2>9 DEF CancelUploadWork, StopAt
  <2>10. CASE WaitIdle
        BY <2>10 DEF WaitIdle, StopAt, DmaIdle
  <2>11. CASE ForceCompletion
        BY <2>11 DEF ForceCompletion, StopAt, StopWaits, Unreported,
    RecordCompletion, Records, DmaIdle
  <2>12. CASE FlushCompleteWork
        BY <2>12 DEF FlushCompleteWork, StopAt
  <2>13. CASE CancelTimeoutWork
        BY <2>13 DEF CancelTimeoutWork, StopAt, FlightInv
  <2>14. CASE ClearSnapshots
        BY <2>14 DEF ClearSnapshots, ReturnTo, TypeOK
  <2>15. CASE UploadStart
        BY <2>15 DEF UploadStart
  <2>16. CASE UploadSnapshot
        BY <2>16 DEF UploadSnapshot, HavePrimary, Taken
  <2>17. CASE UploadDisabled
        BY <2>17 DEF UploadDisabled
  <2>18. CASE UploadLock
        BY <2>18 DEF UploadLock, DmaIdle
  <2>19. CASE UploadCompose
        BY <2>19 DEF UploadCompose
  <2>20. CASE UploadSubmit
        BY <2>20 DEF UploadSubmit
  <2>21. CASE UploadAccepted
        BY <2>21 DEF UploadAccepted
  <2>22. CASE UploadRefused
        BY <2>22 DEF UploadRefused
  <2>23. CASE UploadArmTimeout
        BY <2>23 DEF UploadArmTimeout, PipeInv
  <2>24. CASE UploadPut
        BY <2>24 DEF UploadPut
  <2>25. CASE TimeoutExpires
        BY <2>25 DEF TimeoutExpires
  <2>26. CASE TimeoutReport
        BY <2>26 DEF TimeoutReport, RecordCompletion, Records
  <2>27. CASE TimeoutSchedule
        BY <2>27 DEF TimeoutSchedule
  <2>28. CASE CompleteStart
        BY <2>28 DEF CompleteStart
  <2>29. CASE CompleteLock
        BY <2>29 DEF CompleteLock, LockInv, DmaInv, FlightInv
  <2>30. CASE CompleteTransfer
        BY <2>30 DEF CompleteTransfer
  <2>30a. CASE CompleteAbort
        BY <2>30a DEF CompleteAbort, Stopped
  <2>31. CASE CompleteFinish
        BY <2>31 DEF CompleteFinish, DmaInv, FlightInv
  <2>32. CASE CompleteReschedule
        BY <2>32 DEF CompleteReschedule, PipeInv, RemoveInv
  <2>33. CASE HwFinish
        BY <2>33 DEF HwFinish
  <2>34. CASE HwDrained
        BY <2>34 DEF HwDrained
  <2>35. CASE ServiceFinished
        BY <2>35 DEF ServiceFinished
  <2>36. CASE ServiceHalfWay
        BY <2>36 DEF ServiceHalfWay
  <2>37. CASE ServiceNothing
        BY <2>37 DEF ServiceNothing
  <2>38. CASE ServiceCallback
        BY <2>38 DEF ServiceCallback, RecordCompletion, Records
  <2>39. CASE ServiceSchedule
        BY <2>39 DEF ServiceSchedule
  <2>40. CASE UNCHANGED vars
    BY <2>40 DEF vars
  <2>41. QED
    BY <2>1, <2>2, <2>3, <2>4, <2>5, <2>6, <2>7, <2>8, <2>9, <2>10, <2>11,
    <2>12, <2>13, <2>14, <2>15, <2>16, <2>17, <2>18, <2>19, <2>20, <2>21,
    <2>22, <2>23, <2>24, <2>25, <2>26, <2>27, <2>28, <2>29, <2>30, <2>31,
    <2>32, <2>33, <2>34, <2>35, <2>36, <2>37, <2>38, <2>39, <2>40, <2>30a
    DEF Next,
    CommitThread, StopUploads, UploadWork, TimeoutWork, CompleteWork,
    Hardware, EngineService, Removed
<1>3. QED
  BY <1>1, <1>2, TypeCorrect, DmaCorrect, PipeCorrect, FlightCorrect, PTL
     DEF Spec

(* Without timeouts every report passes from libxdma's callback over the   *)
(* workqueue to the completion work, and is never in two places.           *)
THEOREM ReportCorrect ==
  ASSUME StopWaits, "timeout" \notin Faults
  PROVE  Spec => []ReportInv
<1> DEFINE Known == TypeOK /\ LockInv /\ DmaInv
<1>1. Init => ReportInv
  BY DEF Init, ReportInv
<1>2. Known /\ ReportInv /\ [Next]_vars => ReportInv'
  <2> SUFFICES ASSUME Known, ReportInv, [Next]_vars PROVE ReportInv'
    OBVIOUS
  <2> USE DEF ReportInv
  <2>1. CASE UserFlip
        BY <2>1 DEF UserFlip, BeginUserCommit, Begin
  <2>2. CASE UserModeset
        BY <2>2 DEF UserModeset, BeginUserCommit, Begin
  <2>3. CASE UserOff
        BY <2>3 DEF UserOff, BeginUserCommit, Begin
  <2>4. CASE Remove
        BY <2>4 DEF Remove, Begin
  <2>5. CASE AtomicDisable
        BY <2>5 DEF AtomicDisable
  <2>6. CASE AtomicFlush
        BY <2>6 DEF AtomicFlush, FlushedFrame
  <2>7. CASE QueueCommitUpload
        BY <2>7 DEF QueueCommitUpload
  <2>8. CASE AtomicEnable
        BY <2>8 DEF AtomicEnable
  <2>9. CASE CancelUploadWork
        BY <2>9 DEF CancelUploadWork, StopAt
  <2>10. CASE WaitIdle
        BY <2>10 DEF WaitIdle, StopAt, DmaIdle
  <2>11. CASE ForceCompletion
        BY <2>11 DEF ForceCompletion, StopAt, StopWaits, Unreported,
    RecordCompletion, Records, DmaInv, TypeOK, CompleteSteps,
    CompleteLocked
  <2>12. CASE FlushCompleteWork
        BY <2>12 DEF FlushCompleteWork, StopAt
  <2>13. CASE CancelTimeoutWork
        BY <2>13 DEF CancelTimeoutWork, StopAt
  <2>14. CASE ClearSnapshots
        BY <2>14 DEF ClearSnapshots, ReturnTo
  <2>15. CASE UploadStart
        BY <2>15 DEF UploadStart
  <2>16. CASE UploadSnapshot
        BY <2>16 DEF UploadSnapshot, HavePrimary, Taken
  <2>17. CASE UploadDisabled
        BY <2>17 DEF UploadDisabled
  <2>18. CASE UploadLock
        BY <2>18 DEF UploadLock, DmaIdle
  <2>19. CASE UploadCompose
        BY <2>19 DEF UploadCompose, DmaInv
  <2>20. CASE UploadSubmit
        BY <2>20 DEF UploadSubmit, DmaInv
  <2>21. CASE UploadAccepted
        BY <2>21 DEF UploadAccepted, DmaInv
  <2>22. CASE UploadRefused
        BY <2>22 DEF UploadRefused, DmaInv, LockInv, CompleteLocked
  <2>23. CASE UploadArmTimeout
        BY <2>23 DEF UploadArmTimeout
  <2>24. CASE UploadPut
        BY <2>24 DEF UploadPut
  <2>25. CASE TimeoutExpires
        BY <2>25 DEF TimeoutExpires
  <2>26. CASE TimeoutReport
        BY <2>26 DEF TimeoutReport, RecordCompletion, Records
  <2>27. CASE TimeoutSchedule
        BY <2>27 DEF TimeoutSchedule
  <2>28. CASE CompleteStart
        BY <2>28 DEF CompleteStart
  <2>29. CASE CompleteLock
        BY <2>29 DEF CompleteLock, DmaInv
  <2>30. CASE CompleteTransfer
        BY <2>30 DEF CompleteTransfer, DmaInv
  <2>30a. CASE CompleteAbort
        BY <2>30a DEF CompleteAbort, Stopped, DmaInv
  <2>31. CASE CompleteFinish
        BY <2>31 DEF CompleteFinish, DmaInv, LockInv, UploadLocked
  <2>32. CASE CompleteReschedule
        BY <2>32 DEF CompleteReschedule, DmaInv
  <2>33. CASE HwFinish
        BY <2>33 DEF HwFinish
  <2>34. CASE HwDrained
        BY <2>34 DEF HwDrained
  <2>35. CASE ServiceFinished
        BY <2>35 DEF ServiceFinished, DmaInv
  <2>36. CASE ServiceHalfWay
        BY <2>36 DEF ServiceHalfWay, DmaInv
  <2>37. CASE ServiceNothing
        BY <2>37 DEF ServiceNothing
  <2>38. CASE ServiceCallback
        BY <2>38 DEF ServiceCallback, RecordCompletion, Records, DmaInv,
    TypeOK, CompleteSteps, CompleteLocked
  <2>39. CASE ServiceSchedule
        BY <2>39 DEF ServiceSchedule
  <2>40. CASE UNCHANGED vars
    BY <2>40 DEF vars
  <2>41. QED
    BY <2>1, <2>2, <2>3, <2>4, <2>5, <2>6, <2>7, <2>8, <2>9, <2>10, <2>11,
    <2>12, <2>13, <2>14, <2>15, <2>16, <2>17, <2>18, <2>19, <2>20, <2>21,
    <2>22, <2>23, <2>24, <2>25, <2>26, <2>27, <2>28, <2>29, <2>30, <2>31,
    <2>32, <2>33, <2>34, <2>35, <2>36, <2>37, <2>38, <2>39, <2>40, <2>30a
    DEF Next,
    CommitThread, StopUploads, UploadWork, TimeoutWork, CompleteWork,
    Hardware, EngineService, Removed
<1>3. QED
  BY <1>1, <1>2, TypeCorrect, DmaCorrect, PTL DEF Spec

(* After fpga_drm_remove nothing is left that could touch the device as    *)
(* long as no late commit comes; a late callback is all a timeout may      *)
(* leave, and it will find nothing to do.  And once a late commit has      *)
(* switched the CRTC off again, its frames and timers are gone as well.    *)
THEOREM RemovedQuiet ==
  ASSUME StopWaits
  PROVE  Spec => []RemovedIsQuiet
<1> DEFINE Known == /\ TypeOK /\ DmaInv /\ CommitInv /\ RemoveInv
                    /\ PipeInv /\ FlightInv /\ StillInv
<1>1. Known /\ ("timeout" \notin Faults => ReportInv) => RemovedIsQuiet
  <2> SUFFICES ASSUME Known, "timeout" \notin Faults => ReportInv,
                      rpc = "removed"
               PROVE  RemovedIsQuiet
    BY DEF RemovedIsQuiet
  <2>1. ASSUME cpc = "idle", crtc # "active"
        PROVE  /\ ~pipe_enabled /\ DmaIdle /\ req = "none"
               /\ ~timer /\ tpc = "idle" /\ upc \in {"idle", "snap"}
    <3>1. ~pipe_enabled
      BY <2>1 DEF PipeInv
    <3>2. QED
      BY <2>1, <3>1 DEF PipeInv, FlightInv, DmaInv, StillInv, DmaIdle
  <2>2. ASSUME ~late
        PROVE  /\ ~upload_queued /\ upc = "idle" /\ ~timer /\ tpc = "idle"
               /\ DmaIdle /\ req = "none"
               /\ ~pipe_enabled /\ snapshot = NoFrame
               /\ "timeout" \notin Faults => Quiet /\ svc = "idle"
    <3>1. cpc = "idle" /\ crtc # "active"
      BY <2>2 DEF RemoveInv
    <3>2. ~upload_queued /\ upc = "idle" /\ snapshot = NoFrame
      BY <2>2 DEF StillInv
    <3>3. ASSUME "timeout" \notin Faults
          PROVE  ~complete_queued /\ kpc = "idle" /\ svc = "idle"
      BY <2>1, <3>1, <3>3 DEF StillInv, ReportInv, TypeOK, CompleteSteps,
                              CompleteLocked, DmaIdle
    <3>4. QED
      BY <2>1, <3>1, <3>2, <3>3 DEF Quiet, AtRest
  <2>3. QED
    BY <2>1, <2>2 DEF RemovedIsQuiet
<1>2. CASE "timeout" \in Faults
  <2>1. Known => RemovedIsQuiet
    BY <1>1, <1>2
  <2>2. QED
    BY <2>1, TypeCorrect, DmaCorrect, PipeCorrect, FlightCorrect,
       StillCorrect, PTL
<1>3. CASE "timeout" \notin Faults
  <2>1. Known /\ ReportInv => RemovedIsQuiet
    BY <1>1
  <2>2. QED
    BY <1>3, <2>1, TypeCorrect, DmaCorrect, PipeCorrect, FlightCorrect,
       StillCorrect, ReportCorrect, PTL
<1>4. QED
  BY <1>2, <1>3
=============================================================================
