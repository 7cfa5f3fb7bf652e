----------------------- MODULE UploadPathOrderProofs ------------------------
(***************************************************************************)
(* What holds when stop_uploads waits as long as anybody is going to       *)
(* report the frame: no mode change under a frame in flight, frames        *)
(* in order, no update forgotten, and so that UploadPath implements        *)
(* FrameSlot.                                                              *)
(***************************************************************************)
EXTENDS UploadPathProofs

USE DEF commitVars, removeVars, pipeVars, planeVars, uploadVars,
        completeVars, timerVars, stateVars, bufVars, engineVars

(* wait_event_timeout in fpga_drm_stop_uploads expires only when nobody is *)
(* left to report the frame in flight.                                     *)
StopWaits == "stop_timeout" \notin Faults

-----------------------------------------------------------------------------
(* The pipe is on only while the commit thread is outside a modeset, and   *)
(* off, it lets upload_work no further than its snapshot.  This needs no   *)
(* assumption about the faults.                                            *)
THEOREM PipeCorrect == Spec => [](CommitInv /\ RemoveInv /\ PipeInv)
<1>1. Init => CommitInv /\ RemoveInv /\ PipeInv
  BY DEF Init, CommitInv, RemoveInv, PipeInv, NoCommit, StopSteps
<1> DEFINE Inv == CommitInv /\ RemoveInv /\ PipeInv
<1>2. TypeOK /\ Inv /\ [Next]_vars => Inv'
  <2> SUFFICES ASSUME TypeOK, Inv, [Next]_vars
               PROVE  Inv'
    OBVIOUS
  <2> USE DEF CommitInv, RemoveInv, PipeInv, StopSteps
  <2>1. CASE UserFlip
    <3>1. CommitInv' /\ PipeInv'
      BY <2>1 DEF UserFlip, BeginUserCommit, Begin
    <3>2. /\ cpc = "idle" /\ cpc' \in {"disable", "flush"}
          /\ commit'.kind = "flip" /\ rpc' = rpc
      BY <2>1 DEF UserFlip, BeginUserCommit, Begin
    <3>3. ~late' => ~late /\ rpc = "bound"
      BY <2>1, NotLateIsEarly
    <3>4. RemoveInv'
      BY <3>2, <3>3
    <3>5. QED
      BY <3>1, <3>4
  <2>2. CASE UserModeset
    BY <2>2, NotLateIsEarly DEF UserModeset, BeginUserCommit, Begin
  <2>3. CASE UserOff
    BY <2>3, NotLateIsEarly DEF UserOff, BeginUserCommit, Begin
  <2>4. CASE Remove
    BY <2>4 DEF Remove, Begin
  <2>5. CASE AtomicDisable
    BY <2>5 DEF AtomicDisable
  <2>6. CASE AtomicFlush
    BY <2>6 DEF AtomicFlush, FlushedFrame
  <2>7. CASE QueueCommitUpload
    BY <2>7 DEF QueueCommitUpload
  <2>8. CASE AtomicEnable
    BY <2>8 DEF AtomicEnable
  <2>9. CASE CancelUploadWork
    BY <2>9 DEF CancelUploadWork, StopAt
  <2>10. CASE WaitIdle
    BY <2>10 DEF WaitIdle, StopAt, DmaIdle
  <2>11. CASE ForceCompletion
    BY <2>11 DEF ForceCompletion, StopAt, RecordCompletion, Records
  <2>12. CASE FlushCompleteWork
    BY <2>12 DEF FlushCompleteWork, StopAt
  <2>13. CASE CancelTimeoutWork
    BY <2>13 DEF CancelTimeoutWork, StopAt
  <2>14. CASE ClearSnapshots
    BY <2>14 DEF ClearSnapshots, ReturnTo, TypeOK
  <2>15. CASE UploadStart
    BY <2>15 DEF UploadStart
  <2>16. CASE UploadSnapshot
    BY <2>16 DEF UploadSnapshot, HavePrimary, Taken
  <2>17. CASE UploadDisabled
    BY <2>17 DEF UploadDisabled
  <2>18. CASE UploadLock
    BY <2>18 DEF UploadLock, DmaIdle
  <2>19. CASE UploadCompose
    BY <2>19 DEF UploadCompose
  <2>20. CASE UploadSubmit
    BY <2>20 DEF UploadSubmit
  <2>21. CASE UploadAccepted
    BY <2>21 DEF UploadAccepted
  <2>22. CASE UploadRefused
    BY <2>22 DEF UploadRefused
  <2>23. CASE UploadArmTimeout
    BY <2>23 DEF UploadArmTimeout
  <2>24. CASE UploadPut
    BY <2>24 DEF UploadPut
  <2>25. CASE TimeoutExpires
    BY <2>25 DEF TimeoutExpires
  <2>26. CASE TimeoutReport
    BY <2>26 DEF TimeoutReport, RecordCompletion, Records
  <2>27. CASE TimeoutSchedule
    BY <2>27 DEF TimeoutSchedule
  <2>28. CASE CompleteStart
    BY <2>28 DEF CompleteStart
  <2>29. CASE CompleteLock
    BY <2>29 DEF CompleteLock
  <2>30. CASE CompleteTransfer
    BY <2>30 DEF CompleteTransfer
  <2>30a. CASE CompleteAbort
    BY <2>30a DEF CompleteAbort, Stopped
  <2>31. CASE CompleteFinish
    BY <2>31 DEF CompleteFinish
  <2>32. CASE CompleteReschedule
    BY <2>32 DEF CompleteReschedule
  <2>33. CASE HwFinish
    BY <2>33 DEF HwFinish
  <2>34. CASE HwDrained
    BY <2>34 DEF HwDrained
  <2>35. CASE ServiceFinished
    BY <2>35 DEF ServiceFinished
  <2>36. CASE ServiceHalfWay
    BY <2>36 DEF ServiceHalfWay
  <2>37. CASE ServiceNothing
    BY <2>37 DEF ServiceNothing
  <2>38. CASE ServiceCallback
    BY <2>38 DEF ServiceCallback, RecordCompletion, Records
  <2>39. CASE ServiceSchedule
    BY <2>39 DEF ServiceSchedule
  <2>40. CASE UNCHANGED vars
    BY <2>40 DEF vars
  <2>41. QED
    BY <2>1, <2>2, <2>3, <2>4, <2>5, <2>6, <2>7, <2>8, <2>9, <2>10, <2>11,
    <2>12, <2>13, <2>14, <2>15, <2>16, <2>17, <2>18, <2>19, <2>20, <2>21,
    <2>22, <2>23, <2>24, <2>25, <2>26, <2>27, <2>28, <2>29, <2>30, <2>31,
    <2>32, <2>33, <2>34, <2>35, <2>36, <2>37, <2>38, <2>39, <2>40, <2>30a
    DEF Next,
    CommitThread, StopUploads, UploadWork, TimeoutWork,
    CompleteWork,Hardware, EngineService, Removed
<1>3. QED
  BY <1>1, <1>2, TypeCorrect, PTL DEF Spec

(* A frame in flight is one of the programmed mode, and with the pipe off  *)
(* it is a frame that disable is still waiting for.                        *)
THEOREM FlightCorrect ==
  ASSUME StopWaits
  PROVE  Spec => []FlightInv
<1> DEFINE Known == LockInv /\ DmaInv /\ CommitInv /\ PipeInv
<1>1. Init => FlightInv
  BY DEF Init, FlightInv
<1>2. Known /\ FlightInv /\ [Next]_vars => FlightInv'
  <2> SUFFICES ASSUME Known, FlightInv, [Next]_vars PROVE FlightInv'
    OBVIOUS
  <2> USE DEF FlightInv, DmaInv
  <2>1. CASE UserFlip
    BY <2>1 DEF UserFlip, BeginUserCommit, Begin
  <2>2. CASE UserModeset
    BY <2>2 DEF UserModeset, BeginUserCommit, Begin
  <2>3. CASE UserOff
    BY <2>3 DEF UserOff, BeginUserCommit, Begin
  <2>4. CASE Remove
    BY <2>4 DEF Remove, Begin
  <2>5. CASE AtomicDisable
    BY <2>5 DEF AtomicDisable, PipeInv
  <2>6. CASE AtomicFlush
    BY <2>6 DEF AtomicFlush, FlushedFrame
  <2>7. CASE QueueCommitUpload
    BY <2>7 DEF QueueCommitUpload, PipeInv
  <2>8. CASE AtomicEnable
    BY <2>8 DEF AtomicEnable, PipeInv, StopSteps
  <2>9. CASE CancelUploadWork
    BY <2>9 DEF CancelUploadWork, StopAt
  <2>10. CASE WaitIdle
    BY <2>10 DEF WaitIdle, StopAt, DmaIdle
  <2>11. CASE ForceCompletion
    BY <2>11 DEF ForceCompletion, StopAt, StopWaits, Unreported,
    RecordCompletion, Records, DmaIdle
  <2>12. CASE FlushCompleteWork
    BY <2>12 DEF FlushCompleteWork, StopAt
  <2>13. CASE CancelTimeoutWork
    BY <2>13 DEF CancelTimeoutWork, StopAt
  <2>14. CASE ClearSnapshots
    BY <2>14 DEF ClearSnapshots, ReturnTo
  <2>15. CASE UploadStart
    BY <2>15 DEF UploadStart
  <2>16. CASE UploadSnapshot
    BY <2>16 DEF UploadSnapshot, HavePrimary, Taken
  <2>17. CASE UploadDisabled
    BY <2>17 DEF UploadDisabled
  <2>18. CASE UploadLock
    BY <2>18 DEF UploadLock, DmaIdle
  <2>19. CASE UploadCompose
    BY <2>19 DEF UploadCompose
  <2>20. CASE UploadSubmit
    BY <2>20 DEF UploadSubmit, PipeInv
  <2>21. CASE UploadAccepted
    BY <2>21 DEF UploadAccepted
  <2>22. CASE UploadRefused
    BY <2>22 DEF UploadRefused
  <2>23. CASE UploadArmTimeout
    BY <2>23 DEF UploadArmTimeout
  <2>24. CASE UploadPut
    BY <2>24 DEF UploadPut
  <2>25. CASE TimeoutExpires
    BY <2>25 DEF TimeoutExpires
  <2>26. CASE TimeoutReport
    BY <2>26 DEF TimeoutReport, RecordCompletion, Records
  <2>27. CASE TimeoutSchedule
    BY <2>27 DEF TimeoutSchedule
  <2>28. CASE CompleteStart
    BY <2>28 DEF CompleteStart
  <2>29. CASE CompleteLock
    BY <2>29 DEF CompleteLock
  <2>30. CASE CompleteTransfer
    BY <2>30 DEF CompleteTransfer
  <2>30a. CASE CompleteAbort
    BY <2>30a DEF CompleteAbort, Stopped
  <2>31. CASE CompleteFinish
    BY <2>31 DEF CompleteFinish
  <2>32. CASE CompleteReschedule
    BY <2>32 DEF CompleteReschedule
  <2>33. CASE HwFinish
    BY <2>33 DEF HwFinish
  <2>34. CASE HwDrained
    BY <2>34 DEF HwDrained
  <2>35. CASE ServiceFinished
    BY <2>35 DEF ServiceFinished
  <2>36. CASE ServiceHalfWay
    BY <2>36 DEF ServiceHalfWay
  <2>37. CASE ServiceNothing
    BY <2>37 DEF ServiceNothing
  <2>38. CASE ServiceCallback
    BY <2>38 DEF ServiceCallback, RecordCompletion, Records
  <2>39. CASE ServiceSchedule
    BY <2>39 DEF ServiceSchedule
  <2>40. CASE UNCHANGED vars
    BY <2>40 DEF vars
  <2>41. QED
    BY <2>1, <2>2, <2>3, <2>4, <2>5, <2>6, <2>7, <2>8, <2>9, <2>10, <2>11,
    <2>12, <2>13, <2>14, <2>15, <2>16, <2>17, <2>18, <2>19, <2>20, <2>21,
    <2>22, <2>23, <2>24, <2>25, <2>26, <2>27, <2>28, <2>29, <2>30, <2>31,
    <2>32, <2>33, <2>34, <2>35, <2>36, <2>37, <2>38, <2>39, <2>40, <2>30a
    DEF Next,
    CommitThread, StopUploads, UploadWork, TimeoutWork,
    CompleteWork,Hardware, EngineService, Removed
<1>3. QED
  BY <1>1, <1>2, DmaCorrect, PipeCorrect, PTL DEF Spec

(* program_mode never runs under a frame in flight, and a frame is always  *)
(* finished against the mode it was laid out for.                          *)
THEOREM ModeIsStable ==
  ASSUME StopWaits
  PROVE  Spec => []ModeStable
<1>1. DmaInv /\ PipeInv /\ FlightInv => ModeStable
  BY DEF DmaInv, PipeInv, FlightInv, ModeStable, DmaIdle
<1>2. QED
  BY <1>1, DmaCorrect, PipeCorrect, FlightCorrect, PTL

-----------------------------------------------------------------------------
(* With a primary to take, upload_work takes the whole snapshot.           *)
LEMMA TakenIsSnapshot ==
  ASSUME snapshot \in Frames, HavePrimary
  PROVE  Taken = snapshot
BY DEF Taken, Frames, Planes

(* Frames only get newer on their way from a commit's snapshot through     *)
(* upload_work's copy to the staging buffers, and what is sent has a       *)
(* primary plane.  This needs no assumption about the faults either.       *)
THEOREM OrderCorrect == Spec => [](HeldInv /\ OrderInv)
<1>1. Init => HeldInv /\ OrderInv
  BY DEF Init, HeldInv, OrderInv, NotOlder, NoFrame, Planes
<1>2. TypeOK /\ HeldInv /\ OrderInv /\ [Next]_vars => (HeldInv /\ OrderInv)'
  <2> SUFFICES ASSUME TypeOK, HeldInv, OrderInv, [Next]_vars
               PROVE  (HeldInv /\ OrderInv)'
    OBVIOUS
  <2>0. /\ snapshot \in [Planes -> Nat] /\ held \in [Planes -> Nat]
        /\ line_bufs \in [Planes -> Nat] /\ commits \in Nat
    BY MaxCommitsAssumption DEF TypeOK, Frames, Versions
  <2> USE DEF HeldInv, OrderInv
  <2>1. CASE UserFlip
    BY <2>1, <2>0 DEF UserFlip, BeginUserCommit, Begin, Planes
  <2>2. CASE UserModeset
    BY <2>2, <2>0 DEF UserModeset, BeginUserCommit, Begin, Planes
  <2>3. CASE UserOff
    BY <2>3, <2>0 DEF UserOff, BeginUserCommit, Begin, Planes
  <2>4. CASE Remove
    BY <2>4, <2>0 DEF Remove, Begin
  <2>5. CASE AtomicDisable
    BY <2>5, <2>0 DEF AtomicDisable
  <2>6. CASE AtomicFlush
    BY <2>6, <2>0 DEF AtomicFlush, FlushedFrame, NotOlder, Planes
  <2>7. CASE QueueCommitUpload
    BY <2>7, <2>0 DEF QueueCommitUpload
  <2>8. CASE AtomicEnable
    BY <2>8, <2>0 DEF AtomicEnable
  <2>9. CASE CancelUploadWork
    BY <2>9, <2>0 DEF CancelUploadWork, StopAt
  <2>10. CASE WaitIdle
    BY <2>10, <2>0 DEF WaitIdle, StopAt, DmaIdle
  <2>11. CASE ForceCompletion
    BY <2>11, <2>0 DEF ForceCompletion, StopAt, RecordCompletion, Records
  <2>12. CASE FlushCompleteWork
    BY <2>12, <2>0 DEF FlushCompleteWork, StopAt
  <2>13. CASE CancelTimeoutWork
    BY <2>13, <2>0 DEF CancelTimeoutWork, StopAt
  <2>14. CASE ClearSnapshots
    BY <2>14, <2>0 DEF ClearSnapshots, ReturnTo, NotOlder, Planes, NoFrame
  <2>15. CASE UploadStart
    BY <2>15, <2>0 DEF UploadStart
  <2>16. CASE UploadSnapshot
    <3>1. CASE HavePrimary
      <4>1. held' = snapshot /\ upc' = "lock"
        BY <2>16, <3>1, TakenIsSnapshot DEF UploadSnapshot, TypeOK
      <4>2. QED
        BY <2>16, <2>0, <3>1, <4>1 DEF UploadSnapshot, HavePrimary, NotOlder,
                                   Planes
    <3>2. CASE ~HavePrimary
      BY <2>16, <3>2 DEF UploadSnapshot, NotOlder
    <3>3. QED
      BY <3>1, <3>2
  <2>17. CASE UploadDisabled
    BY <2>17, <2>0 DEF UploadDisabled
  <2>18. CASE UploadLock
    BY <2>18, <2>0 DEF UploadLock, DmaIdle
  <2>19. CASE UploadCompose
    BY <2>19, <2>0 DEF UploadCompose, NotOlder, Planes
  <2>20. CASE UploadSubmit
    BY <2>20, <2>0 DEF UploadSubmit
  <2>21. CASE UploadAccepted
    BY <2>21, <2>0 DEF UploadAccepted
  <2>22. CASE UploadRefused
    BY <2>22, <2>0 DEF UploadRefused
  <2>23. CASE UploadArmTimeout
    BY <2>23, <2>0 DEF UploadArmTimeout
  <2>24. CASE UploadPut
    BY <2>24, <2>0 DEF UploadPut, NotOlder, Planes, NoFrame
  <2>25. CASE TimeoutExpires
    BY <2>25, <2>0 DEF TimeoutExpires
  <2>26. CASE TimeoutReport
    BY <2>26, <2>0 DEF TimeoutReport, RecordCompletion, Records
  <2>27. CASE TimeoutSchedule
    BY <2>27, <2>0 DEF TimeoutSchedule
  <2>28. CASE CompleteStart
    BY <2>28, <2>0 DEF CompleteStart
  <2>29. CASE CompleteLock
    BY <2>29, <2>0 DEF CompleteLock
  <2>30. CASE CompleteTransfer
    BY <2>30, <2>0 DEF CompleteTransfer
  <2>30a. CASE CompleteAbort
    BY <2>30a, <2>0 DEF CompleteAbort, Stopped
  <2>31. CASE CompleteFinish
    BY <2>31, <2>0 DEF CompleteFinish
  <2>32. CASE CompleteReschedule
    BY <2>32, <2>0 DEF CompleteReschedule
  <2>33. CASE HwFinish
    BY <2>33, <2>0 DEF HwFinish
  <2>34. CASE HwDrained
    BY <2>34, <2>0 DEF HwDrained
  <2>35. CASE ServiceFinished
    BY <2>35, <2>0 DEF ServiceFinished
  <2>36. CASE ServiceHalfWay
    BY <2>36, <2>0 DEF ServiceHalfWay
  <2>37. CASE ServiceNothing
    BY <2>37, <2>0 DEF ServiceNothing
  <2>38. CASE ServiceCallback
    BY <2>38, <2>0 DEF ServiceCallback, RecordCompletion, Records
  <2>39. CASE ServiceSchedule
    BY <2>39, <2>0 DEF ServiceSchedule
  <2>40. CASE UNCHANGED vars
    BY <2>40 DEF NotOlder, vars
  <2>41. QED
    BY <2>1, <2>2, <2>3, <2>4, <2>5, <2>6, <2>7, <2>8, <2>9, <2>10, <2>11,
    <2>12, <2>13, <2>14, <2>15, <2>16, <2>17, <2>18, <2>19, <2>20, <2>21,
    <2>22, <2>23, <2>24, <2>25, <2>26, <2>27, <2>28, <2>29, <2>30, <2>31,
    <2>32, <2>33, <2>34, <2>35, <2>36, <2>37, <2>38, <2>39, <2>40, <2>30a
    DEF Next,
    CommitThread, StopUploads, UploadWork, TimeoutWork,
    CompleteWork,Hardware, EngineService, Removed
<1>3. QED
  BY <1>1, <1>2, TypeCorrect, PTL DEF Spec

(* Whatever newest snapshot the staging buffers do not hold, a step that   *)
(* uploads it is owed: fpga_drm_dma_busy and fpga_drm_dma_finish pass the  *)
(* debt on without dropping it.                                            *)
THEOREM NoUpdateForgotten ==
  ASSUME "upload_off" \notin Faults
  PROVE  Spec => []UpdateNotForgotten
<1> DEFINE Known == TypeOK /\ LockInv /\ DmaInv /\ RemoveInv /\ PipeInv
<1>1. Init => OwedInv
  BY DEF Init, OwedInv, UpdateNotForgotten, NoFrame, Planes
<1>2. Known /\ OwedInv /\ [Next]_vars => OwedInv'
  <2> SUFFICES ASSUME Known, OwedInv, [Next]_vars PROVE OwedInv'
    OBVIOUS
  <2> USE DEF OwedInv, UpdateNotForgotten, UploadOwed
  <2>1. CASE UserFlip
    BY <2>1, NotLateIsEarly DEF UserFlip, BeginUserCommit, Begin
  <2>2. CASE UserModeset
    BY <2>2, NotLateIsEarly DEF UserModeset, BeginUserCommit, Begin
  <2>3. CASE UserOff
    BY <2>3, NotLateIsEarly DEF UserOff, BeginUserCommit, Begin
  <2>4. CASE Remove
    BY <2>4 DEF Remove, Begin
  <2>5. CASE AtomicDisable
    BY <2>5 DEF AtomicDisable
  <2>6. CASE AtomicFlush
    BY <2>6 DEF AtomicFlush, FlushedFrame
  <2>7. CASE QueueCommitUpload
    BY <2>7 DEF QueueCommitUpload
  <2>8. CASE AtomicEnable
    BY <2>8 DEF AtomicEnable, PipeInv, NoFrame, Planes
  <2>9. CASE CancelUploadWork
    BY <2>9 DEF CancelUploadWork, StopAt, PipeInv, RemoveInv
  <2>10. CASE WaitIdle
    BY <2>10 DEF WaitIdle, StopAt, DmaIdle
  <2>11. CASE ForceCompletion
    BY <2>11 DEF ForceCompletion, StopAt, RecordCompletion, Records
  <2>12. CASE FlushCompleteWork
    BY <2>12 DEF FlushCompleteWork, StopAt
  <2>13. CASE CancelTimeoutWork
    BY <2>13 DEF CancelTimeoutWork, StopAt
  <2>14. CASE ClearSnapshots
    BY <2>14 DEF ClearSnapshots, ReturnTo, PipeInv, StopSteps, NoFrame,
    Planes
  <2>15. CASE UploadStart
    BY <2>15 DEF UploadStart
  <2>16. CASE UploadSnapshot
    <3>1. CASE HavePrimary
      <4>1. held' = snapshot /\ upc' = "lock"
        BY <2>16, <3>1, TakenIsSnapshot DEF UploadSnapshot, TypeOK
      <4>2. QED
        BY <2>16, <3>1, <4>1 DEF UploadSnapshot, PipeInv
    <3>2. CASE ~HavePrimary
      BY <2>16, <3>2 DEF UploadSnapshot, HavePrimary, PipeInv
    <3>3. QED
      BY <3>1, <3>2
  <2>17. CASE UploadDisabled
    BY <2>17 DEF UploadDisabled
  <2>18. CASE UploadLock
    BY <2>18 DEF UploadLock, DmaIdle, LockInv, DmaInv, UploadLocked,
    CompleteLocked
  <2>19. CASE UploadCompose
    BY <2>19 DEF UploadCompose, LockInv, DmaInv, UploadLocked,
    CompleteLocked
  <2>20. CASE UploadSubmit
    BY <2>20 DEF UploadSubmit, LockInv, DmaInv, UploadLocked, CompleteLocked
  <2>21. CASE UploadAccepted
    BY <2>21 DEF UploadAccepted, LockInv, DmaInv, UploadLocked,
    CompleteLocked
  <2>22. CASE UploadRefused
    BY <2>22 DEF UploadRefused, LockInv, DmaInv, UploadLocked,
    CompleteLocked
  <2>23. CASE UploadArmTimeout
    BY <2>23 DEF UploadArmTimeout
  <2>24. CASE UploadPut
    BY <2>24 DEF UploadPut
  <2>25. CASE TimeoutExpires
    BY <2>25 DEF TimeoutExpires
  <2>26. CASE TimeoutReport
    BY <2>26 DEF TimeoutReport, RecordCompletion, Records
  <2>27. CASE TimeoutSchedule
    BY <2>27 DEF TimeoutSchedule
  <2>28. CASE CompleteStart
    BY <2>28 DEF CompleteStart
  <2>29. CASE CompleteLock
    BY <2>29 DEF CompleteLock
  <2>30. CASE CompleteTransfer
    BY <2>30 DEF CompleteTransfer
  <2>30a. CASE CompleteAbort
    BY <2>30a DEF CompleteAbort, Stopped
  <2>31. CASE CompleteFinish
    BY <2>31 DEF CompleteFinish, LockInv, DmaInv, UploadLocked,
    CompleteLocked
  <2>32. CASE CompleteReschedule
    BY <2>32 DEF CompleteReschedule, LockInv, DmaInv, UploadLocked,
    CompleteLocked
  <2>33. CASE HwFinish
    BY <2>33 DEF HwFinish
  <2>34. CASE HwDrained
    BY <2>34 DEF HwDrained
  <2>35. CASE ServiceFinished
    BY <2>35 DEF ServiceFinished
  <2>36. CASE ServiceHalfWay
    BY <2>36 DEF ServiceHalfWay
  <2>37. CASE ServiceNothing
    BY <2>37 DEF ServiceNothing
  <2>38. CASE ServiceCallback
    BY <2>38 DEF ServiceCallback, RecordCompletion, Records
  <2>39. CASE ServiceSchedule
    BY <2>39 DEF ServiceSchedule
  <2>40. CASE UNCHANGED vars
    BY <2>40 DEF vars
  <2>41. QED
    BY <2>1, <2>2, <2>3, <2>4, <2>5, <2>6, <2>7, <2>8, <2>9, <2>10, <2>11,
    <2>12, <2>13, <2>14, <2>15, <2>16, <2>17, <2>18, <2>19, <2>20, <2>21,
    <2>22, <2>23, <2>24, <2>25, <2>26, <2>27, <2>28, <2>29, <2>30, <2>31,
    <2>32, <2>33, <2>34, <2>35, <2>36, <2>37, <2>38, <2>39, <2>40, <2>30a
    DEF Next,
    CommitThread, StopUploads, UploadWork, TimeoutWork,
    CompleteWork,Hardware, EngineService, Removed
<1>3. OwedInv => UpdateNotForgotten
  BY DEF OwedInv
<1>4. QED
  BY <1>1, <1>2, <1>3, TypeCorrect, DmaCorrect, PipeCorrect, PTL DEF Spec

-----------------------------------------------------------------------------
(* UploadPath implements FrameSlot: every step of every thread is one step *)
(* of the staging slot or none of its business.                            *)
THEOREM ImplementsFrameSlot ==
  ASSUME StopWaits
  PROVE  Spec => SlotSpec
<1> DEFINE Known == /\ TypeOK /\ DmaInv /\ CommitInv /\ PipeInv
                    /\ FlightInv /\ HeldInv /\ OrderInv
<1>1. Init => Slot!Init
  BY DEF Init, Slot!Init
<1>2. Known /\ Known' /\ [Next]_vars => [Slot!Next]_(Slot!slotVars)
  <2> SUFFICES ASSUME Known, Known', [Next]_vars
               PROVE  Slot!Next \/ UNCHANGED Slot!slotVars
    OBVIOUS
  <2>0. /\ snapshot' \in Slot!Frames /\ line_bufs' \in Slot!Frames
        /\ held \in [Planes -> Versions]
    BY DEF TypeOK, Frames, Slot!Frames
  <2> USE DEF Slot!slotVars
  <2>1. CASE UserFlip
    BY <2>1 DEF UserFlip, BeginUserCommit, Begin
  <2>2. CASE UserModeset
    BY <2>2 DEF UserModeset, BeginUserCommit, Begin
  <2>3. CASE UserOff
    BY <2>3 DEF UserOff, BeginUserCommit, Begin
  <2>4. CASE Remove
    BY <2>4 DEF Remove, Begin
  <2>5. CASE AtomicDisable
    BY <2>5 DEF AtomicDisable, Slot!Next, Slot!SwitchOff
  <2>6. CASE AtomicFlush
    BY <2>0, <2>6 DEF AtomicFlush, FlushedFrame, Slot!Next, Slot!Publish,
    Slot!NotOlder, OrderInv, NotOlder
  <2>7. CASE QueueCommitUpload
    BY <2>7 DEF QueueCommitUpload
  <2>8. CASE AtomicEnable
    BY <2>8 DEF AtomicEnable, Slot!Next, Slot!SwitchOn, CommitInv, PipeInv,
    FlightInv
  <2>9. CASE CancelUploadWork
    BY <2>9 DEF CancelUploadWork, StopAt
  <2>10. CASE WaitIdle
    BY <2>10 DEF WaitIdle, StopAt, DmaIdle
  <2>11. CASE ForceCompletion
    BY <2>11 DEF ForceCompletion, StopAt, RecordCompletion, Records
  <2>12. CASE FlushCompleteWork
    BY <2>12 DEF FlushCompleteWork, StopAt
  <2>13. CASE CancelTimeoutWork
    BY <2>13 DEF CancelTimeoutWork, StopAt
  <2>14. CASE ClearSnapshots
    BY <2>0, <2>14 DEF ClearSnapshots, ReturnTo, Slot!Next, Slot!Publish,
    Slot!NotOlder, OrderInv, NotOlder
  <2>15. CASE UploadStart
    BY <2>15 DEF UploadStart
  <2>16. CASE UploadSnapshot
    BY <2>16 DEF UploadSnapshot, HavePrimary, Taken
  <2>17. CASE UploadDisabled
    BY <2>17 DEF UploadDisabled
  <2>18. CASE UploadLock
    BY <2>18 DEF UploadLock, DmaIdle
  <2>19. CASE UploadCompose
    BY <2>0, <2>19 DEF UploadCompose, Slot!Next, Slot!Stage, Slot!NotOlder,
    OrderInv, NotOlder, DmaInv
  <2>20. CASE UploadSubmit
    BY <2>20 DEF UploadSubmit, Slot!Next, Slot!Send, OrderInv, DmaInv
  <2>21. CASE UploadAccepted
    BY <2>21 DEF UploadAccepted
  <2>22. CASE UploadRefused
    BY <2>22 DEF UploadRefused, Slot!Next, Slot!Release, FlightInv, DmaInv
  <2>23. CASE UploadArmTimeout
    BY <2>23 DEF UploadArmTimeout
  <2>24. CASE UploadPut
    BY <2>24 DEF UploadPut
  <2>25. CASE TimeoutExpires
    BY <2>25 DEF TimeoutExpires
  <2>26. CASE TimeoutReport
    BY <2>26 DEF TimeoutReport, RecordCompletion, Records
  <2>27. CASE TimeoutSchedule
    BY <2>27 DEF TimeoutSchedule
  <2>28. CASE CompleteStart
    BY <2>28 DEF CompleteStart
  <2>29. CASE CompleteLock
    BY <2>29 DEF CompleteLock
  <2>30. CASE CompleteTransfer
    BY <2>30 DEF CompleteTransfer
  <2>30a. CASE CompleteAbort
    BY <2>30a DEF CompleteAbort, Stopped
  <2>31. CASE CompleteFinish
    BY <2>31 DEF CompleteFinish, Slot!Next, Slot!Release, FlightInv, DmaInv
  <2>32. CASE CompleteReschedule
    BY <2>32 DEF CompleteReschedule
  <2>33. CASE HwFinish
    BY <2>33 DEF HwFinish
  <2>34. CASE HwDrained
    BY <2>34 DEF HwDrained
  <2>35. CASE ServiceFinished
    BY <2>35 DEF ServiceFinished
  <2>36. CASE ServiceHalfWay
    BY <2>36 DEF ServiceHalfWay
  <2>37. CASE ServiceNothing
    BY <2>37 DEF ServiceNothing
  <2>38. CASE ServiceCallback
    BY <2>38 DEF ServiceCallback, RecordCompletion, Records
  <2>39. CASE ServiceSchedule
    BY <2>39 DEF ServiceSchedule
  <2>40. CASE UNCHANGED vars
    BY <2>40 DEF vars
  <2>41. QED
    BY <2>1, <2>2, <2>3, <2>4, <2>5, <2>6, <2>7, <2>8, <2>9, <2>10, <2>11,
    <2>12, <2>13, <2>14, <2>15, <2>16, <2>17, <2>18, <2>19, <2>20, <2>21,
    <2>22, <2>23, <2>24, <2>25, <2>26, <2>27, <2>28, <2>29, <2>30, <2>31,
    <2>32, <2>33, <2>34, <2>35, <2>36, <2>37, <2>38, <2>39, <2>40, <2>30a
    DEF Next,
    CommitThread, StopUploads, UploadWork, TimeoutWork,
    CompleteWork,Hardware, EngineService, Removed
<1>3. QED
  BY <1>1, <1>2, TypeCorrect, DmaCorrect, PipeCorrect, FlightCorrect,
     OrderCorrect, PTL DEF Spec, SlotSpec, Slot!Spec
=============================================================================
