-------------------------- MODULE UploadPathProofs --------------------------
(***************************************************************************)
(* Theorems about UploadPath, for every set of modes, every number of      *)
(* commits and every set of faults.  The inductive invariants are          *)
(* conjunctions of named parts; every proof that a step preserves one has  *)
(* a case per action of UploadPath.                                        *)
(***************************************************************************)
EXTENDS UploadPathInv, TLAPS

USE DEF commitVars, removeVars, pipeVars, planeVars, uploadVars,
        completeVars, timerVars, stateVars, bufVars, engineVars

-----------------------------------------------------------------------------
(* The reference counters stay integers whatever is taken or put back.     *)
LEMMA RefsType ==
  ASSUME fbRefs \in [Planes -> [Versions -> Int]], NEW got, NEW dropped
  PROVE  Refs(got, dropped) \in [Planes -> [Versions -> Int]]
BY DEF Refs, Bit

(* Only planes of the device take part in a commit. *)
LEMMA PlanesInUseArePlanes == PlanesInUse \subseteq Planes
BY DEF PlanesInUse, Planes

(* 0 is a version, and NoFrame a frame: every plane empty. *)
LEMMA NoFrameIsFrame == 0 \in Versions /\ NoFrame \in Frames
BY MaxCommitsAssumption DEF Versions, NoFrame, Frames

(* A user commit that is not late starts before fpga_drm_remove does.      *)
LEMMA NotLateIsEarly ==
  ASSUME UserFlip \/ UserModeset \/ UserOff
  PROVE  ~late' => ~late /\ rpc = "bound"
BY Zenon DEF UserFlip, UserModeset, UserOff, BeginUserCommit

(* Every variable of the upload path keeps its type. *)
THEOREM TypeCorrect == Spec => []TypeOK
<1>1. Init => TypeOK
  <2> SUFFICES ASSUME Init PROVE TypeOK
    OBVIOUS
  <2>1. FlagsOK
    BY Zenon DEF Init, FlagsOK
  <2>2. commit \in Commits
    BY DEF Init, NoCommit, Commits, Kinds
  <2>3. fbRefs \in [Planes -> [Versions -> Int]]
    BY DEF Init
  <2>4. QED
    BY <2>1, <2>2, <2>3, NoFrameIsFrame
       DEF Init, TypeOK, CommitSteps, RemoveSteps, StopSteps, UploadSteps,
           UploadLocked, CompleteSteps, CompleteLocked
<1>2. TypeOK /\ [Next]_vars => TypeOK'
  <2> SUFFICES ASSUME TypeOK, [Next]_vars PROVE TypeOK'
    OBVIOUS
  <2> USE MaxCommitsAssumption, PlanesInUseArePlanes, NoFrameIsFrame, RefsType
      DEF TypeOK, CommitSteps, RemoveSteps, StopSteps, UploadSteps,
          UploadLocked, CompleteSteps, CompleteLocked
  <2>1. CASE UserFlip
    <3>1. FlagsOK'
      BY <2>1, Zenon DEF FlagsOK, UserFlip, BeginUserCommit, Begin, Commits,
      Kinds, Versions
    <3>2. QED
      BY <2>1, <3>1 DEF UserFlip, BeginUserCommit, Begin, Commits, Kinds,
      Versions
  <2>2. CASE UserModeset
    <3>1. FlagsOK'
      BY <2>2, Zenon DEF FlagsOK, UserModeset, BeginUserCommit, Begin, Commits,
      Kinds, Versions
    <3>2. QED
      BY <2>2, <3>1 DEF UserModeset, BeginUserCommit, Begin, Commits, Kinds,
      Versions
  <2>3. CASE UserOff
    <3>1. FlagsOK'
      BY <2>3, Zenon DEF FlagsOK, UserOff, BeginUserCommit, Begin, Commits,
      Kinds, Versions
    <3>2. QED
      BY <2>3, <3>1 DEF UserOff, BeginUserCommit, Begin, Commits, Kinds,
      Versions
  <2>4. CASE Remove
    <3>1. FlagsOK'
      BY <2>4, Zenon DEF FlagsOK, Remove, Begin, Commits, Kinds, Versions
    <3>2. QED
      BY <2>4, <3>1 DEF Remove, Begin, Commits, Kinds, Versions
  <2>5. CASE AtomicDisable
    <3>1. FlagsOK'
      BY <2>5, Zenon DEF FlagsOK, AtomicDisable
    <3>2. QED
      BY <2>5, <3>1 DEF AtomicDisable
  <2>6. CASE AtomicFlush
    <3>1. FlagsOK'
      BY <2>6, Zenon DEF FlagsOK, AtomicFlush, FlushedFrame, Frames
    <3>2. QED
      BY <2>6, <3>1 DEF AtomicFlush, FlushedFrame, Frames
  <2>7. CASE QueueCommitUpload
    <3>1. FlagsOK'
      BY <2>7, Zenon DEF FlagsOK, QueueCommitUpload
    <3>2. QED
      BY <2>7, <3>1 DEF QueueCommitUpload
  <2>8. CASE AtomicEnable
    <3>1. FlagsOK'
      BY <2>8, Zenon DEF FlagsOK, AtomicEnable, Commits
    <3>2. QED
      BY <2>8, <3>1 DEF AtomicEnable, Commits
  <2>9. CASE CancelUploadWork
    <3>1. FlagsOK'
      BY <2>9, Zenon DEF FlagsOK, CancelUploadWork, StopAt
    <3>2. QED
      BY <2>9, <3>1 DEF CancelUploadWork, StopAt
  <2>10. CASE WaitIdle
    <3>1. FlagsOK'
      BY <2>10, Zenon DEF FlagsOK, WaitIdle, StopAt, DmaIdle
    <3>2. QED
      BY <2>10, <3>1 DEF WaitIdle, StopAt, DmaIdle
  <2>11. CASE ForceCompletion
    <3>1. FlagsOK'
      BY <2>11, Zenon DEF FlagsOK, ForceCompletion, StopAt, RecordCompletion,
      Records
    <3>2. QED
      BY <2>11, <3>1 DEF ForceCompletion, StopAt, RecordCompletion, Records
  <2>12. CASE FlushCompleteWork
    <3>1. FlagsOK'
      BY <2>12, Zenon DEF FlagsOK, FlushCompleteWork, StopAt
    <3>2. QED
      BY <2>12, <3>1 DEF FlushCompleteWork, StopAt
  <2>13. CASE CancelTimeoutWork
    <3>1. FlagsOK'
      BY <2>13, Zenon DEF FlagsOK, CancelTimeoutWork, StopAt
    <3>2. QED
      BY <2>13, <3>1 DEF CancelTimeoutWork, StopAt
  <2>14. CASE ClearSnapshots
    <3>1. FlagsOK'
      BY <2>14, Zenon DEF FlagsOK, ClearSnapshots, ReturnTo
    <3>2. QED
      BY <2>14, <3>1 DEF ClearSnapshots, ReturnTo
  <2>15. CASE UploadStart
    <3>1. FlagsOK'
      BY <2>15, Zenon DEF FlagsOK, UploadStart
    <3>2. QED
      BY <2>15, <3>1 DEF UploadStart
  <2>16. CASE UploadSnapshot
    <3>1. FlagsOK'
      BY <2>16, Zenon DEF FlagsOK, UploadSnapshot, HavePrimary, Taken, Frames,
      Planes
    <3>2. QED
      BY <2>16, <3>1 DEF UploadSnapshot, HavePrimary, Taken, Frames, Planes
  <2>17. CASE UploadDisabled
    <3>1. FlagsOK'
      BY <2>17, Zenon DEF FlagsOK, UploadDisabled
    <3>2. QED
      BY <2>17, <3>1 DEF UploadDisabled
  <2>18. CASE UploadLock
    <3>1. FlagsOK'
      BY <2>18, Zenon DEF FlagsOK, UploadLock, DmaIdle
    <3>2. QED
      BY <2>18, <3>1 DEF UploadLock, DmaIdle
  <2>19. CASE UploadCompose
    <3>1. FlagsOK'
      BY <2>19, Zenon DEF FlagsOK, UploadCompose
    <3>2. QED
      BY <2>19, <3>1 DEF UploadCompose
  <2>20. CASE UploadSubmit
    <3>1. FlagsOK'
      BY <2>20, Zenon DEF FlagsOK, UploadSubmit
    <3>2. QED
      BY <2>20, <3>1 DEF UploadSubmit
  <2>21. CASE UploadAccepted
    <3>1. FlagsOK'
      BY <2>21, Zenon DEF FlagsOK, UploadAccepted
    <3>2. QED
      BY <2>21, <3>1 DEF UploadAccepted
  <2>22. CASE UploadRefused
    <3>1. FlagsOK'
      BY <2>22, Zenon DEF FlagsOK, UploadRefused
    <3>2. QED
      BY <2>22, <3>1 DEF UploadRefused
  <2>23. CASE UploadArmTimeout
    <3>1. FlagsOK'
      BY <2>23, Zenon DEF FlagsOK, UploadArmTimeout
    <3>2. QED
      BY <2>23, <3>1 DEF UploadArmTimeout
  <2>24. CASE UploadPut
    <3>1. FlagsOK'
      BY <2>24, Zenon DEF FlagsOK, UploadPut
    <3>2. QED
      BY <2>24, <3>1 DEF UploadPut
  <2>25. CASE TimeoutExpires
    <3>1. FlagsOK'
      BY <2>25, Zenon DEF FlagsOK, TimeoutExpires
    <3>2. QED
      BY <2>25, <3>1 DEF TimeoutExpires
  <2>26. CASE TimeoutReport
    <3>1. FlagsOK'
      BY <2>26, Zenon DEF FlagsOK, TimeoutReport, RecordCompletion, Records
    <3>2. QED
      BY <2>26, <3>1 DEF TimeoutReport, RecordCompletion, Records
  <2>27. CASE TimeoutSchedule
    <3>1. FlagsOK'
      BY <2>27, Zenon DEF FlagsOK, TimeoutSchedule
    <3>2. QED
      BY <2>27, <3>1 DEF TimeoutSchedule
  <2>28. CASE CompleteStart
    <3>1. FlagsOK'
      BY <2>28, Zenon DEF FlagsOK, CompleteStart
    <3>2. QED
      BY <2>28, <3>1 DEF CompleteStart
  <2>29. CASE CompleteLock
    <3>1. FlagsOK'
      BY <2>29, Zenon DEF FlagsOK, CompleteLock
    <3>2. QED
      BY <2>29, <3>1 DEF CompleteLock
  <2>30. CASE CompleteTransfer
    <3>1. FlagsOK'
      BY <2>30, Zenon DEF FlagsOK, CompleteTransfer
    <3>2. QED
      BY <2>30, <3>1 DEF CompleteTransfer
  <2>30a. CASE CompleteAbort
    <3>1. FlagsOK'
      BY <2>30a, Zenon DEF FlagsOK, CompleteAbort, Stopped
    <3>2. QED
      BY <2>30a, <3>1 DEF CompleteAbort, Stopped
  <2>31. CASE CompleteFinish
    <3>1. FlagsOK'
      BY <2>31, Zenon DEF FlagsOK, CompleteFinish
    <3>2. QED
      BY <2>31, <3>1 DEF CompleteFinish
  <2>32. CASE CompleteReschedule
    <3>1. FlagsOK'
      BY <2>32, Zenon DEF FlagsOK, CompleteReschedule
    <3>2. QED
      BY <2>32, <3>1 DEF CompleteReschedule
  <2>33. CASE HwFinish
    <3>1. FlagsOK'
      BY <2>33, Zenon DEF FlagsOK, HwFinish
    <3>2. QED
      BY <2>33, <3>1 DEF HwFinish
  <2>34. CASE HwDrained
    <3>1. FlagsOK'
      BY <2>34, Zenon DEF FlagsOK, HwDrained
    <3>2. QED
      BY <2>34, <3>1 DEF HwDrained
  <2>35. CASE ServiceFinished
    <3>1. FlagsOK'
      BY <2>35, Zenon DEF FlagsOK, ServiceFinished
    <3>2. QED
      BY <2>35, <3>1 DEF ServiceFinished
  <2>36. CASE ServiceHalfWay
    <3>1. FlagsOK'
      BY <2>36, Zenon DEF FlagsOK, ServiceHalfWay
    <3>2. QED
      BY <2>36, <3>1 DEF ServiceHalfWay
  <2>37. CASE ServiceNothing
    <3>1. FlagsOK'
      BY <2>37, Zenon DEF FlagsOK, ServiceNothing
    <3>2. QED
      BY <2>37, <3>1 DEF ServiceNothing
  <2>38. CASE ServiceCallback
    <3>1. FlagsOK'
      BY <2>38, Zenon DEF FlagsOK, ServiceCallback, RecordCompletion, Records
    <3>2. QED
      BY <2>38, <3>1 DEF ServiceCallback, RecordCompletion, Records
  <2>39. CASE ServiceSchedule
    <3>1. FlagsOK'
      BY <2>39, Zenon DEF FlagsOK, ServiceSchedule
    <3>2. QED
      BY <2>39, <3>1 DEF ServiceSchedule
  <2>40. CASE UNCHANGED vars
    BY <2>40 DEF FlagsOK, vars
  <2>41. QED
    BY <2>1, <2>2, <2>3, <2>4, <2>5, <2>6, <2>7, <2>8, <2>9, <2>10, <2>11,
    <2>12, <2>13, <2>14, <2>15, <2>16, <2>17, <2>18, <2>19, <2>20, <2>21,
    <2>22, <2>23, <2>24, <2>25, <2>26, <2>27, <2>28, <2>29, <2>30, <2>31,
    <2>32, <2>33, <2>34, <2>35, <2>36, <2>37, <2>38, <2>39, <2>40, <2>30a
    DEF Next,
    CommitThread, StopUploads, UploadWork, TimeoutWork,
    CompleteWork,Hardware, EngineService, Removed
<1>3. QED
  BY <1>1, <1>2, PTL DEF Spec

-----------------------------------------------------------------------------
(* Only one thread is inside a dma_lock section, and the flags of a frame  *)
(* follow it from submit to dma_finish, whoever reports its end.           *)
THEOREM DmaCorrect == Spec => [](LockInv /\ DmaInv)
<1>1. Init => LockInv /\ DmaInv
  BY DEF Init, LockInv, DmaInv, UploadLocked, CompleteLocked
<1>2. LockInv /\ DmaInv /\ [Next]_vars => (LockInv /\ DmaInv)'
  <2> SUFFICES ASSUME LockInv, DmaInv, [Next]_vars PROVE (LockInv /\ DmaInv)'
    OBVIOUS
  <2> USE DEF LockInv, DmaInv, UploadLocked, CompleteLocked
  <2>1. CASE UserFlip
    BY <2>1 DEF UserFlip, BeginUserCommit, Begin
  <2>2. CASE UserModeset
    BY <2>2 DEF UserModeset, BeginUserCommit, Begin
  <2>3. CASE UserOff
    BY <2>3 DEF UserOff, BeginUserCommit, Begin
  <2>4. CASE Remove
    BY <2>4 DEF Remove, Begin
  <2>5. CASE AtomicDisable
    BY <2>5 DEF AtomicDisable
  <2>6. CASE AtomicFlush
    BY <2>6 DEF AtomicFlush, FlushedFrame
  <2>7. CASE QueueCommitUpload
    BY <2>7 DEF QueueCommitUpload
  <2>8. CASE AtomicEnable
    BY <2>8 DEF AtomicEnable
  <2>9. CASE CancelUploadWork
    BY <2>9 DEF CancelUploadWork, StopAt
  <2>10. CASE WaitIdle
    BY <2>10 DEF WaitIdle, StopAt, DmaIdle
  <2>11. CASE ForceCompletion
    BY <2>11 DEF ForceCompletion, StopAt, RecordCompletion, Records
  <2>12. CASE FlushCompleteWork
    BY <2>12 DEF FlushCompleteWork, StopAt
  <2>13. CASE CancelTimeoutWork
    BY <2>13 DEF CancelTimeoutWork, StopAt
  <2>14. CASE ClearSnapshots
    BY <2>14 DEF ClearSnapshots, ReturnTo
  <2>15. CASE UploadStart
    BY <2>15 DEF UploadStart
  <2>16. CASE UploadSnapshot
    BY <2>16 DEF UploadSnapshot, HavePrimary, Taken
  <2>17. CASE UploadDisabled
    BY <2>17 DEF UploadDisabled
  <2>18. CASE UploadLock
    BY <2>18 DEF UploadLock, DmaIdle
  <2>19. CASE UploadCompose
    BY <2>19 DEF UploadCompose
  <2>20. CASE UploadSubmit
    BY <2>20 DEF UploadSubmit
  <2>21. CASE UploadAccepted
    BY <2>21 DEF UploadAccepted
  <2>22. CASE UploadRefused
    BY <2>22 DEF UploadRefused
  <2>23. CASE UploadArmTimeout
    BY <2>23 DEF UploadArmTimeout
  <2>24. CASE UploadPut
    BY <2>24 DEF UploadPut
  <2>25. CASE TimeoutExpires
    BY <2>25 DEF TimeoutExpires
  <2>26. CASE TimeoutReport
    BY <2>26 DEF TimeoutReport, RecordCompletion, Records
  <2>27. CASE TimeoutSchedule
    BY <2>27 DEF TimeoutSchedule
  <2>28. CASE CompleteStart
    BY <2>28 DEF CompleteStart
  <2>29. CASE CompleteLock
    BY <2>29 DEF CompleteLock
  <2>30. CASE CompleteTransfer
    BY <2>30 DEF CompleteTransfer
  <2>30a. CASE CompleteAbort
    BY <2>30a DEF CompleteAbort, Stopped
  <2>31. CASE CompleteFinish
    BY <2>31 DEF CompleteFinish
  <2>32. CASE CompleteReschedule
    BY <2>32 DEF CompleteReschedule
  <2>33. CASE HwFinish
    BY <2>33 DEF HwFinish
  <2>34. CASE HwDrained
    BY <2>34 DEF HwDrained
  <2>35. CASE ServiceFinished
    BY <2>35 DEF ServiceFinished
  <2>36. CASE ServiceHalfWay
    BY <2>36 DEF ServiceHalfWay
  <2>37. CASE ServiceNothing
    BY <2>37 DEF ServiceNothing
  <2>38. CASE ServiceCallback
    BY <2>38 DEF ServiceCallback, RecordCompletion, Records
  <2>39. CASE ServiceSchedule
    BY <2>39 DEF ServiceSchedule
  <2>40. CASE UNCHANGED vars
    BY <2>40 DEF vars
  <2>41. QED
    BY <2>1, <2>2, <2>3, <2>4, <2>5, <2>6, <2>7, <2>8, <2>9, <2>10, <2>11,
    <2>12, <2>13, <2>14, <2>15, <2>16, <2>17, <2>18, <2>19, <2>20, <2>21,
    <2>22, <2>23, <2>24, <2>25, <2>26, <2>27, <2>28, <2>29, <2>30, <2>31,
    <2>32, <2>33, <2>34, <2>35, <2>36, <2>37, <2>38, <2>39, <2>40, <2>30a
    DEF Next,
    CommitThread, StopUploads, UploadWork, TimeoutWork,
    CompleteWork,Hardware, EngineService, Removed
<1>3. QED
  BY <1>1, <1>2, PTL DEF Spec

(* No step zeroes or forgets a request libxdma still holds: NoRequestLost  *)
(* is what the two sections of dma_lock guarantee.                         *)
THEOREM RequestsKept == Spec => []NoRequestLost
<1>1. DmaInv => NoRequestLost
  BY DEF DmaInv, NoRequestLost
<1>2. QED
  BY <1>1, DmaCorrect, PTL

-----------------------------------------------------------------------------
(* What a get and a put do to the counter of one framebuffer.              *)
LEMMA RefsAt ==
  ASSUME fbRefs \in [Planes -> [Versions -> Int]], NEW got, NEW dropped,
         NEW p \in Planes, NEW v \in Versions \ {0}
  PROVE  Refs(got, dropped)[p][v]
           = fbRefs[p][v] + Bit(got[p] = v) - Bit(dropped[p] = v)
BY DEF Refs, Bit

(* The snapshots and upload_work's local copies always own a reference, so *)
(* no path of commit, stop, or upload leaves one of them dangling.         *)
THEOREM ReferencesHeld == Spec => [](HeldInv /\ RefsSafe)
<1>1. Init => HeldInv /\ RefsSafe
  <2> SUFFICES ASSUME Init, NEW v \in Versions \ {0}
               PROVE  /\ fbRefs["primary"][v] = Holders("primary", v)
                      /\ fbRefs["overlay"][v] >= Holders("overlay", v)
    BY DEF HeldInv, RefsSafe, Init
  <2>1. QED
    BY DEF Init, NoFrame, Planes, Holders, Bit
<1>2. TypeOK /\ HeldInv /\ RefsSafe /\ [Next]_vars => (HeldInv /\ RefsSafe)'
  <2> SUFFICES ASSUME TypeOK, HeldInv, RefsSafe, [Next]_vars
               PROVE  (HeldInv /\ RefsSafe)'
    OBVIOUS
  <2>0. fbRefs \in [Planes -> [Versions -> Int]] /\ NoFrame \in Frames
        /\ snapshot \in Frames /\ held \in Frames
    BY NoFrameIsFrame DEF TypeOK
  <2>1. CASE UserFlip
    BY <2>1 DEF UserFlip, BeginUserCommit, Begin, HeldInv, RefsSafe, Holders
  <2>2. CASE UserModeset
    BY <2>2 DEF UserModeset, BeginUserCommit, Begin, HeldInv, RefsSafe,
    Holders
  <2>3. CASE UserOff
    BY <2>3 DEF UserOff, BeginUserCommit, Begin, HeldInv, RefsSafe, Holders
  <2>4. CASE Remove
    BY <2>4 DEF Remove, Begin, HeldInv, RefsSafe, Holders
  <2>5. CASE AtomicDisable
    BY <2>5 DEF AtomicDisable, HeldInv, RefsSafe, Holders
  <2>6. CASE AtomicFlush
    <3>1. HeldInv'
      BY <2>6 DEF HeldInv, AtomicFlush
    <3>2. ASSUME NEW v \in Versions \ {0}
          PROVE  /\ fbRefs'["primary"][v] = Holders("primary", v)'
                 /\ fbRefs'["overlay"][v] >= Holders("overlay", v)'
      <4> DEFINE g == [p \in Planes |-> IF p \in commit.changed
                                      THEN FlushedFrame[p] ELSE 0]
                 d == [p \in Planes |-> IF p \in commit.changed
                                      THEN snapshot[p] ELSE 0]
      <4>1. fbRefs' = Refs(g, d)
        BY <2>6 DEF AtomicFlush
      <4>2. \A p \in Planes :
              fbRefs'[p][v] = fbRefs[p][v] + Bit(g[p] = v) - Bit(d[p] = v)
        BY <2>0, <4>1, RefsAt
      <4> HIDE DEF g, d
      <4>3. \A p \in Planes :
              Bit(g[p] = v) - Bit(d[p] = v) >= Holders(p, v)' - Holders(p, v)
        BY <2>6, <2>0 DEF g, d, AtomicFlush, Holders, Bit, Planes, Frames, NoFrame, FlushedFrame
      <4>4. Bit(g["primary"] = v) - Bit(d["primary"] = v)
              = Holders("primary", v)' - Holders("primary", v)
        BY <2>6, <2>0 DEF g, d, AtomicFlush, Holders, Bit, Planes, Frames, NoFrame, FlushedFrame
      <4>5. QED
        BY <2>0, <4>2, <4>3, <4>4 DEF RefsSafe, Holders, Bit, Planes
    <3>3. QED
      BY <3>1, <3>2 DEF RefsSafe
  <2>7. CASE QueueCommitUpload
    BY <2>7 DEF QueueCommitUpload, HeldInv, RefsSafe, Holders
  <2>8. CASE AtomicEnable
    BY <2>8 DEF AtomicEnable, HeldInv, RefsSafe, Holders
  <2>9. CASE CancelUploadWork
    BY <2>9 DEF CancelUploadWork, StopAt, HeldInv, RefsSafe, Holders
  <2>10. CASE WaitIdle
    BY <2>10 DEF WaitIdle, StopAt, DmaIdle, HeldInv, RefsSafe, Holders
  <2>11. CASE ForceCompletion
    BY <2>11 DEF ForceCompletion, StopAt, RecordCompletion, Records, HeldInv,
    RefsSafe, Holders
  <2>12. CASE FlushCompleteWork
    BY <2>12 DEF FlushCompleteWork, StopAt, HeldInv, RefsSafe, Holders
  <2>13. CASE CancelTimeoutWork
    BY <2>13 DEF CancelTimeoutWork, StopAt, HeldInv, RefsSafe, Holders
  <2>14. CASE ClearSnapshots
    <3>1. HeldInv'
      BY <2>14 DEF HeldInv, ClearSnapshots
    <3>2. ASSUME NEW v \in Versions \ {0}
          PROVE  /\ fbRefs'["primary"][v] = Holders("primary", v)'
                 /\ fbRefs'["overlay"][v] >= Holders("overlay", v)'
      <4> DEFINE g == NoFrame
                 d == snapshot
      <4>1. fbRefs' = Refs(g, d)
        BY <2>14 DEF ClearSnapshots
      <4>2. \A p \in Planes :
              fbRefs'[p][v] = fbRefs[p][v] + Bit(g[p] = v) - Bit(d[p] = v)
        BY <2>0, <4>1, RefsAt
      <4> HIDE DEF g, d
      <4>3. \A p \in Planes :
              Bit(g[p] = v) - Bit(d[p] = v) >= Holders(p, v)' - Holders(p, v)
        BY <2>14, <2>0 DEF g, d, ClearSnapshots, Holders, Bit, Planes, Frames, NoFrame
      <4>4. Bit(g["primary"] = v) - Bit(d["primary"] = v)
              = Holders("primary", v)' - Holders("primary", v)
        BY <2>14, <2>0 DEF g, d, ClearSnapshots, Holders, Bit, Planes, Frames, NoFrame
      <4>5. QED
        BY <2>0, <4>2, <4>3, <4>4 DEF RefsSafe, Holders, Bit, Planes
    <3>3. QED
      BY <3>1, <3>2 DEF RefsSafe
  <2>15. CASE UploadStart
    BY <2>15 DEF UploadStart, HeldInv, RefsSafe, Holders
  <2>16. CASE UploadSnapshot
    <3>1. HeldInv'
      BY <2>16 DEF HeldInv, UploadSnapshot
    <3>2. ASSUME NEW v \in Versions \ {0}
          PROVE  /\ fbRefs'["primary"][v] = Holders("primary", v)'
                 /\ fbRefs'["overlay"][v] >= Holders("overlay", v)'
      <4> DEFINE g == Taken
                 d == NoFrame
      <4>1. fbRefs' = Refs(g, d)
        BY <2>16 DEF UploadSnapshot
      <4>2. \A p \in Planes :
              fbRefs'[p][v] = fbRefs[p][v] + Bit(g[p] = v) - Bit(d[p] = v)
        BY <2>0, <4>1, RefsAt
      <4> HIDE DEF g, d
      <4>3. \A p \in Planes :
              Bit(g[p] = v) - Bit(d[p] = v) >= Holders(p, v)' - Holders(p, v)
        BY <2>16, <2>0 DEF g, d, UploadSnapshot, Holders, Bit, Planes, Frames, NoFrame, HavePrimary,
                        Taken, HeldInv
      <4>4. Bit(g["primary"] = v) - Bit(d["primary"] = v)
              = Holders("primary", v)' - Holders("primary", v)
        BY <2>16, <2>0 DEF g, d, UploadSnapshot, Holders, Bit, Planes, Frames, NoFrame, HavePrimary,
                        Taken, HeldInv
      <4>5. QED
        BY <2>0, <4>2, <4>3, <4>4 DEF RefsSafe, Holders, Bit, Planes
    <3>3. QED
      BY <3>1, <3>2 DEF RefsSafe
  <2>17. CASE UploadDisabled
    BY <2>17 DEF UploadDisabled, HeldInv, RefsSafe, Holders
  <2>18. CASE UploadLock
    BY <2>18 DEF UploadLock, DmaIdle, HeldInv, RefsSafe, Holders
  <2>19. CASE UploadCompose
    BY <2>19 DEF UploadCompose, HeldInv, RefsSafe, Holders
  <2>20. CASE UploadSubmit
    BY <2>20 DEF UploadSubmit, HeldInv, RefsSafe, Holders
  <2>21. CASE UploadAccepted
    BY <2>21 DEF UploadAccepted, HeldInv, RefsSafe, Holders
  <2>22. CASE UploadRefused
    BY <2>22 DEF UploadRefused, HeldInv, RefsSafe, Holders
  <2>23. CASE UploadArmTimeout
    BY <2>23 DEF UploadArmTimeout, HeldInv, RefsSafe, Holders
  <2>24. CASE UploadPut
    <3>1. HeldInv'
      BY <2>24 DEF HeldInv, UploadPut
    <3>2. ASSUME NEW v \in Versions \ {0}
          PROVE  /\ fbRefs'["primary"][v] = Holders("primary", v)'
                 /\ fbRefs'["overlay"][v] >= Holders("overlay", v)'
      <4> DEFINE g == NoFrame
                 d == held
      <4>1. fbRefs' = Refs(g, d)
        BY <2>24 DEF UploadPut
      <4>2. \A p \in Planes :
              fbRefs'[p][v] = fbRefs[p][v] + Bit(g[p] = v) - Bit(d[p] = v)
        BY <2>0, <4>1, RefsAt
      <4> HIDE DEF g, d
      <4>3. \A p \in Planes :
              Bit(g[p] = v) - Bit(d[p] = v) >= Holders(p, v)' - Holders(p, v)
        BY <2>24, <2>0 DEF g, d, UploadPut, Holders, Bit, Planes, Frames, NoFrame
      <4>4. Bit(g["primary"] = v) - Bit(d["primary"] = v)
              = Holders("primary", v)' - Holders("primary", v)
        BY <2>24, <2>0 DEF g, d, UploadPut, Holders, Bit, Planes, Frames, NoFrame
      <4>5. QED
        BY <2>0, <4>2, <4>3, <4>4 DEF RefsSafe, Holders, Bit, Planes
    <3>3. QED
      BY <3>1, <3>2 DEF RefsSafe
  <2>25. CASE TimeoutExpires
    BY <2>25 DEF TimeoutExpires, HeldInv, RefsSafe, Holders
  <2>26. CASE TimeoutReport
    BY <2>26 DEF TimeoutReport, RecordCompletion, Records, HeldInv,
    RefsSafe, Holders
  <2>27. CASE TimeoutSchedule
    BY <2>27 DEF TimeoutSchedule, HeldInv, RefsSafe, Holders
  <2>28. CASE CompleteStart
    BY <2>28 DEF CompleteStart, HeldInv, RefsSafe, Holders
  <2>29. CASE CompleteLock
    BY <2>29 DEF CompleteLock, HeldInv, RefsSafe, Holders
  <2>30. CASE CompleteTransfer
    BY <2>30 DEF CompleteTransfer, HeldInv, RefsSafe, Holders
  <2>30a. CASE CompleteAbort
    BY <2>30a DEF CompleteAbort, Stopped, HeldInv, RefsSafe, Holders
  <2>31. CASE CompleteFinish
    BY <2>31 DEF CompleteFinish, HeldInv, RefsSafe, Holders
  <2>32. CASE CompleteReschedule
    BY <2>32 DEF CompleteReschedule, HeldInv, RefsSafe, Holders
  <2>33. CASE HwFinish
    BY <2>33 DEF HwFinish, HeldInv, RefsSafe, Holders
  <2>34. CASE HwDrained
    BY <2>34 DEF HwDrained, HeldInv, RefsSafe, Holders
  <2>35. CASE ServiceFinished
    BY <2>35 DEF ServiceFinished, HeldInv, RefsSafe, Holders
  <2>36. CASE ServiceHalfWay
    BY <2>36 DEF ServiceHalfWay, HeldInv, RefsSafe, Holders
  <2>37. CASE ServiceNothing
    BY <2>37 DEF ServiceNothing, HeldInv, RefsSafe, Holders
  <2>38. CASE ServiceCallback
    BY <2>38 DEF ServiceCallback, RecordCompletion, Records, HeldInv,
    RefsSafe, Holders
  <2>39. CASE ServiceSchedule
    BY <2>39 DEF ServiceSchedule, HeldInv, RefsSafe, Holders
  <2>40. CASE UNCHANGED vars
    BY <2>40 DEF HeldInv, RefsSafe, Holders, vars
  <2>41. QED
    BY <2>1, <2>2, <2>3, <2>4, <2>5, <2>6, <2>7, <2>8, <2>9, <2>10, <2>11,
    <2>12, <2>13, <2>14, <2>15, <2>16, <2>17, <2>18, <2>19, <2>20, <2>21,
    <2>22, <2>23, <2>24, <2>25, <2>26, <2>27, <2>28, <2>29, <2>30, <2>31,
    <2>32, <2>33, <2>34, <2>35, <2>36, <2>37, <2>38, <2>39, <2>40, <2>30a
    DEF Next,
    CommitThread, StopUploads, UploadWork, TimeoutWork,
    CompleteWork,Hardware, EngineService, Removed
<1>3. QED
  BY <1>1, <1>2, TypeCorrect, PTL DEF Spec
=============================================================================
