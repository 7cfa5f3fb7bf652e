-------------------------- MODULE GopDriverProofs ---------------------------
(***************************************************************************)
(* Theorems about GopDriver, for every set of modes and any number of      *)
(* calls and of failures: the safety properties from one inductive         *)
(* invariant, a conjunction of the facts each kind of step relies on.      *)
(***************************************************************************)
EXTENDS GopDriver, TLAPS

USE DEF handleVars, pciVars, modeVars, callVars, bounds, Works, Fails, Go, Keep

-----------------------------------------------------------------------------
StartPcs == {"save", "enable", "context", "install", "child", "failed",
             "unmark"}
StopPcs == {"uninstall", "restore", "release"}

(* Who holds the controller, and when there is a child on it. *)
HandlesInv ==
  /\ pc = "path" => parent = {"pciio"}
  /\ pc = "private" => parent = Protocols
  /\ pc \in {"path", "private", "close"} => ~marker
  /\ pc \in StartPcs \cup StopPcs \cup SetPcs => marker
  /\ pc = "idle" /\ ~marker => parent = {}
  /\ marker => parent = Protocols
  /\ child => pc \in {"idle", "child", "uninstall"} \cup SetPcs
  /\ pc \in {"child", "uninstall"} \cup SetPcs => child
  /\ child => marker
  /\ childOpen => child /\ pc # "child"

(* What is owed to the controller, and that it can be paid back. *)
OwedInv ==
  /\ pc \in {"path", "private", "close", "unmark", "release"} => ~saved
  /\ pc \in {"enable", "context", "install"} => saved
  /\ pc \in {"context", "install"} => cmd
  /\ pc = "install" => context
  /\ saved => marker
  /\ child => saved /\ cmd /\ context
  /\ (IF saved THEN orig ELSE cmd) = entry \/ resaved

(* How far SetMode() has come, and what it has established so far. *)
ModeInv ==
  /\ pc \in {"vdma", "vtc", "info", "mode", "fill"} => hw["clock"] = target
  /\ pc \in {"vtc", "info", "mode", "fill"} => hw["vdma"] = target
  /\ pc \in {"info", "mode", "fill"} => hw["vtc"] = target
  /\ pc \in {"mode", "fill"} => info = target
  /\ pc = "fill" => mode = target
  /\ pc = "child" => mode = None
  /\ pc \notin SetPcs /\ child /\ mode # None /\ ~spoiled =>
       info = mode /\ hw = [s \in Stages |-> mode] /\ drawn \subseteq {mode}

Inv == HandlesInv /\ OwedInv /\ ModeInv

-----------------------------------------------------------------------------
(* The fields of the driver, the device and the history keep their types.  *)
THEOREM GopTypeCorrect == Spec => []TypeOK
<1>1. Init => TypeOK
  <2> SUFFICES ASSUME Init PROVE TypeOK
    OBVIOUS
  <2>1. FlagsOK
    BY Zenon DEF Init, FlagsOK
  <2>2. QED
    BY <2>1, BoundsAssumption DEF Init, TypeOK, Pcs, SetPcs, Stages, StageValues
<1>2. TypeOK /\ [Next]_vars => TypeOK'
  <2> SUFFICES ASSUME TypeOK, [Next]_vars PROVE TypeOK'
    OBVIOUS
  <2> USE ModesAssumption, BoundsAssumption
      DEF TypeOK, Pcs, SetPcs, Stages, StageValues, Protocols
  <2>1. CASE \E end \in BOOLEAN : StartOpen(end)
    <3>1. FlagsOK'
      BY <2>1, Zenon DEF FlagsOK, StartOpen, Supported
    <3>2. parent' \subseteq Protocols
      BY <2>1 DEF StartOpen
    <3>3. QED
      BY <2>1, <3>1, <3>2 DEF StartOpen, Supported
  <2>2. CASE StartPath
    <3>1. FlagsOK'
      BY <2>2, Zenon DEF FlagsOK, StartPath
    <3>2. parent' \subseteq Protocols
      BY <2>2 DEF StartPath
    <3>3. QED
      BY <2>2, <3>1, <3>2 DEF StartPath
  <2>3. CASE StartPrivate
    <3>1. FlagsOK'
      BY <2>3, Zenon DEF FlagsOK, StartPrivate
    <3>2. QED
      BY <2>3, <3>1 DEF StartPrivate
  <2>4. CASE StartSave
    <3>1. FlagsOK'
      BY <2>4, Zenon DEF FlagsOK, StartSave
    <3>2. QED
      BY <2>4, <3>1 DEF StartSave
  <2>5. CASE StartEnable
    <3>1. FlagsOK'
      BY <2>5, Zenon DEF FlagsOK, StartEnable
    <3>2. /\ pc' \in {"context", "failed"} /\ UNCHANGED <<target, parent>> /\ Keep
          /\ (UNCHANGED bounds \/ Fails)
      BY <2>5, Zenon DEF StartEnable
    <3>3. QED
      BY <3>1, <3>2
  <2>6. CASE StartContext
    <3>1. FlagsOK'
      BY <2>6, Zenon DEF FlagsOK, StartContext
    <3>2. QED
      BY <2>6, <3>1 DEF StartContext
  <2>7. CASE StartInstall
    <3>1. FlagsOK'
      BY <2>7, Zenon DEF FlagsOK, StartInstall, InstallWith
    <3>2. QED
      BY <2>7, <3>1 DEF StartInstall, InstallWith
  <2>8. CASE StartChild
    <3>1. FlagsOK'
      BY <2>8, Zenon DEF FlagsOK, StartChild
    <3>2. QED
      BY <2>8, <3>1 DEF StartChild
  <2>9. CASE StartFailed
    <3>1. FlagsOK'
      BY <2>9, Zenon DEF FlagsOK, StartFailed, Restore, RestoreFails,
         FreeChildResources
    <3>2. QED
      BY <2>9, <3>1 DEF StartFailed, Restore, RestoreFails, FreeChildResources
  <2>10. CASE StartUnmark
    <3>1. FlagsOK'
      BY <2>10, Zenon DEF FlagsOK, StartUnmark
    <3>2. QED
      BY <2>10, <3>1 DEF StartUnmark
  <2>11. CASE StartClose
    <3>1. FlagsOK'
      BY <2>11, Zenon DEF FlagsOK, StartClose
    <3>2. QED
      BY <2>11, <3>1 DEF StartClose
  <2>12. CASE StopChild
    <3>1. FlagsOK'
      BY <2>12, Zenon DEF FlagsOK, StopChild
    <3>2. /\ pc' \in {"uninstall", "idle"} /\ UNCHANGED <<target, parent>>
          /\ Keep /\ (UNCHANGED bounds \/ Fails)
      BY <2>12, Zenon DEF StopChild
    <3>3. QED
      BY <3>1, <3>2
  <2>13. CASE StopUninstall
    <3>1. FlagsOK'
      BY <2>13, Zenon DEF FlagsOK, StopUninstall, FreeChildResources
    <3>2. QED
      BY <2>13, <3>1 DEF StopUninstall, FreeChildResources
  <2>14. CASE StopRestore
    <3>1. FlagsOK'
      BY <2>14, Zenon DEF FlagsOK, StopRestore, Restore, RestoreFails
    <3>2. QED
      BY <2>14, <3>1 DEF StopRestore, Restore, RestoreFails
  <2>15. CASE StopParent
    <3>1. FlagsOK'
      BY <2>15, Zenon DEF FlagsOK, StopParent, Restore, RestoreFails
    <3>2. QED
      BY <2>15, <3>1 DEF StopParent, Restore, RestoreFails
  <2>16. CASE StopRelease
    <3>1. FlagsOK'
      BY <2>16, Zenon DEF FlagsOK, StopRelease
    <3>2. parent' \subseteq Protocols
      BY <2>16 DEF StopRelease
    <3>3. QED
      BY <2>16, <3>1, <3>2 DEF StopRelease
  <2>17. CASE \E m \in Modes : SetMode(m)
    <3>1. FlagsOK'
      BY <2>17, Zenon DEF FlagsOK, SetMode
    <3>2. QED
      BY <2>17, <3>1 DEF SetMode
  <2>18. CASE ConfigureStatic
    <3>1. FlagsOK'
      BY <2>18, Zenon DEF FlagsOK, ConfigureStatic, StageFails
    <3>2. QED
      BY <2>18, <3>1 DEF ConfigureStatic, StageFails
  <2>19. CASE ConfigureClock
    <3>1. FlagsOK'
      BY <2>19, Zenon DEF FlagsOK, ConfigureClock, ProgramStage, StageFails
    <3>2. QED
      BY <2>19, <3>1 DEF ConfigureClock, ProgramStage, StageFails
  <2>20. CASE ConfigureVdma
    <3>1. FlagsOK'
      BY <2>20, Zenon DEF FlagsOK, ConfigureVdma, ProgramStage, StageFails
    <3>2. QED
      BY <2>20, <3>1 DEF ConfigureVdma, ProgramStage, StageFails
  <2>21. CASE ConfigureVtc
    <3>1. FlagsOK'
      BY <2>21, Zenon DEF FlagsOK, ConfigureVtc, ProgramStage, StageFails
    <3>2. QED
      BY <2>21, <3>1 DEF ConfigureVtc, ProgramStage, StageFails
  <2>22. CASE SetInfo
    <3>1. FlagsOK'
      BY <2>22, Zenon DEF FlagsOK, SetInfo
    <3>2. QED
      BY <2>22, <3>1 DEF SetInfo
  <2>23. CASE SetCurrent
    <3>1. FlagsOK'
      BY <2>23, Zenon DEF FlagsOK, SetCurrent
    <3>2. QED
      BY <2>23, <3>1 DEF SetCurrent
  <2>24. CASE SetFill
    <3>1. FlagsOK'
      BY <2>24, Zenon DEF FlagsOK, SetFill
    <3>2. QED
      BY <2>24, <3>1 DEF SetFill
  <2>25. CASE Blt
    <3>1. FlagsOK'
      BY <2>25, Zenon DEF FlagsOK, Blt
    <3>2. QED
      BY <2>25, <3>1 DEF Blt
  <2>26. CASE UNCHANGED vars
    <3>1. FlagsOK'
      BY <2>26, Zenon DEF FlagsOK, vars
    <3>2. QED
      BY <2>26, <3>1 DEF vars
  <2>27. QED
    BY <2>1, <2>2, <2>3, <2>4, <2>5, <2>6, <2>7, <2>8, <2>9, <2>10, <2>11,
       <2>12, <2>13, <2>14, <2>15, <2>16, <2>17, <2>18, <2>19, <2>20, <2>21,
       <2>22, <2>23, <2>24, <2>25, <2>26 DEF Next, StartStep, StopStep, SetStep,
     StopRefused
<1>3. QED
  BY <1>1, <1>2, PTL DEF Spec

(* Every step keeps track of who holds the controller. *)
LEMMA HandlesStep ==
  ASSUME TypeOK, HandlesInv, [Next]_vars
  PROVE  HandlesInv'
<1> USE DEF TypeOK, HandlesInv, StartPcs, StopPcs, SetPcs, Protocols, Pcs
<1>1. CASE \E end \in BOOLEAN : StartOpen(end)
  <2>1. \/ marker /\ pc' = "save" /\ parent' = parent /\ ~child
        \/ ~marker /\ pc' = "path" /\ parent' = {"pciio"}
        \/ ~marker /\ pc' = "idle" /\ parent' = parent
    BY <1>1, Zenon DEF StartOpen, Supported
  <2>2. pc = "idle" /\ UNCHANGED <<marker, child, childOpen>>
    BY <1>1, Zenon DEF StartOpen
  <2>3. QED
    BY <2>1, <2>2
<1>2. CASE StartPath
  BY <1>2 DEF StartPath
<1>3. CASE StartPrivate
  BY <1>3 DEF StartPrivate
<1>4. CASE StartSave
  BY <1>4 DEF StartSave
<1>5. CASE StartEnable
  BY <1>5 DEF StartEnable
<1>6. CASE StartContext
  BY <1>6 DEF StartContext
<1>7. CASE StartInstall
  BY <1>7 DEF StartInstall, InstallWith
<1>8. CASE StartChild
  <2>1. pc = "child" /\ UNCHANGED <<marker, parent>>
    BY <1>8, Zenon DEF StartChild
  <2>2. CASE pc' = "idle" /\ UNCHANGED child
    BY <2>1, <2>2
  <2>3. CASE pc' = "failed" /\ child' = FALSE /\ UNCHANGED childOpen
    <3>1. ~childOpen' /\ ~child'
      BY <2>1, <2>3
    <3>2. QED
      BY <2>1, <2>3, <3>1
  <2>4. QED
    BY <1>8, <2>2, <2>3, Zenon DEF StartChild
<1>9. CASE StartFailed
  BY <1>9 DEF StartFailed, Restore, RestoreFails, FreeChildResources
<1>10. CASE StartUnmark
  BY <1>10 DEF StartUnmark
<1>11. CASE StartClose
  BY <1>11 DEF StartClose
<1>12. CASE StopChild
  BY <1>12 DEF StopChild
<1>13. CASE StopUninstall
  BY <1>13 DEF StopUninstall, FreeChildResources
<1>14. CASE StopRestore
  BY <1>14 DEF StopRestore, Restore, RestoreFails
<1>15. CASE StopParent
  BY <1>15 DEF StopParent, Restore, RestoreFails
<1>16. CASE StopRelease
  BY <1>16 DEF StopRelease
<1>17. CASE \E m \in Modes : SetMode(m)
  BY <1>17 DEF SetMode
<1>18. CASE ConfigureStatic
  BY <1>18 DEF ConfigureStatic, StageFails
<1>19. CASE ConfigureClock
  BY <1>19 DEF ConfigureClock, ProgramStage, StageFails
<1>20. CASE ConfigureVdma
  BY <1>20 DEF ConfigureVdma, ProgramStage, StageFails
<1>21. CASE ConfigureVtc
  BY <1>21 DEF ConfigureVtc, ProgramStage, StageFails
<1>22. CASE SetInfo
  BY <1>22 DEF SetInfo
<1>23. CASE SetCurrent
  BY <1>23 DEF SetCurrent
<1>24. CASE SetFill
  BY <1>24 DEF SetFill
<1>25. CASE Blt
  BY <1>25 DEF Blt
<1>26. CASE UNCHANGED vars
  BY <1>26 DEF vars
<1>27. QED
  BY <1>1, <1>2, <1>3, <1>4, <1>5, <1>6, <1>7, <1>8, <1>9, <1>10, <1>11, <1>12,
     <1>13, <1>14, <1>15, <1>16, <1>17, <1>18, <1>19, <1>20, <1>21, <1>22,
     <1>23, <1>24, <1>25, <1>26 DEF Next, StartStep, StopStep, SetStep,
     StopRefused

(* Every step accounts for the Command word that was borrowed. *)
LEMMA OwedStep ==
  ASSUME TypeOK, HandlesInv, OwedInv, [Next]_vars
  PROVE  OwedInv'
<1> USE DEF TypeOK, HandlesInv, OwedInv, StartPcs, StopPcs, SetPcs
<1>1. CASE \E end \in BOOLEAN : StartOpen(end)
  BY <1>1 DEF StartOpen, Supported
<1>2. CASE StartPath
  BY <1>2 DEF StartPath
<1>3. CASE StartPrivate
  BY <1>3 DEF StartPrivate
<1>4. CASE StartSave
  <2>1. CASE Fails /\ UNCHANGED <<saved, orig, entry, resaved>> /\ Go("failed")
    BY <1>4, <2>1 DEF StartSave
  <2>2. CASE pc' = "enable"
    <3>1. (IF saved' THEN orig' ELSE cmd') = entry' \/ resaved'
      BY <1>4, <2>2, Zenon DEF StartSave, FlagsOK
    <3>2. pc = "save" /\ saved' = TRUE /\ UNCHANGED <<marker, child, cmd, context>>
      BY <1>4, <2>2, Zenon DEF StartSave
    <3>3. QED
      BY <2>2, <3>1, <3>2
  <2>3. QED
    BY <1>4, <2>1, <2>2 DEF StartSave
<1>5. CASE StartEnable
  BY <1>5 DEF StartEnable
<1>6. CASE StartContext
  BY <1>6 DEF StartContext
<1>7. CASE StartInstall
  BY <1>7 DEF StartInstall, InstallWith
<1>8. CASE StartChild
  BY <1>8 DEF StartChild
<1>9. CASE StartFailed
  BY <1>9 DEF StartFailed, Restore, RestoreFails, FreeChildResources
<1>10. CASE StartUnmark
  BY <1>10 DEF StartUnmark
<1>11. CASE StartClose
  BY <1>11 DEF StartClose
<1>12. CASE StopChild
  BY <1>12 DEF StopChild
<1>13. CASE StopUninstall
  BY <1>13 DEF StopUninstall, FreeChildResources
<1>14. CASE StopRestore
  BY <1>14 DEF StopRestore, Restore, RestoreFails
<1>15. CASE StopParent
  BY <1>15 DEF StopParent, Restore, RestoreFails
<1>16. CASE StopRelease
  BY <1>16 DEF StopRelease
<1>17. CASE \E m \in Modes : SetMode(m)
  BY <1>17 DEF SetMode
<1>18. CASE ConfigureStatic
  BY <1>18 DEF ConfigureStatic, StageFails
<1>19. CASE ConfigureClock
  BY <1>19 DEF ConfigureClock, ProgramStage, StageFails
<1>20. CASE ConfigureVdma
  BY <1>20 DEF ConfigureVdma, ProgramStage, StageFails
<1>21. CASE ConfigureVtc
  BY <1>21 DEF ConfigureVtc, ProgramStage, StageFails
<1>22. CASE SetInfo
  BY <1>22 DEF SetInfo
<1>23. CASE SetCurrent
  BY <1>23 DEF SetCurrent
<1>24. CASE SetFill
  BY <1>24 DEF SetFill
<1>25. CASE Blt
  BY <1>25 DEF Blt
<1>26. CASE UNCHANGED vars
  BY <1>26 DEF vars
<1>27. QED
  BY <1>1, <1>2, <1>3, <1>4, <1>5, <1>6, <1>7, <1>8, <1>9, <1>10, <1>11, <1>12,
     <1>13, <1>14, <1>15, <1>16, <1>17, <1>18, <1>19, <1>20, <1>21, <1>22,
     <1>23, <1>24, <1>25, <1>26 DEF Next, StartStep, StopStep, SetStep,
     StopRefused

(* Every step of SetMode() adds its part; no other undoes one. *)
LEMMA ModeStep ==
  ASSUME TypeOK, HandlesInv, ModeInv, [Next]_vars
  PROVE  ModeInv'
<1> USE ModesAssumption
    DEF TypeOK, HandlesInv, ModeInv, StartPcs, StopPcs, SetPcs, Stages
<1>1. CASE \E end \in BOOLEAN : StartOpen(end)
  BY <1>1 DEF StartOpen, Supported
<1>2. CASE StartPath
  BY <1>2 DEF StartPath
<1>3. CASE StartPrivate
  BY <1>3 DEF StartPrivate
<1>4. CASE StartSave
  BY <1>4 DEF StartSave
<1>5. CASE StartEnable
  BY <1>5 DEF StartEnable
<1>6. CASE StartContext
  BY <1>6 DEF StartContext
<1>7. CASE StartInstall
  BY <1>7 DEF StartInstall, InstallWith
<1>8. CASE StartChild
  BY <1>8 DEF StartChild
<1>9. CASE StartFailed
  BY <1>9 DEF StartFailed, Restore, RestoreFails, FreeChildResources
<1>10. CASE StartUnmark
  BY <1>10 DEF StartUnmark
<1>11. CASE StartClose
  BY <1>11 DEF StartClose
<1>12. CASE StopChild
  BY <1>12 DEF StopChild
<1>13. CASE StopUninstall
  BY <1>13 DEF StopUninstall, FreeChildResources
<1>14. CASE StopRestore
  BY <1>14 DEF StopRestore, Restore, RestoreFails
<1>15. CASE StopParent
  BY <1>15 DEF StopParent, Restore, RestoreFails
<1>16. CASE StopRelease
  BY <1>16 DEF StopRelease
<1>17. CASE \E m \in Modes : SetMode(m)
  BY <1>17 DEF SetMode
<1>18. CASE ConfigureStatic
  BY <1>18 DEF ConfigureStatic, StageFails
<1>19. CASE ConfigureClock
  BY <1>19 DEF ConfigureClock, ProgramStage, StageFails
<1>20. CASE ConfigureVdma
  BY <1>20 DEF ConfigureVdma, ProgramStage, StageFails
<1>21. CASE ConfigureVtc
  BY <1>21 DEF ConfigureVtc, ProgramStage, StageFails
<1>22. CASE SetInfo
  BY <1>22 DEF SetInfo
<1>23. CASE SetCurrent
  BY <1>23 DEF SetCurrent
<1>24. CASE SetFill
  BY <1>24 DEF SetFill
<1>25. CASE Blt
  BY <1>25 DEF Blt
<1>26. CASE UNCHANGED vars
  BY <1>26 DEF vars
<1>27. QED
  BY <1>1, <1>2, <1>3, <1>4, <1>5, <1>6, <1>7, <1>8, <1>9, <1>10, <1>11, <1>12,
     <1>13, <1>14, <1>15, <1>16, <1>17, <1>18, <1>19, <1>20, <1>21, <1>22,
     <1>23, <1>24, <1>25, <1>26 DEF Next, StartStep, StopStep, SetStep,
     StopRefused

LEMMA GopInvariance == Spec => []Inv
<1>1. Init => Inv
  BY DEF Init, Inv, HandlesInv, OwedInv, ModeInv, StartPcs, StopPcs, SetPcs
<1>2. TypeOK /\ Inv /\ [Next]_vars => Inv'
  BY HandlesStep, OwedStep, ModeStep DEF Inv
<1>3. QED
  BY <1>1, <1>2, GopTypeCorrect, PTL DEF Spec

-----------------------------------------------------------------------------
(* The driver holds all of a state or none of it between any two calls,    *)
(* whichever firmware calls fail.                                          *)
THEOREM GopDriverWhole == Spec => []DriverWhole
<1>1. Inv => DriverWhole
  BY DEF Inv, HandlesInv, OwedInv, DriverWhole
<1>2. QED
  BY <1>1, GopInvariance, PTL

(* What is no longer owed has been given back, unless it was saved twice.  *)
THEOREM GopEntryRestored == Spec => []EntryRestored
<1>1. Inv => EntryRestored
  BY DEF Inv, OwedInv, EntryRestored
<1>2. QED
  BY <1>1, GopInvariance, PTL

(* The mode reported is the mode programmed and drawn, after any history.  *)
THEOREM GopModeIsShown == Spec => []ModeIsShown
<1>1. Inv => ModeIsShown
  BY DEF Inv, ModeInv, ModeIsShown, SetPcs
<1>2. QED
  BY <1>1, GopInvariance, PTL

(* No step programs a stage or draws while memory decode may be off.       *)
THEOREM GopMmioDecoded == Spec => MmioDecoded
<1>1. Inv /\ [Next]_vars => [hw' # hw \/ drawn' # drawn => cmd]_vars
  <2> SUFFICES ASSUME Inv, [Next]_vars, hw' # hw \/ drawn' # drawn
               PROVE  cmd
    OBVIOUS
  <2> USE DEF Inv, HandlesInv, OwedInv, SetPcs
  <2>1. CASE \E end \in BOOLEAN : StartOpen(end)
    BY <2>1 DEF StartOpen, Supported
  <2>2. CASE StartPath
    BY <2>2 DEF StartPath
  <2>3. CASE StartPrivate
    BY <2>3 DEF StartPrivate
  <2>4. CASE StartSave
    BY <2>4 DEF StartSave
  <2>5. CASE StartEnable
    BY <2>5 DEF StartEnable
  <2>6. CASE StartContext
    BY <2>6 DEF StartContext
  <2>7. CASE StartInstall
    BY <2>7 DEF StartInstall, InstallWith
  <2>8. CASE StartChild
    BY <2>8 DEF StartChild
  <2>9. CASE StartFailed
    BY <2>9 DEF StartFailed, Restore, RestoreFails, FreeChildResources
  <2>10. CASE StartUnmark
    BY <2>10 DEF StartUnmark
  <2>11. CASE StartClose
    BY <2>11 DEF StartClose
  <2>12. CASE StopChild
    BY <2>12 DEF StopChild
  <2>13. CASE StopUninstall
    BY <2>13 DEF StopUninstall, FreeChildResources
  <2>14. CASE StopRestore
    BY <2>14 DEF StopRestore, Restore, RestoreFails
  <2>15. CASE StopParent
    BY <2>15 DEF StopParent, Restore, RestoreFails
  <2>16. CASE StopRelease
    BY <2>16 DEF StopRelease
  <2>17. CASE \E m \in Modes : SetMode(m)
    BY <2>17 DEF SetMode
  <2>18. CASE ConfigureStatic
    BY <2>18 DEF ConfigureStatic, StageFails
  <2>19. CASE ConfigureClock
    BY <2>19 DEF ConfigureClock, ProgramStage, StageFails
  <2>20. CASE ConfigureVdma
    BY <2>20 DEF ConfigureVdma, ProgramStage, StageFails
  <2>21. CASE ConfigureVtc
    BY <2>21 DEF ConfigureVtc, ProgramStage, StageFails
  <2>22. CASE SetInfo
    BY <2>22 DEF SetInfo
  <2>23. CASE SetCurrent
    BY <2>23 DEF SetCurrent
  <2>24. CASE SetFill
    BY <2>24 DEF SetFill
  <2>25. CASE Blt
    BY <2>25 DEF Blt
  <2>26. CASE UNCHANGED vars
    BY <2>26 DEF vars
  <2>27. QED
    BY <2>1, <2>2, <2>3, <2>4, <2>5, <2>6, <2>7, <2>8, <2>9, <2>10, <2>11,
       <2>12, <2>13, <2>14, <2>15, <2>16, <2>17, <2>18, <2>19, <2>20, <2>21,
       <2>22, <2>23, <2>24, <2>25, <2>26 DEF Next, StartStep, StopStep, SetStep,
     StopRefused
<1>2. QED
  BY <1>1, GopInvariance, PTL DEF Spec, MmioDecoded
=============================================================================
