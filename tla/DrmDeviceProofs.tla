-------------------------- MODULE DrmDeviceProofs ---------------------------
(***************************************************************************)
(* The display driver, for any number of probes, modes, commits and        *)
(* failures: its types, that it is a proper client of the XDMA library and *)
(* so has the theorems of XdmaDeviceProofs, and on top of them that        *)
(* registers are written through mapped BARs only, that uploads have a     *)
(* device and that a pipe that is on shows its mode.                       *)
(***************************************************************************)
EXTENDS DrmDeviceInv, XdmaDeviceProofs, FiniteSetTheorems, SequenceTheorems

USE DEF shared, devVars, coreVars, kmsVars, fileVars, libVars, Works, Fails,
        KeepLib, At, CoreTo

(* The driver's own variables keep their types, and every commit under way *)
(* has a caller that waits for it.                                         *)
LEMMA CallersHold == Spec => [](FieldsOK /\ CallerInv)
<1> DEFINE Inv1 == FieldsOK /\ CallerInv
<1> USE CommitsAssumption, ModesAssumption, DevsAssumption
    DEF FieldsOK, CallerInv, Programming, CoreSteps, KmsSteps, Blocks,
       StaticBlocks
<1>1. Init => Inv1
  BY DEF Init
<1>2. Inv1 /\ [Next]_vars => Inv1'
  <2> SUFFICES ASSUME Inv1, [Next]_vars PROVE Inv1'
    OBVIOUS
  <2>1. CASE AllocFrameBuffers
    BY <2>1 DEF AllocFrameBuffers
  <2>2. CASE OpenXdma
    BY <2>2 DEF OpenXdma, OpenCall, Step, Fixed
  <2>3. CASE OpenedXdma
    BY <2>3 DEF OpenedXdma, OpenedWith, CloseCall, Step, Fixed
  <2>4. CASE ClosedXdma
    BY <2>4 DEF ClosedXdma
  <2>5. CASE ValidateHwContract
    BY <2>5 DEF ValidateHwContract, ProbeCheck
  <2>6. CASE ConfigVideoLockGpio
    BY <2>6 DEF ConfigVideoLockGpio, StaticBlock
  <2>7. CASE ConfigPixelUnpack
    BY <2>7 DEF ConfigPixelUnpack, StaticBlock
  <2>8. CASE ConfigColorConvert
    BY <2>8 DEF ConfigColorConvert, StaticBlock
  <2>9. CASE ConfigIicHdmi
    BY <2>9 DEF ConfigIicHdmi, StaticBlock
  <2>10. CASE DdrScratchTest
    BY <2>10 DEF DdrScratchTest, ProbeCheck
  <2>11. CASE ModesetInit
    BY <2>11 DEF ModesetInit, ProbeCheck
  <2>12. CASE DevRegister
    BY <2>12 DEF DevRegister
  <2>13. CASE DevresRelease
    BY <2>13 DEF DevresRelease
  <2>14. CASE Remove
    BY <2>14 DEF Remove
  <2>15. CASE RemoveShutdown
    BY <2>15 DEF RemoveShutdown, Commit
  <2>16. CASE RemoveStops
    BY <2>16 DEF RemoveStops
  <2>17. CASE Shutdown
    BY <2>17 DEF Shutdown, Commit
  <2>18. ASSUME NEW d \in Devs, DeviceStep(d) PROVE Inv1'
    <3>1. CASE Probe(d)
      BY <3>1 DEF Probe
    <3>2. CASE Release(d)
      BY <3>2 DEF Release, Unused, CloseCall, Step, Fixed
    <3>3. CASE LibraryStep(d)
      BY <3>3 DEF LibraryStep
    <3>4. CASE AtomicDisable(d)
      BY <3>4 DEF AtomicDisable, KmsStep, KeepKms
    <3>5. CASE DisableStops(d)
      BY <3>5 DEF DisableStops, KmsStep, KeepKms
    <3>6. CASE EnableStops(d)
      BY <3>6 DEF EnableStops, KmsStep, KeepKms
    <3>7. CASE ConfigClkWiz(d)
      BY <3>7 DEF ConfigClkWiz, ProgramBlock, KmsStep, KeepKms
    <3>8. CASE ConfigVdma(d)
      BY <3>8 DEF ConfigVdma, ProgramBlock, KmsStep, KeepKms
    <3>9. CASE ConfigVtc(d)
      BY <3>9 DEF ConfigVtc, ProgramBlock, KmsStep, KeepKms
    <3>10. CASE ProgramConfirm(d)
      BY <3>10 DEF ProgramConfirm, KmsStep, KeepKms
    <3>11. CASE EnablePipe(d)
      BY <3>11 DEF EnablePipe, KmsStep, KeepKms
    <3>12. CASE CommitDone(d)
      BY <3>12 DEF CommitDone, KmsStep
    <3>13. CASE OpenFile(d)
      BY <3>13 DEF OpenFile, FileTo
    <3>14. CASE EnterIoctl(d)
      BY <3>14 DEF EnterIoctl, FileTo
    <3>15. CASE CloseFile(d)
      BY <3>15 DEF CloseFile, FileTo
    <3>16. CASE RemoveFbs(d)
      BY <3>16 DEF RemoveFbs, FileTo, Commit
    <3>17. CASE \E m \in Modes \cup {None} : UserCommit(d, m)
      BY <3>17 DEF UserCommit, FileTo, Commit
    <3>18. CASE Upload(d)
      BY <3>18 DEF Upload
    <3>19. CASE DmaComplete(d)
      BY <3>19 DEF DmaComplete
    <3>20. QED
      BY <2>18, <3>1, <3>2, <3>3, <3>4, <3>5, <3>6, <3>7, <3>8, <3>9, <3>10,
         <3>11, <3>12, <3>13, <3>14, <3>15, <3>16, <3>17, <3>18, <3>19 DEF
         DeviceStep, CommitStep, FileStep
  <2>19. CASE UNCHANGED vars
    BY <2>19 DEF vars
  <2>20. QED
    BY <2>1, <2>2, <2>3, <2>4, <2>5, <2>6, <2>7, <2>8, <2>9, <2>10, <2>11,
       <2>12, <2>13, <2>14, <2>15, <2>16, <2>17, <2>18, <2>19 DEF Next,
       ProbeStep, RemoveStep, DeviceStep
<1>3. QED
  BY <1>1, <1>2, PTL DEF Spec

-----------------------------------------------------------------------------
(* Every step of the driver, the KMS core or the file is a step of the     *)
(* library, the call of an open or a close that is due, or none of its     *)
(* business.                                                               *)
THEOREM DrmUsesLibrary == Spec => Library
<1>1. Init => LibInit
  BY DEF Init
<1>2. FieldsOK /\ [Next]_vars => [LibNext]_shared
  <2> SUFFICES ASSUME FieldsOK, [Next]_vars PROVE [LibNext]_shared
    OBVIOUS
  <2>1. CASE AllocFrameBuffers
    BY <2>1 DEF AllocFrameBuffers
  <2>2. CASE OpenXdma
    BY <2>2 DEF FieldsOK, LibNext, OpenXdma
  <2>3. CASE OpenedXdma
    BY <2>3 DEF FieldsOK, LibNext, OpenedXdma, OpenedWith
  <2>4. CASE ClosedXdma
    BY <2>4 DEF ClosedXdma
  <2>5. CASE ValidateHwContract
    BY <2>5 DEF ValidateHwContract, ProbeCheck
  <2>6. CASE ConfigVideoLockGpio
    BY <2>6 DEF ConfigVideoLockGpio, StaticBlock
  <2>7. CASE ConfigPixelUnpack
    BY <2>7 DEF ConfigPixelUnpack, StaticBlock
  <2>8. CASE ConfigColorConvert
    BY <2>8 DEF ConfigColorConvert, StaticBlock
  <2>9. CASE ConfigIicHdmi
    BY <2>9 DEF ConfigIicHdmi, StaticBlock
  <2>10. CASE DdrScratchTest
    BY <2>10 DEF DdrScratchTest, ProbeCheck
  <2>11. CASE ModesetInit
    BY <2>11 DEF ModesetInit, ProbeCheck
  <2>12. CASE DevRegister
    BY <2>12 DEF DevRegister
  <2>13. CASE DevresRelease
    BY <2>13 DEF DevresRelease
  <2>14. CASE Remove
    BY <2>14 DEF Remove
  <2>15. CASE RemoveShutdown
    BY <2>15 DEF RemoveShutdown, Commit
  <2>16. CASE RemoveStops
    BY <2>16 DEF RemoveStops
  <2>17. CASE Shutdown
    BY <2>17 DEF Shutdown, Commit
  <2>18. ASSUME NEW d \in Devs, DeviceStep(d) PROVE [LibNext]_shared
    <3>1. CASE Probe(d)
      BY <3>1 DEF Probe
    <3>2. CASE Release(d)
      BY <3>2 DEF Release, LibNext
    <3>3. CASE LibraryStep(d)
      BY <3>3 DEF LibraryStep, LibNext
    <3>4. CASE AtomicDisable(d)
      BY <3>4 DEF AtomicDisable, KmsStep, KeepKms
    <3>5. CASE DisableStops(d)
      BY <3>5 DEF DisableStops, KmsStep, KeepKms
    <3>6. CASE EnableStops(d)
      BY <3>6 DEF EnableStops, KmsStep, KeepKms
    <3>7. CASE ConfigClkWiz(d)
      BY <3>7 DEF ConfigClkWiz, ProgramBlock, KeepKms, KmsStep
    <3>8. CASE ConfigVdma(d)
      BY <3>8 DEF ConfigVdma, ProgramBlock, KeepKms, KmsStep
    <3>9. CASE ConfigVtc(d)
      BY <3>9 DEF ConfigVtc, ProgramBlock, KeepKms, KmsStep
    <3>10. CASE ProgramConfirm(d)
      BY <3>10 DEF ProgramConfirm, KeepKms, KmsStep
    <3>11. CASE EnablePipe(d)
      BY <3>11 DEF EnablePipe, KeepKms, KmsStep
    <3>12. CASE CommitDone(d)
      BY <3>12 DEF CommitDone, KmsStep
    <3>13. CASE OpenFile(d)
      BY <3>13 DEF OpenFile
    <3>14. CASE EnterIoctl(d)
      BY <3>14 DEF EnterIoctl
    <3>15. CASE CloseFile(d)
      BY <3>15 DEF CloseFile
    <3>16. CASE RemoveFbs(d)
      BY <3>16 DEF RemoveFbs, Commit
    <3>17. CASE \E m \in Modes \cup {None} : UserCommit(d, m)
      BY <3>17 DEF Commit, UserCommit
    <3>18. CASE Upload(d)
      BY <3>18 DEF Upload
    <3>19. CASE DmaComplete(d)
      BY <3>19 DEF DmaComplete
    <3>20. QED
      BY <2>18, <3>1, <3>2, <3>3, <3>4, <3>5, <3>6, <3>7, <3>8, <3>9, <3>10,
         <3>11, <3>12, <3>13, <3>14, <3>15, <3>16, <3>17, <3>18, <3>19 DEF
         DeviceStep, CommitStep, FileStep
  <2>19. CASE UNCHANGED vars
    BY <2>19 DEF vars
  <2>20. QED
    BY <2>1, <2>2, <2>3, <2>4, <2>5, <2>6, <2>7, <2>8, <2>9, <2>10, <2>11,
       <2>12, <2>13, <2>14, <2>15, <2>16, <2>17, <2>18, <2>19 DEF Next,
       ProbeStep, RemoveStep, DeviceStep
<1>3. QED
  BY <1>1, <1>2, CallersHold, PTL DEF Spec, Library, LibSpec

(* A failed probe, an unbind with files open and a rebind meanwhile leave  *)
(* nothing of a structure behind but what NothingLeft excepts.             *)
THEOREM DrmNothingLeft == Spec => []NothingLeft
  BY DrmUsesLibrary, DeviceNothingLeft, PTL DEF Library

(* While the display driver uses the device, nothing it opened is taken    *)
(* away by another probe of the function.                                  *)
THEOREM DrmOpenWhole == Spec => []OpenWhole
  BY DrmUsesLibrary, DeviceOpenWhole, PTL DEF Library

(* Engines and handlers never outlive what they use, but for the handlers  *)
(* irq_setup() left behind.                                                *)
THEOREM DrmUsedIsThere == Spec => []UsedIsThere
  BY DrmUsesLibrary, DeviceUsedIsThere, PTL DEF Library

-----------------------------------------------------------------------------
(* The channels of a device are two, so losing some counts as faults.      *)
LEMMA ChansFinite == IsFiniteSet(Chans)
<1>1. IsFiniteSet({} \cup {"h2c"})
  BY FS_EmptySet, FS_AddElement
<1>2. IsFiniteSet(({} \cup {"h2c"}) \cup {"c2h"})
  BY <1>1, FS_AddElement
<1>3. Chans = ({} \cup {"h2c"}) \cup {"c2h"}
  BY DEF Chans
<1>4. QED
  BY <1>2, <1>3

(* A step of the library's open and close is in the middle of one, and     *)
(* leaves the other structures where they are.                             *)
LEMMA LibStepAt ==
  ASSUME NEW d \in Devs, DevTypeOK, LibStep(d)
  PROVE  /\ pc[d] \notin {"none", "open", "gone"} /\ pc'[d] # "none"
         /\ \A e \in Devs : e # d => pc'[e] = pc[e] /\ engines'[e] = engines[e]
         /\ faults \in 0 .. MaxFaults => faults' \in 0 .. MaxFaults
<1> USE FaultsAssumption DEF DevTypeOK, Step, Fixed, Take, Drop
<1>1. CASE AllocDevInstance(d)
  BY <1>1 DEF AllocDevInstance
<1>2. CASE XdevListAdd(d)
  BY <1>2 DEF XdevListAdd
<1>3. CASE EnableDevice(d)
  BY <1>3 DEF EnableDevice
<1>4. CASE RequestRegions(d)
  BY <1>4 DEF RequestRegions
<1>5. CASE MapBars(d)
  BY <1>5 DEF MapBars
<1>6. CASE SetDmaMask(d)
  BY <1>6 DEF SetDmaMask
<1>7. CASE ProbeEngines(d)
  <2>1. PICK lost \in SUBSET Chans :
          /\ engines' = [engines EXCEPT ![d] = Chans \ lost]
          /\ faults' = faults + Cardinality(lost) /\ faults' <= MaxFaults
    BY <1>7 DEF ProbeEngines
  <2>2. Cardinality(lost) \in Nat
    BY ChansFinite, FS_Subset, FS_CardinalityType
  <2>3. Step(d, "engines", "vectors")
    BY <1>7 DEF ProbeEngines
  <2>4. QED
    BY <2>1, <2>2, <2>3
<1>8. CASE EnableMsiMsix(d)
  BY <1>8 DEF EnableMsiMsix
<1>9. CASE IrqSetup(d)
  BY <1>9 DEF IrqSetup
<1>10. CASE OpenFinish(d)
  BY <1>10 DEF OpenFinish
<1>11. CASE IrqTeardown(d)
  BY <1>11 DEF IrqTeardown
<1>12. CASE DisableMsiMsix(d)
  BY <1>12 DEF DisableMsiMsix
<1>13. CASE RemoveEngines(d)
  BY <1>13 DEF RemoveEngines
<1>14. CASE UnmapBars(d)
  BY <1>14 DEF UnmapBars
<1>15. CASE ReleaseRegions(d)
  BY <1>15 DEF ReleaseRegions
<1>16. CASE DisableDevice(d)
  BY <1>16 DEF DisableDevice
<1>17. CASE XdevListRemove(d)
  BY <1>17 DEF XdevListRemove
<1>18. QED
  BY <1>1, <1>2, <1>3, <1>4, <1>5, <1>6, <1>7, <1>8, <1>9, <1>10, <1>11,
     <1>12, <1>13, <1>14, <1>15, <1>16, <1>17 DEF LibStep, OpenStep, CloseStep

(* The calls that fail stay within their bound. *)
LEMMA FaultsHold == Spec => [](faults \in 0 .. MaxFaults)
<1> DEFINE Inv2 == faults \in 0 .. MaxFaults
<1> USE FaultsAssumption
<1>1. Init => Inv2
  BY DEF Init, LibInit
<1>2. DevTypeOK /\ Inv2 /\ [Next]_vars => Inv2'
  <2> SUFFICES ASSUME DevTypeOK, Inv2, [Next]_vars PROVE Inv2'
    OBVIOUS
  <2>1. CASE AllocFrameBuffers
    BY <2>1 DEF AllocFrameBuffers
  <2>2. CASE OpenXdma
    BY <2>2 DEF OpenXdma, OpenCall, Step, Fixed
  <2>3. CASE OpenedXdma
    BY <2>3 DEF OpenedXdma, OpenedWith, CloseCall, Step, Fixed
  <2>4. CASE ClosedXdma
    BY <2>4 DEF ClosedXdma
  <2>5. CASE ValidateHwContract
    BY <2>5 DEF ValidateHwContract, ProbeCheck
  <2>6. CASE ConfigVideoLockGpio
    BY <2>6 DEF ConfigVideoLockGpio, StaticBlock
  <2>7. CASE ConfigPixelUnpack
    BY <2>7 DEF ConfigPixelUnpack, StaticBlock
  <2>8. CASE ConfigColorConvert
    BY <2>8 DEF ConfigColorConvert, StaticBlock
  <2>9. CASE ConfigIicHdmi
    BY <2>9 DEF ConfigIicHdmi, StaticBlock
  <2>10. CASE DdrScratchTest
    BY <2>10 DEF DdrScratchTest, ProbeCheck
  <2>11. CASE ModesetInit
    BY <2>11 DEF ModesetInit, ProbeCheck
  <2>12. CASE DevRegister
    BY <2>12 DEF DevRegister
  <2>13. CASE DevresRelease
    BY <2>13 DEF DevresRelease
  <2>14. CASE Remove
    BY <2>14 DEF Remove
  <2>15. CASE RemoveShutdown
    BY <2>15 DEF RemoveShutdown, Commit
  <2>16. CASE RemoveStops
    BY <2>16 DEF RemoveStops
  <2>17. CASE Shutdown
    BY <2>17 DEF Shutdown, Commit
  <2>18. ASSUME NEW d \in Devs, DeviceStep(d) PROVE Inv2'
    <3>1. CASE Probe(d)
      BY <3>1 DEF Probe
    <3>2. CASE Release(d)
      BY <3>2 DEF Release, Unused, CloseCall, Step, Fixed
    <3>3. CASE LibraryStep(d)
      BY <3>3, LibStepAt DEF LibraryStep
    <3>4. CASE AtomicDisable(d)
      BY <3>4 DEF AtomicDisable, KmsStep, KeepKms
    <3>5. CASE DisableStops(d)
      BY <3>5 DEF DisableStops, KmsStep, KeepKms
    <3>6. CASE EnableStops(d)
      BY <3>6 DEF EnableStops, KmsStep, KeepKms
    <3>7. CASE ConfigClkWiz(d)
      BY <3>7 DEF ConfigClkWiz, ProgramBlock, KmsStep, KeepKms
    <3>8. CASE ConfigVdma(d)
      BY <3>8 DEF ConfigVdma, ProgramBlock, KmsStep, KeepKms
    <3>9. CASE ConfigVtc(d)
      BY <3>9 DEF ConfigVtc, ProgramBlock, KmsStep, KeepKms
    <3>10. CASE ProgramConfirm(d)
      BY <3>10 DEF ProgramConfirm, KmsStep, KeepKms
    <3>11. CASE EnablePipe(d)
      BY <3>11 DEF EnablePipe, KmsStep, KeepKms
    <3>12. CASE CommitDone(d)
      BY <3>12 DEF CommitDone, KmsStep
    <3>13. CASE OpenFile(d)
      BY <3>13 DEF OpenFile, FileTo
    <3>14. CASE EnterIoctl(d)
      BY <3>14 DEF EnterIoctl, FileTo
    <3>15. CASE CloseFile(d)
      BY <3>15 DEF CloseFile, FileTo
    <3>16. CASE RemoveFbs(d)
      BY <3>16 DEF RemoveFbs, FileTo, Commit
    <3>17. CASE \E m \in Modes \cup {None} : UserCommit(d, m)
      BY <3>17 DEF UserCommit, FileTo, Commit
    <3>18. CASE Upload(d)
      BY <3>18 DEF Upload
    <3>19. CASE DmaComplete(d)
      BY <3>19 DEF DmaComplete
    <3>20. QED
      BY <2>18, <3>1, <3>2, <3>3, <3>4, <3>5, <3>6, <3>7, <3>8, <3>9, <3>10,
         <3>11, <3>12, <3>13, <3>14, <3>15, <3>16, <3>17, <3>18, <3>19 DEF
         DeviceStep, CommitStep, FileStep
  <2>19. CASE UNCHANGED vars
    BY <2>19 DEF vars
  <2>20. QED
    BY <2>1, <2>2, <2>3, <2>4, <2>5, <2>6, <2>7, <2>8, <2>9, <2>10, <2>11,
       <2>12, <2>13, <2>14, <2>15, <2>16, <2>17, <2>18, <2>19 DEF Next,
       ProbeStep, RemoveStep, DeviceStep
<1>3. QED
  BY <1>1, <1>2, DrmUsesLibrary, DeviceTypes, PTL DEF Spec, Library

(* The release list while the probe registers and the release runs.        *)
LEMMA DrmmSteps ==
  /\ Append(<<"buffers">>, "xdma") = <<"buffers", "xdma">>
  /\ SubSeq(<<"buffers">>, 1, 0) = <<>>
  /\ SubSeq(<<"buffers", "xdma">>, 1, 1) = <<"buffers">>
  /\ Len(<<"buffers">>) = 1 /\ Len(<<"buffers", "xdma">>) = 2
  /\ <<"buffers">>[1] = "buffers" /\ <<"buffers", "xdma">>[2] = "xdma"
  /\ <<>> # <<"buffers">> /\ <<>> # <<"buffers", "xdma">>
  /\ <<"buffers">> # <<"buffers", "xdma">>
<1> DEFINE S == {"buffers", "xdma"}
           a == Append(<<"buffers">>, "xdma")
           b == <<"buffers", "xdma">>
           c == SubSeq(b, 1, 1)
           e == <<"buffers">>
<1>1. /\ e \in Seq(S) /\ "xdma" \in S /\ Len(e) = 1 /\ e[1] = "buffers"
      /\ b \in Seq(S) /\ Len(b) = 2 /\ b[1] = "buffers" /\ b[2] = "xdma"
  OBVIOUS
<1>2. a \in Seq(S) /\ Len(a) = 2 /\ a[1] = "buffers" /\ a[2] = "xdma"
  <2>1. /\ Append(e, "xdma") \in Seq(S)
        /\ Len(Append(e, "xdma")) = Len(e) + 1
        /\ \A i \in 1 .. Len(e) : Append(e, "xdma")[i] = e[i]
        /\ Append(e, "xdma")[Len(e) + 1] = "xdma"
    BY <1>1, AppendProperties
  <2>2. QED
    BY <1>1, <2>1
<1>3. c \in Seq(S) /\ Len(c) = 1 /\ c[1] = "buffers"
  OBVIOUS
<1>4. a = b
  <2> HIDE DEF a, b
  <2>1. Len(a) = Len(b) /\ \A i \in 1 .. Len(a) : a[i] = b[i]
    BY <1>1, <1>2
  <2>2. QED
    BY <1>1, <1>2, <2>1, SeqEqual
<1>5. c = e
  <2> HIDE DEF c, e
  <2>1. Len(c) = Len(e) /\ \A i \in 1 .. Len(c) : c[i] = e[i]
    BY <1>1, <1>3
  <2>2. QED
    BY <1>1, <1>3, <2>1, SeqEqual
<1>6. SubSeq(<<"buffers">>, 1, 0) = <<>> /\ b # e /\ <<>> # e /\ <<>> # b
  OBVIOUS
<1>7. QED
  BY <1>1, <1>4, <1>5, <1>6

(* The probe works one device up, step by step, and only a device that is  *)
(* set up has files: whatever fails, and whatever the release of another   *)
(* device does meanwhile.                                                  *)
LEMMA ProbeHolds == Spec => [](DrmmOK /\ ProbeInv)
<1> DEFINE Inv3 == DrmmOK /\ ProbeInv
<1>1. Init => Inv3
  BY DEF Lists, Init, LibInit, DrmmOK, ProbeInv, Probed, Configured, Bound
<1>2. DevTypeOK /\ DevTypeOK' /\ FieldsOK /\ CallerInv /\ Inv3 /\ [Next]_vars
        => Inv3'
  <2> SUFFICES ASSUME DevTypeOK, DevTypeOK', FieldsOK, CallerInv, Inv3,
                      [Next]_vars PROVE Inv3'
    OBVIOUS
  <2>0. Lists' = Lists
    BY DEF Lists
  <2> USE <2>0, DevsAssumption DEF FieldsOK, CallerInv, DrmmOK, ProbeInv,
     DevTypeOK, Whole,
     Probed, Configured, Bound
  <2>1. CASE AllocFrameBuffers
    <3>1. <<"buffers">> \in Lists
      BY DEF Lists
    <3>2. DrmmOK'
      BY <2>1, <3>1 DEF AllocFrameBuffers
    <3>3. CASE CoreTo("open") /\ drmm' = [drmm EXCEPT ![cur] = <<"buffers">>]
      BY <2>1, <3>2, <3>3, DrmmSteps DEF AllocFrameBuffers
    <3>4. CASE CoreTo("failed")
      BY <2>1, <3>2, <3>4, DrmmSteps DEF AllocFrameBuffers
    <3>5. QED
      BY <2>1, <3>3, <3>4 DEF AllocFrameBuffers
  <2>2. CASE OpenXdma
    BY <2>2 DEF OpenXdma, OpenCall, Step, Fixed
  <2>3. CASE OpenedXdma
    <3>1. /\ At("opening") /\ cur \in Devs
          /\ UNCHANGED <<cur, ref, visible, kmsVars, fileVars>>
      BY <2>3 DEF OpenedXdma, OpenedWith
    <3>2. drmm[cur] = <<"buffers">> /\ ~Whole(cur)
      BY <2>3, <3>1, DrmmSteps
    <3>3. CASE core' = "failed" /\ KeepLib /\ UNCHANGED drmm
      BY <3>1, <3>2, <3>3
    <3>4. CASE /\ pc[cur] = "open" /\ "h2c" \in engines[cur]
               /\ core' = "contract"
               /\ drmm' = [drmm EXCEPT ![cur] = Append(drmm[cur], "xdma")]
               /\ KeepLib
      <4>1. drmm' = [drmm EXCEPT ![cur] = <<"buffers", "xdma">>]
        <5>1. Append(drmm[cur], "xdma") = <<"buffers", "xdma">>
          BY <3>2, DrmmSteps, Zenon
        <5>2. QED
          BY <3>4, <5>1, Zenon
      <4>2. DrmmOK'
        <5>1. <<"buffers", "xdma">> \in Lists
          BY DEF Lists
        <5>2. QED
          BY <4>1, <5>1
      <4>3. Whole(cur)'
        <5> DEFINE both == <<"buffers", "xdma">>
        <5>1. drmm' = [drmm EXCEPT ![cur] = both]
          BY <4>1
        <5>2. drmm'[cur] = both
          <6> HIDE DEF both
          <6>1. QED
            BY <5>1, <3>1
        <5>3. QED
          BY <3>1, <3>4, <5>2
      <4>4. \A d \in Devs : d # cur => (Whole(d) <=> Whole(d)')
        BY <3>1, <3>4, <4>1
      <4>5. QED
        BY <3>1, <3>2, <3>4, <4>2, <4>3, <4>4
    <3>5. CASE CloseCall(cur) /\ core' = "closing" /\ UNCHANGED drmm
      <4>1. \A d \in Devs : d # cur => (Whole(d) <=> Whole(d)')
        BY <3>1, <3>5 DEF CloseCall, Step, Fixed
      <4>2. DrmmOK'
        BY <3>5
      <4>3. QED
        BY <3>1, <3>2, <3>5, <4>1, <4>2
    <3>6. QED
      <4>1. \/ core' = "failed" /\ KeepLib /\ UNCHANGED drmm
            \/ /\ pc[cur] = "open" /\ "h2c" \in engines[cur]
               /\ core' = "contract"
               /\ drmm' = [drmm EXCEPT ![cur] = Append(drmm[cur], "xdma")]
               /\ KeepLib
            \/ CloseCall(cur) /\ core' = "closing" /\ UNCHANGED drmm
        BY <2>3, Zenon DEF OpenedXdma, OpenedWith
      <4>2. QED
        BY <3>3, <3>4, <3>5, <4>1
  <2>4. CASE ClosedXdma
    BY <2>4 DEF ClosedXdma
  <2>5. CASE ValidateHwContract
    BY <2>5 DEF ValidateHwContract, ProbeCheck
  <2>6. CASE ConfigVideoLockGpio
    BY <2>6 DEF ConfigVideoLockGpio, StaticBlock
  <2>7. CASE ConfigPixelUnpack
    BY <2>7 DEF ConfigPixelUnpack, StaticBlock
  <2>8. CASE ConfigColorConvert
    BY <2>8 DEF ConfigColorConvert, StaticBlock
  <2>9. CASE ConfigIicHdmi
    BY <2>9 DEF ConfigIicHdmi, StaticBlock
  <2>10. CASE DdrScratchTest
    BY <2>10 DEF DdrScratchTest, ProbeCheck
  <2>11. CASE ModesetInit
    BY <2>11 DEF ModesetInit, ProbeCheck
  <2>12. CASE DevRegister
    BY <2>12 DEF DevRegister
  <2>13. CASE DevresRelease
    BY <2>13 DEF DevresRelease
  <2>14. CASE Remove
    BY <2>14 DEF Remove
  <2>15. CASE RemoveShutdown
    BY <2>15 DEF RemoveShutdown, Commit
  <2>16. CASE RemoveStops
    BY <2>16 DEF RemoveStops
  <2>17. CASE Shutdown
    BY <2>17 DEF Shutdown, Commit
  <2>18. ASSUME NEW d \in Devs, DeviceStep(d) PROVE Inv3'
    <3>1. CASE Probe(d)
      BY <3>1 DEF Probe
    <3>2. CASE Release(d)
      <4>1. UNCHANGED <<core, cur, ref, visible, kmsVars, fileVars>>
        BY <3>2 DEF Release
      <4>2. file[d] = "none" /\ ~(core # "unbound" /\ cur = d)
        BY <3>2 DEF Release, Unused
      <4>3. CASE CloseCall(d) /\ UNCHANGED drmm
        BY <4>1, <4>2, <4>3 DEF CloseCall, Step, Fixed
      <4> DEFINE rest == SubSeq(drmm[d], 1, Len(drmm[d]) - 1)
      <4>4. CASE /\ drmm' = [drmm EXCEPT ![d] = rest]
                 /\ drmm[d] # <<>> /\ KeepLib
        <5>1. rest \in Lists
          <6>1. CASE drmm[d] = <<"buffers">>
            BY <6>1, DrmmSteps DEF Lists
          <6>2. CASE drmm[d] = <<"buffers", "xdma">>
            BY <6>2, DrmmSteps DEF Lists
          <6>3. QED
            BY <4>4, <6>1, <6>2 DEF Lists
        <5> HIDE DEF rest
        <5>2. DrmmOK'
          BY <4>4, <5>1
        <5>3. \A e \in Devs : e # d => drmm'[e] = drmm[e]
          BY <4>4
        <5>4. QED
          BY <4>1, <4>2, <4>4, <5>2, <5>3
      <4>5. QED
        <5>1. \/ CloseCall(d) /\ UNCHANGED drmm
              \/ /\ drmm' = [drmm EXCEPT ![d] = rest]
                 /\ drmm[d] # <<>> /\ KeepLib
          BY <3>2, Zenon DEF Release
        <5>2. QED
          BY <4>3, <4>4, <5>1
    <3>3. CASE LibraryStep(d)
      <4>1. UNCHANGED <<coreVars, kmsVars, fileVars>>
        BY <3>3 DEF LibraryStep
      <4>2. pc[d] \notin {"none", "open"}
        BY <3>3, LibStepAt DEF LibraryStep
      <4>3. \A e \in Devs : e # d => pc'[e] = pc[e] /\ engines'[e] = engines[e]
        BY <3>3, LibStepAt DEF LibraryStep
      <4>4. core \in Probed => cur \in Devs /\ Whole(cur)
        OBVIOUS
      <4>5. \A e \in Devs : Whole(e) => Whole(e)'
        BY <4>1, <4>2, <4>3
      <4>6. core \in {"buffers", "open"} => pc'[cur] = "none"
        BY <4>2, <4>3
      <4>7. DrmmOK'
        BY <4>1
      <4>8. QED
        BY <4>1, <4>4, <4>5, <4>6, <4>7, Zenon DEF FieldsOK, ProbeInv, Probed,
           Configured, Bound
    <3>4. CASE AtomicDisable(d)
      BY <3>4 DEF AtomicDisable, KmsStep, KeepKms
    <3>5. CASE DisableStops(d)
      BY <3>5 DEF DisableStops, KmsStep, KeepKms
    <3>6. CASE EnableStops(d)
      BY <3>6 DEF EnableStops, KmsStep, KeepKms
    <3>7. CASE ConfigClkWiz(d)
      BY <3>7 DEF ConfigClkWiz, ProgramBlock, KmsStep, KeepKms
    <3>8. CASE ConfigVdma(d)
      BY <3>8 DEF ConfigVdma, ProgramBlock, KmsStep, KeepKms
    <3>9. CASE ConfigVtc(d)
      BY <3>9 DEF ConfigVtc, ProgramBlock, KmsStep, KeepKms
    <3>10. CASE ProgramConfirm(d)
      BY <3>10 DEF ProgramConfirm, KmsStep, KeepKms
    <3>11. CASE EnablePipe(d)
      BY <3>11 DEF EnablePipe, KmsStep, KeepKms
    <3>12. CASE CommitDone(d)
      BY <3>12 DEF CommitDone, KmsStep
    <3>13. CASE OpenFile(d)
      BY <3>13 DEF OpenFile, FileTo
    <3>14. CASE EnterIoctl(d)
      BY <3>14 DEF EnterIoctl, FileTo
    <3>15. CASE CloseFile(d)
      BY <3>15 DEF CloseFile, FileTo
    <3>16. CASE RemoveFbs(d)
      BY <3>16 DEF RemoveFbs, FileTo, Commit
    <3>17. CASE \E m \in Modes \cup {None} : UserCommit(d, m)
      BY <3>17 DEF UserCommit, FileTo, Commit
    <3>18. CASE Upload(d)
      BY <3>18 DEF Upload
    <3>19. CASE DmaComplete(d)
      BY <3>19 DEF DmaComplete
    <3>20. QED
      BY <2>18, <3>1, <3>2, <3>3, <3>4, <3>5, <3>6, <3>7, <3>8, <3>9, <3>10,
         <3>11, <3>12, <3>13, <3>14, <3>15, <3>16, <3>17, <3>18, <3>19 DEF
         DeviceStep, CommitStep, FileStep
  <2>19. CASE UNCHANGED vars
    BY <2>19 DEF vars
  <2>20. QED
    BY <2>1, <2>2, <2>3, <2>4, <2>5, <2>6, <2>7, <2>8, <2>9, <2>10, <2>11,
       <2>12, <2>13, <2>14, <2>15, <2>16, <2>17, <2>18, <2>19 DEF Next,
       ProbeStep, RemoveStep, DeviceStep
<1>3. QED
  BY <1>1, <1>2, CallersHold, DrmUsesLibrary, DeviceTypes, PTL DEF Spec,
     Library

(* Every variable keeps its type: the library's, the driver core's place,  *)
(* the managed actions, the files, the commits and the hardware.           *)
THEOREM DrmTypeCorrect == Spec => []TypeOK
<1>1. DevTypeOK /\ faults \in 0 .. MaxFaults /\ FieldsOK /\ DrmmOK => TypeOK
  <2> SUFFICES ASSUME DevTypeOK, faults \in 0 .. MaxFaults, FieldsOK, DrmmOK
               PROVE  TypeOK
    OBVIOUS
  <2>1. \A d \in Devs : drmm[d] \in Lists
    BY DEF DrmmOK
  <2>2. QED
    BY <2>1, Zenon DEF TypeOK, LibTypeOK, FieldsOK, Lists
<1>2. QED
  BY <1>1, DrmUsesLibrary, DeviceTypes, FaultsHold, CallersHold, ProbeHolds,
     PTL DEF Library

-----------------------------------------------------------------------------
(* What runs is on, and what is on has a file that will turn it off.       *)
LEMMA PowerHolds == Spec => []PowerInv
<1>1. Init => PowerInv
  BY DEF Init, PowerInv, Programming
<1>2. FieldsOK /\ CallerInv /\ ProbeInv /\ PowerInv /\ [Next]_vars => PowerInv'
  <2> SUFFICES ASSUME FieldsOK, CallerInv, ProbeInv, PowerInv, [Next]_vars
               PROVE  PowerInv'
    OBVIOUS
  <2> USE ModesAssumption DEF FieldsOK, CallerInv, PowerInv, Programming
  <2>1. CASE AllocFrameBuffers
    BY <2>1 DEF AllocFrameBuffers
  <2>2. CASE OpenXdma
    BY <2>2 DEF OpenXdma, OpenCall, Step, Fixed
  <2>3. CASE OpenedXdma
    BY <2>3 DEF OpenedXdma, OpenedWith, CloseCall, Step, Fixed
  <2>4. CASE ClosedXdma
    BY <2>4 DEF ClosedXdma
  <2>5. CASE ValidateHwContract
    BY <2>5 DEF ValidateHwContract, ProbeCheck
  <2>6. CASE ConfigVideoLockGpio
    BY <2>6 DEF ConfigVideoLockGpio, StaticBlock
  <2>7. CASE ConfigPixelUnpack
    BY <2>7 DEF ConfigPixelUnpack, StaticBlock
  <2>8. CASE ConfigColorConvert
    BY <2>8 DEF ConfigColorConvert, StaticBlock
  <2>9. CASE ConfigIicHdmi
    BY <2>9 DEF ConfigIicHdmi, StaticBlock
  <2>10. CASE DdrScratchTest
    BY <2>10 DEF DdrScratchTest, ProbeCheck
  <2>11. CASE ModesetInit
    BY <2>11 DEF ModesetInit, ProbeCheck
  <2>12. CASE DevRegister
    BY <2>12 DEF DevRegister
  <2>13. CASE DevresRelease
    BY <2>13 DEF DevresRelease
  <2>14. CASE Remove
    BY <2>14 DEF Remove
  <2>15. CASE RemoveShutdown
    BY <2>15 DEF RemoveShutdown, Commit
  <2>16. CASE RemoveStops
    BY <2>16 DEF RemoveStops
  <2>17. CASE Shutdown
    BY <2>17 DEF Shutdown, Commit
  <2>18. ASSUME NEW d \in Devs, DeviceStep(d) PROVE PowerInv'
    <3>1. CASE Probe(d)
      BY <3>1 DEF Probe
    <3>2. CASE Release(d)
      BY <3>2 DEF Release, Unused, CloseCall, Step, Fixed
    <3>3. CASE LibraryStep(d)
      BY <3>3 DEF LibraryStep
    <3>4. CASE AtomicDisable(d)
      BY <3>4 DEF AtomicDisable, KmsStep, KeepKms
    <3>5. CASE DisableStops(d)
      BY <3>5 DEF DisableStops, KmsStep, KeepKms
    <3>6. CASE EnableStops(d)
      BY <3>6 DEF EnableStops, KmsStep, KeepKms
    <3>7. CASE ConfigClkWiz(d)
      BY <3>7 DEF ConfigClkWiz, ProgramBlock, KmsStep, KeepKms
    <3>8. CASE ConfigVdma(d)
      BY <3>8 DEF ConfigVdma, ProgramBlock, KmsStep, KeepKms
    <3>9. CASE ConfigVtc(d)
      BY <3>9 DEF ConfigVtc, ProgramBlock, KmsStep, KeepKms
    <3>10. CASE ProgramConfirm(d)
      BY <3>10 DEF ProgramConfirm, KmsStep, KeepKms
    <3>11. CASE EnablePipe(d)
      BY <3>11 DEF EnablePipe, KmsStep, KeepKms
    <3>12. CASE CommitDone(d)
      BY <3>12 DEF CommitDone, KmsStep
    <3>13. CASE OpenFile(d)
      BY <3>13 DEF OpenFile, FileTo
    <3>14. CASE EnterIoctl(d)
      BY <3>14 DEF EnterIoctl, FileTo
    <3>15. CASE CloseFile(d)
      BY <3>15 DEF CloseFile, FileTo
    <3>16. CASE RemoveFbs(d)
      BY <3>16 DEF RemoveFbs, FileTo, Commit
    <3>17. CASE \E m \in Modes \cup {None} : UserCommit(d, m)
      BY <3>17 DEF UserCommit, FileTo, Commit
    <3>18. CASE Upload(d)
      BY <3>18 DEF Upload
    <3>19. CASE DmaComplete(d)
      BY <3>19 DEF DmaComplete
    <3>20. QED
      BY <2>18, <3>1, <3>2, <3>3, <3>4, <3>5, <3>6, <3>7, <3>8, <3>9, <3>10,
         <3>11, <3>12, <3>13, <3>14, <3>15, <3>16, <3>17, <3>18, <3>19 DEF
         DeviceStep, CommitStep, FileStep
  <2>19. CASE UNCHANGED vars
    BY <2>19 DEF vars
  <2>20. QED
    BY <2>1, <2>2, <2>3, <2>4, <2>5, <2>6, <2>7, <2>8, <2>9, <2>10, <2>11,
       <2>12, <2>13, <2>14, <2>15, <2>16, <2>17, <2>18, <2>19 DEF Next,
       ProbeStep, RemoveStep, DeviceStep
<1>3. QED
  BY <1>1, <1>2, CallersHold, ProbeHolds, PTL DEF Spec

(* The function's registers have one writer: two devices that are set up   *)
(* are the same, because an open one has the function's regions.           *)
LEMMA OneWhole ==
  ASSUME OpenWhole, NEW d \in Devs, Whole(d), NEW e \in Devs, Whole(e)
  PROVE  d = e
BY DEF OpenWhole, Whole

(* Every block holds what the step before set it to: no other device's     *)
(* probe or commit writes between two steps of a commit.                   *)
LEMMA HwHolds == Spec => []HwInv
<1>1. Init => HwInv
  BY DEF Init, HwInv, Configured, Bound
<1>2. /\ FieldsOK /\ CallerInv /\ ProbeInv /\ PowerInv
      /\ OpenWhole /\ HwInv /\ [Next]_vars
      => HwInv'
  <2> SUFFICES ASSUME FieldsOK, CallerInv, ProbeInv, PowerInv,
                      OpenWhole, HwInv, [Next]_vars
               PROVE  HwInv'
    OBVIOUS
  <2>1. /\ \A d \in Devs : kms[d] # "idle" => Whole(d)
        /\ \A d \in Devs : pipe[d] => Whole(d)
        /\ core \in Probed => cur \in Devs /\ Whole(cur)
        /\ \A d \in Devs : file[d] # "none" => Whole(d)
    BY DEF FieldsOK, CallerInv, ProbeInv, PowerInv, Probed, Configured, Bound
  <2>2. \A d, e \in Devs : Whole(d) /\ Whole(e) => d = e
    BY OneWhole
  <2> HIDE DEF Whole
  <2> USE <2>1, <2>2, ModesAssumption DEF FieldsOK, CallerInv, PowerInv,
     ProbeInv, HwInv, Probed, Configured, Bound, Programming, Blocks,
     StaticBlocks
  <2>3. CASE AllocFrameBuffers
    BY <2>3 DEF AllocFrameBuffers
  <2>4. CASE OpenXdma
    BY <2>4 DEF OpenXdma, OpenCall, Step, Fixed
  <2>5. CASE OpenedXdma
    BY <2>5 DEF OpenedXdma, OpenedWith, CloseCall, Step, Fixed
  <2>6. CASE ClosedXdma
    BY <2>6 DEF ClosedXdma
  <2>7. CASE ValidateHwContract
    BY <2>7 DEF ValidateHwContract, ProbeCheck
  <2>8. CASE ConfigVideoLockGpio
    BY <2>8 DEF ConfigVideoLockGpio, StaticBlock
  <2>9. CASE ConfigPixelUnpack
    BY <2>9 DEF ConfigPixelUnpack, StaticBlock
  <2>10. CASE ConfigColorConvert
    BY <2>10 DEF ConfigColorConvert, StaticBlock
  <2>11. CASE ConfigIicHdmi
    BY <2>11 DEF ConfigIicHdmi, StaticBlock
  <2>12. CASE DdrScratchTest
    BY <2>12 DEF DdrScratchTest, ProbeCheck
  <2>13. CASE ModesetInit
    BY <2>13 DEF ModesetInit, ProbeCheck
  <2>14. CASE DevRegister
    BY <2>14 DEF DevRegister
  <2>15. CASE DevresRelease
    BY <2>15 DEF DevresRelease
  <2>16. CASE Remove
    BY <2>16 DEF Remove
  <2>17. CASE RemoveShutdown
    BY <2>17 DEF RemoveShutdown, Commit
  <2>18. CASE RemoveStops
    BY <2>18 DEF RemoveStops
  <2>19. CASE Shutdown
    BY <2>19 DEF Shutdown, Commit
  <2>20. ASSUME NEW d \in Devs, DeviceStep(d) PROVE HwInv'
    <3>1. CASE Probe(d)
      BY <3>1 DEF Probe
    <3>2. CASE Release(d)
      BY <3>2 DEF Release, Unused, CloseCall, Step, Fixed
    <3>3. CASE LibraryStep(d)
      BY <3>3 DEF LibraryStep
    <3>4. CASE AtomicDisable(d)
      BY <3>4 DEF AtomicDisable, KmsStep, KeepKms
    <3>5. CASE DisableStops(d)
      BY <3>5 DEF DisableStops, KmsStep, KeepKms
    <3>6. CASE EnableStops(d)
      BY <3>6 DEF EnableStops, KmsStep, KeepKms
    <3>7. CASE ConfigClkWiz(d)
      BY <3>7 DEF ConfigClkWiz, ProgramBlock, KmsStep, KeepKms
    <3>8. CASE ConfigVdma(d)
      BY <3>8 DEF ConfigVdma, ProgramBlock, KmsStep, KeepKms
    <3>9. CASE ConfigVtc(d)
      BY <3>9 DEF ConfigVtc, ProgramBlock, KmsStep, KeepKms
    <3>10. CASE ProgramConfirm(d)
      BY <3>10 DEF ProgramConfirm, KmsStep, KeepKms
    <3>11. CASE EnablePipe(d)
      BY <3>11 DEF EnablePipe, KmsStep, KeepKms
    <3>12. CASE CommitDone(d)
      BY <3>12 DEF CommitDone, KmsStep
    <3>13. CASE OpenFile(d)
      BY <3>13 DEF OpenFile, FileTo
    <3>14. CASE EnterIoctl(d)
      BY <3>14 DEF EnterIoctl, FileTo
    <3>15. CASE CloseFile(d)
      BY <3>15 DEF CloseFile, FileTo
    <3>16. CASE RemoveFbs(d)
      BY <3>16 DEF RemoveFbs, FileTo, Commit
    <3>17. CASE \E m \in Modes \cup {None} : UserCommit(d, m)
      BY <3>17 DEF UserCommit, FileTo, Commit
    <3>18. CASE Upload(d)
      BY <3>18 DEF Upload
    <3>19. CASE DmaComplete(d)
      BY <3>19 DEF DmaComplete
    <3>20. QED
      BY <2>20, <3>1, <3>2, <3>3, <3>4, <3>5, <3>6, <3>7, <3>8, <3>9, <3>10,
         <3>11, <3>12, <3>13, <3>14, <3>15, <3>16, <3>17, <3>18, <3>19 DEF
         DeviceStep, CommitStep, FileStep
  <2>21. CASE UNCHANGED vars
    BY <2>21 DEF vars
  <2>22. QED
    BY <2>3, <2>4, <2>5, <2>6, <2>7, <2>8, <2>9, <2>10, <2>11, <2>12, <2>13,
       <2>14, <2>15, <2>16, <2>17, <2>18, <2>19, <2>20, <2>21 DEF Next,
       ProbeStep, RemoveStep, DeviceStep
<1>3. QED
  BY <1>1, <1>2, CallersHold, ProbeHolds, PowerHolds, DrmOpenWhole, PTL DEF
     Spec

(* A pipe that is on shows its mode, in every block, whatever failed in    *)
(* earlier commits and whatever other probes of the function tried.        *)
THEOREM DrmPipeShowsMode == Spec => []PipeShowsMode
<1>1. ProbeInv /\ PowerInv /\ HwInv => PipeShowsMode
  BY DEF ProbeInv, PowerInv, HwInv, PipeShowsMode, Blocks, StaticBlocks
<1>2. QED
  BY <1>1, ProbeHolds, PowerHolds, HwHolds, PTL

(* An upload reads buffers that exist through an engine that is open: no   *)
(* release overtakes it, also when a commit turns the pipe on again after  *)
(* the removal.                                                            *)
THEOREM DrmDmaHasDevice == Spec => []DmaHasDevice
<1>1. ProbeInv /\ PowerInv => DmaHasDevice
  BY DEF ProbeInv, PowerInv, DmaHasDevice, Whole
<1>2. QED
  BY <1>1, ProbeHolds, PowerHolds, PTL

(* Registers are written only through mapped BARs of an enabled function   *)
(* whose regions the writer has.                                           *)
THEOREM DrmRegistersMapped == Spec => RegistersMapped
<1> DEFINE Mapped == hw' # hw => \E d \in Devs :
                        /\ kms'[d] # kms[d] \/ (cur = d /\ core' # core)
                        /\ {"enable", "regions", "bars"} \subseteq held[d]
<1>1. FieldsOK /\ CallerInv /\ ProbeInv /\ OpenWhole /\ [Next]_vars => Mapped
  <2> SUFFICES ASSUME FieldsOK, CallerInv, ProbeInv, OpenWhole, [Next]_vars
               PROVE  Mapped
    OBVIOUS
  <2>1. \A d \in Devs :
          Whole(d) => {"enable", "regions", "bars"} \subseteq held[d]
    BY DEF Whole, OpenWhole, Resources
  <2>2. /\ \A d \in Devs : kms[d] # "idle" => Whole(d)
        /\ core \in Probed => cur \in Devs /\ Whole(cur)
    BY DEF FieldsOK, CallerInv, ProbeInv, Probed, Configured, Bound
  <2> USE <2>1, <2>2 DEF FieldsOK, Probed
  <2>3. CASE AllocFrameBuffers
    BY <2>3 DEF AllocFrameBuffers
  <2>4. CASE OpenXdma
    BY <2>4 DEF OpenXdma, OpenCall, Step, Fixed
  <2>5. CASE OpenedXdma
    BY <2>5 DEF OpenedXdma, OpenedWith, CloseCall, Step, Fixed
  <2>6. CASE ClosedXdma
    BY <2>6 DEF ClosedXdma
  <2>7. CASE ValidateHwContract
    BY <2>7 DEF ValidateHwContract, ProbeCheck
  <2>8. CASE ConfigVideoLockGpio
    BY <2>8 DEF ConfigVideoLockGpio, StaticBlock
  <2>9. CASE ConfigPixelUnpack
    BY <2>9 DEF ConfigPixelUnpack, StaticBlock
  <2>10. CASE ConfigColorConvert
    BY <2>10 DEF ConfigColorConvert, StaticBlock
  <2>11. CASE ConfigIicHdmi
    BY <2>11 DEF ConfigIicHdmi, StaticBlock
  <2>12. CASE DdrScratchTest
    BY <2>12 DEF DdrScratchTest, ProbeCheck
  <2>13. CASE ModesetInit
    BY <2>13 DEF ModesetInit, ProbeCheck
  <2>14. CASE DevRegister
    BY <2>14 DEF DevRegister
  <2>15. CASE DevresRelease
    BY <2>15 DEF DevresRelease
  <2>16. CASE Remove
    BY <2>16 DEF Remove
  <2>17. CASE RemoveShutdown
    BY <2>17 DEF RemoveShutdown, Commit
  <2>18. CASE RemoveStops
    BY <2>18 DEF RemoveStops
  <2>19. CASE Shutdown
    BY <2>19 DEF Shutdown, Commit
  <2>20. ASSUME NEW d \in Devs, DeviceStep(d) PROVE Mapped
    <3>1. CASE Probe(d)
      BY <3>1 DEF Probe
    <3>2. CASE Release(d)
      BY <3>2 DEF Release, Unused, CloseCall, Step, Fixed
    <3>3. CASE LibraryStep(d)
      BY <3>3 DEF LibraryStep
    <3>4. CASE AtomicDisable(d)
      BY <3>4 DEF AtomicDisable, KmsStep, KeepKms
    <3>5. CASE DisableStops(d)
      BY <3>5 DEF DisableStops, KmsStep, KeepKms
    <3>6. CASE EnableStops(d)
      BY <3>6 DEF EnableStops, KmsStep, KeepKms
    <3>7. CASE ConfigClkWiz(d)
      BY <3>7 DEF ConfigClkWiz, ProgramBlock, KmsStep, KeepKms, KmsSteps
    <3>8. CASE ConfigVdma(d)
      BY <3>8 DEF ConfigVdma, ProgramBlock, KmsStep, KeepKms, KmsSteps
    <3>9. CASE ConfigVtc(d)
      BY <3>9 DEF ConfigVtc, ProgramBlock, KmsStep, KeepKms, KmsSteps
    <3>10. CASE ProgramConfirm(d)
      BY <3>10 DEF ProgramConfirm, KmsStep, KeepKms
    <3>11. CASE EnablePipe(d)
      BY <3>11 DEF EnablePipe, KmsStep, KeepKms
    <3>12. CASE CommitDone(d)
      BY <3>12 DEF CommitDone, KmsStep
    <3>13. CASE OpenFile(d)
      BY <3>13 DEF OpenFile, FileTo
    <3>14. CASE EnterIoctl(d)
      BY <3>14 DEF EnterIoctl, FileTo
    <3>15. CASE CloseFile(d)
      BY <3>15 DEF CloseFile, FileTo
    <3>16. CASE RemoveFbs(d)
      BY <3>16 DEF RemoveFbs, FileTo, Commit
    <3>17. CASE \E m \in Modes \cup {None} : UserCommit(d, m)
      BY <3>17 DEF UserCommit, FileTo, Commit
    <3>18. CASE Upload(d)
      BY <3>18 DEF Upload
    <3>19. CASE DmaComplete(d)
      BY <3>19 DEF DmaComplete
    <3>20. QED
      BY <2>20, <3>1, <3>2, <3>3, <3>4, <3>5, <3>6, <3>7, <3>8, <3>9, <3>10,
         <3>11, <3>12, <3>13, <3>14, <3>15, <3>16, <3>17, <3>18, <3>19 DEF
         DeviceStep, CommitStep, FileStep
  <2>21. CASE UNCHANGED vars
    BY <2>21 DEF vars
  <2>22. QED
    BY <2>3, <2>4, <2>5, <2>6, <2>7, <2>8, <2>9, <2>10, <2>11, <2>12, <2>13,
       <2>14, <2>15, <2>16, <2>17, <2>18, <2>19, <2>20, <2>21 DEF Next,
       ProbeStep, RemoveStep, DeviceStep
<1>2. QED
  BY <1>1, CallersHold, ProbeHolds, DrmOpenWhole, PTL DEF Spec, RegistersMapped
=============================================================================
