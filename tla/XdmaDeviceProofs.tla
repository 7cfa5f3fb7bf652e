-------------------------- MODULE XdmaDeviceProofs --------------------------
(***************************************************************************)
(* Theorems about XdmaDevice, for any number of structures over one        *)
(* function, any client and any number of failures.  The inductive         *)
(* invariant says what each step of open and close may rely on: which      *)
(* resource is held where, in each structure for itself, and the two       *)
(* things the structures share, the regions and the polling threads.       *)
(***************************************************************************)
EXTENDS XdmaDevice, TLAPS

ListPcs == (Opening \ {"alloc", "list"}) \cup {"open", "kept"} \cup Closing
EnablePcs == {"regions", "bars", "mask", "engines", "vectors", "irqs",
              "finish", "open", "kept", "teardown", "novectors", "remove",
              "unmap", "release", "disable"}
RegionPcs == EnablePcs \ {"regions", "disable"}
BarPcs == RegionPcs \ {"bars", "release"}
VectorPcs == {"irqs", "finish", "open", "kept", "teardown", "novectors"}
EnginePcs == VectorPcs \cup {"vectors", "remove"}
IrqPcs == {"finish", "open", "kept", "teardown"}
LeftPcs == {"novectors", "remove", "unmap", "release", "disable", "unlist",
            "gone"}

(* What a structure holds follows from its step. *)
Holds(d) ==
  /\ "list" \in held[d] <=> pc[d] \in ListPcs
  /\ "enable" \in held[d] <=>
       pc[d] \in EnablePcs \/ (inUse[d] /\ pc[d] \in {"unlist", "gone"})
  /\ "regions" \in held[d] <=> pc[d] \in RegionPcs
  /\ "bars" \in held[d] <=> pc[d] \in BarPcs
  /\ "vectors" \in held[d] <=> pc[d] \in VectorPcs /\ kind # "legacy"

(* Its engines and handlers live over what they use. *)
Uses(d) ==
  /\ engines[d] # {} => pc[d] \in EnginePcs
  /\ pc[d] \in IrqPcs => irqs[d] = Lines(d)
  /\ irqs[d] # {} => pc[d] \in IrqPcs \/ half[d]
  /\ inUse[d] => pc[d] \in {"disable", "unlist", "gone"}
  /\ half[d] => pc[d] \in LeftPcs

Owns(d) == owner = d <=> pc[d] \in RegionPcs
Watched(d) == poll /\ pc[d] \in ListPcs => threads

Inv == \A d \in Devs : Holds(d) /\ Uses(d) /\ Owns(d) /\ Watched(d)

USE DEF shared, devVars, Step, Fixed, Take, Drop

Actions(d) == OpenCall(d) \/ CloseCall(d) \/ LibStep(d)

-----------------------------------------------------------------------------
(* Every variable of the structures and of what they share keeps its type. *)
THEOREM DeviceTypes == LibSpec => []DevTypeOK
<1>1. LibInit => DevTypeOK
  <2> SUFFICES ASSUME LibInit PROVE DevTypeOK
    OBVIOUS
  <2>1. <<poll, kind>> \in Setups /\ threads \in BOOLEAN
    <3>1. PICK s \in Setups : poll = s[1] /\ kind = s[2]
      BY DEF LibInit
    <3>2. s = <<s[1], s[2]>>
      BY SetupsAssumption
    <3>3. QED
      BY <3>1, <3>2 DEF LibInit
  <2>2. QED
    BY <2>1 DEF LibInit, DevTypeOK, Pcs
<1>2. DevTypeOK /\ [LibNext]_shared => DevTypeOK'
  <2> SUFFICES ASSUME DevTypeOK, [LibNext]_shared PROVE DevTypeOK'
    OBVIOUS
  <2> USE DEF DevTypeOK, Pcs, Opening, Closing, Resources, Chans, Lines
  <2>1. CASE UNCHANGED shared
    BY <2>1
  <2>2. ASSUME NEW d \in Devs, Actions(d) PROVE DevTypeOK'
    <3>1. CASE OpenCall(d)
      BY <3>1 DEF OpenCall
    <3>2. CASE AllocDevInstance(d)
      BY <3>2 DEF AllocDevInstance
    <3>3. CASE XdevListAdd(d)
      <4>1. threads' \in BOOLEAN /\ UNCHANGED <<engines, irqs, inUse, owner,
                                               half, poll, kind>>
        BY <3>3, Zenon DEF XdevListAdd
      <4>2. \/ /\ Step(d, "list", "enable") /\ Take(d, "list")
               /\ ahead' = [ahead EXCEPT ![d] = Listed]
            \/ Step(d, "list", "gone") /\ UNCHANGED <<held, ahead>>
        BY <3>3, Zenon DEF XdevListAdd
      <4> USE DEF Listed
      <4>3. QED
        BY <4>1, <4>2
    <3>4. CASE EnableDevice(d)
      BY <3>4 DEF EnableDevice
    <3>5. CASE RequestRegions(d)
      <4>1. CASE Step(d, "regions", "bars") /\ owner' = d /\ Take(d, "regions")
                 /\ UNCHANGED inUse
        BY <3>5, <4>1 DEF RequestRegions
      <4>2. CASE /\ Step(d, "regions", "disable")
                 /\ inUse' = [inUse EXCEPT ![d] = TRUE]
                 /\ UNCHANGED <<owner, held>>
        <5>1. inUse' \in [Devs -> BOOLEAN]
          BY <4>2
        <5>2. UNCHANGED <<engines, irqs, threads, half>> /\ Fixed
          BY <3>5, Zenon DEF RequestRegions
        <5>3. QED
          BY <4>2, <5>1, <5>2
      <4>3. QED
        BY <3>5, <4>1, <4>2, Zenon DEF RequestRegions
    <3>6. CASE MapBars(d)
      BY <3>6 DEF MapBars
    <3>7. CASE SetDmaMask(d)
      BY <3>7 DEF SetDmaMask
    <3>8. CASE ProbeEngines(d)
      BY <3>8 DEF ProbeEngines
    <3>9. CASE EnableMsiMsix(d)
      BY <3>9 DEF EnableMsiMsix
    <3>10. CASE IrqSetup(d)
      <4>1. CASE Step(d, "irqs", "finish") /\ UNCHANGED half
        BY <3>10, <4>1 DEF IrqSetup
      <4>2. CASE Step(d, "irqs", "novectors")
        <5>1. PICK s \in Requested(d) :
                /\ irqs' = [irqs EXCEPT ![d] = s]
                /\ half' = [half EXCEPT ![d] = s # {}]
          BY <3>10, <4>2 DEF IrqSetup
        <5>2. half' \in [Devs -> BOOLEAN]
          BY <5>1, Zenon
        <5>3. irqs' \in [Devs -> SUBSET (Chans \cup {"user", "dev"})]
          <6>1. s \subseteq engines[d]
            BY DEF Requested
          <6>2. QED
            BY <5>1, <6>1
        <5>4. UNCHANGED <<held, engines, inUse, owner, threads>> /\ Fixed
          BY <3>10, Zenon DEF IrqSetup
        <5>5. QED
          BY <4>2, <5>2, <5>3, <5>4
      <4>3. QED
        BY <3>10, <4>1, <4>2, Zenon DEF IrqSetup
    <3>11. CASE OpenFinish(d)
      BY <3>11 DEF OpenFinish
    <3>12. CASE CloseCall(d)
      BY <3>12 DEF CloseCall
    <3>13. CASE IrqTeardown(d)
      BY <3>13 DEF IrqTeardown
    <3>14. CASE DisableMsiMsix(d)
      BY <3>14 DEF DisableMsiMsix
    <3>15. CASE RemoveEngines(d)
      BY <3>15 DEF RemoveEngines
    <3>16. CASE UnmapBars(d)
      BY <3>16 DEF UnmapBars
    <3>17. CASE ReleaseRegions(d)
      BY <3>17 DEF ReleaseRegions
    <3>18. CASE DisableDevice(d)
      BY <3>18 DEF DisableDevice
    <3>19. CASE XdevListRemove(d)
      BY <3>19 DEF XdevListRemove, Listed
    <3>20. QED
      BY <2>2, <3>1, <3>2, <3>3, <3>4, <3>5, <3>6, <3>7, <3>8, <3>9, <3>10,
         <3>11, <3>12, <3>13, <3>14, <3>15, <3>16, <3>17, <3>18, <3>19
         DEF Actions, LibStep, OpenStep, CloseStep
  <2>3. QED
    BY <2>1, <2>2 DEF LibNext, Actions
<1>3. QED
  BY <1>1, <1>2, PTL DEF LibSpec

-----------------------------------------------------------------------------
(* What a step does to the structure that takes it and to every other one. *)
LEMMA InvPreserved ==
  ASSUME DevTypeOK, Inv, NEW d \in Devs, Actions(d), NEW e \in Devs
  PROVE  (Holds(e) /\ Uses(e) /\ Owns(e) /\ Watched(e))'
<1> USE DEF DevTypeOK, Pcs, ListPcs, EnablePcs, RegionPcs, BarPcs, VectorPcs,
   EnginePcs, IrqPcs, LeftPcs,
      Opening, Closing
<1>0. \A c \in Devs : Holds(c) /\ Uses(c) /\ Owns(c) /\ Watched(c)
  BY DEF Inv
<1>1. CASE OpenCall(d)
  <2>1. Holds(e)'
    BY <1>0, <1>1 DEF OpenCall, Holds, Uses
  <2>2. Uses(e)'
    BY <1>0, <1>1 DEF OpenCall, Uses, Lines
  <2>3. Owns(e)'
    BY <1>0, <1>1 DEF OpenCall, Owns, Holds
  <2>4. Watched(e)'
    BY <1>0, <1>1 DEF OpenCall, Watched, Holds
  <2>5. QED
    BY <2>1, <2>2, <2>3, <2>4
<1>2. CASE AllocDevInstance(d)
  <2>1. Holds(e)'
    BY <1>0, <1>2 DEF AllocDevInstance, Holds, Uses
  <2>2. Uses(e)'
    BY <1>0, <1>2 DEF AllocDevInstance, Uses, Lines
  <2>3. Owns(e)'
    BY <1>0, <1>2 DEF AllocDevInstance, Owns, Holds
  <2>4. Watched(e)'
    BY <1>0, <1>2 DEF AllocDevInstance, Watched, Holds
  <2>5. QED
    BY <2>1, <2>2, <2>3, <2>4
<1>3. CASE XdevListAdd(d)
  <2>1. Holds(e)'
    BY <1>0, <1>3 DEF XdevListAdd, Holds, Uses
  <2>2. Uses(e)'
    BY <1>0, <1>3 DEF XdevListAdd, Uses, Lines
  <2>3. Owns(e)'
    BY <1>0, <1>3 DEF XdevListAdd, Owns, Holds
  <2>4. Watched(e)'
    <3>1. CASE Step(d, "list", "gone") /\ UNCHANGED threads
      BY <1>0, <1>3, <3>1 DEF Watched, XdevListAdd
    <3>2. CASE threads' = (threads \/ (poll /\ Listed = {})) /\ UNCHANGED poll
      <4>1. ASSUME poll, Listed # {} PROVE threads
        <5>1. PICK c \in Devs : "list" \in held[c]
          BY <4>1 DEF Listed
        <5>2. QED
          BY <1>0, <4>1, <5>1 DEF Watched, Holds
      <4>2. poll => threads'
        BY <3>2, <4>1, Zenon
      <4>3. QED
        BY <3>2, <4>2, Zenon DEF Watched
    <3>3. QED
      BY <1>3, <3>1, <3>2, Zenon DEF XdevListAdd
  <2>5. QED
    BY <2>1, <2>2, <2>3, <2>4
<1>4. CASE EnableDevice(d)
  <2>1. Holds(e)'
    BY <1>0, <1>4 DEF EnableDevice, Holds, Uses
  <2>2. Uses(e)'
    BY <1>0, <1>4 DEF EnableDevice, Uses, Lines
  <2>3. Owns(e)'
    BY <1>0, <1>4 DEF EnableDevice, Owns, Holds
  <2>4. Watched(e)'
    BY <1>0, <1>4 DEF EnableDevice, Watched, Holds
  <2>5. QED
    BY <2>1, <2>2, <2>3, <2>4
<1>5. CASE RequestRegions(d)
  <2>1. Holds(e)'
    BY <1>0, <1>5 DEF RequestRegions, Holds, Uses
  <2>2. Uses(e)'
    BY <1>0, <1>5 DEF RequestRegions, Uses, Lines
  <2>3. Owns(e)'
    BY <1>0, <1>5, DevsAssumption DEF RequestRegions, Owns, Holds
  <2>4. Watched(e)'
    BY <1>0, <1>5 DEF RequestRegions, Watched, Holds
  <2>5. QED
    BY <2>1, <2>2, <2>3, <2>4
<1>6. CASE MapBars(d)
  <2>1. Holds(e)'
    BY <1>0, <1>6 DEF MapBars, Holds, Uses
  <2>2. Uses(e)'
    BY <1>0, <1>6 DEF MapBars, Uses, Lines
  <2>3. Owns(e)'
    BY <1>0, <1>6 DEF MapBars, Owns, Holds
  <2>4. Watched(e)'
    BY <1>0, <1>6 DEF MapBars, Watched, Holds
  <2>5. QED
    BY <2>1, <2>2, <2>3, <2>4
<1>7. CASE SetDmaMask(d)
  <2>1. Holds(e)'
    BY <1>0, <1>7 DEF SetDmaMask, Holds, Uses
  <2>2. Uses(e)'
    BY <1>0, <1>7 DEF SetDmaMask, Uses, Lines
  <2>3. Owns(e)'
    BY <1>0, <1>7 DEF SetDmaMask, Owns, Holds
  <2>4. Watched(e)'
    BY <1>0, <1>7 DEF SetDmaMask, Watched, Holds
  <2>5. QED
    BY <2>1, <2>2, <2>3, <2>4
<1>8. CASE ProbeEngines(d)
  <2>1. Holds(e)'
    BY <1>0, <1>8 DEF ProbeEngines, Holds, Uses
  <2>2. Uses(e)'
    BY <1>0, <1>8 DEF ProbeEngines, Uses, Lines
  <2>3. Owns(e)'
    BY <1>0, <1>8 DEF ProbeEngines, Owns, Holds
  <2>4. Watched(e)'
    BY <1>0, <1>8 DEF ProbeEngines, Watched, Holds
  <2>5. QED
    BY <2>1, <2>2, <2>3, <2>4
<1>9. CASE EnableMsiMsix(d)
  <2>1. Holds(e)'
    BY <1>0, <1>9 DEF EnableMsiMsix, Holds, Uses
  <2>2. Uses(e)'
    BY <1>0, <1>9 DEF EnableMsiMsix, Uses, Lines
  <2>3. Owns(e)'
    BY <1>0, <1>9 DEF EnableMsiMsix, Owns, Holds
  <2>4. Watched(e)'
    BY <1>0, <1>9 DEF EnableMsiMsix, Watched, Holds
  <2>5. QED
    BY <2>1, <2>2, <2>3, <2>4
<1>10. CASE IrqSetup(d)
  <2>1. Holds(e)'
    BY <1>0, <1>10 DEF IrqSetup, Holds, Uses
  <2>2. Uses(e)'
    <3>1. CASE e # d
      BY <1>0, <1>10, <3>1 DEF IrqSetup, Uses, Lines
    <3>2. CASE e = d /\ Step(d, "irqs", "finish")
      BY <1>0, <1>10, <3>2 DEF IrqSetup, Uses, Lines
    <3>3. CASE e = d /\ Step(d, "irqs", "novectors")
      BY <1>0, <1>10, <3>3 DEF IrqSetup, Uses, Lines
    <3>4. QED
      BY <1>10, <3>1, <3>2, <3>3 DEF IrqSetup
  <2>3. Owns(e)'
    BY <1>0, <1>10 DEF IrqSetup, Owns, Holds
  <2>4. Watched(e)'
    BY <1>0, <1>10 DEF IrqSetup, Watched, Holds
  <2>5. QED
    BY <2>1, <2>2, <2>3, <2>4
<1>11. CASE OpenFinish(d)
  <2>1. Holds(e)'
    BY <1>0, <1>11 DEF OpenFinish, Holds, Uses
  <2>2. Uses(e)'
    BY <1>0, <1>11 DEF OpenFinish, Uses, Lines
  <2>3. Owns(e)'
    BY <1>0, <1>11 DEF OpenFinish, Owns, Holds
  <2>4. Watched(e)'
    BY <1>0, <1>11 DEF OpenFinish, Watched, Holds
  <2>5. QED
    BY <2>1, <2>2, <2>3, <2>4
<1>12. CASE CloseCall(d)
  <2>1. Holds(e)'
    BY <1>0, <1>12 DEF CloseCall, Holds, Uses
  <2>2. Uses(e)'
    BY <1>0, <1>12 DEF CloseCall, Uses, Lines
  <2>3. Owns(e)'
    BY <1>0, <1>12 DEF CloseCall, Owns, Holds
  <2>4. Watched(e)'
    BY <1>0, <1>12 DEF CloseCall, Watched, Holds
  <2>5. QED
    BY <2>1, <2>2, <2>3, <2>4
<1>13. CASE IrqTeardown(d)
  <2>1. Holds(e)'
    BY <1>0, <1>13 DEF IrqTeardown, Holds, Uses
  <2>2. Uses(e)'
    BY <1>0, <1>13 DEF IrqTeardown, Uses, Lines
  <2>3. Owns(e)'
    BY <1>0, <1>13 DEF IrqTeardown, Owns, Holds
  <2>4. Watched(e)'
    BY <1>0, <1>13 DEF IrqTeardown, Watched, Holds
  <2>5. QED
    BY <2>1, <2>2, <2>3, <2>4
<1>14. CASE DisableMsiMsix(d)
  <2>1. Holds(e)'
    BY <1>0, <1>14 DEF DisableMsiMsix, Holds, Uses
  <2>2. Uses(e)'
    BY <1>0, <1>14 DEF DisableMsiMsix, Uses, Lines
  <2>3. Owns(e)'
    BY <1>0, <1>14 DEF DisableMsiMsix, Owns, Holds
  <2>4. Watched(e)'
    BY <1>0, <1>14 DEF DisableMsiMsix, Watched, Holds
  <2>5. QED
    BY <2>1, <2>2, <2>3, <2>4
<1>15. CASE RemoveEngines(d)
  <2>1. Holds(e)'
    BY <1>0, <1>15 DEF RemoveEngines, Holds, Uses
  <2>2. Uses(e)'
    BY <1>0, <1>15 DEF RemoveEngines, Uses, Lines
  <2>3. Owns(e)'
    BY <1>0, <1>15 DEF RemoveEngines, Owns, Holds
  <2>4. Watched(e)'
    BY <1>0, <1>15 DEF RemoveEngines, Watched, Holds
  <2>5. QED
    BY <2>1, <2>2, <2>3, <2>4
<1>16. CASE UnmapBars(d)
  <2>1. Holds(e)'
    BY <1>0, <1>16 DEF UnmapBars, Holds, Uses
  <2>2. Uses(e)'
    BY <1>0, <1>16 DEF UnmapBars, Uses, Lines
  <2>3. Owns(e)'
    BY <1>0, <1>16 DEF UnmapBars, Owns, Holds
  <2>4. Watched(e)'
    BY <1>0, <1>16 DEF UnmapBars, Watched, Holds
  <2>5. QED
    BY <2>1, <2>2, <2>3, <2>4
<1>17. CASE ReleaseRegions(d)
  <2>1. Holds(e)'
    BY <1>0, <1>17 DEF ReleaseRegions, Holds, Uses
  <2>2. Uses(e)'
    BY <1>0, <1>17 DEF ReleaseRegions, Uses, Lines
  <2>3. Owns(e)'
    BY <1>0, <1>17, DevsAssumption DEF ReleaseRegions, Owns, Holds
  <2>4. Watched(e)'
    BY <1>0, <1>17 DEF ReleaseRegions, Watched, Holds
  <2>5. QED
    BY <2>1, <2>2, <2>3, <2>4
<1>18. CASE DisableDevice(d)
  <2>1. Holds(e)'
    BY <1>0, <1>18 DEF DisableDevice, Holds, Uses
  <2>2. Uses(e)'
    BY <1>0, <1>18 DEF DisableDevice, Uses, Lines
  <2>3. Owns(e)'
    BY <1>0, <1>18 DEF DisableDevice, Owns, Holds
  <2>4. Watched(e)'
    BY <1>0, <1>18 DEF DisableDevice, Watched, Holds
  <2>5. QED
    BY <2>1, <2>2, <2>3, <2>4
<1>19. CASE XdevListRemove(d)
  <2>1. Holds(e)'
    BY <1>0, <1>19 DEF XdevListRemove, Holds, Uses
  <2>2. Uses(e)'
    BY <1>0, <1>19 DEF XdevListRemove, Uses, Lines
  <2>3. Owns(e)'
    BY <1>0, <1>19 DEF XdevListRemove, Owns, Holds
  <2>4. Watched(e)'
    <3>1. threads' = (threads /\ Listed # {d}) /\ UNCHANGED poll
      BY <1>19, Zenon DEF XdevListRemove
    <3>2. ASSUME poll, pc'[e] \in ListPcs PROVE threads /\ Listed # {d}
      <4>1. e # d /\ pc[e] \in ListPcs
        BY <1>19, <3>2 DEF XdevListRemove
      <4>2. e \in Listed
        BY <1>0, <4>1 DEF Holds, Listed
      <4>3. Listed # {d}
        BY <4>1, <4>2
      <4>4. threads
        BY <1>0, <3>2, <4>1, Zenon DEF Watched
      <4>5. QED
        BY <4>3, <4>4
    <3>3. QED
      BY <3>1, <3>2, Zenon DEF Watched
  <2>5. QED
    BY <2>1, <2>2, <2>3, <2>4
<1>20. QED
  BY <1>1, <1>2, <1>3, <1>4, <1>5, <1>6, <1>7, <1>8, <1>9, <1>10, <1>11, <1>12,
     <1>13, <1>14, <1>15, <1>16, <1>17, <1>18, <1>19
     DEF Actions, LibStep, OpenStep, CloseStep

(* So the invariant holds of every structure. *)
LEMMA InvHolds == LibSpec => []Inv
<1>1. LibInit => Inv
  BY DevsAssumption
     DEF LibInit, Inv, Holds, Uses, Owns, Watched, ListPcs, EnablePcs,
         RegionPcs, BarPcs, VectorPcs, EnginePcs, IrqPcs, LeftPcs, Opening,
         Closing
<1>2. DevTypeOK /\ Inv /\ [LibNext]_shared => Inv'
  <2> SUFFICES ASSUME DevTypeOK, Inv, [LibNext]_shared PROVE Inv'
    OBVIOUS
  <2>1. CASE UNCHANGED shared
    BY <2>1 DEF Inv, Holds, Uses, Owns, Watched, Lines
  <2>2. ASSUME NEW d \in Devs, Actions(d) PROVE Inv'
    BY <2>2, InvPreserved DEF Inv
  <2>3. QED
    BY <2>1, <2>2 DEF LibNext, Actions
<1>3. QED
  BY <1>1, <1>2, DeviceTypes, PTL DEF LibSpec

-----------------------------------------------------------------------------
(* A structure that is freed leaves nothing behind, but for the two leaks  *)
(* the property names: xdma_device_open()'s unwinding and                  *)
(* xdma_device_close() undo every step that was taken.                     *)
THEOREM DeviceNothingLeft == LibSpec => []NothingLeft
<1>1. DevTypeOK /\ Inv => NothingLeft
  <2> SUFFICES ASSUME DevTypeOK, Inv, NEW d \in Devs, pc[d] = "gone"
               PROVE  /\ held[d] \subseteq (IF inUse[d] THEN {"enable"} ELSE {})
                      /\ engines[d] = {} /\ owner # d
                      /\ irqs[d] = {} \/ half[d]
    BY DEF NothingLeft
  <2>1. Holds(d) /\ Uses(d) /\ Owns(d)
    BY DEF Inv
  <2> USE DEF ListPcs, EnablePcs, RegionPcs, BarPcs, VectorPcs, EnginePcs,
              IrqPcs, Opening, Closing
  <2>2. held[d] \subseteq (IF inUse[d] THEN {"enable"} ELSE {})
    BY <2>1 DEF Holds, DevTypeOK, Resources
  <2>3. QED
    BY <2>1, <2>2 DEF Uses, Owns
<1>2. QED
  BY <1>1, DeviceTypes, InvHolds, PTL

(* An open device keeps all it opened with, whatever the opening and the   *)
(* closing of other structures over the function do.                       *)
THEOREM DeviceOpenWhole == LibSpec => []OpenWhole
<1>1. DevTypeOK /\ Inv => OpenWhole
  <2> SUFFICES ASSUME DevTypeOK, Inv, NEW d \in Devs,
                      pc[d] \in {"open", "kept"}
               PROVE  /\ held[d] = Resources \
                            (IF kind = "legacy" THEN {"vectors"} ELSE {})
                      /\ owner = d /\ irqs[d] = Lines(d)
                      /\ poll => threads
    BY DEF OpenWhole
  <2>1. Holds(d) /\ Uses(d) /\ Owns(d) /\ Watched(d)
    BY DEF Inv
  <2> USE DEF ListPcs, EnablePcs, RegionPcs, BarPcs, VectorPcs, IrqPcs,
              Opening, Closing
  <2>2. held[d] = Resources \ (IF kind = "legacy" THEN {"vectors"} ELSE {})
    BY <2>1 DEF Holds, DevTypeOK, Resources
  <2>3. QED
    BY <2>1, <2>2 DEF Uses, Owns, Watched
<1>2. QED
  BY <1>1, DeviceTypes, InvHolds, PTL

(* No engine outlives its registers or its thread, and no handler its      *)
(* engine, except the ones irq_setup() left behind.                        *)
THEOREM DeviceUsedIsThere == LibSpec => []UsedIsThere
<1>1. DevTypeOK /\ Inv => UsedIsThere
  <2> SUFFICES ASSUME DevTypeOK, Inv, NEW d \in Devs
               PROVE  /\ engines[d] # {} =>
                           {"bars", "regions", "enable"} \subseteq held[d]
                      /\ engines[d] # {} /\ poll => threads
                      /\ ~half[d] => irqs[d] \cap Chans \subseteq engines[d]
    BY DEF UsedIsThere
  <2>1. Holds(d) /\ Uses(d) /\ Owns(d) /\ Watched(d)
    BY DEF Inv
  <2> USE DEF ListPcs, EnablePcs, RegionPcs, BarPcs, VectorPcs, EnginePcs,
              IrqPcs, Opening, Closing
  <2>2. engines[d] # {} => {"bars", "regions", "enable"} \subseteq held[d]
    BY <2>1 DEF Holds, Uses
  <2>3. engines[d] # {} /\ poll => threads
    BY <2>1 DEF Uses, Watched
  <2>4. ~half[d] => irqs[d] \cap Chans \subseteq engines[d]
    BY <2>1 DEF Uses, Lines, Chans
  <2>5. QED
    BY <2>2, <2>3, <2>4
<1>2. QED
  BY <1>1, DeviceTypes, InvHolds, PTL
=============================================================================
