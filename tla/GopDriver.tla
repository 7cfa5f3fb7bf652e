----------------------------- MODULE GopDriver -----------------------------
(***************************************************************************)
(* The UEFI graphics driver: the driver binding's Start() and Stop(), with *)
(* the PCI Command word they borrow, and SetMode() over the stages of the  *)
(* hardware library.  Any firmware call and any register access may fail.  *)
(*                                                                         *)
(* Boot services run one call at a time, so Start() and Stop() are         *)
(* sequences of steps; an event notification may call Blt() in the middle  *)
(* of SetMode(), which does not raise the task priority level.             *)
(***************************************************************************)
EXTENDS Naturals

CONSTANTS
  Modes,      \* gSimpleDisplayModes
  FirstMode,  \* its first, whose geometry Start() reports
  None,       \* GopMode.Mode = MAX_UINT32; a stage not programmed yet
  Mixed,      \* a stage whose registers are of no one mode
  MaxFaults,  \* bound: calls that fail
  MaxStarts,  \* bound: calls of Start()
  MaxModes    \* bound: calls of SetMode()

ASSUME ModesAssumption ==
  FirstMode \in Modes /\ None \notin Modes /\ Mixed \notin Modes
ASSUME BoundsAssumption ==
  MaxFaults \in Nat /\ MaxStarts \in Nat /\ MaxModes \in Nat

VARIABLES
  pc,         \* the next step of the call under way
  bound,      \* BoundJustNow
  target,     \* SetMode's ModeNumber; whether Start got an end node
  marker,     \* Private is installed on the controller
  parent,     \* the protocols held open BY_DRIVER
  child,      \* ChildHandle with its protocols
  childOpen,  \* ChildPciIoOpened
  saved,      \* PciAttributesSaved and PciCommandSaved
  orig,       \* OriginalPciCommand: its memory space bit
  context,    \* Private->Hardware is initialized
  mode, info, \* GopMode.Mode, GopInfo
  cmd,        \* the device's Command word: its memory space bit
  hw,         \* the mode each stage of the display pipeline is set to
  drawn,      \* the layouts of what was drawn since the last whole fill
  entry,      \* history: cmd before the driver changed it
  resaved,    \* history: orig was overwritten while it was still owed
  spoiled,    \* history: a SetMode failed since the last that succeeded
  faults, starts, sets

callVars == <<pc, bound, target>>
handleVars == <<marker, parent, child, childOpen>>
pciVars == <<saved, orig, cmd, entry, resaved>>
modeVars == <<mode, info, spoiled>>
bounds == <<faults, starts, sets>>
vars == <<callVars, handleVars, pciVars, context, modeVars, hw, drawn, bounds>>

Protocols == {"pciio", "path"}
Stages == {"clock", "vdma", "vtc"}
StageValues == Modes \cup {None, Mixed}

Init ==
  /\ pc = "idle" /\ bound = FALSE /\ target = None
  /\ marker = FALSE /\ parent = {} /\ child = FALSE /\ childOpen = FALSE
  /\ saved = FALSE /\ orig = FALSE /\ context = FALSE
  /\ mode = None /\ info = None
  /\ cmd \in BOOLEAN /\ entry = cmd
  /\ hw = [s \in Stages |-> None] /\ drawn = {}
  /\ resaved = FALSE /\ spoiled = FALSE
  /\ faults = 0 /\ starts = 0 /\ sets = 0

Works == UNCHANGED bounds
Fails ==
  faults < MaxFaults /\ faults' = faults + 1 /\ UNCHANGED <<starts, sets>>
Go(l) == pc' = l /\ UNCHANGED <<bound, target>>
Keep == UNCHANGED <<modeVars, hw, drawn>>

-----------------------------------------------------------------------------
(* Start().  The firmware asks Supported() first. *)
Supported(end) == marker => ~child /\ ~end

StartOpen(end) ==
  /\ pc = "idle" /\ starts < MaxStarts
  /\ Supported(end)
  /\ starts' = starts + 1 /\ UNCHANGED sets
  /\ target' = IF end THEN "end" ELSE None
  /\ bound' = ~marker
  /\ \/ /\ marker
        /\ pc' = "save" /\ UNCHANGED <<parent, faults>>
     \/ /\ ~marker
        /\ pc' = "path" /\ parent' = {"pciio"} /\ UNCHANGED faults
     \/ /\ ~marker /\ faults < MaxFaults
        /\ pc' = "idle" /\ faults' = faults + 1 /\ UNCHANGED parent
  /\ UNCHANGED <<marker, child, childOpen, pciVars, context>> /\ Keep

StartPath ==
  /\ pc = "path"
  /\ \/ Works /\ parent' = parent \cup {"path"} /\ Go("private")
     \/ Fails /\ UNCHANGED parent /\ Go("close")
  /\ UNCHANGED <<marker, child, childOpen, pciVars, context>> /\ Keep

(* A zeroed Private, installed as the marker: an end node needs no more. *)
StartPrivate ==
  /\ pc = "private"
  /\ \/ /\ Works
        /\ marker' = TRUE
        /\ Go(IF target = "end" THEN "idle" ELSE "save")
     \/ Fails /\ UNCHANGED marker /\ Go("close")
  /\ UNCHANGED <<parent, child, childOpen, pciVars, context>> /\ Keep

(* Read Command and the attributes, whatever is still saved from before. *)
StartSave ==
  /\ pc = "save"
  /\ \/ /\ Works
        /\ orig' = cmd /\ saved' = TRUE
        /\ entry' = IF saved THEN entry ELSE cmd
        /\ resaved' = (saved /\ (resaved \/ orig # cmd))
        /\ Go("enable")
     \/ Fails /\ UNCHANGED <<saved, orig, entry, resaved>> /\ Go("failed")
  /\ UNCHANGED <<handleVars, cmd, context>> /\ Keep

StartEnableUnread ==              \* mutant: the bit is not read back
  /\ pc = "enable"
  /\ \/ Works /\ cmd' \in {cmd, TRUE} /\ Go("context")
     \/ Fails /\ cmd' \in {cmd, TRUE} /\ Go("failed")
  /\ UNCHANGED <<handleVars, saved, orig, entry, resaved, context>> /\ Keep

(* EnablePciMemoryDecode: it may fail before or after the bit is set. *)
StartEnable ==
  /\ pc = "enable"
  /\ \/ Works /\ cmd' = TRUE /\ Go("context")
     \/ Fails /\ cmd' \in {cmd, TRUE} /\ Go("failed")
  /\ UNCHANGED <<handleVars, saved, orig, entry, resaved, context>> /\ Keep

StartContext ==
  /\ pc = "context"
  /\ \/ Works /\ context' = TRUE /\ Go("install")
     \/ Fails /\ context' = FALSE /\ Go("failed")
  /\ UNCHANGED <<handleVars, pciVars>> /\ Keep

(* The device path, the modes and the child's protocols: no mode is set. *)
InstallWith(current) ==
  /\ pc = "install"
  /\ \/ /\ Works /\ child' = TRUE
        /\ mode' = current /\ info' = FirstMode
        /\ Go("child")
     \/ /\ Fails /\ UNCHANGED child /\ Go("failed")
        /\ \/ UNCHANGED <<mode, info>>
           \/ mode' = current /\ info' = FirstMode
  /\ UNCHANGED <<marker, parent, childOpen, pciVars, context>>
  /\ UNCHANGED <<spoiled, hw, drawn>>

StartInstallMax == InstallWith("MaxMode")  \* mutant: Mode starts at MaxMode

StartInstall == InstallWith(None)

StartChild ==
  /\ pc = "child"
  /\ \/ Works /\ childOpen' = TRUE /\ UNCHANGED child /\ Go("idle")
     \/ Fails /\ child' = FALSE /\ UNCHANGED childOpen /\ Go("failed")
     \/ /\ faults + 1 < MaxFaults /\ faults' = faults + 2
        /\ UNCHANGED <<starts, sets, child, childOpen>> /\ Go("idle")
  /\ UNCHANGED <<marker, parent, pciVars, context>> /\ Keep

(* RestorePciAttributes: on any failure what is owed stays saved. *)
RestoreOwedOnly ==                \* mutant: nothing owed is an error
  /\ Works /\ saved
  /\ cmd' = orig /\ saved' = FALSE
  /\ UNCHANGED <<orig, entry, resaved>>

Restore ==
  /\ Works
  /\ cmd' = (IF saved THEN orig ELSE cmd) /\ saved' = FALSE
  /\ UNCHANGED <<orig, entry, resaved>>

RestoreFailsForgets ==            \* mutant: the flags are cleared first
  /\ Fails /\ saved
  /\ cmd' \in {cmd, orig} /\ saved' = FALSE
  /\ UNCHANGED <<orig, entry, resaved>>

RestoreFails ==
  /\ Fails /\ saved
  /\ cmd' \in {cmd, orig}
  /\ UNCHANGED <<saved, orig, entry, resaved>>

FreeChildResources == child' = FALSE /\ childOpen' = FALSE /\ context' = FALSE

StartFailedForgets ==             \* mutant: CleanupStatus is not looked at
  /\ pc = "failed"
  /\ Restore \/ RestoreFails
  /\ Go(IF bound THEN "unmark" ELSE "idle")
  /\ FreeChildResources
  /\ UNCHANGED <<marker, parent>> /\ Keep

(* ChildStartFailed: a restore that fails leaves the rest to Stop(). *)
StartFailed ==
  /\ pc = "failed"
  /\ \/ Restore /\ Go(IF bound THEN "unmark" ELSE "idle")
     \/ RestoreFails /\ Go("idle")
  /\ FreeChildResources
  /\ UNCHANGED <<marker, parent>> /\ Keep

StartUnmark ==
  /\ pc = "unmark"
  /\ \/ Works /\ marker' = FALSE /\ Go("close")
     \/ Fails /\ UNCHANGED marker /\ Go("idle")
  /\ UNCHANGED <<parent, child, childOpen, pciVars, context>> /\ Keep

StartClose ==
  /\ pc = "close"
  /\ parent' = {}
  /\ Works /\ Go("idle")
  /\ UNCHANGED <<marker, child, childOpen, pciVars, context>> /\ Keep

-----------------------------------------------------------------------------
(* Stop() with the child's handle, then without children.  The firmware    *)
(* passes the children that have the controller's PCI I/O open: the branch *)
(* of Stop() for a child that has not is never reached.                    *)
StopChild ==
  /\ pc = "idle" /\ childOpen
  /\ \/ Works /\ childOpen' = FALSE /\ Go("uninstall")
     \/ Fails /\ UNCHANGED childOpen /\ Go("idle")
  /\ UNCHANGED <<marker, parent, child, pciVars, context>> /\ Keep

(* A child that is not passed is still there: EFI_DEVICE_ERROR. *)
ChildUnlisted == pc = "idle" /\ child /\ ~childOpen

StopRefused == ChildUnlisted /\ UNCHANGED vars

StopUninstall ==
  /\ pc = "uninstall"
  /\ \/ Works /\ FreeChildResources /\ Go("restore")
     \/ /\ Fails /\ childOpen' \in BOOLEAN
        /\ UNCHANGED <<child, context>> /\ Go("idle")
  /\ UNCHANGED <<marker, parent, pciVars>> /\ Keep

StopRestore ==
  /\ pc = "restore"
  /\ Restore \/ RestoreFails
  /\ Go("idle")
  /\ UNCHANGED <<handleVars, context>> /\ Keep

StopParent ==
  /\ pc = "idle" /\ marker /\ ~child
  /\ \/ Restore /\ Go("release")
     \/ RestoreFails /\ Go("idle")
  /\ UNCHANGED <<handleVars, context>> /\ Keep

StopRelease ==
  /\ pc = "release"
  /\ \/ Works /\ marker' = FALSE /\ parent' = {} /\ context' = FALSE
     \/ Fails /\ UNCHANGED <<marker, parent, context>>
  /\ Go("idle")
  /\ UNCHANGED <<child, childOpen, pciVars>> /\ Keep

-----------------------------------------------------------------------------
(* SetMode(): SimpleDisplayHwProgramMode stage by stage, then the mode,    *)
(* then a black fill through Blt().                                        *)
SetMode(m) ==
  /\ pc = "idle" /\ child /\ sets < MaxModes
  /\ sets' = sets + 1 /\ UNCHANGED <<faults, starts>>
  /\ target' = m /\ pc' = "static" /\ UNCHANGED bound
  /\ UNCHANGED <<handleVars, pciVars, context, modeVars, hw, drawn>>

StageFails ==
  /\ Fails
  /\ spoiled' = TRUE
  /\ Go("idle")

(* GPIO, pixel unpack, colour and HDMI transmitter: the same in any mode. *)
ConfigureStatic ==
  /\ pc = "static"
  /\ \/ Works /\ UNCHANGED spoiled /\ Go("clock")
     \/ StageFails
  /\ UNCHANGED <<handleVars, pciVars, context, mode, info, hw, drawn>>

(* A stage that fails is left as it was, mixed, or already as it should be. *)
ProgramStage(s, next) ==
  /\ pc = s
  /\ \/ /\ Works /\ hw' = [hw EXCEPT ![s] = target] /\ UNCHANGED spoiled
        /\ Go(next)
     \/ /\ StageFails
        /\ \E v \in {hw[s], Mixed, target} : hw' = [hw EXCEPT ![s] = v]
  /\ UNCHANGED <<handleVars, pciVars, context, mode, info, drawn>>

ConfigureClock == ProgramStage("clock", "vdma")
ConfigureVdma == ProgramStage("vdma", "vtc")
ConfigureVtc == ProgramStage("vtc", "info")

SetInfo ==
  /\ pc = "info"
  /\ info' = target
  /\ Works /\ Go("mode")
  /\ UNCHANGED <<handleVars, pciVars, context, mode, spoiled, hw, drawn>>

SetCurrentNoFill ==               \* mutant: no black fill
  /\ pc = "mode"
  /\ mode' = target
  /\ Works /\ Go("idle")
  /\ UNCHANGED <<handleVars, pciVars, context, info, spoiled, hw, drawn>>

SetCurrent ==
  /\ pc = "mode"
  /\ mode' = target
  /\ Works /\ Go("fill")
  /\ UNCHANGED <<handleVars, pciVars, context, info, spoiled, hw, drawn>>

SetFill ==
  /\ pc = "fill"
  /\ \/ Works /\ drawn' = {} /\ spoiled' = FALSE
     \/ Fails /\ UNCHANGED drawn /\ spoiled' = TRUE
  /\ Go("idle")
  /\ UNCHANGED <<handleVars, pciVars, context, mode, info, hw>>

(* A client's or an event's Blt() into the frame buffer, laid out by info. *)
Blt ==
  /\ child /\ mode # None
  /\ drawn' = drawn \cup {info}
  /\ UNCHANGED <<callVars, handleVars, pciVars, context, modeVars, hw, bounds>>

StartStep == \/ StartPath \/ StartPrivate \/ StartSave \/ StartEnable
             \/ StartContext \/ StartInstall \/ StartChild \/ StartFailed
             \/ StartUnmark \/ StartClose
StopStep == StopUninstall \/ StopRestore \/ StopRelease
SetStep == \/ ConfigureStatic
           \/ ConfigureClock \/ ConfigureVdma \/ ConfigureVtc
           \/ SetInfo \/ SetCurrent \/ SetFill

Next == \/ \E end \in BOOLEAN : StartOpen(end)
        \/ StartStep
        \/ StopChild \/ StopRefused \/ StopParent \/ StopStep
        \/ \E m \in Modes : SetMode(m)
        \/ SetStep
        \/ Blt

(* A call that began runs to its end, and the firmware keeps asking for    *)
(* the driver to be stopped, with the children it finds, until it is.      *)
Fairness == /\ WF_vars(StartStep) /\ WF_vars(StopStep) /\ WF_vars(SetStep)
            /\ SF_vars(StopChild) /\ SF_vars(StopParent)

Spec == Init /\ [][Next]_vars /\ Fairness
-----------------------------------------------------------------------------
SetPcs == {"static", "clock", "vdma", "vtc", "info", "mode", "fill"}
Pcs == {"idle", "path", "private", "save", "enable", "context", "install",
        "child", "failed", "unmark", "close", "uninstall", "restore",
        "release"} \cup SetPcs

FlagsOK ==
  /\ bound \in BOOLEAN
  /\ marker \in BOOLEAN /\ child \in BOOLEAN /\ childOpen \in BOOLEAN
  /\ saved \in BOOLEAN /\ orig \in BOOLEAN /\ context \in BOOLEAN
  /\ cmd \in BOOLEAN /\ entry \in BOOLEAN
  /\ resaved \in BOOLEAN /\ spoiled \in BOOLEAN

(* Type invariant: the driver's fields, the device's and the history stay  *)
(* among the values the code gives them.                                   *)
TypeOK ==
  /\ FlagsOK
  /\ pc \in Pcs /\ target \in Modes \cup {None, "end"}
  /\ pc \in SetPcs => target \in Modes
  /\ parent \subseteq Protocols
  /\ mode \in Modes \cup {None} /\ info \in Modes \cup {None}
  /\ hw \in [Stages -> StageValues] /\ drawn \subseteq Modes \cup {None}
  /\ faults \in 0 .. MaxFaults /\ starts \in 0 .. MaxStarts
  /\ sets \in 0 .. MaxModes

(* Between calls the driver holds all of a state or none of it, whichever  *)
(* step failed and whichever undo failed after it: the marker and both     *)
(* BY_DRIVER opens together; a child only over an initialized device whose *)
(* old Command is saved; nothing owed without the marker Stop() needs to   *)
(* pay it back.                                                            *)
DriverWhole ==
  /\ pc = "idle" => parent = (IF marker THEN Protocols ELSE {})
  /\ child => marker /\ context /\ saved
  /\ childOpen => child
  /\ pc = "idle" /\ saved => marker

(* Once nothing is owed, the Command word is what it was when the driver   *)
(* first changed it.  A Start() after a restore that failed saves the      *)
(* modified word over the saved one: that borrow is excepted.              *)
EntryRestored == pc = "idle" /\ ~saved => cmd = entry \/ resaved

(* The comment in ChildStartFailed: the exact entry attributes come back.  *)
ExactEntryRestored == pc = "idle" /\ ~marker => cmd = entry

(* The mode the protocol reports is the one every stage is programmed for, *)
(* and what is on the screen was drawn in that mode's layout, unless a     *)
(* SetMode() failed since the last one that succeeded: events that draw in *)
(* the middle of it, and children stopped and started again, included.     *)
ModeIsShown ==
  pc = "idle" /\ child /\ mode # None /\ ~spoiled =>
    info = mode /\ hw = [s \in Stages |-> mode] /\ drawn \subseteq {mode}

(* No access reaches the device's memory window unless decode is on: no    *)
(* step that programs a stage or draws is taken after a restore.           *)
MmioDecoded == [][hw' # hw \/ drawn' # drawn => cmd]_vars

(* Stop() can finish: asked often enough, it ends with the driver gone     *)
(* from the controller, whatever Start() and Stop() failed at before.      *)
(* Excepted is a child that a failing call left without the PCI I/O open:  *)
(* no Stop() is ever passed it.                                            *)
Released == marker ~> ~marker \/ ChildUnlisted
=============================================================================
