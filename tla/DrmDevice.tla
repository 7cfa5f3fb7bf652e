----------------------------- MODULE DrmDevice ------------------------------
(***************************************************************************)
(* The display driver as the XDMA library's client: probe, remove and the  *)
(* release at the last reference; mode programming from KMS commits; one   *)
(* file per device, whose ioctl may outlive the removal; DMA while the     *)
(* pipe is on (its uploads are UploadPath's).  Extends XdmaDevice, whose   *)
(* steps are the body of the open and close called here.                   *)
(*                                                                         *)
(* The driver core probes and removes one at a time; a commit holds the    *)
(* modeset locks; the two, the file and the release run concurrently.      *)
(***************************************************************************)
EXTENDS XdmaDevice, Sequences

CONSTANTS
  Modes,       \* fpga_video_modes
  Preferred,   \* fpga_drm_preferred_mode()
  Mixed,       \* a block whose registers are of no one mode
  MaxCommits   \* bound: commits of the user

ASSUME ModesAssumption ==
  Preferred \in Modes /\ None \notin Modes /\ Mixed \notin Modes
ASSUME CommitsAssumption == MaxCommits \in Nat

VARIABLES
  core, cur,   \* the driver core's step, the device it is at
  ref,         \* devres holds its reference on the drm_device
  drmm,        \* the managed actions of each, in the order registered
  visible,     \* between drm_dev_register and drm_dev_unplug
  file,        \* the user's file on each
  kms, by, to, \* the commit under way: its step, its caller, its mode
  active,      \* DRM's state: the CRTC is on
  pipe,        \* pipe_enabled
  mode,        \* active_mode
  dma,         \* an upload reads the line buffers
  hw,          \* what each block of the pipeline is set to
  commits

coreVars == <<core, cur, ref, drmm, visible>>
kmsVars == <<kms, by, to, active, pipe, mode, dma, hw>>
fileVars == <<file, commits>>
vars == <<libVars, coreVars, kmsVars, fileVars>>

StaticBlocks == {"gpio", "unpack", "color", "hdmi"}
Blocks == StaticBlocks \cup {"clock", "vdma", "vtc"}

Init ==
  /\ LibInit
  /\ core = "unbound" /\ cur = None
  /\ ref = [d \in Devs |-> FALSE] /\ drmm = [d \in Devs |-> <<>>]
  /\ visible = [d \in Devs |-> FALSE] /\ file = [d \in Devs |-> "none"]
  /\ kms = [d \in Devs |-> "idle"] /\ by = [d \in Devs |-> "user"]
  /\ to = [d \in Devs |-> None] /\ active = [d \in Devs |-> FALSE]
  /\ pipe = [d \in Devs |-> FALSE]
  /\ mode = [d \in Devs |-> Preferred]
  /\ dma = [d \in Devs |-> FALSE] /\ hw = [b \in Blocks |-> None]
  /\ commits = 0

KeepLib == UNCHANGED shared

-----------------------------------------------------------------------------
(* fpga_drm_probe(): any step may fail, and devres then drops the only     *)
(* reference.                                                              *)
Probe(d) ==
  /\ core = "unbound" /\ pc[d] = "none" /\ ~ref[d] /\ drmm[d] = <<>>
  /\ core' = "buffers" /\ cur' = d
  /\ ref' = [ref EXCEPT ![d] = TRUE]
  /\ Works /\ KeepLib
  /\ UNCHANGED <<drmm, visible, kmsVars, fileVars>>

At(s) == core = s
CoreTo(s) == core' = s /\ UNCHANGED cur

(* sg_free_table is registered before the lines are allocated. *)
AllocFrameBuffers ==
  /\ At("buffers")
  /\ \/ Works /\ CoreTo("open") /\ drmm' = [drmm EXCEPT ![cur] = <<"buffers">>]
     \/ /\ Fails /\ CoreTo("failed")
        /\ drmm' \in {drmm, [drmm EXCEPT ![cur] = <<"buffers">>]}
  /\ KeepLib /\ UNCHANGED <<ref, visible, kmsVars, fileVars>>

OpenXdma ==
  /\ At("open") /\ OpenCall(cur) /\ Works /\ CoreTo("opening")
  /\ UNCHANGED <<ref, drmm, visible, kmsVars, fileVars>>

(* Without H2C channel or BAR, or without the managed action, the device   *)
(* is closed again at once.                                                *)
OpenedWith(null, closes) ==
  /\ At("opening") /\ pc[cur] \in {"open", "gone"}
  /\ \/ /\ pc[cur] = "gone" /\ CoreTo(null)
        /\ Works /\ KeepLib /\ UNCHANGED drmm
     \/ /\ pc[cur] = "open" /\ "h2c" \in engines[cur] /\ CoreTo("contract")
        /\ drmm' = [drmm EXCEPT ![cur] = Append(@, "xdma")]
        /\ Works /\ KeepLib
     \/ /\ pc[cur] = "open"
        /\ IF "h2c" \in engines[cur] THEN Fails ELSE Works
        /\ IF closes THEN CloseCall(cur) /\ CoreTo("closing")
           ELSE KeepLib /\ CoreTo("failed")
        /\ UNCHANGED drmm
  /\ UNCHANGED <<ref, visible, kmsVars, fileVars>>

OpenedXdmaUnchecked == OpenedWith("contract", TRUE)  \* mutant: NULL is used

OpenedXdmaForgets == OpenedWith("failed", FALSE)  \* mutant: no close

OpenedXdma == OpenedWith("failed", TRUE)

ClosedXdmaAgain ==                \* mutant: ..._or_reset closed it already
  /\ At("closing") /\ Step(cur, "gone", "teardown") /\ CoreTo("failed")
  /\ UNCHANGED <<held, engines, irqs, inUse, owner, threads, half>> /\ Fixed
  /\ Works /\ UNCHANGED <<ref, drmm, visible, kmsVars, fileVars>>

ClosedXdma ==
  /\ At("closing") /\ Returned(cur) /\ CoreTo("failed")
  /\ Works /\ KeepLib /\ UNCHANGED <<ref, drmm, visible, kmsVars, fileVars>>

(* Checks that change nothing: the hardware contract, the DDR scratch test *)
(* that restores its words, and the KMS objects.                           *)
ProbeCheck(s, next) ==
  /\ At(s)
  /\ \/ Works /\ CoreTo(next)
     \/ Fails /\ CoreTo("failed")
  /\ KeepLib /\ UNCHANGED <<ref, drmm, visible, kmsVars, fileVars>>

ValidateHwContract == ProbeCheck("contract", "gpio")
DdrScratchTest == ProbeCheck("scratch", "modeset")
ModesetInit == ProbeCheck("modeset", "register")

(* fpga_drm_configure_static_pipeline(): the blocks no mode changes. *)
StaticBlock(b, next) ==
  /\ At(b)
  /\ \/ Works /\ CoreTo(next) /\ hw' = [hw EXCEPT ![b] = "set"]
     \/ Fails /\ CoreTo("failed") /\ hw' = [hw EXCEPT ![b] = Mixed]
  /\ KeepLib /\ UNCHANGED <<ref, drmm, visible, fileVars>>
  /\ UNCHANGED <<kms, by, to, active, pipe, mode, dma>>

ConfigVideoLockGpio == StaticBlock("gpio", "unpack")
ConfigPixelUnpack == StaticBlock("unpack", "color")
ConfigColorConvert == StaticBlock("color", "hdmi")
ConfigIicHdmi == StaticBlock("hdmi", "scratch")

DevRegister ==
  /\ At("register")
  /\ \/ Works /\ CoreTo("bound") /\ visible' = [visible EXCEPT ![cur] = TRUE]
     \/ Fails /\ CoreTo("failed") /\ UNCHANGED visible
  /\ KeepLib /\ UNCHANGED <<ref, drmm, kmsVars, fileVars>>

(* devres, after a failed probe or a removal. *)
DevresRelease ==
  /\ core \in {"failed", "removed"}
  /\ core' = "unbound" /\ cur' = None
  /\ ref' = [ref EXCEPT ![cur] = FALSE]
  /\ Works /\ KeepLib /\ UNCHANGED <<drmm, visible, kmsVars, fileVars>>

ProbeStep ==
  \/ AllocFrameBuffers \/ OpenXdma \/ OpenedXdma \/ ClosedXdma
  \/ ValidateHwContract \/ ConfigVideoLockGpio \/ ConfigPixelUnpack
  \/ ConfigColorConvert \/ ConfigIicHdmi \/ DdrScratchTest
  \/ ModesetInit \/ DevRegister \/ DevresRelease

-----------------------------------------------------------------------------
(* The last reference is gone: the managed actions run, last one first.    *)
Unused(d) == ~ref[d] /\ file[d] = "none"

ReleaseFirst(d) ==                \* mutant: first registered, first run
  /\ Unused(d) /\ drmm[d] # <<>>
  /\ \/ /\ drmm[d][1] = "xdma" /\ pc[d] = "open"
        /\ CloseCall(d) /\ Works /\ UNCHANGED drmm
     \/ /\ drmm[d][1] = "xdma" => Returned(d)
        /\ drmm' = [drmm EXCEPT ![d] = Tail(@)]
        /\ Works /\ KeepLib
  /\ UNCHANGED <<core, cur, ref, visible, kmsVars, fileVars>>

Release(d) ==
  /\ Unused(d) /\ drmm[d] # <<>>
  /\ LET last == Len(drmm[d]) IN
     \/ /\ drmm[d][last] = "xdma"
        /\ CloseCall(d) /\ Works /\ UNCHANGED drmm
     \/ /\ drmm[d][last] = "xdma" => Returned(d)
        /\ drmm' = [drmm EXCEPT ![d] = SubSeq(@, 1, last - 1)]
        /\ Works /\ KeepLib
  /\ UNCHANGED <<core, cur, ref, visible, kmsVars, fileVars>>

-----------------------------------------------------------------------------
(* A commit under the modeset locks: to turn the CRTC off, or to a mode.   *)
(* DRM calls atomic_disable only for a CRTC its state says is on.          *)
Commit(d, who, m) ==
  /\ kms[d] = "idle"
  /\ by' = [by EXCEPT ![d] = who] /\ to' = [to EXCEPT ![d] = m]
  /\ kms' = [kms EXCEPT ![d] = IF active[d] THEN "disable"
                               ELSE IF m = None THEN "done" ELSE "stop"]
  /\ UNCHANGED <<active, pipe, mode, dma, hw>>

KmsStep(d, here, next) == kms[d] = here /\ kms' = [kms EXCEPT ![d] = next]
KeepKms == UNCHANGED <<by, to>> /\ KeepLib /\ UNCHANGED <<coreVars, fileVars>>

AtomicDisable(d) ==
  /\ KmsStep(d, "disable", "stopped") /\ Works
  /\ pipe' = [pipe EXCEPT ![d] = FALSE]
  /\ UNCHANGED <<active, mode, dma, hw>> /\ KeepKms

DisableStopsNothing(d) ==         \* mutant: atomic_disable lets uploads be
  /\ KmsStep(d, "stopped", IF to[d] = None THEN "done" ELSE "stop") /\ Works
  /\ active' = [active EXCEPT ![d] = FALSE]
  /\ UNCHANGED <<pipe, mode, dma, hw>> /\ KeepKms

DisableStops(d) ==
  /\ KmsStep(d, "stopped", IF to[d] = None THEN "done" ELSE "stop") /\ Works
  /\ active' = [active EXCEPT ![d] = FALSE]
  /\ dma' = [dma EXCEPT ![d] = FALSE]
  /\ UNCHANGED <<pipe, mode, hw>> /\ KeepKms

EnableStops(d) ==
  /\ KmsStep(d, "stop", "clock") /\ Works
  /\ dma' = [dma EXCEPT ![d] = FALSE]
  /\ active' = [active EXCEPT ![d] = TRUE]
  /\ UNCHANGED <<pipe, mode, hw>> /\ KeepKms

(* fpga_drm_program_mode(): the first block that fails ends it, with its   *)
(* registers as they were, mixed, or all written but not confirmed.        *)
ProgramBlock(d, b, next) ==
  /\ \/ /\ KmsStep(d, b, next) /\ Works
        /\ hw' = [hw EXCEPT ![b] = to[d]]
     \/ /\ KmsStep(d, b, "done") /\ Fails
        /\ \E v \in {hw[b], Mixed, to[d]} : hw' = [hw EXCEPT ![b] = v]
  /\ UNCHANGED <<active, pipe, mode, dma>> /\ KeepKms

ConfigVdmaUnchecked(d) ==         \* mutant: MM2S fails and is ignored
  /\ KmsStep(d, "vdma", "vtc")
  /\ \/ Works /\ hw' = [hw EXCEPT !["vdma"] = to[d]]
     \/ Fails /\ hw' = [hw EXCEPT !["vdma"] = Mixed]
  /\ UNCHANGED <<active, pipe, mode, dma>> /\ KeepKms

ConfigClkWiz(d) == ProgramBlock(d, "clock", "vdma")
ConfigVdma(d) == ProgramBlock(d, "vdma", "vtc")
ConfigVtc(d) == ProgramBlock(d, "vtc", "confirm")

(* The DDR test pattern and the status registers read back. *)
ProgramConfirm(d) ==
  /\ \/ KmsStep(d, "confirm", "enable") /\ Works
     \/ KmsStep(d, "confirm", "done") /\ Fails
  /\ UNCHANGED <<active, pipe, mode, dma, hw>> /\ KeepKms

EnablePipe(d) ==
  /\ KmsStep(d, "enable", "done") /\ Works
  /\ mode' = [mode EXCEPT ![d] = to[d]]
  /\ pipe' = [pipe EXCEPT ![d] = TRUE]
  /\ UNCHANGED <<active, dma, hw>> /\ KeepKms

(* The commit returns to its caller. *)
CommitDone(d) ==
  /\ KmsStep(d, "done", "idle") /\ Works
  /\ file' = [file EXCEPT ![d] = CASE by[d] = "user" -> "open"
                                   [] by[d] = "close" -> "none"
                                   [] OTHER -> @]
  /\ core' = IF by[d] = "remove" THEN "stop" ELSE core
  /\ by' = [by EXCEPT ![d] = "user"] /\ to' = [to EXCEPT ![d] = None]
  /\ KeepLib /\ UNCHANGED <<cur, ref, drmm, visible, commits>>
  /\ UNCHANGED <<active, pipe, mode, dma, hw>>

CommitStep(d) ==
  \/ AtomicDisable(d) \/ DisableStops(d) \/ EnableStops(d)
  \/ ConfigClkWiz(d) \/ ConfigVdma(d) \/ ConfigVtc(d)
  \/ ProgramConfirm(d) \/ EnablePipe(d) \/ CommitDone(d)

-----------------------------------------------------------------------------
(* fpga_drm_remove() *)
Remove ==
  /\ At("bound") /\ CoreTo("shutdown")
  /\ visible' = [visible EXCEPT ![cur] = FALSE]
  /\ Works /\ KeepLib /\ UNCHANGED <<ref, drmm, kmsVars, fileVars>>

RemoveWaitsForFile ==             \* mutant: open files are waited for
  /\ At("shutdown") /\ file[cur] = "none"
  /\ Commit(cur, "remove", None) /\ CoreTo("waiting")
  /\ Works /\ KeepLib /\ UNCHANGED <<ref, drmm, visible, fileVars>>

RemoveShutdown ==
  /\ At("shutdown") /\ Commit(cur, "remove", None) /\ CoreTo("waiting")
  /\ Works /\ KeepLib /\ UNCHANGED <<ref, drmm, visible, fileVars>>

RemoveStops ==
  /\ At("stop") /\ CoreTo("removed")
  /\ dma' = [dma EXCEPT ![cur] = FALSE]
  /\ Works /\ KeepLib /\ UNCHANGED <<ref, drmm, visible, fileVars>>
  /\ UNCHANGED <<kms, by, to, active, pipe, mode, hw>>

(* fpga_drm_shutdown(): the system goes down with the driver bound. *)
Shutdown ==
  /\ At("bound") /\ active[cur] /\ Commit(cur, "shutdown", None)
  /\ Works /\ KeepLib /\ UNCHANGED <<coreVars, fileVars>>

(* The user's file.  drm_ioctl() asks whether the device is unplugged on   *)
(* entry only; closing the file removes its frame buffers, which turns the *)
(* CRTC off, unplugged or not.                                             *)
FileTo(d, f) == file' = [file EXCEPT ![d] = f]

OpenFile(d) ==
  /\ visible[d] /\ file[d] = "none" /\ FileTo(d, "open")
  /\ Works /\ KeepLib /\ UNCHANGED <<coreVars, kmsVars, commits>>

EnterIoctl(d) ==
  /\ visible[d] /\ file[d] = "open" /\ commits < MaxCommits
  /\ FileTo(d, "ioctl") /\ commits' = commits + 1
  /\ Works /\ KeepLib /\ UNCHANGED <<coreVars, kmsVars>>

UserCommit(d, m) ==
  /\ file[d] = "ioctl" /\ FileTo(d, "commit") /\ Commit(d, "user", m)
  /\ Works /\ KeepLib /\ UNCHANGED <<coreVars, commits>>

CloseFile(d) ==
  /\ file[d] = "open" /\ FileTo(d, "closing")
  /\ Works /\ KeepLib /\ UNCHANGED <<coreVars, kmsVars, commits>>

RemoveFbs(d) ==
  /\ file[d] = "closing" /\ FileTo(d, "rmfb") /\ Commit(d, "close", None)
  /\ Works /\ KeepLib /\ UNCHANGED <<coreVars, commits>>

(* upload_work submits a frame, which the library refuses while another    *)
(* structure is first on its list; and the frame completes.                *)
Upload(d) ==
  /\ pipe[d] /\ First(d) /\ ~dma[d] /\ dma' = [dma EXCEPT ![d] = TRUE]
  /\ Works /\ KeepLib /\ UNCHANGED <<coreVars, fileVars>>
  /\ UNCHANGED <<kms, by, to, active, pipe, mode, hw>>

DmaComplete(d) ==
  /\ dma[d] /\ dma' = [dma EXCEPT ![d] = FALSE]
  /\ Works /\ KeepLib /\ UNCHANGED <<coreVars, fileVars>>
  /\ UNCHANGED <<kms, by, to, active, pipe, mode, hw>>

RemoveStep == RemoveShutdown \/ RemoveStops
FileStep(d) == RemoveFbs(d) \/ \E m \in Modes \cup {None} : UserCommit(d, m)
LibraryStep(d) ==
  LibStep(d) /\ UNCHANGED <<coreVars, kmsVars, fileVars>>

DeviceStep(d) ==
  \/ Probe(d) \/ Release(d) \/ LibraryStep(d) \/ CommitStep(d)
  \/ OpenFile(d) \/ EnterIoctl(d) \/ CloseFile(d) \/ FileStep(d)
  \/ Upload(d) \/ DmaComplete(d)

Next == \/ ProbeStep \/ Remove \/ RemoveStep \/ Shutdown
        \/ \E d \in Devs : DeviceStep(d)

(* Calls that began run on; commits that wait for the modeset locks get    *)
(* them.  Nobody has to bind, commit, unbind or close.                     *)
Fairness ==
  /\ WF_vars(ProbeStep) /\ SF_vars(RemoveStep)
  /\ \A d \in Devs : /\ WF_vars(LibraryStep(d)) /\ WF_vars(Release(d))
                     /\ WF_vars(CommitStep(d)) /\ SF_vars(FileStep(d))

Spec == Init /\ [][Next]_vars /\ Fairness
-----------------------------------------------------------------------------
CoreSteps == {"unbound", "buffers", "open", "opening", "closing", "contract",
              "gpio", "unpack", "color", "hdmi", "scratch", "modeset",
              "register", "bound", "failed", "shutdown", "waiting", "stop",
              "removed"}
KmsSteps == {"idle", "disable", "stopped", "stop", "clock", "vdma", "vtc",
             "confirm", "enable", "done"}

(* Type invariant: the library's state, the driver core's place, what is   *)
(* registered for release, the file, the commit and the hardware.          *)
TypeOK ==
  /\ LibTypeOK
  /\ core \in CoreSteps /\ (cur \in Devs) = (core # "unbound")
  /\ ref \in [Devs -> BOOLEAN] /\ visible \in [Devs -> BOOLEAN]
  /\ \A d \in Devs : drmm[d] \in {<<>>, <<"buffers">>, <<"buffers", "xdma">>}
  /\ file \in [Devs -> {"none", "open", "ioctl", "commit", "closing", "rmfb"}]
  /\ kms \in [Devs -> KmsSteps]
  /\ by \in [Devs -> {"user", "close", "remove", "shutdown"}]
  /\ to \in [Devs -> Modes \cup {None}] /\ mode \in [Devs -> Modes]
  /\ active \in [Devs -> BOOLEAN] /\ pipe \in [Devs -> BOOLEAN]
  /\ dma \in [Devs -> BOOLEAN]
  /\ hw \in [Blocks -> Modes \cup {None, Mixed, "set"}]
  /\ commits \in 0 .. MaxCommits

(* A pipe that is on shows its mode: every block is programmed for         *)
(* active_mode and the static pipeline is set, whatever failed in earlier  *)
(* commits, and whatever a probe of the same function tried meanwhile.     *)
PipeShowsMode ==
  \A d \in Devs : pipe[d] =>
    \A b \in Blocks : hw[b] = (IF b \in StaticBlocks THEN "set" ELSE mode[d])

(* An upload reads buffers that exist through an engine that is open: no   *)
(* release overtakes it, also when a commit entered before the removal is  *)
(* carried out after it and turns the pipe on again.                       *)
DmaHasDevice ==
  \A d \in Devs : dma[d] \/ pipe[d] =>
    /\ pc[d] = "open" /\ "h2c" \in engines[d]
    /\ drmm[d] = <<"buffers", "xdma">>

(* Registers are only written through mapped BARs of an enabled function   *)
(* whose regions the writer has.                                           *)
RegistersMapped ==
  [][hw' # hw => \E d \in Devs :
       /\ kms'[d] # kms[d] \/ (cur = d /\ core' # core)
       /\ {"enable", "regions", "bars"} \subseteq held[d]]_vars

(* A device no longer bound whose file is closed is released to the end,   *)
(* its XDMA device closed, whatever its probe failed at.  Excepted is the  *)
(* close that the library turns away, since an older structure of the same *)
(* function is still on its list.                                          *)
Released ==
  \A d \in Devs :
    (drmm[d] # <<>> /\ Unused(d))
      ~> (drmm[d] = <<>>
           /\ (pc[d] \in {"none", "gone"} \/ (pc[d] = "kept" /\ ahead[d] # {})))

(* The removal comes to its end: it waits for the modeset locks, for       *)
(* uploads and for nothing a user could hold forever.                      *)
RemoveReturns == core = "shutdown" ~> core = "unbound"

(* The driver uses the library as it is meant to be used: every structure  *)
(* is opened once, closed once, and only when its open succeeded.          *)
Library == LibSpec
=============================================================================
