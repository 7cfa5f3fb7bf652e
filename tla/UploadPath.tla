----------------------------- MODULE UploadPath -----------------------------
(***************************************************************************)
(* The frame upload path of fpga_drm_drv.c: how an atomic commit becomes a *)
(* DMA transfer of the composed frame to the FPGA.                         *)
(*                                                                         *)
(* Threads, each a program counter:                                        *)
(*   cpc   the DRM commit thread (atomic_disable, flush, enable); commits  *)
(*         of the one CRTC run one after the other                         *)
(*   rpc   fpga_drm_remove, whose stop_uploads runs beside later commits   *)
(*   upc   upload_work, one work item: at most one run of it at a time     *)
(*   kpc   dma_complete_work                                               *)
(*   tpc   dma_timeout_work, the delayed work                              *)
(*   svc   libxdma's engine_service_work, under engine->lock               *)
(*   hw    the H2C DMA engine of the FPGA                                  *)
(*                                                                         *)
(* What upload_lock protects is read or written in one critical section,   *)
(* so each such section is one action; dma_lock is held across steps and   *)
(* is a variable.  A framebuffer is its commit's number, its content too.  *)
(***************************************************************************)
EXTENDS Integers

CONSTANTS
  Modes,          \* the video modes of the CRTC
  NoMode,         \* no mode: what a commit without one carries
  MaxCommits,     \* bound: number of userspace commits in a behaviour
  EnableOverlay,  \* module parameter enable_overlay
  Faults          \* what may go wrong in a behaviour, a subset of AllFaults

Planes == {"primary", "overlay"}
AllFaults == {"timeout",       \* dma_timeout_work expires before the callback
              "stop_timeout",  \* stop_uploads gives up waiting for DMA idle
              "compose",       \* fpga_drm_compose_frame fails
              "submit",        \* xdma_xfer_submit_lines_nowait refuses
              "start",         \* transfer_queue ignores a failed engine_start
              "xfer",          \* the engine reports a failed transfer
              "mode",          \* fpga_drm_program_mode fails
              "upload_off"}    \* upload_enabled is cleared at run time

ASSUME MaxCommitsAssumption == MaxCommits \in Nat
ASSUME ModesAssumption == Modes # {} /\ NoMode \notin Modes
ASSUME OverlayAssumption == EnableOverlay \in BOOLEAN
ASSUME FaultsAssumption == Faults \subseteq AllFaults

Versions == 0 .. MaxCommits            \* 0 stands for "no framebuffer"
Frames == [Planes -> Versions]
NoFrame == [p \in Planes |-> 0]
PlanesInUse == IF EnableOverlay THEN Planes ELSE {"primary"}

VARIABLES
  cpc,            \* where the commit thread is
  stop_for,       \* which callback the commit's stop_uploads returns to
  commit,         \* the commit being applied
  commits,        \* number of userspace commits so far
  crtc,           \* DRM's own CRTC state: no mode, inactive (DPMS) or active
  drm_primary,    \* DRM's own plane state: the primary plane's framebuffer
  rpc,            \* where fpga_drm_remove is
  late,           \* history: a user commit came after remove's own commit
  pipe_enabled, active_mode,
  snapshot,       \* fpga->primary and fpga->overlay
  fbRefs,         \* references the driver took on each framebuffer
  upload_queued,  \* upload_work is on the workqueue
  upc, held,      \* upload_work and its two local snapshots
  complete_queued,
  kpc, completion_len,
  timer,          \* dma_timeout_work is armed
  tpc,
  stale,          \* history: reporters whose own frame is already finished
  dma_lock,
  dma_inflight, dma_completion_pending, dma_completion_err, upload_pending,
  line_bufs, frame_mode,  \* content of the staging buffers, mode of the frame
  last_upload,    \* outcome of the last attempt, what the counters tell
  req,            \* frame_cb.req, as the state of its transfer
  hw, irq, svc,
  screen          \* the last frame the FPGA received whole

removeVars == <<rpc, late>>
commitVars == <<cpc, stop_for, commit, commits, crtc, drm_primary, removeVars>>
pipeVars == <<pipe_enabled, active_mode>>
planeVars == <<snapshot, fbRefs>>
uploadVars == <<upload_queued, upc, held>>
completeVars == <<complete_queued, kpc, completion_len>>
timerVars == <<timer, tpc, stale>>
stateVars == <<dma_inflight, dma_completion_pending, dma_completion_err,
               upload_pending>>
bufVars == <<line_bufs, frame_mode, last_upload>>
engineVars == <<req, hw, irq, svc, screen>>
vars == <<commitVars, pipeVars, planeVars, uploadVars, completeVars,
          timerVars, dma_lock, stateVars, bufVars, engineVars>>

Kinds == {"flip", "modeset", "off", "remove"}
Commits == [kind : Kinds, mode : Modes \cup {NoMode},
            changed : SUBSET Planes, shown : SUBSET Planes]
NoCommit == [kind |-> "flip", mode |-> NoMode, changed |-> {}, shown |-> {}]
StopSteps == {"cancel", "wait_idle", "force_flush", "sync_timer",
              "flush_complete", "clear"}
CommitSteps == StopSteps \cup
               {"idle", "disable", "flush", "queue", "program"}
RemoveSteps == StopSteps \cup {"bound", "shutdown", "removed"}
UploadLocked == {"compose", "submit", "xdma", "arm"}
UploadSteps == UploadLocked \cup {"idle", "snap", "lock", "put"}
CompleteLocked == {"xfer", "abort", "finish", "resched"}
CompleteSteps == CompleteLocked \cup {"idle", "lock"}

(* The type invariant: every variable of the driver's state, the libxdma   *)
(* request and the engine stays among the values named here.               *)
FlagsOK ==
  /\ pipe_enabled \in BOOLEAN
  /\ upload_queued \in BOOLEAN
  /\ complete_queued \in BOOLEAN
  /\ timer \in BOOLEAN
  /\ late \in BOOLEAN
  /\ dma_inflight \in BOOLEAN
  /\ dma_completion_pending \in BOOLEAN
  /\ upload_pending \in BOOLEAN
  /\ irq \in BOOLEAN

TypeOK ==
  /\ FlagsOK
  /\ cpc \in CommitSteps
  /\ stop_for \in {"disable", "enable"}
  /\ rpc \in RemoveSteps
  /\ commit \in Commits
  /\ commits \in Versions
  /\ crtc \in {"off", "dpms", "active"}
  /\ drm_primary \in Versions
  /\ active_mode \in Modes \cup {NoMode}
  /\ snapshot \in Frames
  /\ fbRefs \in [Planes -> [Versions -> Int]]
  /\ upc \in UploadSteps
  /\ held \in Frames
  /\ kpc \in CompleteSteps
  /\ completion_len \in {"none", "frame"}
  /\ tpc \in {"idle", "run", "sched"}
  /\ stale \subseteq {"timer", "engine"}
  /\ dma_lock \in {"free", "upload", "complete"}
  /\ dma_completion_err \in {"none", "timedout"}
  /\ line_bufs \in Frames
  /\ frame_mode \in Modes \cup {NoMode}
  /\ last_upload \in {"none", "ok", "failed"}
  /\ req \in {"none", "submitted", "completed", "failed"}
  /\ hw \in {"idle", "busy", "done", "draining"}
  /\ svc \in {"idle", "cb", "sched"}
  /\ screen \in Frames

(* The probe leaves the preferred mode in active_mode, with the pipe off.  *)
Init ==
  /\ cpc = "idle" /\ stop_for = "disable" /\ commit = NoCommit
  /\ rpc = "bound" /\ late = FALSE
  /\ commits = 0 /\ crtc = "off" /\ drm_primary = 0
  /\ pipe_enabled = FALSE /\ active_mode \in Modes
  /\ snapshot = NoFrame
  /\ fbRefs = [p \in Planes |-> [v \in Versions |-> 0]]
  /\ upload_queued = FALSE /\ upc = "idle" /\ held = NoFrame
  /\ complete_queued = FALSE /\ kpc = "idle" /\ completion_len = "none"
  /\ timer = FALSE /\ tpc = "idle" /\ stale = {}
  /\ dma_lock = "free"
  /\ dma_inflight = FALSE /\ dma_completion_pending = FALSE
  /\ dma_completion_err = "none" /\ upload_pending = FALSE
  /\ line_bufs = NoFrame /\ frame_mode = NoMode /\ last_upload = "none"
  /\ req = "none" /\ hw = "idle" /\ irq = FALSE /\ svc = "idle"
  /\ screen = NoFrame

-----------------------------------------------------------------------------
(* drm_framebuffer_get on the planes of got, drm_framebuffer_put on those  *)
(* of dropped; 0 is the NULL both helpers are never called with.           *)
Bit(b) == IF b THEN 1 ELSE 0
RefsWithoutGet(got, dropped) ==       \* mutant: drm_framebuffer_get is missing
  [p \in Planes |-> [v \in Versions |->
     fbRefs[p][v] - Bit(v # 0 /\ dropped[p] = v)]]
Refs(got, dropped) ==
  [p \in Planes |-> [v \in Versions |->
     fbRefs[p][v] + Bit(v # 0 /\ got[p] = v) - Bit(v # 0 /\ dropped[p] = v)]]

DmaIdleButInFlight == ~dma_completion_pending   \* mutant: half the test

(* fpga_drm_dma_idle, fpga_drm_dma_busy without its side effect *)
DmaIdle == ~dma_inflight /\ ~dma_completion_pending

RecordsAgain == dma_inflight /\ dma_completion_pending  \* mutant: inverted test

(* fpga_drm_queue_dma_completion up to the unlock: whether it records the  *)
(* report, and the recorded state.                                         *)
Records == dma_inflight /\ ~dma_completion_pending
RecordCompletion(err) ==
  /\ dma_completion_pending' = (dma_completion_pending \/ Records)
  /\ dma_completion_err' = IF Records THEN err ELSE dma_completion_err
  /\ UNCHANGED <<dma_inflight, upload_pending>>

-----------------------------------------------------------------------------
(* Userspace and DRM core: a commit starts.  The core has swapped the new  *)
(* state in; its default commit tail calls atomic_disable when an active   *)
(* CRTC needs a modeset, then flush, then atomic_enable.                   *)
Begin(c) ==
  /\ cpc = "idle"
  /\ commit' = c
  /\ cpc' = IF crtc = "active" /\ c.kind # "flip" THEN "disable" ELSE "flush"
  /\ UNCHANGED <<stop_for, pipeVars, planeVars, uploadVars, completeVars,
                 timerVars, dma_lock, stateVars, bufVars, engineVars>>

(* drm_ioctl tests drm_dev_unplug's mark on entry only, so a commit whose  *)
(* ioctl is inside by then may come at any time after it.                  *)
BeginUserCommit(c) ==
  /\ commits < MaxCommits
  /\ Begin(c)
  /\ late' = (late \/ rpc # "bound")
  /\ UNCHANGED rpc
  /\ commits' = commits + 1
  /\ drm_primary' = IF "primary" \notin c.changed THEN drm_primary
                    ELSE IF "primary" \in c.shown THEN commits + 1 ELSE 0

(* A plane update: any planes, each shown or switched off.  atomic_check   *)
(* rejects a framebuffer while the CRTC has no mode of the table.          *)
UserFlip ==
  \E ch \in SUBSET PlanesInUse \ {{}} : \E sh \in SUBSET ch :
    /\ crtc # "off" \/ sh = {}
    /\ BeginUserCommit([kind |-> "flip", mode |-> NoMode,
                        changed |-> ch, shown |-> sh])
    /\ UNCHANGED crtc

(* A modeset carries every plane of the CRTC; the primary plane is on. *)
UserModeset ==
  \E m \in Modes : \E sh \in SUBSET PlanesInUse :
    /\ "primary" \in sh
    /\ BeginUserCommit([kind |-> "modeset", mode |-> m,
                        changed |-> PlanesInUse, shown |-> sh])
    /\ crtc' = "active"

(* The CRTC goes inactive (DPMS), planes kept or not, or loses its mode. *)
UserOff ==
  \E sh \in SUBSET PlanesInUse :
    /\ BeginUserCommit([kind |-> "off", mode |-> NoMode,
                        changed |-> PlanesInUse, shown |-> sh])
    /\ \/ crtc # "off" /\ crtc' = "dpms"
       \/ sh = {} /\ crtc' = "off"

(* fpga_drm_remove: drm_dev_unplug, and drm_atomic_helper_shutdown commits *)
(* everything off under the locks a user commit takes too.                 *)
Remove ==
  /\ rpc = "bound" /\ rpc' = "shutdown"
  /\ Begin([kind |-> "remove", mode |-> NoMode,
            changed |-> PlanesInUse, shown |-> {}])
  /\ crtc' = "off" /\ drm_primary' = 0
  /\ UNCHANGED <<commits, late>>

(* fpga_drm_crtc_atomic_disable up to its call of stop_uploads *)
AtomicDisable ==
  /\ cpc = "disable"
  /\ pipe_enabled' = FALSE
  /\ cpc' = "cancel" /\ stop_for' = "disable"
  /\ UNCHANGED <<commit, commits, crtc, drm_primary, removeVars, active_mode,
                 planeVars, uploadVars, completeVars, timerVars, dma_lock,
                 stateVars, bufVars, engineVars>>

FlushedFrameNext ==                   \* mutant: the next commit's framebuffer
  [p \in Planes |-> IF p \notin commit.changed THEN snapshot[p]
                    ELSE IF p \in commit.shown THEN commits + 1 ELSE 0]

(* fpga_drm_crtc_atomic_flush under upload_lock: fpga_drm_replace_snapshot *)
(* for every plane the commit carries.                                     *)
FlushedFrame ==
  [p \in Planes |-> IF p \notin commit.changed THEN snapshot[p]
                    ELSE IF p \in commit.shown THEN commits ELSE 0]
AtomicFlush ==
  /\ cpc = "flush"
  /\ snapshot' = FlushedFrame
  /\ fbRefs' = Refs([p \in Planes |-> IF p \in commit.changed
                                      THEN FlushedFrame[p] ELSE 0],
                    [p \in Planes |-> IF p \in commit.changed
                                      THEN snapshot[p] ELSE 0])
  /\ cpc' = "queue"
  /\ UNCHANGED <<stop_for, commit, commits, crtc, drm_primary, removeVars,
                 pipeVars, uploadVars, completeVars, timerVars, dma_lock,
                 stateVars, bufVars, engineVars>>

(* fpga_drm_queue_commit_upload, then the rest of the commit tail:         *)
(* fpga_drm_crtc_atomic_enable starts with stop_uploads, and so goes       *)
(* fpga_drm_remove on when its commit is done.                             *)
QueueCommitUpload ==
  /\ cpc = "queue"
  /\ upload_queued' = TRUE
  /\ \/ /\ commit.kind = "modeset"
        /\ cpc' = "cancel" /\ stop_for' = "enable" /\ UNCHANGED rpc
     \/ /\ commit.kind = "remove"
        /\ cpc' = "idle" /\ rpc' = "cancel" /\ UNCHANGED stop_for
     \/ /\ commit.kind \notin {"modeset", "remove"}
        /\ cpc' = "idle" /\ UNCHANGED <<stop_for, rpc>>
  /\ UNCHANGED <<commit, commits, crtc, drm_primary, late, pipeVars,
                 planeVars, upc, held, completeVars, timerVars, dma_lock,
                 stateVars, bufVars, engineVars>>

(* The end of fpga_drm_crtc_atomic_enable: program_mode, and on success    *)
(* the pipe is on.  No upload is queued here.                              *)
AtomicEnable ==
  /\ cpc = "program"
  /\ \/ active_mode' = commit.mode /\ pipe_enabled' = TRUE
     \/ "mode" \in Faults /\ UNCHANGED pipeVars
  /\ cpc' = "idle"
  /\ UNCHANGED <<stop_for, commit, commits, crtc, drm_primary, removeVars,
                 planeVars, uploadVars, completeVars, timerVars, dma_lock,
                 stateVars, bufVars, engineVars>>

-----------------------------------------------------------------------------
(* fpga_drm_stop_uploads, called by the commit thread for disable and      *)
(* enable and by fpga_drm_remove; both may be in it at once.               *)
StopAt(here, next) ==
  \/ cpc = here /\ cpc' = next /\ UNCHANGED rpc
  \/ rpc = here /\ rpc' = next /\ UNCHANGED cpc

CancelUploadWorkAsync ==              \* mutant: cancel_work, without _sync
  /\ StopAt("cancel", "wait_idle")
  /\ upload_queued' = FALSE
  /\ UNCHANGED <<stop_for, commit, commits, crtc, drm_primary, late,
                 pipeVars, planeVars, upc, held, completeVars, timerVars,
                 dma_lock, stateVars, bufVars, engineVars>>

(* cancel_work_sync(&upload_work): waits for a running one, and the work   *)
(* is not queued when it returns.                                          *)
CancelUploadWork ==
  /\ upc = "idle"
  /\ StopAt("cancel", "wait_idle")
  /\ upload_queued' = FALSE
  /\ UNCHANGED <<stop_for, commit, commits, crtc, drm_primary, late,
                 pipeVars, planeVars, upc, held, completeVars, timerVars,
                 dma_lock, stateVars, bufVars, engineVars>>

(* wait_event_timeout(dma_idle_wq, dma_idle) finds the DMA idle ... *)
WaitIdle ==
  /\ DmaIdle
  /\ StopAt("wait_idle", "sync_timer")
  /\ UNCHANGED <<stop_for, commit, commits, crtc, drm_primary, late,
                 pipeVars, planeVars, uploadVars, completeVars, timerVars,
                 dma_lock, stateVars, bufVars, engineVars>>

(* Nobody is going to report the frame in flight: its engine did not start *)
(* and the other stop_uploads has cancelled its timer.                     *)
Unreported ==
  /\ Records /\ upc \notin {"xdma", "arm"}
  /\ ~timer /\ tpc = "idle" /\ hw = "idle" /\ ~irq /\ svc = "idle"

(* ... or expires: the thread reports -ETIMEDOUT itself. *)
ForceCompletion ==
  /\ ~DmaIdle /\ ("stop_timeout" \in Faults \/ Unreported)
  /\ StopAt("wait_idle", "force_flush")
  /\ RecordCompletion("timedout")
  /\ complete_queued' = (complete_queued \/ Records)
  /\ UNCHANGED <<stop_for, commit, commits, crtc, drm_primary, late,
                 pipeVars, planeVars, uploadVars, kpc, completion_len,
                 timerVars, dma_lock, bufVars, engineVars>>

(* flush_work(&dma_complete_work) waits for a queued or running one; it    *)
(* knows nothing of a report that is recorded but not yet scheduled.       *)
FlushCompleteWork ==
  /\ ~complete_queued /\ kpc = "idle"
  /\ StopAt("force_flush", "sync_timer") \/ StopAt("flush_complete", "clear")
  /\ UNCHANGED <<stop_for, commit, commits, crtc, drm_primary, late,
                 pipeVars, planeVars, uploadVars, completeVars, timerVars,
                 dma_lock, stateVars, bufVars, engineVars>>

CancelTimeoutWorkAsync ==             \* mutant: cancel_delayed_work, no _sync
  /\ StopAt("sync_timer", "flush_complete")
  /\ timer' = FALSE
  /\ UNCHANGED <<stop_for, commit, commits, crtc, drm_primary, late,
                 pipeVars, planeVars, uploadVars, completeVars, tpc, stale,
                 dma_lock, stateVars, bufVars, engineVars>>

(* cancel_delayed_work_sync(&dma_timeout_work) *)
CancelTimeoutWork ==
  /\ tpc = "idle"
  /\ StopAt("sync_timer", "flush_complete")
  /\ timer' = FALSE
  /\ UNCHANGED <<stop_for, commit, commits, crtc, drm_primary, late,
                 pipeVars, planeVars, uploadVars, completeVars, tpc, stale,
                 dma_lock, stateVars, bufVars, engineVars>>

(* Under upload_lock both snapshots are dropped; then stop_uploads returns *)
ReturnTo == [disable |-> "flush", enable |-> "program"]
ClearSnapshots ==
  /\ \/ cpc = "clear" /\ cpc' = ReturnTo[stop_for] /\ UNCHANGED rpc
     \/ rpc = "clear" /\ rpc' = "removed" /\ UNCHANGED cpc
  /\ snapshot' = NoFrame
  /\ fbRefs' = Refs(NoFrame, snapshot)
  /\ UNCHANGED <<stop_for, commit, commits, crtc, drm_primary, late,
                 pipeVars, uploadVars, completeVars, timerVars, dma_lock,
                 stateVars, bufVars, engineVars>>

-----------------------------------------------------------------------------
(* fpga_drm_upload_work *)

UploadStart ==
  /\ upload_queued /\ upc = "idle"
  /\ upload_queued' = FALSE
  /\ upc' = "snap"
  /\ UNCHANGED <<commitVars, pipeVars, planeVars, held, completeVars,
                 timerVars, dma_lock, stateVars, bufVars, engineVars>>

HavePrimaryUnchecked == pipe_enabled  \* mutant: no test for a NULL snapshot

(* Under upload_lock: the primary snapshot is taken only while the pipe is *)
(* enabled, the overlay snapshot always.  Without a primary the work       *)
(* returns at once.                                                        *)
HavePrimary == pipe_enabled /\ snapshot["primary"] # 0
Taken == [snapshot EXCEPT !["primary"] = IF HavePrimary THEN @ ELSE 0]
UploadSnapshot ==
  /\ upc = "snap"
  /\ fbRefs' = Refs(Taken, NoFrame)
  /\ IF HavePrimary THEN held' = Taken /\ upc' = "lock"
                    ELSE upc' = "idle" /\ UNCHANGED held
  /\ UNCHANGED <<commitVars, pipeVars, snapshot, upload_queued, completeVars,
                 timerVars, dma_lock, stateVars, bufVars, engineVars>>

(* upload_enabled is off: the references go back, nothing is uploaded. *)
UploadDisabled ==
  /\ upc = "lock" /\ "upload_off" \in Faults
  /\ upc' = "put"
  /\ UNCHANGED <<commitVars, pipeVars, planeVars, upload_queued, held,
                 completeVars, timerVars, dma_lock, stateVars, bufVars,
                 engineVars>>

UploadLockDropsUpdate ==              \* mutant: busy, but nothing is pending
  /\ upc = "lock" /\ dma_lock = "free"
  /\ IF DmaIdle THEN dma_lock' = "upload" /\ upc' = "compose"
                ELSE upc' = "put" /\ UNCHANGED dma_lock
  /\ UNCHANGED <<commitVars, pipeVars, planeVars, upload_queued, held,
                 completeVars, timerVars, stateVars, bufVars, engineVars>>

(* mutex_lock(&dma_lock), fpga_drm_dma_busy: a busy engine turns the       *)
(* update into upload_pending.                                             *)
UploadLock ==
  /\ upc = "lock" /\ dma_lock = "free"
  /\ IF DmaIdle
     THEN /\ dma_lock' = "upload" /\ upc' = "compose"
          /\ UNCHANGED upload_pending
     ELSE /\ upload_pending' = TRUE /\ upc' = "put"
          /\ UNCHANGED dma_lock
  /\ UNCHANGED <<commitVars, pipeVars, planeVars, upload_queued, held,
                 completeVars, timerVars, dma_inflight,
                 dma_completion_pending, dma_completion_err, bufVars,
                 engineVars>>

(* fpga_drm_compose_frame writes the staging buffers for the active mode;  *)
(* a failure has already overwritten part of them.                         *)
UploadCompose ==
  /\ upc = "compose"
  /\ line_bufs' = held
  /\ \/ upc' = "submit" /\ UNCHANGED <<dma_lock, last_upload>>
     \/ /\ "compose" \in Faults
        /\ upc' = "put" /\ dma_lock' = "free" /\ last_upload' = "failed"
  /\ UNCHANGED <<commitVars, pipeVars, planeVars, upload_queued, held,
                 completeVars, timerVars, stateVars, frame_mode, engineVars>>

(* fpga_drm_submit_frame_nowait up to the submit call: frame_cb is zeroed  *)
(* and the frame is in flight before the engine knows of it.               *)
UploadSubmit ==
  /\ upc = "submit"
  /\ req' = "none"
  /\ frame_mode' = active_mode
  /\ dma_inflight' = TRUE /\ dma_completion_pending' = FALSE
  /\ dma_completion_err' = "none" /\ upload_pending' = FALSE
  /\ upc' = "xdma"
  /\ UNCHANGED <<commitVars, pipeVars, planeVars, upload_queued, held,
                 completeVars, timerVars, dma_lock, line_bufs, last_upload,
                 hw, irq, svc, screen>>

(* xdma_xfer_submit_lines_nowait, which takes engine->lock: the transfer   *)
(* is queued and the engine started.  A start that fails goes unnoticed.   *)
UploadAccepted ==
  /\ upc = "xdma" /\ svc = "idle"
  /\ req' = "submitted"
  /\ \/ hw' = "busy"
     \/ "start" \in Faults /\ UNCHANGED hw
  /\ upc' = "arm"
  /\ UNCHANGED <<commitVars, pipeVars, planeVars, upload_queued, held,
                 completeVars, timerVars, dma_lock, stateVars, bufVars,
                 irq, svc, screen>>

(* The submit is refused: the in-flight state is cleared again. *)
UploadRefused ==
  /\ upc = "xdma" /\ "submit" \in Faults
  /\ dma_inflight' = FALSE /\ dma_completion_pending' = FALSE
  /\ dma_completion_err' = "none"
  /\ last_upload' = "failed"
  /\ dma_lock' = "free" /\ upc' = "put"
  /\ UNCHANGED <<commitVars, pipeVars, planeVars, upload_queued, held,
                 completeVars, timerVars, upload_pending, line_bufs,
                 frame_mode, engineVars>>

(* schedule_delayed_work(&dma_timeout_work), mutex_unlock(&dma_lock) *)
UploadArmTimeout ==
  /\ upc = "arm"
  /\ timer' = TRUE
  /\ dma_lock' = "free" /\ upc' = "put"
  /\ UNCHANGED <<commitVars, pipeVars, planeVars, upload_queued, held,
                 completeVars, tpc, stale, stateVars, bufVars, engineVars>>

(* fpga_drm_put_snapshot of both local copies *)
UploadPut ==
  /\ upc = "put"
  /\ fbRefs' = Refs(NoFrame, held)
  /\ held' = NoFrame
  /\ upc' = "idle"
  /\ UNCHANGED <<commitVars, pipeVars, snapshot, upload_queued, completeVars,
                 timerVars, dma_lock, stateVars, bufVars, engineVars>>

-----------------------------------------------------------------------------
(* fpga_drm_dma_timeout_work: the timer expires, the work records the      *)
(* timeout and schedules the completion work.                              *)
TimeoutExpires ==
  /\ timer /\ tpc = "idle" /\ "timeout" \in Faults
  /\ timer' = FALSE
  /\ tpc' = "run"
  /\ UNCHANGED <<commitVars, pipeVars, planeVars, uploadVars, completeVars,
                 stale, dma_lock, stateVars, bufVars, engineVars>>

TimeoutReport ==
  /\ tpc = "run"
  /\ RecordCompletion("timedout")
  /\ tpc' = IF Records THEN "sched" ELSE "idle"
  /\ stale' = stale \ {"timer"}
  /\ UNCHANGED <<commitVars, pipeVars, planeVars, uploadVars, completeVars,
                 timer, dma_lock, bufVars, engineVars>>

TimeoutSchedule ==
  /\ tpc = "sched"
  /\ complete_queued' = TRUE
  /\ tpc' = "idle"
  /\ UNCHANGED <<commitVars, pipeVars, planeVars, uploadVars, kpc,
                 completion_len, timer, stale, dma_lock, stateVars, bufVars,
                 engineVars>>

-----------------------------------------------------------------------------
(* fpga_drm_dma_complete_work *)

CompleteStart ==
  /\ complete_queued /\ kpc = "idle"
  /\ complete_queued' = FALSE
  /\ kpc' = "lock"
  /\ UNCHANGED <<commitVars, pipeVars, planeVars, uploadVars,
                 completion_len, timerVars, dma_lock, stateVars, bufVars,
                 engineVars>>

(* Nothing pending: unlock and return.  Otherwise cancel_delayed_work,     *)
(* which does not wait for a timeout work that already runs.               *)
CompleteLock ==
  /\ kpc = "lock" /\ dma_lock = "free"
  /\ IF dma_completion_pending
     THEN dma_lock' = "complete" /\ kpc' = "xfer" /\ timer' = FALSE
     ELSE kpc' = "idle" /\ UNCHANGED <<dma_lock, timer>>
  /\ UNCHANGED <<commitVars, pipeVars, planeVars, uploadVars,
                 complete_queued, completion_len, tpc, stale, stateVars,
                 bufVars, engineVars>>

(* xdma_xfer_completion, without engine->lock: a finished transfer yields  *)
(* its length and the request is freed; one that is still submitted is to  *)
(* be aborted, and the service may retire it first.                        *)
CompleteTransfer ==
  /\ kpc = "xfer"
  /\ completion_len' = IF req = "completed" THEN "frame" ELSE "none"
  /\ IF req = "submitted" THEN kpc' = "abort" /\ UNCHANGED req
                          ELSE kpc' = "finish" /\ req' = "none"
  /\ UNCHANGED <<commitVars, pipeVars, planeVars, uploadVars,
                 complete_queued, timerVars, dma_lock, stateVars, bufVars,
                 hw, irq, svc, screen>>

(* transfer_abort and xdma_engine_stop: the engine is told to stop, which  *)
(* it does when it has finished the descriptors it fetched.  The request   *)
(* is freed and frame_cb.req cleared.                                      *)
Stopped == [idle |-> "idle", busy |-> "draining",
            done |-> "idle", draining |-> "draining"]
CompleteAbort ==
  /\ kpc = "abort"
  /\ hw' = Stopped[hw] /\ req' = "none"
  /\ kpc' = "finish"
  /\ UNCHANGED <<commitVars, pipeVars, planeVars, uploadVars,
                 complete_queued, completion_len, timerVars, dma_lock,
                 stateVars, bufVars, irq, svc, screen>>

(* fpga_drm_dma_finish: success is no error and the length of the active   *)
(* mode's frame; the flags are cleared, upload_pending is consumed.        *)
CompleteFinish ==
  /\ kpc = "finish"
  /\ dma_inflight' = FALSE /\ dma_completion_pending' = FALSE
  /\ dma_completion_err' = "none" /\ upload_pending' = FALSE
  /\ last_upload' = IF /\ dma_completion_err = "none"
                       /\ completion_len = "frame"
                       /\ frame_mode = active_mode
                    THEN "ok" ELSE "failed"
  /\ stale' = {r \in {"timer", "engine"} :
                 \/ r = "timer" /\ tpc = "run"
                 \/ r = "engine" /\ svc = "cb"}
  /\ kpc' = IF upload_pending THEN "resched" ELSE "idle"
  /\ dma_lock' = IF upload_pending THEN dma_lock ELSE "free"
  /\ UNCHANGED <<commitVars, pipeVars, planeVars, uploadVars,
                 complete_queued, completion_len, timer, tpc, line_bufs,
                 frame_mode, engineVars>>

CompleteWithoutReschedule ==          \* mutant: upload_work is not queued
  /\ kpc = "resched"
  /\ kpc' = "idle" /\ dma_lock' = "free"
  /\ UNCHANGED <<commitVars, pipeVars, planeVars, uploadVars,
                 complete_queued, completion_len, timerVars, stateVars,
                 bufVars, engineVars>>

(* The consumed upload_pending reschedules upload_work. *)
CompleteReschedule ==
  /\ kpc = "resched"
  /\ upload_queued' = TRUE
  /\ kpc' = "idle" /\ dma_lock' = "free"
  /\ UNCHANGED <<commitVars, pipeVars, planeVars, upc, held,
                 complete_queued, completion_len, timerVars, stateVars,
                 bufVars, engineVars>>

-----------------------------------------------------------------------------
(* The H2C engine and its service routine *)

(* The last descriptor is done: the frame is in the FPGA, the interrupt    *)
(* queues engine_service_work.                                             *)
HwFinish ==
  /\ hw = "busy"
  /\ hw' = "done" /\ irq' = TRUE
  /\ screen' = line_bufs
  /\ UNCHANGED <<commitVars, pipeVars, planeVars, uploadVars, completeVars,
                 timerVars, dma_lock, stateVars, bufVars, req, svc>>

(* A stopped engine goes idle and interrupts. *)
HwDrained ==
  /\ hw = "draining"
  /\ hw' = "idle" /\ irq' = TRUE
  /\ UNCHANGED <<commitVars, pipeVars, planeVars, uploadVars, completeVars,
                 timerVars, dma_lock, stateVars, bufVars, req, svc, screen>>

(* engine_service: the transfer at the head of the list is retired as      *)
(* completed, or as failed on an error status. *)
ServiceFinished ==
  /\ irq /\ svc = "idle" /\ req = "submitted" /\ hw = "done"
  /\ \/ req' = "completed"
     \/ "xfer" \in Faults /\ req' = "failed"
  /\ irq' = FALSE /\ hw' = "idle" /\ svc' = "cb"
  /\ UNCHANGED <<commitVars, pipeVars, planeVars, uploadVars, completeVars,
                 timerVars, dma_lock, stateVars, bufVars, screen>>

(* engine_service runs late, for an interrupt of an aborted transfer, when *)
(* the next one is already running: it finds no descriptor done, or some   *)
(* and retires the transfer as stopped half-way although the engine is     *)
(* busy; list empty, engine_service_resume then stops the engine.          *)
ServiceHalfWay ==
  /\ irq /\ svc = "idle" /\ req = "submitted" /\ hw = "busy"
  /\ irq' = FALSE
  /\ \/ req' = "failed" /\ hw' = "draining" /\ svc' = "cb"
     \/ UNCHANGED <<req, hw, svc>>
  /\ UNCHANGED <<commitVars, pipeVars, planeVars, uploadVars, completeVars,
                 timerVars, dma_lock, stateVars, bufVars, screen>>

(* engine_service with the engine not running: it clears the status. *)
ServiceNothing ==
  /\ irq /\ svc = "idle"
  /\ req # "submitted" \/ hw \in {"idle", "draining"}
  /\ irq' = FALSE
  /\ UNCHANGED <<commitVars, pipeVars, planeVars, uploadVars, completeVars,
                 timerVars, dma_lock, stateVars, bufVars, req, hw, svc,
                 screen>>

(* io_done = fpga_drm_xdma_done, called with err 0 whatever the outcome. *)
ServiceCallback ==
  /\ svc = "cb"
  /\ RecordCompletion("none")
  /\ svc' = IF Records THEN "sched" ELSE "idle"
  /\ stale' = stale \ {"engine"}
  /\ UNCHANGED <<commitVars, pipeVars, planeVars, uploadVars, completeVars,
                 timer, tpc, dma_lock, bufVars, req, hw, irq, screen>>

ServiceSchedule ==
  /\ svc = "sched"
  /\ complete_queued' = TRUE
  /\ svc' = "idle"
  /\ UNCHANGED <<commitVars, pipeVars, planeVars, uploadVars, kpc,
                 completion_len, timerVars, dma_lock, stateVars, bufVars,
                 req, hw, irq, screen>>

-----------------------------------------------------------------------------
StopUploads ==
  \/ CancelUploadWork \/ WaitIdle \/ ForceCompletion \/ FlushCompleteWork
  \/ CancelTimeoutWork \/ ClearSnapshots
CommitThread ==
  \/ AtomicDisable \/ AtomicFlush \/ QueueCommitUpload \/ AtomicEnable
  \/ StopUploads
UploadWork ==
  \/ UploadStart \/ UploadSnapshot \/ UploadDisabled \/ UploadLock
  \/ UploadCompose \/ UploadSubmit \/ UploadAccepted \/ UploadRefused
  \/ UploadArmTimeout \/ UploadPut
TimeoutWork == TimeoutExpires \/ TimeoutReport \/ TimeoutSchedule
CompleteWork ==
  \/ CompleteStart \/ CompleteLock \/ CompleteTransfer \/ CompleteAbort
  \/ CompleteFinish \/ CompleteReschedule
Hardware == HwFinish \/ HwDrained
EngineService ==
  \/ ServiceFinished \/ ServiceHalfWay \/ ServiceNothing
  \/ ServiceCallback \/ ServiceSchedule

(* Nothing is queued, armed or running; and nothing is in flight. *)
AtRest ==
  /\ ~upload_queued /\ upc = "idle"
  /\ ~complete_queued /\ kpc = "idle"
  /\ ~timer /\ tpc = "idle"
Quiet == AtRest /\ DmaIdle /\ req = "none"

(* The device is removed and everything has come to rest; the frame of a   *)
(* late commit may wait for the next stop_uploads to finish it.            *)
Removed ==
  /\ rpc = "removed" /\ cpc = "idle" /\ AtRest /\ (Quiet \/ late)
  /\ hw = "idle" /\ ~irq /\ svc = "idle"
  /\ UNCHANGED vars

Next ==
  \/ UserFlip \/ UserModeset \/ UserOff \/ Remove
  \/ CommitThread \/ UploadWork \/ TimeoutWork \/ CompleteWork
  \/ Hardware \/ EngineService \/ Removed

Spec == Init /\ [][Next]_vars

(* The workqueue runs what is queued, a delayed work fires, the engine     *)
(* ends what it started and its interrupts are serviced; the commit thread *)
(* and the removing one go on.  Nobody has to commit or to remove, and     *)
(* nothing has to fail.                                                    *)
Fairness ==
  /\ WF_vars(CommitThread /\ cpc' # cpc)
  /\ WF_vars(StopUploads /\ rpc' # rpc)
  /\ WF_vars(UploadWork)
  /\ WF_vars(TimeoutWork)
  /\ WF_vars(CompleteWork)
  /\ WF_vars(Hardware)
  /\ WF_vars(EngineService)
FairSpec == Spec /\ Fairness

-----------------------------------------------------------------------------
(* Safety *)

(* A request is live only while its frame is marked in flight: nothing     *)
(* zeroes frame_cb (submit_frame_nowait) over a request that libxdma still *)
(* holds, and an idle DMA really has no request to free.                   *)
NoRequestLost ==
  /\ ~dma_inflight => req = "none"
  /\ upc = "submit" => req = "none"

(* The frame in flight was laid out for the mode the hardware is           *)
(* programmed for, and while program_mode rewrites clock, VDMA and timing  *)
(* nothing is in flight and no upload_work is past its snapshot:           *)
(* dma_finish may read active_mode without a lock.                         *)
ModeStable ==
  /\ dma_inflight => frame_mode = active_mode
  /\ cpc = "program" => DmaIdle /\ req = "none" /\ upc \in {"idle", "snap"}

(* Coalescing forgets no update: while the pipe is enabled and the staging *)
(* buffers do not hold the newest snapshots, some step that will upload    *)
(* them is still owed by flush, the workqueue, upload_work or the          *)
(* completion of the frame in flight.  Only the stop_uploads of a removal  *)
(* may cancel the upload of a commit that came after it.                   *)
UploadOwed ==
  \/ cpc = "queue" \/ upload_queued \/ upc = "snap"
  \/ upc \in {"lock", "compose"} /\ held = snapshot
  \/ dma_inflight /\ upload_pending
  \/ kpc = "resched"
UpdateNotForgotten ==
  "upload_off" \notin Faults /\ ~late =>
    (pipe_enabled /\ snapshot["primary"] # 0 /\ line_bufs # snapshot
       => UploadOwed)

(* The references the driver took cover the snapshots and upload_work's    *)
(* local copies, so neither is a dangling framebuffer; for the primary     *)
(* plane they are exactly those, whatever path was taken.                  *)
Holders(p, v) == Bit(snapshot[p] = v) + Bit(held[p] = v)
RefsSafe ==
  \A v \in Versions \ {0} :
    /\ fbRefs["primary"][v] = Holders("primary", v)
    /\ fbRefs["overlay"][v] >= Holders("overlay", v)

(* The same, exactly, for both planes. *)
RefsBalanced ==
  \A p \in Planes : \A v \in Versions \ {0} : fbRefs[p][v] = Holders(p, v)

(* After fpga_drm_remove no upload or timeout is queued, armed, running or *)
(* in flight and no snapshot is held, unless an ioctl that was inside      *)
(* before drm_dev_unplug has committed since.  Only where a timeout can    *)
(* overtake the callback may libxdma still be inside it, about to schedule *)
(* a completion work that will find nothing to do.  After a late commit,   *)
(* too, a CRTC that is off again has no frame in flight and no timer, and  *)
(* upload_work does no more than look at the pipe.                         *)
RemovedIsQuiet ==
  /\ rpc = "removed" /\ ~late =>
       /\ ~upload_queued /\ upc = "idle" /\ ~timer /\ tpc = "idle"
       /\ DmaIdle /\ req = "none" /\ ~pipe_enabled /\ snapshot = NoFrame
       /\ "timeout" \notin Faults => Quiet /\ svc = "idle"
  /\ rpc = "removed" /\ cpc = "idle" /\ crtc # "active" =>
       /\ ~pipe_enabled /\ DmaIdle /\ req = "none"
       /\ ~timer /\ tpc = "idle" /\ upc \in {"idle", "snap"}

(* The staging buffers are not overwritten while the H2C engine reads.     *)
BuffersNotUnderRead ==
  [][line_bufs' # line_bufs => hw \notin {"busy", "draining"}]_vars

(* A timeout or callback that is late, because the frame it is about is    *)
(* already finished, is not recorded against the next frame.               *)
NoStaleReport ==
  [][/\ "timer" \in stale /\ tpc = "run" => tpc' # "sched"
     /\ "engine" \in stale /\ svc = "cb" => svc' # "sched"]_vars

(* UploadPath does what FrameSlot promises. *)
Slot == INSTANCE FrameSlot WITH
  on <- pipe_enabled, mode <- active_mode, latest <- snapshot,
  staged <- line_bufs, sending <- dma_inflight, sentMode <- frame_mode
SlotSpec == Slot!Spec

-----------------------------------------------------------------------------
(* Liveness, under FairSpec *)

(* stop_uploads always returns, to a commit and to the removal beside it:  *)
(* no worker it waits for waits for it, and no frame of a late commit      *)
(* keeps it.                                                               *)
StopTerminates ==
  /\ cpc \in StopSteps ~> cpc \notin StopSteps
  /\ rpc \in StopSteps ~> rpc = "removed"

(* Once userspace pauses, the newest snapshots of an enabled pipe have     *)
(* been tried, and are on the screen unless that very attempt failed, or   *)
(* they came after the removal.                                            *)
LatestFrameShown ==
  <>[](pipe_enabled /\ snapshot["primary"] # 0 /\ ~late
         => /\ line_bufs = snapshot
            /\ screen = snapshot \/ last_upload = "failed")

(* The same of the frame DRM believes the primary plane shows. *)
ActiveCrtcShowsItsFrame ==
  <>[](pipe_enabled => screen["primary"] = drm_primary \/ drm_primary = 0)
=============================================================================
