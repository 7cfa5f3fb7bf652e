# Verification of Simple-Display-Controller

TLA+ models, model-checking runs and machine-checked proofs for the display
controller of this repository: a PCIe FPGA that shows frames a Linux DRM driver
(`fpga_drm`) streams to it with the Xilinx XDMA engine, and a UEFI GOP driver
that shows frames from a shared DDR buffer before the operating system runs.

## Inventory

| Component | State it keeps | Operations | Talks to | Hard behaviour |
|---|---|---|---|---|
| Upload path, `fpga_drm_drv.c` 1493-1930 | plane snapshots with framebuffer references, `dma_inflight`, `dma_completion_pending`, `upload_pending`, `frame_cb.req`, line buffers, three works | `upload_work`, `dma_complete_work`, `dma_timeout_work`, `stop_uploads`, `xdma_done` | CRTC callbacks (calls, `upload_lock`), libxdma (submit, callback, completion) | three works, an engine callback and the commit thread interleave; coalescing; timeout against callback; cancellation against rescheduling |
| CRTC callbacks, 1932-2266 | `pipe_enabled`, `active_mode` | `atomic_flush`, `atomic_enable`, `atomic_disable`, plane checks, `remove` | DRM core (callbacks), upload path, mode programming | order of the callbacks in a commit; removal with work outstanding |
| Mode programming, 481-1491 | clock wizard, VTC, VDMA, HDMI registers | `program_mode`, `configure_static_pipeline`, `validate_hw_contract` | AXI registers through the BAR | failure half way, polling limits |
| Compositor, 1674-1774 | line buffers | `copy_primary_frame`, `blend_overlay_cpu` | plane snapshots | clipping, frame size against mode |
| Probe and teardown, 2367-2665 | every resource above | `probe`, `open_xdma`, `alloc_frame_buffers`, `remove`, `shutdown` | PCI, DRM, libxdma | unwinding in the right order |
| XDMA core, `fpga_drm/libxdma.c` | per engine: transfer list, `running`, descriptor ring, `desc_dequeued`; per transfer: state | submit (lines, sg), `engine_service`, ISR, abort, open, close, offline, online | H2C hardware, upload path callback | work against submit against abort, some of it without `engine->lock`; ring wrap; late interrupts |
| XDMA poll threads, `xdma_thread.c` | per-CPU lists of engines | add, remove, poll | engines | list access under two locks |
| Standalone XDMA driver, `XDMA_driver/xdma` | as libxdma, and character devices | open, read, write, poll, ioctl, events | user programs | as libxdma, and file descriptors over hot removal |
| UEFI GOP, `SimpleDisplayGopDxe.c`, `SimpleDisplayHwLib.c` | protocol instance, current mode, back buffer | binding start and stop, `SetMode`, `Blt`, hardware bring-up | PCI IO, DDR window | failure half way through start and `SetMode`; `Blt` bounds |
| FPGA logic, `*.v`, `hls/*.cpp` | stream state | colour conversion, pixel pack and unpack, I2C | AXI streams | packing across word boundaries |
| Test programs and scripts | none of their own | | | |

What makes each correct:

* Upload path: one frame in flight at a time, and its request, buffers and mode
  belong to it alone until it is finished; no update is forgotten; references
  balance; `stop_uploads` returns and leaves nothing running.
* CRTC callbacks: the mode changes only with the pipe off and the DMA idle; an
  active CRTC shows the frame DRM believes it shows.
* XDMA core: a transfer is on the engine's list once and only while its owner
  keeps it alive; nobody is told that more moved than the hardware moved; calls
  return and iocbs complete once.
* XDMA open and close: whatever fails, a structure that is freed leaves nothing
  behind, and one that is open lacks nothing, also when a second structure over
  the same function is opened or fails to open beside it.
* Mode programming and probe: a pipe that is on is programmed throughout for its
  mode; registers are written only through mapped BARs; a removal and the last
  release come to their end, and nothing reads buffers that are gone.
* Compositor and line-wise submission: the stream carries exactly what the
  commit showed, from descriptors of this transfer only.
* GOP: the mode reported is the mode programmed and shown; the PCI state the
  driver borrowed comes back; `Stop` can always finish.

`PROJECT.json` lists every component with its status, and under `hazards` what
in this code is hard to test, line by line, with the property that covers it.

## Modules

| Module | Models |
|---|---|
| `UploadPath` | the upload path and the CRTC callbacks that drive it, the DRM core's order of callbacks and libxdma as the driver sees them |
| `FrameSlot` | what the upload path promises, without threads, locks, timers or retries |
| `UploadPathInv` | inductive invariants of `UploadPath`, in named parts |
| `UploadPathProofs` | theorems: types, the DMA flags, framebuffer references |
| `UploadPathOrderProofs` | theorems: pipe and mode, frame order, coalescing, and the refinement of `FrameSlot` |
| `UploadPathQuietProofs` | theorem: a removed device is quiet until a late commit comes |
| `XdmaEngine` | one SG-DMA engine of libxdma with its callers: transfer list, descriptor ring, `read`/`write`, iocbs, interrupts, deferred work, polling, offline and online |
| `XdmaEngineInv` | inductive invariants of `XdmaEngine`: the engine, its callers, its ring, its runs, its counts |
| `XdmaEngineProofs` | theorems: its types, its list, its iocbs, offline, its ring, what the hardware runs and fails, and what is reported moved |
| `XdmaDevice` | `xdma_device_open` and `xdma_device_close` for any number of structures over one function |
| `XdmaDeviceProofs` | theorems: its types and its three invariants |
| `DrmDevice` | probe, removal, managed release, mode programming, one file per device; extends `XdmaDevice` and takes its steps as the body of open and close |
| `DrmDeviceInv` | inductive invariants of `DrmDevice`: probe, callers of a commit, power, hardware blocks |
| `DrmDeviceProofs` | theorems: `DrmDevice` implements the library's specification, and what follows; its types, the mode shown, DMA and registers |
| `FramePath` | one frame from the planes' checks to the packets of the stream |
| `FramePathInv` | inductive invariant of `FramePath`: its descriptors and packets in closed form, and where each loop is |
| `FramePathProofs` | theorems: its types and its four safety properties |
| `GopDriver` | the UEFI driver's `Start`, `Stop` and `SetMode` over the hardware library |
| `GopDriverProofs` | theorems: its types and its four safety properties |
| `MCUploadPath`, `MCXdmaEngine`, `MCDrmDevice`, `MCFramePath`, `MCGopDriver` | instances and symmetry for TLC |

How they fit: `DrmDevice` says when the device, its buffers and its pipe exist
and takes an upload as one step; `UploadPath` opens that step up into works and
callbacks and takes a frame as a number; `FramePath` opens the frame up into
pixels and descriptors and takes the engine as a reader of them; `XdmaEngine`
opens the engine up into its list, its lock and its interrupts.

### UploadPath, its state and its steps

Every thread of the driver is a program counter; a critical section of
`upload_lock` or `dma_state_lock` is one step; `dma_lock`, held across steps, is
a variable. A framebuffer is the number of the commit that brought it, and so
are the contents of buffers and screen.

| Variable | Code |
|---|---|
| `cpc`, `stop_for`, `commit`, `crtc`, `drm_primary` | the thread that runs the commit tail (commits of one CRTC are serialised by DRM), which `stop_uploads` call it is in, DRM's own state |
| `rpc` | the thread of `fpga_drm_remove`: waiting for its commit, then in its own `stop_uploads` |
| `pipe_enabled`, `active_mode`, `snapshot` | the fields of `fpga_drm_device`; `snapshot` is `primary.fb` and `overlay.fb` |
| `fbRefs` | references taken with `drm_framebuffer_get` and not put |
| `upload_queued`, `upc`, `held` | `upload_work`: on the workqueue, where it is, its local `primary` and `overlay` |
| `complete_queued`, `kpc`, `completion_len` | `dma_complete_work` and the length it computes |
| `timer`, `tpc` | `dma_timeout_work`: armed; running |
| `dma_inflight`, `dma_completion_pending`, `dma_completion_err`, `upload_pending` | the fields of that name |
| `line_bufs`, `frame_mode` | content of the line buffers, mode of the frame submitted |
| `req` | `frame_cb.req`, as the state of its transfer |
| `hw`, `irq`, `svc` | the H2C engine, its pending interrupt, `engine_service_work` |
| `stale`, `late`, `last_upload`, `screen` | history for the properties: late reporters, a commit after the removal's, outcome of the last attempt, last whole frame the FPGA received |

`UserFlip`, `UserModeset` and `UserOff` are the commits userspace can make;
`Remove` is the one of `drm_dev_unplug` and `drm_atomic_helper_shutdown`. The
steps after them follow the driver's default commit tail: disable, plane flush,
enable. `drm_ioctl` tests the unplugged mark on entry only, so user commits come
at any time after the removal's too, beside its `stop_uploads` and after it: both
threads run the steps of `stop_uploads` (`StopAt`), and may be in them at once. `map` in `PROJECT.json` ties every definition to its lines.

A step that may fail does so only if its fault is in `Faults`; a run or theorem
that says nothing of `Faults` holds with all of them.

### XdmaEngine

`eng` is the engine under `engine->lock`, with its registers: a critical section
is one action that maps `eng` to `eng'` through operators named after the
functions it calls (`Start`, `Stop`, `Retire`, `ServiceFinal`, `Abort`, ...).
`desc_lock`, which `xdma_xfer_submit` holds across its sleep, is a variable.

| Variable | Code |
|---|---|
| `eng.list`, `running`, `dequeued`, `request`, `idx` | `transfer_list`, `running`, `desc_dequeued`, the shutdown request of `xdma_device_offline`, `desc_idx` |
| `eng.busy`, `err` | the status word the software cached; `hw`, `hx`, `hcnt`, `herr`, `irq` are the hardware behind it |
| `eng.wb`, `wberr` | the poll-mode writeback buffer |
| `eng.ring` | the descriptors in `engine->desc`: the transfer whose descriptor a slot holds, none once `xdma_desc_done` cleared it |
| `eng.state`, `at`, `dnum`, `freed` | per transfer: its state, its first slot, its number of descriptors; requests freed |
| `eng.cmpl`, `res`, `ended` | `cmpl_cnt`, `res` of a `cdev_async_io`, and how often its iocb was completed |
| `pc`, `seg`, `chunk`, `left`, `got`, `ret` | each caller and its locals |
| `irq_on`, `handler`, `work` | channel interrupt mask, registered handler, `engine->work` |
| `offline`, `phase` | `XDEV_FLAG_OFFLINE`, the step of `xdma_device_offline`/`online` |
| `ppc`, `expect`, `woken` | the polling thread |
| `upset` | history: what disturbed the engine so far, and the transfers an expired wait wrote off |

`eng.moved` counts, per transfer, the descriptors whose data really moved; the
counts the code reports, `got` and `eng.res`, are compared with it. A request that meets the end of
the ring is cut, so two callers with two descriptors each and a ring of three
meet every case of `transfer_init`. A request may have more descriptors than the
ring: a synchronous caller then goes round with one chunk after the other, an
iocb takes a transfer of its request for each chunk, and its request has two
(`tfer[2]`, `libxdma.h` 480). The model stops before a third (`Build`'s guard).

The ring is shared. `transfer_init` counts the descriptors in use (`desc_used`)
but never looks at the count: a request carved when the ring is full is written
over those of transfers that still wait (`Carve`). `Build` notes it as
`"overrun"` and the model goes on. The hardware then moves what it finds at the
slot it has reached: its own descriptor, which it may have read ahead, or the one
written over it since (`Steps`), so that a run of the head moves another
transfer's data. `xdma_desc_done` clears a transfer's slots whatever they hold by
now (`Clear`); a cleared descriptor has no magic and is an error to an engine that
reads it, unless it was told to stop (`HwStarves`).

### XdmaDevice and DrmDevice

`pc[d]` is the next call of the open or close of structure `d`, so that every
acquisition and every release is one step, and the unwinding labels of
`xdma_device_open` are the steps of the close they join. `held`, `engines` and
`irqs` are what `d` has; `owner`, `threads` and the list (`Listed`) are what the
structures share. Two structures exist at once when a file keeps the removed
device alive while the function is probed again.

`DrmDevice` adds the driver core's place in probe or removal (`core`, `cur`),
the reference devres holds (`ref`), the managed actions (`drmm`), the user's file
(`file`), the commit under way (`kms`, `by`, `to`), `pipe_enabled` and
`active_mode` (`pipe`, `mode`), an upload (`dma`) and what each block of the
hardware is set to (`hw`: a mode, `Mixed` after a failure half way). There is
one `hw`: it is one board, whichever structure writes to it.

### FramePath

A pixel stands for its four bytes. A framebuffer's memory is linear, as
the copy reads it, while what must arrive (`Shown`) is stated in coordinates.
`sg` is the list after the DMA mapping, which may merge neighbouring lines in
any way; `loop` is the locals of the two loops over it, counting and filling,
one step per piece; `ring` holds the descriptors with their `stop`, `next` and
`adj`; `fetch` is the block the engine fetched, `taken` how many of it were sent;
`stream` the packets sent. A time-out only clears RUN. What the engine had
fetched and not sent is then `unsent`: it goes on sending it (`HwDrain`) or stops
anywhere in it (`HwStop`), and only then takes a new run (`HwSend`). The packet it
leaves without an end is `unended`; the receiver cannot tell it from the first
line of the next frame.

### GopDriver

A call is a sequence of steps, each of which may fail and go where the code
goes. `marker` is the private protocol on the controller, `parent` the
`BY_DRIVER` opens, `saved` and `orig` the Command word owed, `hw` what each stage
of the pipeline is programmed for, `drawn` the layouts of what was drawn since
the last whole fill. `Blt` may come between any two steps, since `SetMode` does
not raise the task priority level. Firmware finds a driver's children by their
`BY_CHILD_CONTROLLER` opens. While the child has one (`childOpen`) it passes the
child to `Stop` (`StopChild`); otherwise `Stop` is called with no child and
refuses (`StopRefused`).

## Runs

| Run | Question | Bounds | Result |
|---|---|---|---|
| `upload_safety` | types, no request lost, every held framebuffer referenced | 3 user commits and a removal, 2 modes, both planes, all 8 faults | holds |
| `upload_order` | mode stability, no forgotten update, quiet after removal, refinement of `FrameSlot` | the same, without `stop_timeout` and `upload_off` | holds |
| `upload_live` | both callers' `stop_uploads` return; the newest snapshot is shown or its attempt failed | 3 user commits and a removal, 1 mode, primary plane, weak fairness | holds |
| `overlay_leak` | references balance exactly | 2 commits, no fault | violated |
| `first_frame` | an active CRTC shows its frame | 1 commit, no fault, weak fairness | violated |
| `stale_report` | a late report is not charged to the next frame | 3 commits, timeouts | violated |
| `buffer_read` | line buffers are not written under a read | 3 commits, timeouts | violated |
| `xdma_engine` | the list, whose descriptors run, the counts reported, who fails, iocbs once, offline; what keeps the ring; calls return, iocbs complete | eleven scenarios of two callers or iocbs and up to two kinds of fault, ring of 3, one offline | holds |
| `drm_device` | nothing left, nothing missing, pipe and mode, DMA and device; removal and release end; the library is used as specified | 2 probes, 2 modes, 2 commits, poll mode with MSI-X, 1 failing call | holds |
| `frame_path` | the stream shows the frame, fetches stay inside, refusals have a cause, ring accounted | 3 frames, 2 modes of up to 3x3 pixels, 3 framebuffers, 4 rectangles, ring of 8 in blocks of 4, 1 failure | holds |
| `gop` | Start, Stop and SetMode with failing calls; the Command word; the mode shown; Stop finishes | 2 modes, 3 failing calls, 3 starts, 2 mode sets | holds |
| `gop_restore` | the exact Command word comes back | the same | violated |

Three commits are enough for what the code tells apart: one frame in flight, one
update coalesced behind it, and one that comes while the coalesced one is
rescheduled or the pipe is stopped. Any of them may be late; three late ones are
enough to turn the pipe on beside the removal's `stop_uploads`, upload a frame
whose timer that one cancels, and wait for it in `disable`. Two modes are one more than the mode programmed; they are symmetric,
since the driver only copies and compares `active_mode`. The theorems drop
these bounds.

The bounds of the other runs:

* `xdma_engine`: what a transfer can suffer comes from one other party at a time:
  a second caller behind it in the list or the ring, an iocb between, an error,
  a wait that expires, an offline. The scenarios are those pairs, in interrupt
  and in poll mode; the last but one, a call of one descriptor beside an iocb of
  two segments of two, has both a late interrupt and an error in the run it
  falls into. Two iocbs need six descriptors, one of two segments or one beside a
  call four, of a ring of three: every scenario with
  an iocb can run over the ring, and two calls show that `desc_lock` keeps it. `Word = 16` keeps the modulus of the unsigned counters
  without reaching it by counting.
* `drm_device`: poll mode with MSI-X has every resource the other setups have
  (threads, vectors, a handler per channel); the theorems hold for all setups.
  One failing call reaches every error path once; a second would have to fall
  into the unwinding, which calls nothing that can fail.
* `frame_path`: lines of two descriptors and of one, a wide mode and a tall one,
  and a ring of two blocks, so that the third frame starts at a place where it
  wraps or crosses a block. Each frame has its own number, so stale pixels show.
* `gop`: three failures are one in the call, one in its undo, one in the retry.

Fairness (`FairSpec`) is weak, per thread: the kernel runs what is queued on a
workqueue, a blocked thread goes on when what it waits for is there, an armed
timer fires, the engine finishes what it was given and its interrupt is
serviced. Nobody is obliged to commit and no fault is obliged to happen; but a
transfer the engine never starts (`start`) is ended by the timeout alone, which
is why `upload_live` has `timeout` among its faults. `stop_timeout` is left out
of it, so that `stop_uploads` has to return by the DMA's end and not by giving
up. One wait has to expire even so (`Unreported`): the engine was not started for
a late commit's frame, and the removal's `stop_uploads` has cancelled its timer,
so nobody but `stop_uploads` itself reports it. The commit thread and the removal
are fair each on its own.

`XdmaEngine` is fair in the same way: callers that have called, the hardware,
interrupts, deferred work and the polling thread; no caller has to call and the
device need not go offline. In `DrmDevice` a probe, an open or close and a commit
that began run on (weak), and whoever waits for the modeset locks gets them
(strong: other commits may come between); nobody has to bind, commit, unbind or
close. In `GopDriver` a call that began runs on, and the firmware asks again for
the driver to be stopped, as long as the child is among those it finds (strong: a
client's `SetMode` may come between). Where a
fault may happen for ever the bound on faults ends it: the liveness properties
say what happens after the last fault.

### What the violated properties show

* `overlay_leak`: `upload_work` takes the overlay's reference before it finds
  that there is no primary plane to upload, and returns without putting it.
* `first_frame`: in the default commit tail `atomic_flush` comes before
  `atomic_enable`, whose `stop_uploads` cancels the upload that flush queued and
  clears both snapshots. Nothing queues it again until the next plane update.
* `stale_report`: `cancel_delayed_work` in `dma_complete_work` does not wait for
  a timeout work that already runs; the report comes when the next frame is in
  flight and ends it with `-ETIMEDOUT`.
* `buffer_read`: aborting a transfer clears the engine's RUN bit without waiting
  for it to become idle, and the buffers go to the next frame at once.
* `gop_restore`: `Start` saves the PCI Command word whether or not one is still
  owed from an earlier `Start` or `Stop` whose restore failed. What it then saves
  is the word the driver modified, and that is what `Stop` restores.

### What the holding properties except

Some properties hold only with an exception that the code has. Each is
part of the property, noted in a history variable or named in its text:

* `RemovedIsQuiet`, `UpdateNotForgotten`, `LatestFrameShown`: a commit that comes
  after the removal's own. It can turn the pipe on again and leave an upload
  queued and a frame in flight behind `fpga_drm_remove`; and the removal's
  `stop_uploads` cancels its upload and clears its snapshots. `RemovedIsQuiet`
  then still says that with the CRTC off again nothing is in flight, armed or
  about to be. `DmaHasDevice` and `RemoveReturns` of `DrmDevice` follow the late
  commit to the last release.
* `ListLive`: a wait that expires behind another transfer aborts the head of the
  list and frees its own request (`transfer_abort`); an iocb whose second chunk
  is refused is freed with its first chunk listed (`xdma_xfer_submit_nowait`).
  After either, the list may hold freed memory.
* `ReportedMoved`: `xdma_xfer_submit` writes a transfer off as complete after an
  expired wait; after an offline a late interrupt is charged to the next run, and
  so is in poll mode the writeback that an expired wait left. With interrupts
  there is one more. The hardware is not at rest when an expired wait has stopped
  the engine, so its interrupt comes when the next run has begun. If that run has
  moved some of its descriptors, its transfer is failed for a count too low
  (`libxdma.c` 982), `desc_dequeued` grows by all of them (988),
  and while others are listed the run goes on: the hardware works on a transfer
  that is over. As long as it comes to its end nothing is reported wrongly. But
  if it ends in an error, the count it stopped at is below `desc_dequeued`, the
  unsigned `desc_count -= engine->desc_dequeued` (`libxdma.c` 1183) wraps, and
  `engine_service_transfer_list` completes everything on the list though none of
  it was moved. `HwError` notes this as `"orphan"`.
* `HardwareRunsHead`, `FailedMeansError`, `ReportedMoved`, `CallsReturn`,
  `IocbsComplete`: a request carved out of descriptors still in use (`"overrun"`;
  `transfer_init`, `libxdma.c` 2986-3034, whose comment at 2994 says as much). The
  hardware then runs another transfer's descriptors in the name of the head, the
  counts say nothing, and an engine that meets a cleared descriptor stops with an
  error that may be charged to a bystander or serviced by nobody. `CallsKeepRing` says what
  the exception costs: with `read()` and `write()` alone it does not occur,
  because `desc_lock` is held from the carving to the clearing. It takes an iocb
  (nobody waits for its descriptors), a wait that expires, after which the engine
  may still be reading, or a request refused by an offline device, whose
  descriptors are never cleared.
* `HardwareRunsHead` and `FailedMeansError` also except expired waits and an
  offline device: both stop an engine that is not at rest.
* `CallsReturn`, `IocbsComplete`: in poll mode the thread that takes its threshold
  from an empty list swallows the writeback; only the timeout ends that call.
* All of `XdmaEngine`: a request of an iocb that is longer than the rest of the
  ring and a whole ring after it is cut a third time, for which
  `xdma_xfer_submit_nowait` has no transfer (`libxdma.c` 3950: `req->tfer[2]`).
  What follows is undefined, and nothing is said of it.
* `Released` of `DrmDevice`: `xdma_device_close` first looks the function up on the
  list (`debug_check_dev_hndl`, 4989) and returns without closing when it finds
  another structure. A structure whose predecessor is still on the list then
  stays open for ever (`ahead`, the step `"kept"`): a probe that opens and then
  fails, or a last release, while the old structure is between giving up the
  regions and leaving the list.
* `StreamShowsFrame`: a frame of a size that is refused, or that timed out, shows
  nothing; and after a time-out the first line may come behind what the aborted
  engine had sent of an earlier packet and not ended (`unended`).
* `Released` of `GopDriver`: when the child's uninstall fails and then the
  reopening of its PCI I/O too (`Stop`, 1113-1122), or when in `Start` that open
  failed before the uninstall (941-944), the child is on no list of the
  firmware's (`ChildUnlisted`). `Stop` is then called with no child and returns
  `EFI_DEVICE_ERROR` (1029-1031) every time, although `Start` keeps the state "so
  Stop() can retry cleanup" (942). The driver stays on the controller.
* `NothingLeft`: `request_regions` sets `regions_in_use` when the regions are
  busy, and the unwinding then keeps the enable count it took; `irq_setup` leaves
  the channels' handlers registered when a later one cannot be.
* `RefusedForCause`: `fpga_drm_primary_atomic_check` accepts a framebuffer larger
  than the mode, which `copy_primary_frame` refuses: the commit succeeds and the
  frame never appears.
* `EntryRestored`: the case of `gop_restore`.
* `ModeIsShown`: after a `SetMode` that failed half way the old mode is still
  reported over stages that are mixed, until the next one succeeds.

## Proofs

### UploadPath

The theorems are about `Spec`, for every set of modes, number of commits,
overlay setting and set of faults, under the four assumptions `UploadPath` makes
of its constants. Some of the results need one assumption more:

| Theorem | Says | Needs |
|---|---|---|
| `TypeCorrect` | `[]TypeOK` | |
| `DmaCorrect`, `RequestsKept` | `[]NoRequestLost` | |
| `ReferencesHeld` | `[]RefsSafe` | |
| `PipeCorrect` | the pipe is on only outside a modeset; until a late commit comes the CRTC stays off after the removal's | |
| `OrderCorrect` | frames only get newer on the way to the line buffers | |
| `NoUpdateForgotten` | `[]UpdateNotForgotten` | `upload_off` is not a fault |
| `FlightCorrect`, `ModeIsStable` | `[]ModeStable` | `StopWaits` |
| `StillCorrect`, `ReportCorrect`, `RemovedQuiet` | `[]RemovedIsQuiet` | `StopWaits` (`ReportCorrect` also that no timeout expires; `RemovedQuiet` covers both cases) |
| `ImplementsFrameSlot` | `SlotSpec`, the refinement | `StopWaits` |

`StopWaits` says that the wait in `stop_uploads` expires only for a frame that
nobody else is going to report. The code gives it a second more than the DMA
timeout, and by then `dma_timeout_work` has reported, unless another
`stop_uploads` cancelled it.

The argument goes through inductive invariants (`UploadPathInv`):

* `NoRequestLost` speaks of flags that four threads write. `LockInv` says who is
  inside the `dma_lock` sections, `DmaInv` what the flags are there: between
  `submit_frame_nowait` and `dma_finish` nobody else can be in either section,
  and a report is recorded only while the frame is in flight.
* `RefsSafe` needs only `HeldInv`: `upload_work`'s copies are empty between runs.
* `ModeStable` needs to know that the pipe is off whenever the mode is being
  programmed (`CommitInv`, `PipeInv`), that with the pipe off `upload_work` gets
  no further than its snapshot, and so that once disable has waited, or has
  flushed the completion it forced, nothing starts a new frame (`FlightInv`).
* `UpdateNotForgotten` needs that only a late commit can put an upload before the
  removal's `stop_uploads` (`RemoveInv`), and is made inductive by `OwedInv`: a run of `upload_work`
  whose copy is out of date is followed by another one, and `upload_pending` is
  clear while a submit can still be refused.
* `RemovedIsQuiet` follows the steps of `stop_uploads`: what each has stopped no
  other thread starts again (`StillInv`), because with the pipe off the completion
  work is past its lock, and a timer armed, only until `disable` has flushed and
  cancelled them. Without timeouts a
  report is in one place at a time (`ReportInv`), so none is left over either.
* The refinement maps `line_bufs` to the slot, `dma_inflight` to its being sent,
  `frame_mode` to the mode sent. `OrderInv` gives that what is staged is never
  older than what was; `FlightInv` that what is released had the current mode.

### XdmaDevice and DrmDevice

For every set of structures, every setup of interrupts and polling and every
number of failures:

| Theorem | Says |
|---|---|
| `DeviceTypes` | `LibSpec => []DevTypeOK` |
| `DeviceNothingLeft`, `DeviceOpenWhole`, `DeviceUsedIsThere` | the three invariants of `LibSpec` |
| `DrmUsesLibrary` | `DrmDevice`'s `Spec => LibSpec` |
| `DrmNothingLeft`, `DrmOpenWhole`, `DrmUsedIsThere` | the same invariants under the display driver |

`Inv` says of each structure that its step determines what it holds (`Holds`),
that engines and handlers live only at steps over what they use (`Uses`), that
the owner of the regions is the one whose step has them (`Owns`), and that the
threads run while anyone is listed in poll mode (`Watched`). The last two relate
structures to each other: they are what a second structure's failing open could
break. `LibSpec` allows any client that closes only what it opened. That the
display driver is one is `DrmUsesLibrary`, by the refinement mapping that forgets
the driver's variables; it needs `CoreInv`: the driver core works on one device
from probe to removal, and only the removal's own commit lets a removal go on.
The three invariants then carry over in one line each.

Four theorems are about the driver's own state, for every number of devices,
modes, commits and failures:

| Theorem | Says |
|---|---|
| `DrmTypeCorrect` | `[]TypeOK` |
| `DrmPipeShowsMode` | `[]PipeShowsMode`: a pipe that is on is programmed throughout for its mode |
| `DrmDmaHasDevice` | `[]DmaHasDevice`: an upload has its buffers and its engine |
| `DrmRegistersMapped` | `RegistersMapped`, a property of steps: registers are written through mapped BARs |

They need what no single handler can see (`DrmDeviceInv`). `ProbeInv`: from the
probe on, the core's device is whole, and only a device that was bound has files,
so a file keeps its device whole while the core probes another. `CallerInv`: who
waits for a commit. `PowerInv`: what runs was turned on, and what is on has a file
whose closing will turn it off; this is why `DmaHasDevice` survives a commit that
was let in before `drm_dev_unplug` and comes after the removal's own. `HwInv`
follows the blocks through a commit. The hardware is one: that a second probe
cannot reprogram it under a pipe that is on follows from the first three, because
the file that keeps the pipe on keeps the regions, and the probe fails at
`request_regions` before it writes.

### GopDriver

`GopTypeCorrect`, `GopDriverWhole`, `GopEntryRestored`, `GopModeIsShown` and
`GopMmioDecoded`, for every set of modes and any number of calls and failures.
The inductive invariant follows the sequence of steps: which of marker, opens,
child and saved word exist at each step of `Start` and `Stop`, which stages are
already programmed at each step of `SetMode`, and that an initialized context
means memory decode is on.

### XdmaEngine

For any number of callers and iocbs, segments, descriptors per request, ring
size, width of the counters above it, scenarios and offlines:

| Theorem | Says |
|---|---|
| `EngineCore` | `[]CoreInv`, the inductive invariant |
| `EngineTypeCorrect` | `[]TypeOK`, the ranges of every index and count among it |
| `EngineListLive` | `[]ListLive`, with its two exceptions |
| `EngineAioOnce` | `[]AioOnce`, with no exception |
| `EngineStaysOffline` | `OfflineStays`, a property of steps |
| `EngineRing` | `[]RingInv`, the second inductive invariant |
| `EngineRuns` | `[](PathInv /\ RunInv)`, the third |
| `EngineRunsHead` | `[]HardwareRunsHead` |
| `EngineFailsForCause` | `[]FailedMeansError` |
| `EngineMoves` | `[]MoveInv`, the fourth |
| `EngineReportsMoved` | `[]ReportedMoved`, with its exceptions |

The engine is a record that each critical section maps to another, so the proof
is in two layers. First, every operator (`Start`, `Stop`, `ServiceList`,
`ServiceFinal`, `Queue`, `Abort`, ...) keeps `EngineInv`, which speaks of one
engine: a transfer is listed once and chunks in their order (`Ordered`), what was
queued has descriptors and an iocb's two chunks make up no more than its request
(`Carved`), a slot holds a descriptor of the transfer it names (`Ringed`),
the hardware runs what was queued and stays inside the ring (`Engaged`), and the
handler of an iocb ran once for every request whose last chunk is through
(`Counted`, a cardinality). Second, every action keeps what relates the engine to
the callers: where a call is, the descriptors carved and those left make up the
request (`SyncPlace`, `AioPlace`), what it has not queued yet is new, and a
request is freed once its caller is past it (`TaskInv`).

* `AioOnce` is the hardest of them: that `cmpl_cnt` reaches the number of segments
  once, and not before the list is clear of the iocb, needs each request's last
  chunk to be last on the list (`Ordered`), to be told from the first by the
  descriptors alone (`Carved`), and the two to be counted as one (`Counted`).
* `ListLive` is `Undangled` together with `StrandInv`: memory that was freed is on
  the list only after one of the two noted events.
* `OfflineStays` needs `OfflineInv`: every path into `engine_start` asks for the
  offline flag, or for a running engine.
* `RingInv` is what the counts mean anything by: as long as nothing was carved out
  of descriptors in use, every transfer that is not freed (or, of a call, not
  behind its current chunk) has its slots as they were written (`Whole`), and the
  hardware finds its own descriptors ahead of it or cleared ones, of which it has
  not moved the last (`Tidy`). It is kept because `Build` takes slots that hold
  nothing and that the engine will not read, because `Clear` only touches slots of
  transfers that are over, and because slots of two whole transfers are disjoint.
  From it follow that a step of the hardware is of its own transfer
  (`AdvanceFields`), and that `hcnt` stays below `dnum` until the run ends.
* `HardwareRunsHead` and `FailedMeansError` are false of a single step: they need
  that a run is of the head of the list from its first descriptor on (`Runs`) and
  that of the run that ended there is one report and of earlier ones none
  (`Reports`). A wait that expires or an offline breaks exactly that, and a ring
  that was run over breaks `RingInv` below it, which is why
  both are stated for `upset.what = {}`. `PathInv` keeps interrupts and the
  polling thread apart.
* `ReportedMoved` holds on through expired waits and errors with interrupts, where
  `RunInv` does not. A count is taken as the number of pairs of a transfer and one
  of its descriptors (`Descs`), so that what is reported and what was moved are
  compared as sets: what a call or an iocb was told of are completed transfers of
  its own (`CallTold` in `SyncPlace`, `Tallied`, both in `CoreInv`), and a
  completed transfer was moved whole or written off (`Credit`). The second is
  `MoveInv`. While the engine runs, the hardware's count is of descriptors moved
  in this run, and the run is either of the head of the list with nothing dequeued
  (`Fresh`), or of a transfer that a late interrupt has failed, with all its
  descriptors dequeued and no interrupt pending (`Orphaned`). In the first case
  what a service credits is the count; in the second the count at the end of the
  run less `desc_dequeued` is 0, which fails the head and credits nobody. An
  interrupt that is serviced while the hardware works can only find a `Fresh` run,
  and leaves it `Orphaned`, done, or as it is.

`ServiceList` adds up the descriptors of the transfers it passes. That its sums
grow along the list is an induction over the list's places. The library's
induction theorems take an operator, which no installed prover can instantiate;
the proofs use the well-foundedness of the subsets of a finite set, a theorem
about sets, and take a least counterexample.

### FramePath

For every set of modes and framebuffers, every merging of the lines, every
`desc_blen_max`, ring and block size, and any number of frames and faults:

| Theorem | Says |
|---|---|
| `FrameInvariant` | `[]FrameInv`, the inductive invariant |
| `FrameTypeCorrect` | `[]TypeOK` |
| `FrameShown` | `[]StreamShowsFrame` |
| `FrameFetchInside` | `[]FetchInside` |
| `FrameRingAccounted` | `[]RingAccounted` |
| `FrameRefusedForCause` | `[]RefusedForCause`, if `ModesFit` |

`ModesFit` says that no mode needs more descriptors than the ring has, which
`xdma_xfer_submit_lines_nowait` would refuse. The ring has 2048
(`XDMA_ENGINE_XFER_MAX_DESC`), a line of a mode is far shorter than the 2^28 - 1
bytes of a descriptor, and no mode has more than 1080 lines.

Nothing a single step sees says what the finished stream is, so `FrameInv` says in
closed form what the code computes in loops. `DescOf(k)` is the k-th descriptor of
a frame, `Sent(k)` the packets once k of them were sent. From them follows

* of the counting and the filling loop (`LoopInv`): having taken n pieces it is at
  the address of `DescOf(n)` in the segment that holds it. Both loops cut where a
  segment, a line or `desc_blen_max` ends; that they cut the same pieces, and only
  where a line ends or a full descriptor does, needs that merged segments end at
  line ends (`SgInv`);
* of the ring (`RingInv`, `DescInv`): it holds this transfer and nothing else, each
  filled descriptor is the `DescOf` of its place, linked to the next, with the
  count of those that follow in its aligned block, and the last one stops;
* of the engine (`SendInv`): in a block from descriptor `from` of which `taken` are
  sent, the stream is `Sent(from + taken - first)`. Sending `DescOf(k)` makes
  `Sent(k)` into `Sent(k + 1)`, whether it starts a packet, goes on with one or ends
  it; `LinesInv` makes the pixels at its address those the commit shows.

The arithmetic (quotients and remainders of k by the descriptors of a line) is in
lemmas of its own, proved from the defining inequalities.

### Only model-checked

* All liveness, and everything that needs `ENABLED`: out of the prover's reach.
  These are `StopTerminates`, `LatestFrameShown`, `CallsReturn`, `IocbsComplete`,
  `RemoveReturns` and `Released`.
* `CallsKeepRing`. That the descriptors of a call are cleared before the next one
  carves is in the model as `desc_lock`, but the inductive invariant would have to
  account for every slot by its caller through the errors and aborts of all of
  them.

Every other invariant and action property of a passing run is stated by a theorem.

## Plan

1. `UploadPath`, `FrameSlot` and their proofs; `XdmaEngine`; `XdmaDevice` and
   `DrmDevice` with the refinement between them; `FramePath`; `GopDriver`: done.
2. Proofs about `DrmDevice`'s own state, about `XdmaEngine` and about
   `FramePath`: done.
3. `ReportedMoved` of `XdmaEngine`: done.
4. `Blt` row by row, with overlapping copies, as a pure algorithm.
5. The character devices of the standalone driver: creation, removal, event
   device and files over hot removal.
6. The packing kernels (`hls/*.cpp`) as pure algorithms.

## Not modelled

* Register values and bit fields: a block of the pipeline is set to a mode, or
  mixed. Polling loops are one step that succeeds or fails.
* Colours: a pixel is where it came from; in `UploadPath` a frame is the number
  of its commit.
* The mapping lifetime of a plane's shadow buffer (kernel code outside the
  repository; the driver holds a reference on the framebuffer only).
* `Blt`'s rows, its clipping and its overlapping copies: only what a `Blt` does to
  the layout on the screen.
* The character devices' creation and removal, control, event and performance
  paths, cyclic C2H reads, and PCI error callbacks beyond offline and online.
* How engines are spread over the polling threads, and a creation of those
  threads that fails half way.
* The UEFI test applications, the KMS test program, the scripts, statistics
  counters except as the outcome of the last upload, logging, power management
  beyond DPMS, and clocked RTL.
* The standalone `libxdma.c` and `fpga_drm/libxdma.c` differ only in how BARs are
  mapped and in the accessors of the BARs: `XdmaEngine` is mapped to the first,
  which the character driver drives, `XdmaDevice`, `FramePath` and `UploadPath`
  to the second.
