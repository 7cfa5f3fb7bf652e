--------------------------- MODULE UploadPathInv ----------------------------
(***************************************************************************)
(* The inductive invariants of UploadPath, as conjunctions of named parts: *)
(* what every step of every thread preserves, and what the safety          *)
(* properties follow from.                                                 *)
(***************************************************************************)
EXTENDS UploadPath

(* Who is inside the dma_lock sections. *)
LockInv ==
  /\ dma_lock = "upload" <=> upc \in UploadLocked
  /\ dma_lock = "complete" <=> kpc \in CompleteLocked

(* The flags of one frame follow it through the two lock sections. *)
DmaInv ==
  /\ dma_completion_pending => dma_inflight
  /\ req # "none" => dma_inflight
  /\ upc \in {"compose", "submit"} => ~dma_inflight
  /\ upc \in {"xdma", "arm"} => dma_inflight
  /\ upc = "xdma" => req = "none"
  /\ kpc \in {"xfer", "abort", "finish"} => dma_completion_pending
  /\ kpc = "finish" => req = "none"
  /\ kpc = "resched" => ~dma_inflight

(* upload_work holds references only between its snapshot and its put. *)
HeldInv == upc \in {"idle", "snap"} => held = NoFrame

(* What the commit thread is doing when it is in a modeset. *)
CommitInv ==
  /\ commit.kind = "modeset" => commit.mode \in Modes
  /\ commit.kind = "modeset" /\ cpc # "idle" => crtc = "active"
  /\ cpc = "program" => commit.kind = "modeset"
  /\ cpc \in StopSteps /\ stop_for = "enable" => commit.kind = "modeset"

(* The removal's own commit is the commit thread's, and after it the CRTC  *)
(* stays off and nothing is committed until a late commit comes.           *)
RemoveInv ==
  /\ rpc = "shutdown" <=> commit.kind = "remove" /\ cpc # "idle"
  /\ rpc = "shutdown" => crtc = "off"
  /\ rpc \notin {"bound", "shutdown"} /\ ~late => cpc = "idle" /\ crtc = "off"

(* The pipe is on only between commits, in a plane update, or before the   *)
(* commit that turns it off has done so; with the pipe off upload_work     *)
(* gets no further than its snapshot, save the run disable waits for.      *)
PipeInv ==
  /\ pipe_enabled =>
       /\ crtc = "active" \/ cpc = "disable"
       /\ \/ cpc \in {"idle", "disable"}
          \/ cpc \in {"flush", "queue"} /\ commit.kind = "flip"
  /\ ~pipe_enabled /\ upc \notin {"idle", "snap"}
       => cpc = "cancel" /\ stop_for = "disable"

(* With the pipe off a frame is in flight only until disable has waited    *)
(* for it, or flushes the completion that it reported itself; so its mode  *)
(* is the programmed one.                                                  *)
FlightInv ==
  /\ dma_inflight => frame_mode = active_mode
  /\ ~pipe_enabled /\ dma_inflight
       => /\ stop_for = "disable"
          /\ cpc \in {"cancel", "wait_idle", "force_flush"}
          /\ cpc = "force_flush" =>
               /\ dma_completion_pending
               /\ \/ complete_queued
                  \/ kpc \in {"lock", "xfer", "abort", "finish"}

(* Frames only get newer on their way from snapshot to staging buffers. *)
NotOlder(f, g) == \A p \in Planes : f[p] = 0 \/ f[p] >= g[p]
OrderInv ==
  /\ \A p \in Planes :
       snapshot[p] <= commits /\ held[p] <= commits /\ line_bufs[p] <= commits
  /\ NotOlder(snapshot, line_bufs) /\ NotOlder(snapshot, held)
  /\ NotOlder(held, line_bufs)
  /\ upc \notin {"idle", "snap"} => held["primary"] # 0
  /\ upc = "submit" => line_bufs = held

(* An upload that works on an old snapshot is followed by another one. *)
OwedInv ==
  /\ UpdateNotForgotten
  /\ /\ upc \in {"lock", "compose"} /\ held # snapshot
     /\ pipe_enabled /\ snapshot["primary"] # 0 /\ ~late
     => cpc = "queue" \/ upload_queued
  /\ cpc = "program" => snapshot = NoFrame
  /\ upc = "xdma" => ~upload_pending

(* What stop_uploads has stopped stays stopped.  With the pipe off the     *)
(* completion work is past its lock, and a timeout armed or running, only  *)
(* until disable has flushed and cancelled them; so without a late commit  *)
(* nothing queues upload_work again once remove has cancelled it.          *)
StillInv ==
  /\ ~pipe_enabled /\ kpc \in CompleteLocked
       => /\ stop_for = "disable"
          /\ cpc \in {"cancel", "wait_idle", "force_flush", "sync_timer",
                      "flush_complete"}
  /\ ~pipe_enabled /\ (timer \/ tpc # "idle")
       => /\ stop_for = "disable"
          /\ cpc \in {"cancel", "wait_idle", "force_flush", "sync_timer"}
  /\ /\ rpc \in {"wait_idle", "force_flush", "sync_timer",
                "flush_complete", "clear", "removed"}
     /\ ~late
     => ~upload_queued /\ upc = "idle"
  /\ rpc = "removed" /\ ~late => snapshot = NoFrame

(* Without timeouts a report is one token: libxdma's callback makes it, or *)
(* stop_uploads does for an engine that never will, and it is with the     *)
(* callback, on the workqueue or with the completion work until dma_finish *)
(* takes it.                                                               *)
ReportInv ==
  /\ tpc = "idle"
  /\ svc = "cb" => ~dma_completion_pending /\ req \in {"completed", "failed"}
  /\ upc = "xdma" => ~dma_completion_pending
  /\ req = "submitted" /\ dma_completion_pending
       => hw = "idle" /\ ~irq /\ svc = "idle"
  /\ svc = "sched" =>
       dma_completion_pending /\ ~complete_queued /\ kpc = "idle"
  /\ complete_queued => dma_completion_pending /\ kpc = "idle"
  /\ kpc = "lock" => dma_completion_pending
=============================================================================
