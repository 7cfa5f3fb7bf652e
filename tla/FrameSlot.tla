----------------------------- MODULE FrameSlot ------------------------------
(***************************************************************************)
(* What the upload path of the display driver promises, without threads,   *)
(* locks, timers or retries: one staging slot between the compositor and   *)
(* the display.  Userspace publishes frames at any time and only the       *)
(* newest counts.  The slot is refilled and the display reprogrammed only  *)
(* while no frame is being sent from it, and the frames staged in it never *)
(* go back in time.                                                        *)
(***************************************************************************)
EXTENDS Integers

CONSTANTS Modes, NoMode, Planes, Versions, NoFrame

VARIABLES
  on,       \* the display is on
  mode,     \* the mode it is programmed for
  latest,   \* the newest frame published, NoFrame if withdrawn
  staged,   \* the frame in the slot
  sending,  \* the slot is being read by the display
  sentMode  \* the mode the frame being sent was laid out for
slotVars == <<on, mode, latest, staged, sending, sentMode>>

Frames == [Planes -> Versions]

Init ==
  /\ on = FALSE /\ mode \in Modes /\ latest = NoFrame
  /\ staged = NoFrame /\ sending = FALSE /\ sentMode = NoMode

NotOlder(f, g) == \A p \in Planes : f[p] = 0 \/ f[p] >= g[p]

Publish ==
  /\ latest' \in Frames
  /\ NotOlder(latest', staged)
  /\ UNCHANGED <<on, mode, staged, sending, sentMode>>

SwitchOff ==
  /\ on' = FALSE
  /\ UNCHANGED <<mode, latest, staged, sending, sentMode>>

(* Off and idle is the only time to reprogram. *)
SwitchOn ==
  /\ ~on /\ ~sending
  /\ on' = TRUE /\ mode' \in Modes
  /\ UNCHANGED <<latest, staged, sending, sentMode>>

Stage ==
  /\ ~sending
  /\ staged' \in Frames /\ staged'["primary"] # 0
  /\ NotOlder(staged', staged)
  /\ UNCHANGED <<on, mode, latest, sending, sentMode>>

Send ==
  /\ ~sending /\ staged["primary"] # 0
  /\ sending' = TRUE /\ sentMode' = mode
  /\ UNCHANGED <<on, mode, latest, staged>>

(* Sent, failed, aborted or refused: the slot is free again. *)
Release ==
  /\ sending /\ sentMode = mode
  /\ sending' = FALSE
  /\ UNCHANGED <<on, mode, latest, staged, sentMode>>

Next == Publish \/ SwitchOff \/ SwitchOn \/ Stage \/ Send \/ Release
Spec == Init /\ [][Next]_slotVars
=============================================================================
