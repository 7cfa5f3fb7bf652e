---------------------------- MODULE DrmDeviceInv ----------------------------
(***************************************************************************)
(* The inductive invariant of DrmDevice: what each step of probe, commit   *)
(* and release may rely on when another device, file or caller is at work. *)
(***************************************************************************)
EXTENDS DrmDevice

(* What TypeOK says of the driver's own variables but drmm.                *)
FieldsOK ==
  /\ core \in CoreSteps /\ (cur \in Devs) = (core # "unbound")
  /\ ref \in [Devs -> BOOLEAN] /\ visible \in [Devs -> BOOLEAN]
  /\ file \in [Devs -> {"none", "open", "ioctl", "commit", "closing", "rmfb"}]
  /\ kms \in [Devs -> KmsSteps]
  /\ by \in [Devs -> {"user", "close", "remove", "shutdown"}]
  /\ to \in [Devs -> Modes \cup {None}] /\ mode \in [Devs -> Modes]
  /\ active \in [Devs -> BOOLEAN] /\ pipe \in [Devs -> BOOLEAN]
  /\ dma \in [Devs -> BOOLEAN]
  /\ hw \in [Blocks -> Modes \cup {None, Mixed, "set"}]
  /\ commits \in 0 .. MaxCommits

(* What is registered for the release of each device, in its order.        *)
Lists == {<<>>, <<"buffers">>, <<"buffers", "xdma">>}
DrmmOK == drmm \in [Devs -> Lists]

(* The probe of cur has its device open; from StaticSet on the static      *)
(* pipeline is configured as well; from Bound on it was registered.        *)
Bound == {"bound", "shutdown", "waiting", "stop", "removed"}
Configured == Bound \cup {"scratch", "modeset", "register"}
Probed == Configured \cup {"contract", "gpio", "unpack", "color", "hdmi"}
Programming == {"stop", "clock", "vdma", "vtc", "confirm", "enable"}

Whole(d) == /\ pc[d] = "open" /\ "h2c" \in engines[d]
            /\ drmm[d] = <<"buffers", "xdma">>

(* From the probe to devres the driver core has one device, which it works *)
(* up step by step; only a device that was bound has files.                *)
ProbeInv ==
  /\ core \in {"buffers", "open"} => pc[cur] = "none"
  /\ core = "buffers" => drmm[cur] = <<>>
  /\ core \in {"open", "opening", "closing"} => drmm[cur] = <<"buffers">>
  /\ core \in Probed => Whole(cur)
  /\ \A d \in Devs :
       /\ ref[d] <=> core # "unbound" /\ cur = d
       /\ visible[d] => core = "bound" /\ cur = d
       /\ file[d] # "none" =>
            Whole(d) /\ (core # "unbound" /\ cur = d => core \in Bound)

(* Who called the commit under way, and is waiting for it. *)
CallerInv ==
  \A d \in Devs :
    /\ by[d] # "user" => to[d] = None
    /\ kms[d] # "idle" =>
         \/ by[d] = "user" /\ file[d] = "commit"
         \/ by[d] = "close" /\ file[d] = "rmfb"
         \/ by[d] = "remove" /\ core = "waiting" /\ cur = d
         \/ by[d] = "shutdown" /\ core \in {"bound", "shutdown"} /\ cur = d
    /\ kms[d] \in Programming => to[d] \in Modes

(* What runs is on, and what is on has a file that will turn it off: the   *)
(* commit of a file that is closed leaves nothing on.                      *)
PowerInv ==
  \A d \in Devs :
    /\ pipe[d] \/ dma[d] => active[d]
    /\ active[d] => file[d] # "none"
    /\ pipe[d] => kms[d] \in {"idle", "disable", "done"}
    /\ kms[d] \in Programming \ {"stop"} => active[d]
    /\ kms[d] = "done" /\ to[d] = None => ~active[d]

(* What each block was set to by the step before. *)
HwInv ==
  /\ core \in {"unpack", "color", "hdmi"} => hw["gpio"] = "set"
  /\ core \in {"color", "hdmi"} => hw["unpack"] = "set"
  /\ core = "hdmi" => hw["color"] = "set"
  /\ \A d \in Devs :
       /\ (core \in Configured /\ cur = d) \/ file[d] # "none" =>
            \A b \in StaticBlocks : hw[b] = "set"
       /\ kms[d] \in {"vdma", "vtc", "confirm", "enable"} =>
            hw["clock"] = to[d]
       /\ kms[d] \in {"vtc", "confirm", "enable"} => hw["vdma"] = to[d]
       /\ kms[d] \in {"confirm", "enable"} => hw["vtc"] = to[d]
       /\ pipe[d] => \A b \in {"clock", "vdma", "vtc"} : hw[b] = mode[d]
=============================================================================
