----------------------------- MODULE XdmaDevice -----------------------------
(***************************************************************************)
(* xdma_device_open() and xdma_device_close() of the XDMA library, for any *)
(* number of xdma_dev structures over one PCI function: what each holds,   *)
(* how a failure unwinds it, and what the structures share: the enable     *)
(* count, the regions, the list of devices and the polling threads.        *)
(*                                                                         *)
(* Each step is one call of the library into the kernel; the steps of two  *)
(* structures interleave, since a structure is closed when its last user   *)
(* goes, while the driver core may already probe the function again.       *)
(***************************************************************************)
EXTENDS Naturals, FiniteSets

CONSTANTS
  Devs,       \* the xdma_dev structures allocated, one per open
  None,       \* no one
  Setups,     \* poll_mode and what enable_msi_msix() finds on the function
  MaxFaults   \* bound: calls that fail

ASSUME DevsAssumption == None \notin Devs
ASSUME SetupsAssumption ==
  Setups \subseteq BOOLEAN \X {"msix", "msi", "legacy"}
ASSUME FaultsAssumption == MaxFaults \in Nat

VARIABLES
  pc,       \* the next step of the call of each xdma_dev; "none", "gone";
            \* "kept": its close returned without closing it
  held,     \* what each holds: "list" "enable" "regions" "bars" "vectors"
  engines,  \* the engines of each that are initialized
  irqs,     \* the handlers registered for each
  inUse,    \* regions_in_use
  owner,    \* who has the function's regions
  ahead,    \* who was on xdev_list when each was added to its tail
  threads,  \* cs_threads runs
  poll,     \* poll_mode
  kind,     \* the interrupts the function has
  half,     \* history: irq_setup() failed after it registered handlers
  faults

devVars == <<pc, held, engines, irqs, inUse, owner, threads, half, ahead>>
shared == <<devVars, poll, kind>>
libVars == <<shared, faults>>

Chans == {"h2c", "c2h"}
Resources == {"list", "enable", "regions", "bars", "vectors"}
Lines(d) == IF kind = "msix" THEN engines[d] \cup {"user"} ELSE {"dev"}
Listed == {d \in Devs : "list" \in held[d]}

(* xdev_find_by_pdev() finds this one: debug_check_dev_hndl() lets it pass. *)
First(d) == ahead[d] \cap Listed = {}

LibInit ==
  /\ pc = [d \in Devs |-> "none"]
  /\ held = [d \in Devs |-> {}] /\ engines = [d \in Devs |-> {}]
  /\ irqs = [d \in Devs |-> {}] /\ inUse = [d \in Devs |-> FALSE]
  /\ owner = None /\ threads = FALSE /\ ahead = [d \in Devs |-> {}]
  /\ \E s \in Setups : poll = s[1] /\ kind = s[2]
  /\ half = [d \in Devs |-> FALSE] /\ faults = 0

Works == UNCHANGED faults
Fails == faults < MaxFaults /\ faults' = faults + 1
Step(d, here, next) == pc[d] = here /\ pc' = [pc EXCEPT ![d] = next]
Take(d, r) == held' = [held EXCEPT ![d] = @ \cup {r}]
Drop(d, r) == held' = [held EXCEPT ![d] = @ \ {r}]
Fixed == UNCHANGED <<ahead, poll, kind>>

-----------------------------------------------------------------------------
(* xdma_device_open() *)
OpenCall(d) ==
  /\ Step(d, "none", "alloc")
  /\ UNCHANGED <<held, engines, irqs, inUse, owner, threads, half>> /\ Fixed

AllocDevInstance(d) ==
  /\ \/ Step(d, "alloc", "list") /\ Works
     \/ Step(d, "alloc", "gone") /\ Fails
  /\ UNCHANGED <<held, engines, irqs, inUse, owner, threads, half>> /\ Fixed

(* The first device on the list starts the polling threads. *)
XdevListAdd(d) ==
  /\ \/ /\ Step(d, "list", "enable") /\ Works
        /\ Take(d, "list") /\ ahead' = [ahead EXCEPT ![d] = Listed]
        /\ threads' = (threads \/ (poll /\ Listed = {}))
     \/ /\ Step(d, "list", "gone") /\ Fails
        /\ poll /\ Listed = {}
        /\ UNCHANGED <<held, ahead, threads>>
  /\ UNCHANGED <<engines, irqs, inUse, owner, half, poll, kind>>

EnableDevice(d) ==
  /\ \/ Step(d, "enable", "regions") /\ Works /\ Take(d, "enable")
     \/ Step(d, "enable", "unlist") /\ Fails /\ UNCHANGED held
  /\ UNCHANGED <<engines, irqs, inUse, owner, threads, half>> /\ Fixed

(* Busy regions are someone else's device: it is not disabled either. *)
RequestRegions(d) ==
  /\ \/ /\ Step(d, "regions", "bars") /\ Works
        /\ owner = None /\ owner' = d /\ Take(d, "regions")
        /\ UNCHANGED inUse
     \/ /\ Step(d, "regions", "disable")
        /\ IF owner = None THEN Fails ELSE Works
        /\ inUse' = [inUse EXCEPT ![d] = TRUE]
        /\ UNCHANGED <<owner, held>>
  /\ UNCHANGED <<engines, irqs, threads, half>> /\ Fixed

MapBarsKeepsRegions(d) ==         \* mutant: a failure skips err_map
  /\ \/ Step(d, "bars", "mask") /\ Works /\ Take(d, "bars")
     \/ Step(d, "bars", "disable") /\ Fails /\ UNCHANGED held
  /\ UNCHANGED <<engines, irqs, inUse, owner, threads, half>> /\ Fixed

(* A BAR that cannot be mapped, or no configuration BAR, unmaps them all. *)
MapBars(d) ==
  /\ \/ Step(d, "bars", "mask") /\ Works /\ Take(d, "bars")
     \/ Step(d, "bars", "release") /\ Fails /\ UNCHANGED held
  /\ UNCHANGED <<engines, irqs, inUse, owner, threads, half>> /\ Fixed

SetDmaMask(d) ==
  /\ \/ Step(d, "mask", "engines") /\ Works
     \/ Step(d, "mask", "unmap") /\ Fails
  /\ UNCHANGED <<held, engines, irqs, inUse, owner, threads, half>> /\ Fixed

(* An engine that cannot be set up ends the scan of its direction only. *)
ProbeEngines(d) ==
  /\ Step(d, "engines", "vectors")
  /\ \E lost \in SUBSET Chans :
       /\ engines' = [engines EXCEPT ![d] = Chans \ lost]
       /\ faults' = faults + Cardinality(lost) /\ faults' <= MaxFaults
  /\ UNCHANGED <<held, irqs, inUse, owner, threads, half>> /\ Fixed

EnableMsiMsix(d) ==
  /\ \/ /\ Step(d, "vectors", "irqs") /\ Works
        /\ IF kind = "legacy" THEN UNCHANGED held ELSE Take(d, "vectors")
     \/ /\ Step(d, "vectors", "remove") /\ Fails
        /\ kind # "legacy" /\ UNCHANGED held
  /\ UNCHANGED <<engines, irqs, inUse, owner, threads, half>> /\ Fixed

(* The channels' handlers, H2C first, then the users'.  A failure frees    *)
(* the users' handlers and leaves the channels' registered.                *)
Requested(d) ==
  IF kind = "msix"
  THEN {s \in SUBSET engines[d] : "c2h" \in s => s = engines[d]}
  ELSE {{}}

IrqSetup(d) ==
  /\ \/ /\ Step(d, "irqs", "finish") /\ Works
        /\ irqs' = [irqs EXCEPT ![d] = Lines(d)]
        /\ UNCHANGED half
     \/ /\ Step(d, "irqs", "novectors") /\ Fails
        /\ \E s \in Requested(d) :
             /\ irqs' = [irqs EXCEPT ![d] = s]
             /\ half' = [half EXCEPT ![d] = s # {}]
  /\ UNCHANGED <<held, engines, inUse, owner, threads>> /\ Fixed

OpenFinish(d) ==
  /\ Step(d, "finish", "open") /\ Works
  /\ UNCHANGED <<held, engines, irqs, inUse, owner, threads, half>> /\ Fixed

-----------------------------------------------------------------------------
(* xdma_device_close(), and below irq_teardown() the unwinding of an open  *)
(* that failed.  A close that finds another structure of the function      *)
(* first on the list returns at once and leaves all as it is.              *)
CloseCall(d) ==
  /\ Step(d, "open", IF First(d) THEN "teardown" ELSE "kept")
  /\ UNCHANGED <<held, engines, irqs, inUse, owner, threads, half>> /\ Fixed

IrqTeardownUsersOnly(d) ==        \* mutant: the channels' stay registered
  /\ Step(d, "teardown", "novectors") /\ Works
  /\ irqs' = [irqs EXCEPT ![d] = @ \ {"user", "dev"}]
  /\ UNCHANGED <<held, engines, inUse, owner, threads, half>> /\ Fixed

IrqTeardown(d) ==
  /\ Step(d, "teardown", "novectors") /\ Works
  /\ irqs' = [irqs EXCEPT ![d] = {}]
  /\ UNCHANGED <<held, engines, inUse, owner, threads, half>> /\ Fixed

DisableMsiMsix(d) ==
  /\ Step(d, "novectors", "remove") /\ Works
  /\ Drop(d, "vectors")
  /\ UNCHANGED <<engines, irqs, inUse, owner, threads, half>> /\ Fixed

RemoveEngines(d) ==
  /\ Step(d, "remove", "unmap") /\ Works
  /\ engines' = [engines EXCEPT ![d] = {}]
  /\ UNCHANGED <<held, irqs, inUse, owner, threads, half>> /\ Fixed

UnmapBars(d) ==
  /\ Step(d, "unmap", "release") /\ Works
  /\ Drop(d, "bars")
  /\ UNCHANGED <<engines, irqs, inUse, owner, threads, half>> /\ Fixed

ReleaseRegions(d) ==
  /\ Step(d, "release", "disable") /\ Works
  /\ Drop(d, "regions")
  /\ owner' = IF "regions" \in held[d] THEN None ELSE owner
  /\ UNCHANGED <<engines, irqs, inUse, threads, half>> /\ Fixed

DisableDevice(d) ==
  /\ Step(d, "disable", "unlist") /\ Works
  /\ IF inUse[d] THEN UNCHANGED held ELSE Drop(d, "enable")
  /\ UNCHANGED <<engines, irqs, inUse, owner, threads, half>> /\ Fixed

XdevListRemoveStops(d) ==         \* mutant: list_empty() is not asked
  /\ Step(d, "unlist", "gone") /\ Works
  /\ Drop(d, "list") /\ threads' = FALSE
  /\ UNCHANGED <<engines, irqs, inUse, owner, half>> /\ Fixed

(* The last device off the list stops the polling threads. *)
XdevListRemove(d) ==
  /\ Step(d, "unlist", "gone") /\ Works
  /\ Drop(d, "list")
  /\ threads' = (threads /\ Listed # {d})
  /\ UNCHANGED <<engines, irqs, inUse, owner, half>> /\ Fixed

(* xdma_device_close() has returned. *)
Returned(d) == pc[d] \in {"gone", "kept"}

OpenStep(d) == \/ AllocDevInstance(d) \/ XdevListAdd(d) \/ EnableDevice(d)
               \/ RequestRegions(d) \/ MapBars(d) \/ SetDmaMask(d)
               \/ ProbeEngines(d) \/ EnableMsiMsix(d) \/ IrqSetup(d)
               \/ OpenFinish(d)
CloseStep(d) == \/ IrqTeardown(d) \/ DisableMsiMsix(d) \/ RemoveEngines(d)
                \/ UnmapBars(d) \/ ReleaseRegions(d) \/ DisableDevice(d)
                \/ XdevListRemove(d)
LibStep(d) == OpenStep(d) \/ CloseStep(d)

(* The library under any client that closes only what it opened; the       *)
(* client's own calls may fail too.                                        *)
LibNext == \E d \in Devs : OpenCall(d) \/ CloseCall(d) \/ LibStep(d)
LibSpec == LibInit /\ [][LibNext]_shared
-----------------------------------------------------------------------------
Opening == {"alloc", "list", "enable", "regions", "bars", "mask", "engines",
            "vectors", "irqs", "finish"}
Closing == {"teardown", "novectors", "remove", "unmap", "release", "disable",
            "unlist"}
Pcs == Opening \cup Closing \cup {"none", "open", "gone", "kept"}

DevTypeOK ==
  /\ pc \in [Devs -> Pcs]
  /\ held \in [Devs -> SUBSET Resources]
  /\ engines \in [Devs -> SUBSET Chans]
  /\ irqs \in [Devs -> SUBSET (Chans \cup {"user", "dev"})]
  /\ inUse \in [Devs -> BOOLEAN] /\ half \in [Devs -> BOOLEAN]
  /\ owner \in Devs \cup {None} /\ threads \in BOOLEAN
  /\ ahead \in [Devs -> SUBSET Devs]
  /\ <<poll, kind>> \in Setups

LibTypeOK == DevTypeOK /\ faults \in 0 .. MaxFaults

(* Whatever failed where, a structure that is freed has left nothing       *)
(* behind: no handler that points into it, no engine, no mapping, no       *)
(* region.  Two leaks of the code are excepted: the enable count taken     *)
(* before the regions proved busy, and the channels' handlers registered   *)
(* before irq_setup() failed.                                              *)
NothingLeft ==
  \A d \in Devs : pc[d] = "gone" =>
    /\ held[d] \subseteq (IF inUse[d] THEN {"enable"} ELSE {})
    /\ engines[d] = {} /\ owner # d
    /\ irqs[d] = {} \/ half[d]

(* An open device is whole, whatever another structure over the same       *)
(* function does meanwhile: its regions are its own, the function is       *)
(* enabled, every handler is registered, and in poll mode the threads run. *)
(* So is one whose close was turned away, for good.                        *)
OpenWhole ==
  \A d \in Devs : pc[d] \in {"open", "kept"} =>
    /\ held[d] = Resources \ (IF kind = "legacy" THEN {"vectors"} ELSE {})
    /\ owner = d /\ irqs[d] = Lines(d)
    /\ poll => threads

(* What is used is there: an engine only over mapped registers of an       *)
(* enabled function, and in poll mode with a thread to watch it; a handler *)
(* only over its engine, except the ones irq_setup() left behind.          *)
UsedIsThere ==
  \A d \in Devs :
    /\ engines[d] # {} => {"bars", "regions", "enable"} \subseteq held[d]
    /\ engines[d] # {} /\ poll => threads
    /\ ~half[d] => irqs[d] \cap Chans \subseteq engines[d]
=============================================================================
