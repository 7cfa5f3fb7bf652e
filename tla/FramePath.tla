----------------------------- MODULE FramePath ------------------------------
(***************************************************************************)
(* One frame from the planes to the video stream: what atomic_check lets   *)
(* through, its composition into the line buffers, the scatter list of the *)
(* lines, its descriptors in the ring of the H2C engine, and the packets   *)
(* the engine sends.  UploadPath says when each of these happens.          *)
(*                                                                         *)
(* A pixel stands for its four bytes: sizes, pitches and lengths are in    *)
(* pixels.  The memory of a framebuffer is linear, as the code reads it;   *)
(* what must arrive is stated in coordinates.                              *)
(***************************************************************************)
EXTENDS Integers, Sequences, FiniteSetsExt, SequencesExt

CONSTANTS
  Modes,      \* the modes of fpga_video_modes: [w, h]
  Fbs,        \* framebuffers: [w, h, pitch]
  Rects,      \* rectangles the user may ask for: [x, y, w, h]
  MaxW, MaxH, \* FPGA_DRM_MAX_WIDTH and _HEIGHT
  DescMax,    \* desc_max of the engine
  BlockSize,  \* XDMA_MAX_ADJ_BLOCK_SIZE
  BlenMax,    \* desc_blen_max
  None,       \* no overlay
  MaxFrames,  \* bound: frames
  MaxFaults   \* bound: frames refused by a failing call or timed out

ASSUME SizesAssumption ==
  /\ \A m \in Modes : m.w \in 1 .. MaxW /\ m.h \in 1 .. MaxH
  /\ \A f \in Fbs : f.w \in Nat \ {0} /\ f.h \in Nat \ {0} /\ f.pitch \in Nat
  /\ \A r \in Rects : r.x \in Nat /\ r.y \in Nat /\ r.w \in Nat /\ r.h \in Nat
  /\ BlockSize \in Nat \ {0} /\ BlenMax \in Nat \ {0}
  /\ DescMax \in Nat \ {0} /\ DescMax % BlockSize = 0
  /\ {MaxW, MaxH, MaxFrames, MaxFaults} \subseteq Nat

(* What a descriptor addresses and whether it ends a packet, whether it    *)
(* stops the engine, which descriptor is next and how many are adjacent.   *)
Entries == [desc : [addr : Nat, len : Nat, eop : BOOLEAN],
            stop : BOOLEAN, next : Nat, adj : Nat]
ASSUME NoneAssumption == None \notin Entries

VARIABLES
  pc,        \* the step the frame is at
  mode,      \* active_mode
  primary,   \* the primary snapshot: its framebuffer and source
  overlay,   \* the overlay snapshot: framebuffer, source and destination
  frame,     \* the number of the frame
  lines,     \* line_bufs
  sg,        \* active_frame_sgt as the DMA mapping left it
  loop,      \* the locals of the loops over sg, see LoopStart
  count,     \* what xdma_count_line_descriptors() returned
  ring,      \* the descriptors of the engine, None when cleared
  idx, used, \* desc_idx, desc_used
  first,     \* desc_index of the transfer
  fetch,     \* the block of descriptors the engine has fetched
  taken,     \* how many of them it has sent
  stream,    \* the packets sent of the frame, the last perhaps not ended
  unsent,    \* descriptors a frame that timed out left to the engine
  unended,   \* what was sent of a packet such a frame did not end
  aborted,   \* history: the last frame that was sent timed out
  why,       \* history: why the last frame was refused
  faults

imgVars == <<mode, primary, overlay, frame, lines>>
ringVars == <<ring, idx, used, first>>
restVars == <<unsent, unended, aborted>>
hwVars == <<fetch, taken, stream, restVars>>
vars == <<pc, imgVars, sg, loop, count, ringVars, hwVars, why, faults>>

Lines == 0 .. MaxH - 1
Nothing == [from |-> 0, n |-> 0]

(* The loops over the scatter list: the segment and how much of it is      *)
(* done (sg_remaining), what is left of the line (line_remaining), the     *)
(* lines done and the descriptors so far.                                  *)
LoopStart == [seg |-> 1, off |-> 0, left |-> mode.w, done |-> 0, n |-> 0]

Init ==
  /\ pc = "idle" /\ mode \in Modes /\ primary = None /\ overlay = None
  /\ frame = 0
  /\ lines = [y \in Lines |-> [x \in 0 .. MaxW - 1 |-> None]]
  /\ sg = <<>> /\ count = 0 /\ loop = LoopStart
  /\ ring = [i \in 0 .. DescMax - 1 |-> None] /\ idx = 0 /\ used = 0
  /\ first = 0 /\ fetch = Nothing /\ taken = 0 /\ stream = <<>>
  /\ unsent = <<>> /\ unended = <<>> /\ aborted = FALSE
  /\ why = "none" /\ faults = 0

Fault == faults < MaxFaults /\ faults' = faults + 1

-----------------------------------------------------------------------------
(* What a plane shows at (x, y) of its framebuffer, and what is in memory  *)
(* at an offset from its start.                                            *)
Pixel(plane, x, y) == <<plane, frame, x, y>>
Mem(plane, fb, offset) ==
  IF offset % fb.pitch < fb.w
  THEN Pixel(plane, offset % fb.pitch, offset \div fb.pitch)
  ELSE None

(* DRM itself refuses a source outside the framebuffer.                    *)
SourceInside(fb, x, y, w, h) == x + w <= fb.w /\ y + h <= fb.h
CheckFb(fb) == fb.pitch >= fb.w

(* fpga_drm_primary_atomic_check(): the whole screen, wherever in its      *)
(* framebuffer the source starts.                                          *)
PrimaryCheck(m, p) ==
  /\ CheckFb(p.fb) /\ SourceInside(p.fb, p.x, p.y, p.w, p.h)
  /\ p.w = m.w /\ p.h = m.h

(* fpga_drm_overlay_atomic_check() *)
OverlayCheck(m, o) ==
  /\ CheckFb(o.fb) /\ SourceInside(o.fb, o.x, o.y, o.w, o.h)
  /\ o.w > 0 /\ o.h > 0 /\ o.dx + o.w <= m.w /\ o.dy + o.h <= m.h

(* A commit sets the mode and the planes; a mode is only set with no frame *)
(* in flight (UploadPath's ModeStable).                                    *)
Flush(m, p, o) ==
  /\ pc = "idle" /\ frame < MaxFrames /\ pc' = "compose"
  /\ PrimaryCheck(m, p) /\ (o # None => OverlayCheck(m, o))
  /\ mode' = m /\ primary' = p /\ overlay' = o /\ frame' = frame + 1
  /\ why' = "none"
  /\ UNCHANGED <<lines, sg, loop, count, ringVars, hwVars, faults>>

Primaries == {[fb |-> f, x |-> r.x, y |-> r.y, w |-> r.w, h |-> r.h] :
                f \in Fbs, r \in Rects}
Overlays == {[fb |-> f, x |-> r.x, y |-> r.y, w |-> r.w, h |-> r.h,
              dx |-> d.x, dy |-> d.y] : f \in Fbs, r \in Rects, d \in Rects}

-----------------------------------------------------------------------------
(* fpga_drm_compose_frame() *)
Refuse(reason) == pc' = "idle" /\ why' = reason

CopyChecksAnySize == primary.fb.pitch >= mode.w  \* mutant: pitch only

CopyChecks ==
  /\ primary.fb.w = mode.w /\ primary.fb.h = mode.h
  /\ primary.fb.pitch >= mode.w

CopyPrimary ==
  [y \in Lines |-> [x \in 0 .. MaxW - 1 |->
     IF y < mode.h /\ x < mode.w
     THEN Mem("primary", primary.fb, y * primary.fb.pitch + x)
     ELSE lines[y][x]]]

BlendChecksStrict ==              \* mutant: x2 and y2 taken as inclusive
  /\ overlay.x + overlay.w <= overlay.fb.w
  /\ overlay.y + overlay.h <= overlay.fb.h
  /\ overlay.dx + overlay.w < mode.w /\ overlay.dy + overlay.h < mode.h
  /\ overlay.fb.pitch >= overlay.fb.w

BlendChecks ==
  /\ overlay.x + overlay.w <= overlay.fb.w
  /\ overlay.y + overlay.h <= overlay.fb.h
  /\ overlay.dx + overlay.w <= mode.w /\ overlay.dy + overlay.h <= mode.h
  /\ overlay.fb.pitch >= overlay.fb.w

InRect(o, x, y) == x \in o.dx .. o.dx + o.w - 1 /\ y \in o.dy .. o.dy + o.h - 1

BlendOverlay(copied) ==
  [y \in Lines |-> [x \in 0 .. MaxW - 1 |->
     IF InRect(overlay, x, y)
     THEN Mem("overlay", overlay.fb,
              (overlay.y + y - overlay.dy) * overlay.fb.pitch
                + overlay.x + x - overlay.dx)
     ELSE copied[y][x]]]

ComposeFrame ==
  /\ pc = "compose"
  /\ IF ~CopyChecks THEN Refuse("copy") /\ UNCHANGED lines
     ELSE IF overlay = None
     THEN pc' = "map" /\ lines' = CopyPrimary /\ UNCHANGED why
     ELSE IF BlendChecks
     THEN pc' = "map" /\ lines' = BlendOverlay(CopyPrimary) /\ UNCHANGED why
     ELSE Refuse("blend") /\ lines' = CopyPrimary
  /\ UNCHANGED <<mode, primary, overlay, frame, sg, loop, count, ringVars,
                 hwVars, faults>>

(* prepare_active_sgt() makes an entry of each line; the DMA mapping may   *)
(* merge neighbours into one segment of bus addresses, or fail.  A bus     *)
(* address is the place of its pixel among the lines mapped.               *)
MapFrame ==
  /\ pc = "map"
  /\ \/ \E n \in 1 .. mode.h : \E end \in [0 .. n -> 0 .. mode.h] :
          /\ end[0] = 0 /\ end[n] = mode.h
          /\ \A i \in 1 .. n : end[i - 1] < end[i]
          /\ sg' = [i \in 1 .. n |->
                      [addr |-> end[i - 1] * mode.w,
                       len |-> (end[i] - end[i - 1]) * mode.w]]
          /\ pc' = "count" /\ loop' = LoopStart
          /\ UNCHANGED <<why, faults>>
     \/ Fault /\ Refuse("fault") /\ UNCHANGED <<sg, loop>>
  /\ UNCHANGED <<imgVars, count, ringVars, hwVars>>

(* What the device reads at a bus address. *)
BusRead(addr) == lines[addr \div mode.w][addr % mode.w]

(* Both loops take the next piece of a segment: as much as is left of the  *)
(* segment and of the line, and no more than desc_blen_max.                *)
Piece == Min({sg[loop.seg].len - loop.off, loop.left, BlenMax})

Passed(len) ==
  LET over  == loop.off + len = sg[loop.seg].len
      ended == len = loop.left
  IN [seg  |-> IF over THEN loop.seg + 1 ELSE loop.seg,
      off  |-> IF over THEN 0 ELSE loop.off + len,
      left |-> IF ended THEN mode.w ELSE loop.left - len,
      done |-> IF ended THEN loop.done + 1 ELSE loop.done,
      n    |-> loop.n + 1]

(* Every refusal from here on unmaps the lines again. *)
Unmapped == sg' = <<>> /\ count' = 0 /\ loop' = LoopStart

(* xdma_count_line_descriptors() *)
CountPiece ==
  /\ pc = "count" /\ loop.seg <= Len(sg)
  /\ IF loop.done >= mode.h THEN Refuse("lines") /\ Unmapped
     ELSE loop' = Passed(Piece) /\ UNCHANGED <<pc, why, sg, count>>
  /\ UNCHANGED <<imgVars, ringVars, hwVars, faults>>

(* The loop is over; a request may not be had.                             *)
CountDone ==
  /\ pc = "count" /\ loop.seg > Len(sg)
  /\ \/ /\ IF loop.done # mode.h \/ loop.left # mode.w
           THEN Refuse("lines") /\ Unmapped
           ELSE IF loop.n > DescMax THEN Refuse("descriptors") /\ Unmapped
           ELSE pc' = "build" /\ count' = loop.n /\ UNCHANGED <<why, sg, loop>>
        /\ UNCHANGED faults
     \/ Fault /\ Refuse("fault") /\ Unmapped
  /\ UNCHANGED <<imgVars, ringVars, hwVars>>

-----------------------------------------------------------------------------
(* xdma_get_next_adj(): how many descriptors follow the one at i in its    *)
(* block, of the remaining ones of the transfer.                           *)
NextAdjUnaligned(remaining, i) ==  \* mutant: blocks start anywhere
  IF remaining <= 1 THEN 0 ELSE Min({BlockSize - 1, remaining - 1})

NextAdj(remaining, i) ==
  IF remaining <= 1 THEN 0
  ELSE Min({BlockSize - (i % BlockSize) - 1, remaining - 1})

RingStart == IF idx + count > DescMax THEN 0 ELSE idx

AdvanceUnwrapped(start) == start + count  \* mutant: no modulus

Advance(start) == (start + count) % DescMax

Transfer == first .. first + count - 1

(* transfer_desc_init(): the transfer's descriptors, linked and empty.     *)
Linked(start) ==
  [i \in 0 .. DescMax - 1 |->
     IF i \in start .. start + count - 1
     THEN [desc |-> [addr |-> 0, len |-> 0, eop |-> FALSE], stop |-> FALSE,
           next |-> IF i < start + count - 1 THEN i + 1 ELSE 0, adj |-> 0]
     ELSE ring[i]]

(* engine->lock is held from here to FillDone.                             *)
BuildTransfer ==
  /\ pc = "build"
  /\ IF used # 0 THEN Refuse("busy") /\ Unmapped /\ UNCHANGED ringVars
     ELSE /\ pc' = "fill" /\ loop' = LoopStart
          /\ idx' = RingStart /\ first' = RingStart
          /\ ring' = Linked(RingStart)
          /\ UNCHANGED <<why, sg, count, used>>
  /\ UNCHANGED <<imgVars, hwVars, faults>>

(* The piece gets its descriptor: one that ends a line ends a packet, and  *)
(* the last one counted stops the engine.                                  *)
FillPiece ==
  /\ pc = "fill" /\ loop.seg <= Len(sg)
  /\ ring' = [ring EXCEPT ![first + loop.n] =
                [@ EXCEPT !.desc = [addr |-> sg[loop.seg].addr + loop.off,
                                    len |-> Piece, eop |-> Piece = loop.left],
                          !.stop = (loop.n = count - 1)]]
  /\ loop' = Passed(Piece)
  /\ UNCHANGED <<pc, imgVars, sg, count, idx, used, first, hwVars, why,
                 faults>>

Adjacent ==
  [i \in 0 .. DescMax - 1 |->
     IF i \in Transfer
     THEN [ring[i] EXCEPT !.adj = NextAdj(first + count - i - 1, i + 1)]
     ELSE ring[i]]

FillDone ==
  /\ pc = "fill" /\ loop.seg > Len(sg)
  /\ pc' = "queue" /\ ring' = Adjacent
  /\ idx' = Advance(first) /\ used' = used + count
  /\ UNCHANGED <<imgVars, sg, loop, count, first, hwVars, why, faults>>

ClearedButLast ==                 \* mutant: the last descriptor is left
  [i \in 0 .. DescMax - 1 |->
     IF i \in first .. first + count - 2 THEN None ELSE ring[i]]

(* transfer_destroy(), xdma_desc_done() *)
Cleared ==
  [i \in 0 .. DescMax - 1 |->
     IF i \in Transfer THEN None ELSE ring[i]]

(* transfer_queue() and engine_start(); an engine in error refuses, and    *)
(* the descriptors are given back.                                         *)
QueueTransfer ==
  /\ pc = "queue"
  /\ \/ /\ pc' = "run"
        /\ fetch' = [from |-> first, n |-> 1 + NextAdj(count, first)]
        /\ UNCHANGED <<why, faults, ring, used, sg, loop, count>>
     \/ /\ Fault /\ Refuse("fault") /\ Unmapped /\ UNCHANGED fetch
        /\ ring' = Cleared /\ used' = used - count
  /\ UNCHANGED <<imgVars, idx, first, taken, stream, restVars>>

-----------------------------------------------------------------------------
(* The engine fetches a block of neighbours at once and sends what each    *)
(* addresses, until one stops it; the last of the block says where the     *)
(* next block is.  It begins when it is done with what an earlier frame    *)
(* left it.                                                                *)
Send(s, d) ==
  LET data == [k \in 1 .. d.len |-> BusRead(d.addr + k - 1)]
  IN IF s # <<>> /\ ~Last(s).ended
     THEN [s EXCEPT ![Len(s)] = [data |-> @.data \o data, ended |-> d.eop]]
     ELSE Append(s, [data |-> data, ended |-> d.eop])

Block == fetch.from .. fetch.from + fetch.n - 1

HwSend ==
  /\ pc = "run" /\ fetch.n > 0 /\ unsent = <<>>
  /\ Block \subseteq 0 .. DescMax - 1 /\ \A i \in Block : ring[i] # None
  /\ LET e == ring[fetch.from + taken]
     IN /\ stream' = Send(stream, e.desc)
        /\ IF e.stop THEN fetch' = Nothing /\ taken' = 0
           ELSE IF taken + 1 < fetch.n
           THEN taken' = taken + 1 /\ UNCHANGED fetch
           ELSE fetch' = [from |-> e.next, n |-> 1 + e.adj] /\ taken' = 0
  /\ UNCHANGED <<pc, imgVars, sg, loop, count, ringVars, restVars, why, faults>>

(* What arrives: the first packet of a frame goes on with one that was     *)
(* left without its end.                                                   *)
Arrived ==
  [i \in DOMAIN stream |->
     IF i = 1 THEN [data |-> unended \o stream[i].data,
                    ended |-> stream[i].ended]
     ELSE stream[i]]

CutOff ==
  IF stream = <<>> THEN unended
  ELSE IF Last(stream).ended THEN <<>> ELSE Last(Arrived).data

(* xdma_xfer_completion(): the frame was sent, or timed out.  A time-out   *)
(* only clears RUN: what the engine has fetched, it may still send.        *)
Completion ==
  /\ pc = "run"
  /\ \/ /\ fetch.n = 0 /\ unended' = <<>> /\ aborted' = FALSE
        /\ UNCHANGED <<why, faults, unsent>>
     \/ /\ fetch.n > 0 /\ Fault /\ why' = "timeout" /\ aborted' = TRUE
        /\ unended' = CutOff
        /\ unsent' = unsent \o [k \in 1 .. fetch.n - taken |->
                                 ring[fetch.from + taken + k - 1].desc]
  /\ pc' = "idle" /\ ring' = Cleared /\ used' = used - count
  /\ fetch' = Nothing /\ taken' = 0 /\ Unmapped /\ stream' = <<>>
  /\ UNCHANGED <<imgVars, idx, first>>

(* The engine goes on without RUN, at addresses no longer mapped, until it *)
(* stops: nobody waits for that, so whatever the next frame is at.         *)
HwDrain ==
  /\ unsent # <<>> /\ unsent' = Tail(unsent)
  /\ LET d == Head(unsent)
     IN unended' = IF d.eop THEN <<>>
                   ELSE unended \o [k \in 1 .. d.len |-> None]
  /\ UNCHANGED <<pc, imgVars, sg, loop, count, ringVars, fetch, taken, stream,
                 aborted, why, faults>>

HwStop ==
  /\ unsent # <<>> /\ unsent' = <<>>
  /\ UNCHANGED <<pc, imgVars, sg, loop, count, ringVars, fetch, taken, stream,
                 unended, aborted, why, faults>>

Next ==
  \/ \E m \in Modes, p \in Primaries, o \in Overlays \cup {None} :
       Flush(m, p, o)
  \/ ComposeFrame \/ MapFrame \/ CountPiece \/ CountDone
  \/ BuildTransfer \/ FillPiece \/ FillDone \/ QueueTransfer
  \/ HwSend \/ Completion \/ HwDrain \/ HwStop

Spec == Init /\ [][Next]_vars
-----------------------------------------------------------------------------
(* Type invariant: the frame's step, its planes and the engine's ring.     *)
TypeOK ==
  /\ pc \in {"idle", "compose", "map", "count", "build", "fill", "queue",
             "run"}
  /\ mode \in Modes /\ primary \in Primaries \cup {None}
  /\ overlay \in Overlays \cup {None} /\ frame \in 0 .. MaxFrames
  /\ DOMAIN lines = Lines /\ \A y \in Lines : DOMAIN lines[y] = 0 .. MaxW - 1
  /\ ring \in [0 .. DescMax - 1 -> Entries \cup {None}]
  /\ idx \in 0 .. DescMax - 1 /\ first \in 0 .. DescMax - 1
  /\ used \in 0 .. DescMax /\ count \in Nat /\ aborted \in BOOLEAN
  /\ why \in {"none", "copy", "blend", "lines", "descriptors", "busy",
              "fault", "timeout"}

(* What arrives is what the commit showed: a packet for every line and no  *)
(* other, each pixel the overlay's where it lies and the primary plane's   *)
(* elsewhere, whatever was in the buffers from frames of another size,     *)
(* however the mapping merged lines and wherever in the ring it went.      *)
(* After a frame that timed out, and only right after one, the first line  *)
(* may come behind what that frame left of a packet.                       *)
Shown(x, y) ==
  IF overlay # None /\ InRect(overlay, x, y)
  THEN Pixel("overlay", overlay.x + x - overlay.dx,
                        overlay.y + y - overlay.dy)
  ELSE Pixel("primary", primary.x + x, primary.y + y)

ShownLine(y) == [x \in 1 .. mode.w |-> Shown(x - 1, y - 1)]

StreamShowsFrame ==
  pc = "run" /\ fetch.n = 0 =>
    /\ unended # <<>> => aborted
    /\ Arrived = [y \in 1 .. mode.h |->
                    [data |-> IF y = 1 THEN unended \o ShownLine(1)
                              ELSE ShownLine(y),
                     ended |-> TRUE]]

(* The engine fetches no descriptor that is not of its transfer, and no    *)
(* block of descriptors that crosses an aligned block, hence a page.       *)
FetchInside ==
  pc = "run" /\ fetch.n > 0 =>
    /\ Block \subseteq first .. first + count - 1
    /\ Block \subseteq 0 .. DescMax - 1
    /\ fetch.from \div BlockSize = (fetch.from + fetch.n - 1) \div BlockSize

(* A frame atomic_check let through is not refused later, but for a call   *)
(* that failed and one case: copy_primary_frame() wants a framebuffer of   *)
(* the very size of the mode, and atomic_check does not.                   *)
RefusedForCause ==
  /\ why \in {"none", "copy", "fault", "timeout"}
  /\ why = "copy" => primary.fb.w # mode.w \/ primary.fb.h # mode.h

(* Outside the lock desc_used counts the descriptors that are not cleared, *)
(* and at rest none are: a frame that was refused or timed out leaves the  *)
(* ring to the next.                                                       *)
RingAccounted ==
  /\ pc # "fill" =>
       used = Cardinality({i \in DOMAIN ring : ring[i] # None})
  /\ pc \notin {"queue", "run"} => used = 0
=============================================================================
