---------------------------- MODULE FramePathInv ----------------------------
(***************************************************************************)
(* The inductive invariant of FramePath: the k-th descriptor of a frame    *)
(* and what was sent before it, in closed form, and where each loop is.    *)
(***************************************************************************)
EXTENDS FramePath

(* A line takes so many descriptors; the k-th of the frame, from 0, is the *)
(* j-th of line y.                                                         *)
PerLine == (mode.w + BlenMax - 1) \div BlenMax
Total == mode.h * PerLine
LineOf(k) == k \div PerLine
PartOf(k) == k % PerLine

DescOf(k) ==
  [addr |-> LineOf(k) * mode.w + PartOf(k) * BlenMax,
   len |-> IF PartOf(k) = PerLine - 1 THEN mode.w - PartOf(k) * BlenMax
           ELSE BlenMax,
   eop |-> PartOf(k) = PerLine - 1]

(* The packets once k descriptors were sent.                               *)
Sent(k) ==
  [l \in 1 .. LineOf(k) + (IF PartOf(k) = 0 THEN 0 ELSE 1) |->
     [data |-> [x \in 1 .. IF l <= LineOf(k) THEN mode.w
                           ELSE PartOf(k) * BlenMax |-> Shown(x - 1, l - 1)],
      ended |-> l <= LineOf(k)]]

-----------------------------------------------------------------------------
(* A frame on its way is one atomic_check let through; past composition    *)
(* its primary framebuffer has the size of the mode, and the line buffers  *)
(* hold what it shows.                                                     *)
PlaneInv ==
  pc # "idle" =>
    /\ why = "none" /\ primary \in Primaries
    /\ PrimaryCheck(mode, primary)
    /\ overlay # None => OverlayCheck(mode, overlay)

LinesInv ==
  pc \notin {"idle", "compose"} =>
    \A y \in 0 .. mode.h - 1, x \in 0 .. mode.w - 1 : lines[y][x] = Shown(x, y)

(* The segments are the lines, merged in some way: end says where.         *)
SgInv ==
  pc \in {"count", "build", "fill"} =>
    /\ Len(sg) \in 1 .. mode.h
    /\ \E end \in [0 .. Len(sg) -> 0 .. mode.h] :
         /\ end[0] = 0 /\ end[Len(sg)] = mode.h
         /\ \A i \in 1 .. Len(sg) : end[i - 1] < end[i]
         /\ sg = [i \in 1 .. Len(sg) |->
                    [addr |-> end[i - 1] * mode.w,
                     len |-> (end[i] - end[i - 1]) * mode.w]]

(* A loop that has taken n pieces is at the n-th descriptor, in the        *)
(* segment that holds its address.                                         *)
LoopAt(l) ==
  /\ l.n \in 0 .. Total
  /\ l.done = LineOf(l.n)
  /\ l.left = mode.w - PartOf(l.n) * BlenMax
  /\ l.off \in Nat /\ l.seg \in 1 .. Len(sg) + 1
  /\ l.seg <= Len(sg) =>
       /\ l.n < Total
       /\ l.off < sg[l.seg].len
       /\ sg[l.seg].addr + l.off = DescOf(l.n).addr
  /\ l.seg > Len(sg) => l.n = Total

LoopInv == pc \in {"count", "fill"} => LoopAt(loop)

(* Only a transfer has descriptors, as many as were counted.               *)
Placed == {"fill", "queue", "run"}
RingInv ==
  /\ pc \in {"build"} \cup Placed => count = Total /\ count <= DescMax
  /\ pc \notin Placed => used = 0 /\ \A i \in DOMAIN ring : ring[i] = None
  /\ pc \in Placed =>
       /\ first + count <= DescMax
       /\ used = IF pc = "fill" THEN 0 ELSE count
       /\ \A i \in DOMAIN ring : ring[i] # None <=> i \in Transfer

(* A descriptor that was filled is the one its place says.                 *)
Filled == IF pc = "fill" THEN loop.n ELSE count
DescInv ==
  pc \in Placed =>
    /\ \A i \in Transfer :
         ring[i].next = IF i < first + count - 1 THEN i + 1 ELSE 0
    /\ \A i \in Transfer : i - first < Filled =>
         /\ ring[i].desc = DescOf(i - first)
         /\ ring[i].stop = (i = first + count - 1)
    /\ \A i \in Transfer : pc # "fill" =>
         ring[i].adj = NextAdj(first + count - i - 1, i + 1)

(* What the engine has sent, by how far it is in its block.                *)
SendInv ==
  /\ pc # "run" => stream = <<>> /\ fetch = Nothing /\ taken = 0
  /\ pc = "run" /\ fetch.n = 0 => stream = Sent(count) /\ unsent = <<>>
  /\ pc = "run" /\ fetch.n # 0 =>
       /\ fetch.from \in Transfer /\ taken \in 0 .. fetch.n - 1
       /\ fetch.n = 1 + NextAdj(first + count - fetch.from, fetch.from)
       /\ stream = Sent(fetch.from + taken - first)

(* Something is left of an earlier frame only after a time-out. *)
LeftInv == unsent # <<>> \/ unended # <<>> => aborted

(* The lines of every mode fit the ring, with a descriptor for every       *)
(* desc_blen_max of a line: the ring has 0x800 (XDMA_ENGINE_XFER_MAX_DESC),*)
(* the modes have at most 1080 lines, each within one descriptor of up to  *)
(* 2^28 - 1 bytes.                                                         *)
ModesFit ==
  \A m \in Modes : m.h * ((m.w + BlenMax - 1) \div BlenMax) <= DescMax

(* The inductive invariant. *)
FrameInv ==
  /\ TypeOK /\ PlaneInv /\ LinesInv /\ SgInv /\ LoopInv /\ RingInv
  /\ DescInv /\ SendInv
=============================================================================
