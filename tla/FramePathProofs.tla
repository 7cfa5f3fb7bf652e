---------------------------- MODULE FramePathProofs -------------------------
(***************************************************************************)
(* FramePath keeps FrameInv, and with it the properties its run checks,    *)
(* for every value of the constants: every mode, plane, merge of lines,    *)
(* size of the ring and of a descriptor. The k-th descriptor of a frame    *)
(* and what was sent before it are given in closed form; each loop is      *)
(* shown to be where the form says, and each descriptor the engine sends   *)
(* to take the stream from one form to the next.                           *)
(***************************************************************************)
EXTENDS FramePathInv, TLAPS, FiniteSetTheorems, SequenceTheorems

-----------------------------------------------------------------------------
(* Arithmetic.                                                             *)

(* Multiplication keeps order.                                             *)
LEMMA Times ==
  ASSUME NEW a \in Int, NEW b \in Int, NEW d \in Nat, a <= b
  PROVE  a * d <= b * d /\ a * d \in Int /\ b * d \in Int
<1>1. b - a \in Nat
  OBVIOUS
<1>2. (b - a) * d >= 0
  BY <1>1
<1>3. (b - a) * d = b * d - a * d
  OBVIOUS
<1> QED BY <1>2, <1>3

(* One more is one factor more.                                            *)
LEMMA TimesNext ==
  ASSUME NEW a \in Int, NEW d \in Int
  PROVE  (a + 1) * d = a * d + d
OBVIOUS

(* The difference of two multiples is a multiple.                          *)
LEMMA TimesGap ==
  ASSUME NEW a \in Nat, NEW b \in Nat, NEW d \in Nat, a < b, d >= 1
  PROVE  /\ a * d \in Nat /\ b * d \in Nat /\ (b - a) * d \in Nat
         /\ (b - a) * d = b * d - a * d /\ (b - a) * d >= 1
<1>1. b - a \in Nat /\ 1 <= b - a
  OBVIOUS
<1>2. 1 * d <= (b - a) * d /\ 1 * d = d /\ (b - a) * d \in Int
  BY <1>1, Times
<1>3. (b - a) * d = b * d - a * d
  OBVIOUS
<1>4. a * d \in Nat /\ b * d \in Nat
  OBVIOUS
<1> QED BY <1>2, <1>3, <1>4

(* Quotient and remainder are numbers that make up what was divided.       *)
LEMMA DivSplit ==
  ASSUME NEW k \in Nat, NEW d \in Nat, d > 0
  PROVE  /\ k \div d \in Nat /\ k % d \in 0 .. d - 1
         /\ k = (k \div d) * d + (k % d)
<1>1. k % d \in 0 .. d - 1
  OBVIOUS
<1>2. k \div d \in Int /\ k = (k \div d) * d + (k % d)
  OBVIOUS
<1>3. k \div d >= 0
  OBVIOUS
<1> QED BY <1>1, <1>2, <1>3

(* There is one quotient and one remainder.                                *)
LEMMA DivUnique ==
  ASSUME NEW y \in Nat, NEW d \in Nat, NEW j \in 0 .. d - 1
  PROVE  (y * d + j) \div d = y /\ (y * d + j) % d = j
<1> DEFINE k == y * d + j
           q == k \div d
           r == k % d
<1>1. k \in Nat /\ d > 0 /\ y * d \in Nat
  OBVIOUS
<1>2. q \in Nat /\ r \in 0 .. d - 1 /\ k = q * d + r
  BY <1>1, DivSplit
<1>3. k = y * d + j
  OBVIOUS
<1> HIDE DEF k, q, r
<1>4. ASSUME q < y PROVE FALSE
  <2>1. (q + 1) * d <= y * d
    BY <1>1, <1>2, <1>4, Times
  <2>2. (q + 1) * d = q * d + d
    BY <1>2
  <2> QED BY <1>1, <1>2, <1>3, <2>1, <2>2
<1>5. ASSUME y < q PROVE FALSE
  <2>1. (y + 1) * d <= q * d
    BY <1>1, <1>2, <1>5, Times
  <2>2. (y + 1) * d = y * d + d
    BY <1>2
  <2> QED BY <1>1, <1>2, <1>3, <2>1, <2>2
<1>6. q = y
  BY <1>2, <1>4, <1>5
<1>7. r = j
  BY <1>1, <1>2, <1>3, <1>6
<1> QED BY <1>6, <1>7 DEF q, r, k

-----------------------------------------------------------------------------
(* Where the descriptors of a frame are.                                   *)

(* The sizes of the mode and of the engine are positive.                   *)
LEMMA Sizes ==
  ASSUME mode \in Modes
  PROVE  /\ mode.w \in Nat /\ mode.w >= 1 /\ mode.w <= MaxW
         /\ mode.h \in Nat /\ mode.h >= 1 /\ mode.h <= MaxH
         /\ BlenMax \in Nat /\ BlenMax >= 1 /\ DescMax \in Nat /\ DescMax >= 1
         /\ BlockSize \in Nat /\ BlockSize >= 1 /\ MaxW \in Nat /\ MaxH \in Nat
BY SizesAssumption

(* A line takes at least one descriptor, and its last one is not empty.    *)
LEMMA LineSize ==
  ASSUME mode \in Modes
  PROVE  /\ PerLine \in Nat /\ PerLine >= 1
         /\ (PerLine - 1) * BlenMax < mode.w /\ mode.w <= PerLine * BlenMax
<1> DEFINE a == mode.w + BlenMax - 1
<1>1. a \in Nat /\ mode.w \in Nat /\ mode.w >= 1 /\ BlenMax \in Nat
      /\ BlenMax >= 1 /\ a = mode.w + BlenMax - 1
  BY Sizes
<1>2. PerLine = a \div BlenMax
  BY DEF PerLine
<1> HIDE DEF a
<1>3. /\ PerLine \in Nat /\ a % BlenMax \in 0 .. BlenMax - 1
      /\ a = PerLine * BlenMax + (a % BlenMax)
  <2>0. a \in Nat /\ BlenMax \in Nat /\ BlenMax > 0
    BY <1>1
  <2>1. /\ a \div BlenMax \in Nat /\ a % BlenMax \in 0 .. BlenMax - 1
        /\ a = (a \div BlenMax) * BlenMax + (a % BlenMax)
    BY <2>0, DivSplit, Zenon
  <2> QED BY <1>2, <2>1
<1>4. PerLine >= 1
  <2>1. PerLine * BlenMax >= mode.w
    BY <1>1, <1>3
  <2> QED BY <1>1, <1>3, <2>1
<1>5. (PerLine - 1) * BlenMax = PerLine * BlenMax - BlenMax
  BY <1>1, <1>3
<1> QED BY <1>1, <1>3, <1>4, <1>5

(* The k-th descriptor is on a line of the frame, within it; past the last *)
(* there is nothing of a line.                                             *)
LEMMA Place ==
  ASSUME mode \in Modes, NEW k \in 0 .. Total
  PROVE  /\ Total \in Nat /\ Total >= 1
         /\ LineOf(k) \in 0 .. mode.h /\ PartOf(k) \in 0 .. PerLine - 1
         /\ k = LineOf(k) * PerLine + PartOf(k)
         /\ PartOf(k) * BlenMax \in 0 .. mode.w - 1
         /\ k < Total <=> LineOf(k) < mode.h
         /\ k = Total => PartOf(k) = 0
<1>1. /\ PerLine \in Nat /\ PerLine >= 1 /\ mode.h \in Nat /\ mode.h >= 1
      /\ BlenMax \in Nat /\ mode.w \in Nat
  BY Sizes, LineSize
<1>2. Total \in Nat /\ Total = mode.h * PerLine /\ Total >= 1
  <2>1. 1 * PerLine <= mode.h * PerLine
    BY <1>1, Times
  <2> QED BY <1>1, <2>1 DEF Total
<1>3. k \in Nat /\ k <= Total
  BY <1>2
<1> DEFINE y == LineOf(k)
           j == PartOf(k)
<1>4. y \in Nat /\ j \in 0 .. PerLine - 1 /\ k = y * PerLine + j
  BY <1>1, <1>3, DivSplit DEF LineOf, PartOf
<1> HIDE DEF y, j
<1>5. ASSUME y > mode.h PROVE FALSE
  <2>1. (mode.h + 1) * PerLine <= y * PerLine
    BY <1>1, <1>4, <1>5, Times
  <2>2. (mode.h + 1) * PerLine = mode.h * PerLine + PerLine
    BY <1>1
  <2> QED BY <1>1, <1>2, <1>3, <1>4, <2>1, <2>2
<1>6. ASSUME y < mode.h PROVE k < Total
  <2>1. (y + 1) * PerLine <= mode.h * PerLine
    BY <1>1, <1>4, <1>6, Times
  <2>2. (y + 1) * PerLine = y * PerLine + PerLine
    BY <1>1, <1>4
  <2> QED BY <1>1, <1>2, <1>3, <1>4, <2>1, <2>2
<1>7. y = mode.h => k = Total /\ j = 0
  BY <1>1, <1>2, <1>3, <1>4
<1>8. j * BlenMax \in 0 .. mode.w - 1
  <2>1. j * BlenMax <= (PerLine - 1) * BlenMax /\ j * BlenMax \in Int
    BY <1>1, <1>4, Times
  <2>2. j * BlenMax >= 0 /\ (PerLine - 1) * BlenMax \in Int
    BY <1>1, <1>4
  <2> QED BY <1>1, <2>1, <2>2, LineSize
<1>9. y \in 0 .. mode.h /\ (k < Total <=> y < mode.h) /\ (k = Total => j = 0)
  BY <1>1, <1>2, <1>3, <1>4, <1>5, <1>6, <1>7
<1> QED BY <1>2, <1>4, <1>8, <1>9 DEF y, j

(* The next descriptor is on the same line, or starts the next one.        *)
LEMMA NextPlace ==
  ASSUME mode \in Modes, NEW k \in 0 .. Total - 1
  PROVE  /\ k \in 0 .. Total /\ k + 1 \in 0 .. Total
         /\ PartOf(k) = PerLine - 1 =>
              LineOf(k + 1) = LineOf(k) + 1 /\ PartOf(k + 1) = 0
         /\ PartOf(k) # PerLine - 1 =>
              LineOf(k + 1) = LineOf(k) /\ PartOf(k + 1) = PartOf(k) + 1
<1>1. Total \in Nat
  <2>1. PerLine \in Nat /\ mode.h \in Nat
    BY Sizes, LineSize
  <2> QED BY <2>1 DEF Total
<1>2. k \in 0 .. Total /\ k + 1 \in 0 .. Total
  BY <1>1
<1> DEFINE y == LineOf(k)
           j == PartOf(k)
<1>3. y \in Nat /\ j \in 0 .. PerLine - 1 /\ k = y * PerLine + j
      /\ PerLine \in Nat /\ mode.h \in Nat
  BY <1>2, Place, Sizes, LineSize
<1> HIDE DEF y, j
<1>4. CASE j = PerLine - 1
  <2>1. k + 1 = (y + 1) * PerLine + 0 /\ y + 1 \in Nat
    <3>1. (y + 1) * PerLine = y * PerLine + PerLine
      BY <1>3
    <3> QED BY <1>3, <1>4, <3>1
  <2>2. /\ ((y + 1) * PerLine + 0) \div PerLine = y + 1
        /\ ((y + 1) * PerLine + 0) % PerLine = 0
    BY <1>3, <2>1, DivUnique
  <2>3. LineOf(k + 1) = y + 1 /\ PartOf(k + 1) = 0
    BY <2>1, <2>2 DEF LineOf, PartOf
  <2> QED BY <1>2, <1>4, <2>3 DEF y, j
<1>5. CASE j # PerLine - 1
  <2>1. k + 1 = y * PerLine + (j + 1) /\ j + 1 \in 0 .. PerLine - 1
    <3>1. y * PerLine \in Int
      BY <1>3
    <3> QED BY <1>3, <1>5, <3>1
  <2>2. /\ (y * PerLine + (j + 1)) \div PerLine = y
        /\ (y * PerLine + (j + 1)) % PerLine = j + 1
    <3>1. y \in Nat /\ PerLine \in Nat /\ j + 1 \in 0 .. PerLine - 1
      BY <1>3, <2>1
    <3> QED BY <3>1, DivUnique
  <2>3. LineOf(k + 1) = y /\ PartOf(k + 1) = j + 1
    BY <2>1, <2>2 DEF LineOf, PartOf
  <2> QED BY <1>2, <1>5, <2>3 DEF y, j
<1> QED BY <1>4, <1>5

(* A descriptor has data, within its line, and the next one follows it.    *)
LEMMA NextDesc ==
  ASSUME mode \in Modes, NEW k \in 0 .. Total - 1
  PROVE  /\ DescOf(k).addr \in Nat /\ DescOf(k).len \in Nat
         /\ DescOf(k).len >= 1 /\ DescOf(k).len <= BlenMax
         /\ PartOf(k) * BlenMax + DescOf(k).len <= mode.w
         /\ DescOf(k).eop <=> PartOf(k) * BlenMax + DescOf(k).len = mode.w
         /\ DescOf(k + 1).addr = DescOf(k).addr + DescOf(k).len
<1> DEFINE y == LineOf(k)
           j == PartOf(k)
<1>1. /\ k \in 0 .. Total /\ k + 1 \in 0 .. Total
      /\ mode.w \in Nat /\ mode.w >= 1 /\ BlenMax \in Nat /\ BlenMax >= 1
      /\ y \in Nat /\ j \in 0 .. PerLine - 1 /\ PerLine \in Nat
      /\ j * BlenMax \in 0 .. mode.w - 1 /\ y * mode.w \in Nat
  BY NextPlace, Place, Sizes, LineSize
<1>2. /\ DescOf(k).addr = y * mode.w + j * BlenMax
      /\ DescOf(k).len = IF j = PerLine - 1 THEN mode.w - j * BlenMax
                         ELSE BlenMax
      /\ DescOf(k).eop <=> j = PerLine - 1
      /\ DescOf(k + 1).addr = LineOf(k + 1) * mode.w + PartOf(k + 1) * BlenMax
  BY DEF DescOf
<1>3. CASE j = PerLine - 1
  <2>1. LineOf(k + 1) = y + 1 /\ PartOf(k + 1) = 0
    BY <1>3, NextPlace
  <2>2. (y + 1) * mode.w = y * mode.w + mode.w /\ 0 * BlenMax = 0
    BY <1>1
  <2>3. mode.w <= PerLine * BlenMax
        /\ PerLine * BlenMax = j * BlenMax + BlenMax
    BY <1>1, <1>3, LineSize
  <2> HIDE DEF y, j
  <2>4. /\ DescOf(k).len = mode.w - j * BlenMax
        /\ DescOf(k + 1).addr = y * mode.w + mode.w
    BY <1>2, <1>3, <2>1, <2>2, <1>1
  <2>5. /\ DescOf(k).addr \in Nat /\ DescOf(k).len \in Nat
        /\ DescOf(k).len >= 1 /\ DescOf(k).len <= BlenMax
        /\ j * BlenMax + DescOf(k).len = mode.w
        /\ DescOf(k + 1).addr = DescOf(k).addr + DescOf(k).len
    BY <1>1, <1>2, <2>3, <2>4
  <2> QED BY <1>1, <1>2, <1>3, <2>5 DEF y, j
<1>4. CASE j # PerLine - 1
  <2>1. LineOf(k + 1) = y /\ PartOf(k + 1) = j + 1
    BY <1>4, NextPlace
  <2>2. (j + 1) * BlenMax = j * BlenMax + BlenMax
    BY <1>1
  <2>3. j * BlenMax + BlenMax < mode.w
    <3>1. (j + 1) * BlenMax <= (PerLine - 1) * BlenMax
      BY <1>1, <1>4, Times
    <3>2. (PerLine - 1) * BlenMax < mode.w /\ (PerLine - 1) * BlenMax \in Int
      BY <1>1, LineSize
    <3> QED BY <1>1, <2>2, <3>1, <3>2
  <2> HIDE DEF y, j
  <2>4. /\ DescOf(k).len = BlenMax
        /\ DescOf(k + 1).addr = y * mode.w + (j * BlenMax + BlenMax)
    BY <1>2, <1>4, <2>1, <2>2
  <2>5. /\ DescOf(k).addr \in Nat /\ DescOf(k).len \in Nat
        /\ DescOf(k).len >= 1 /\ DescOf(k).len <= BlenMax
        /\ j * BlenMax + DescOf(k).len < mode.w
        /\ DescOf(k + 1).addr = DescOf(k).addr + DescOf(k).len
    BY <1>1, <1>2, <2>3, <2>4
  <2> QED BY <1>1, <1>2, <1>4, <2>5 DEF y, j
<1> QED BY <1>3, <1>4

-----------------------------------------------------------------------------
(* Composition.                                                            *)

(* The fields of the planes and framebuffers are numbers.                  *)
LEMMA PlaneType ==
  /\ \A p \in Primaries :
       /\ p.fb \in Fbs /\ p.x \in Nat /\ p.y \in Nat
       /\ p.w \in Nat /\ p.h \in Nat
  /\ \A o \in Overlays :
       /\ o.fb \in Fbs /\ o.x \in Nat /\ o.y \in Nat
       /\ o.w \in Nat /\ o.h \in Nat /\ o.dx \in Nat /\ o.dy \in Nat
  /\ \A f \in Fbs : f.w \in Nat /\ f.h \in Nat /\ f.pitch \in Nat
BY SizesAssumption DEF Primaries, Overlays

(* What is at (x, y) of a framebuffer is at that place of its memory.      *)
LEMMA MemPixel ==
  ASSUME NEW plane, NEW fb \in Fbs, NEW x \in Nat, NEW y \in Nat,
         x < fb.w, fb.w <= fb.pitch
  PROVE  Mem(plane, fb, y * fb.pitch + x) = Pixel(plane, x, y)
<1>1. fb.w \in Nat /\ fb.pitch \in Nat
  BY PlaneType
<1>2. x \in 0 .. fb.pitch - 1
  BY <1>1
<1>3. /\ (y * fb.pitch + x) \div fb.pitch = y
      /\ (y * fb.pitch + x) % fb.pitch = x
  BY <1>1, <1>2, DivUnique
<1> QED BY <1>3 DEF Mem

(* The copy brings the primary plane's pixels, where the sizes agree: a    *)
(* framebuffer of the size of the mode leaves no room for an offset.       *)
LEMMA Copied ==
  ASSUME TypeOK, PlaneInv, pc = "compose", CopyChecks,
         NEW y \in 0 .. mode.h - 1, NEW x \in 0 .. mode.w - 1
  PROVE  CopyPrimary[y][x] = Pixel("primary", primary.x + x, primary.y + y)
<1>1. /\ mode \in Modes /\ primary \in Primaries
      /\ primary.fb \in Fbs /\ primary.x \in Nat /\ primary.y \in Nat
      /\ primary.w = mode.w /\ primary.h = mode.h
      /\ primary.x + primary.w <= primary.fb.w
      /\ primary.y + primary.h <= primary.fb.h
      /\ primary.fb.w = mode.w /\ primary.fb.h = mode.h
      /\ primary.fb.w <= primary.fb.pitch
  BY PlaneType DEF TypeOK, PlaneInv, PrimaryCheck, SourceInside, CopyChecks
<1>2. mode.w \in Nat /\ mode.h \in Nat /\ mode.w <= MaxW /\ mode.h <= MaxH
      /\ MaxW \in Nat /\ MaxH \in Nat
  BY <1>1, Sizes
<1>3. x \in Nat /\ y \in Nat /\ x < mode.w /\ y < mode.h
  BY <1>2
<1>4. primary.x = 0 /\ primary.y = 0
  BY <1>1, <1>2
<1>5. Mem("primary", primary.fb, y * primary.fb.pitch + x)
        = Pixel("primary", x, y)
  BY <1>1, <1>3, MemPixel
<1>6. CopyPrimary[y][x] = Mem("primary", primary.fb, y * primary.fb.pitch + x)
  BY <1>2, <1>3 DEF CopyPrimary, Lines
<1>7. primary.x + x = x /\ primary.y + y = y
  BY <1>3, <1>4
<1> QED BY <1>5, <1>6, <1>7

(* Composition brings what the commit shows, and has no cause to refuse an *)
(* overlay that atomic_check let through.                                  *)
LEMMA Composed ==
  ASSUME TypeOK, PlaneInv, pc = "compose", CopyChecks
  PROVE  /\ overlay # None => BlendChecks
         /\ \A y \in 0 .. mode.h - 1, x \in 0 .. mode.w - 1 :
              /\ overlay = None => CopyPrimary[y][x] = Shown(x, y)
              /\ overlay # None =>
                   BlendOverlay(CopyPrimary)[y][x] = Shown(x, y)
<1>1. mode \in Modes
  BY DEF TypeOK
<1>2. mode.w \in Nat /\ mode.h \in Nat /\ mode.w <= MaxW /\ mode.h <= MaxH
      /\ MaxW \in Nat /\ MaxH \in Nat
  BY <1>1, Sizes
<1>3. ASSUME overlay # None
      PROVE  /\ overlay.fb \in Fbs /\ overlay.x \in Nat /\ overlay.y \in Nat
             /\ overlay.w \in Nat /\ overlay.h \in Nat
             /\ overlay.dx \in Nat /\ overlay.dy \in Nat
             /\ overlay.fb.w \in Nat /\ overlay.fb.pitch \in Nat
             /\ overlay.x + overlay.w <= overlay.fb.w
             /\ overlay.y + overlay.h <= overlay.fb.h
             /\ overlay.fb.w <= overlay.fb.pitch
             /\ overlay.dx + overlay.w <= mode.w
             /\ overlay.dy + overlay.h <= mode.h
  BY <1>3, PlaneType DEF TypeOK, PlaneInv, OverlayCheck, SourceInside, CheckFb
<1>4. overlay # None => BlendChecks
  BY <1>3, PlaneType DEF BlendChecks
<1>5. ASSUME NEW y \in 0 .. mode.h - 1, NEW x \in 0 .. mode.w - 1
      PROVE  /\ overlay = None => CopyPrimary[y][x] = Shown(x, y)
             /\ overlay # None => BlendOverlay(CopyPrimary)[y][x] = Shown(x, y)
  <2>1. CopyPrimary[y][x] = Pixel("primary", primary.x + x, primary.y + y)
    BY Copied
  <2>2. x \in 0 .. MaxW - 1 /\ y \in 0 .. MaxH - 1 /\ x \in Nat /\ y \in Nat
    BY <1>2
  <2>3. CASE overlay = None
    BY <2>1, <2>3 DEF Shown
  <2>4. CASE overlay # None /\ ~InRect(overlay, x, y)
    <3>1. BlendOverlay(CopyPrimary)[y][x] = CopyPrimary[y][x]
      BY <2>2, <2>4 DEF BlendOverlay, Lines
    <3> QED BY <2>1, <2>4, <3>1 DEF Shown
  <2>5. CASE overlay # None /\ InRect(overlay, x, y)
    <3> DEFINE u == overlay.x + x - overlay.dx
               v == overlay.y + y - overlay.dy
    <3>1. u \in Nat /\ v \in Nat /\ u < overlay.fb.w
      BY <1>3, <2>2, <2>5 DEF InRect
    <3>2. Mem("overlay", overlay.fb, v * overlay.fb.pitch + u)
            = Pixel("overlay", u, v)
      <4>1. overlay.fb \in Fbs /\ overlay.fb.w <= overlay.fb.pitch
        BY <1>3, <2>5
      <4> HIDE DEF u, v
      <4> QED BY <3>1, <4>1, MemPixel
    <3>3. BlendOverlay(CopyPrimary)[y][x]
            = Mem("overlay", overlay.fb,
                  v * overlay.fb.pitch + overlay.x + x - overlay.dx)
      BY <2>2, <2>5 DEF BlendOverlay, Lines
    <3>4. v * overlay.fb.pitch + overlay.x + x - overlay.dx
            = v * overlay.fb.pitch + u
      <4>1. v * overlay.fb.pitch \in Int
        BY <1>3, <2>5, <3>1
      <4> HIDE DEF v
      <4> QED BY <1>3, <2>2, <2>5, <4>1
    <3>5. Shown(x, y) = Pixel("overlay", u, v)
      BY <2>5 DEF Shown
    <3> QED BY <2>5, <3>2, <3>3, <3>4, <3>5
  <2> QED BY <2>3, <2>4, <2>5
<1> QED BY <1>4, <1>5

-----------------------------------------------------------------------------
(* The stream, in closed form.                                             *)

(* The pixels a frame may show.                                            *)
Colours == {Shown(x, y) : x \in Int, y \in Int}

(* Packets of them.                                                        *)
Packets == [data : Seq(Colours), ended : BOOLEAN]

(* The first m pixels of line y.                                           *)
Row(m, y) == [x \in 1 .. m |-> Shown(x - 1, y)]

(* The n pixels of line y after the first m.                               *)
RowPart(m, n, y) == [i \in 1 .. n |-> Shown(m + i - 1, y)]

(* The packets of the first y lines.                                       *)
Rows(y) == [l \in 1 .. y |-> [data |-> Row(mode.w, l - 1), ended |-> TRUE]]

(* The packets of the first y lines and m pixels of the next.              *)
RowsAnd(y, m, e) ==
  [l \in 1 .. y + 1 |->
     IF l <= y THEN [data |-> Row(mode.w, l - 1), ended |-> TRUE]
     ELSE [data |-> Row(m, y), ended |-> e]]

(* A function on an initial segment is a sequence.                         *)
LEMMA FunSeq ==
  ASSUME NEW n \in Nat, NEW S, NEW f \in [1 .. n -> S]
  PROVE  f \in Seq(S) /\ Len(f) = n
OBVIOUS

(* The pixels of a line are a sequence.                                    *)
LEMMA RowSeq ==
  ASSUME NEW m \in Nat, NEW y \in Int
  PROVE  Row(m, y) \in Seq(Colours) /\ Len(Row(m, y)) = m
<1>1. Row(m, y) \in [1 .. m -> Colours]
  BY DEF Row, Colours
<1> QED BY <1>1, FunSeq

(* The packets are sequences, one for each line.                           *)
LEMMA RowsSeq ==
  ASSUME mode \in Modes, NEW y \in Nat, NEW m \in Nat, NEW e \in BOOLEAN
  PROVE  /\ Rows(y) \in Seq(Packets) /\ Len(Rows(y)) = y
         /\ RowsAnd(y, m, e) \in Seq(Packets) /\ Len(RowsAnd(y, m, e)) = y + 1
<1>1. \A l \in 1 .. y + 1 :
        [data |-> Row(mode.w, l - 1), ended |-> TRUE] \in Packets
  <2> SUFFICES ASSUME NEW l \in 1 .. y + 1
               PROVE  Row(mode.w, l - 1) \in Seq(Colours)
    BY DEF Packets
  <2>1. l - 1 \in Int /\ mode.w \in Nat
    BY Sizes
  <2> QED BY <2>1, RowSeq
<1>2. [data |-> Row(m, y), ended |-> e] \in Packets
  BY RowSeq DEF Packets
<1>3. Rows(y) \in [1 .. y -> Packets]
  BY <1>1 DEF Rows
<1>4. RowsAnd(y, m, e) \in [1 .. y + 1 -> Packets]
  BY <1>1, <1>2 DEF RowsAnd
<1> QED BY <1>3, <1>4, FunSeq

(* Two parts of a line, one after the other.                               *)
LEMMA RowConcat ==
  ASSUME NEW y \in Int, NEW m \in Nat, NEW n \in Nat
  PROVE  Row(m, y) \o RowPart(m, n, y) = Row(m + n, y)
<1> DEFINE r == RowPart(m, n, y)
           q == Row(m, y)
<1>1. q \in Seq(Colours) /\ Len(q) = m
  BY RowSeq
<1>2. r \in Seq(Colours) /\ Len(r) = n
  <2>1. \A i \in 1 .. n : m + i - 1 \in Int
    OBVIOUS
  <2>2. \A i \in 1 .. n : Shown(m + i - 1, y) \in Colours
    BY <2>1 DEF Colours
  <2>3. r \in [1 .. n -> Colours]
    BY <2>2 DEF RowPart
  <2> QED BY <2>3, FunSeq
<1>3. Row(m + n, y) \in Seq(Colours) /\ Len(Row(m + n, y)) = m + n
  BY RowSeq
<1>4. ASSUME NEW i \in 1 .. m + n
      PROVE  Row(m + n, y)[i] = IF i <= m THEN q[i] ELSE r[i - m]
  <2>1. CASE i <= m
    BY <2>1 DEF Row
  <2>2. CASE ~(i <= m)
    <3>1. i - m \in 1 .. n /\ m + (i - m) - 1 = i - 1
      BY <2>2
    <3> QED BY <2>2, <3>1 DEF Row, RowPart
  <2> QED BY <2>1, <2>2
<1> HIDE DEF r, q
<1>5. /\ q \o r \in Seq(Colours) /\ Len(q \o r) = m + n
      /\ \A i \in 1 .. m + n :
           (q \o r)[i] = IF i <= m THEN q[i] ELSE r[i - m]
  BY <1>1, <1>2, ConcatProperties
<1>6. q \o r = Row(m + n, y)
  BY <1>3, <1>4, <1>5, SeqEqual
<1> QED BY <1>6 DEF q, r

(* What was sent before and after the k-th descriptor.                     *)
LEMMA SentForms ==
  ASSUME mode \in Modes, NEW k \in 0 .. Total - 1
  PROVE  LET y == LineOf(k)
             m == PartOf(k) * BlenMax
         IN /\ PartOf(k) = 0 => m = 0 /\ Sent(k) = Rows(y)
            /\ PartOf(k) # 0 => Sent(k) = RowsAnd(y, m, FALSE)
            /\ Sent(k + 1) = RowsAnd(y, m + DescOf(k).len, DescOf(k).eop)
<1> DEFINE y == LineOf(k)
           j == PartOf(k)
           d == DescOf(k)
<1>1. /\ k \in 0 .. Total /\ k + 1 \in 0 .. Total
      /\ mode.w \in Nat /\ mode.w >= 1 /\ BlenMax \in Nat /\ BlenMax >= 1
      /\ y \in Nat /\ j \in 0 .. PerLine - 1 /\ PerLine \in Nat
      /\ j * BlenMax \in 0 .. mode.w - 1
  BY NextPlace, Place, Sizes, LineSize
<1>2. /\ d.len = IF j = PerLine - 1 THEN mode.w - j * BlenMax ELSE BlenMax
      /\ d.eop <=> j = PerLine - 1
      /\ d.eop \in BOOLEAN
  BY DEF DescOf
<1>3. j = 0 => j * BlenMax = 0 /\ Sent(k) = Rows(y)
  <2> SUFFICES ASSUME j = 0 PROVE j * BlenMax = 0 /\ Sent(k) = Rows(y)
    OBVIOUS
  <2>1. Sent(k) = [l \in 1 .. y + 0 |->
                     [data |->
                        [x \in 1 .. IF l <= y THEN mode.w ELSE j * BlenMax |->
                           Shown(x - 1, l - 1)],
                      ended |-> l <= y]]
    BY DEF Sent
  <2>2. y + 0 = y
    BY <1>1
  <2> HIDE DEF y, j
  <2>3. ASSUME NEW l \in 1 .. y
        PROVE  [data |->
                  [x \in 1 .. IF l <= y THEN mode.w ELSE j * BlenMax |->
                     Shown(x - 1, l - 1)],
                ended |-> l <= y]
                 = [data |-> Row(mode.w, l - 1), ended |-> TRUE]
    <3>1. l <= y
      BY <1>1
    <3> QED BY <3>1 DEF Row
  <2>4. j * BlenMax = 0
    BY <1>1
  <2>5. Rows(y) = [l \in 1 .. y |->
                     [data |->
                        [x \in 1 .. IF l <= y THEN mode.w ELSE j * BlenMax |->
                           Shown(x - 1, l - 1)],
                      ended |-> l <= y]]
    BY <2>3 DEF Rows
  <2> QED BY <2>1, <2>2, <2>4, <2>5
<1>4. j # 0 => Sent(k) = RowsAnd(y, j * BlenMax, FALSE)
  <2> SUFFICES ASSUME j # 0 PROVE Sent(k) = RowsAnd(y, j * BlenMax, FALSE)
    OBVIOUS
  <2>1. Sent(k) = [l \in 1 .. y + 1 |->
                     [data |->
                        [x \in 1 .. IF l <= y THEN mode.w ELSE j * BlenMax |->
                           Shown(x - 1, l - 1)],
                      ended |-> l <= y]]
    BY DEF Sent
  <2> HIDE DEF y, j
  <2>3. ASSUME NEW l \in 1 .. y + 1
        PROVE  [data |->
                  [x \in 1 .. IF l <= y THEN mode.w ELSE j * BlenMax |->
                     Shown(x - 1, l - 1)],
                ended |-> l <= y]
                 = IF l <= y THEN [data |-> Row(mode.w, l - 1), ended |-> TRUE]
                   ELSE [data |-> Row(j * BlenMax, y), ended |-> FALSE]
    <3>1. CASE l <= y
      BY <3>1 DEF Row
    <3>2. CASE ~(l <= y)
      <4>1. l - 1 = y /\ (l <= y) = FALSE
        BY <1>1, <3>2
      <4>2. [x \in 1 .. IF l <= y THEN mode.w ELSE j * BlenMax |->
               Shown(x - 1, l - 1)] = Row(j * BlenMax, l - 1)
        BY <3>2 DEF Row
      <4> QED BY <3>2, <4>1, <4>2
    <3> QED BY <3>1, <3>2
  <2> QED BY <2>1, <2>3 DEF RowsAnd
<1>5. Sent(k + 1) = RowsAnd(y, j * BlenMax + d.len, d.eop)
  <2>1. CASE j = PerLine - 1
    <3>1. LineOf(k + 1) = y + 1 /\ PartOf(k + 1) = 0 /\ 0 * BlenMax = 0
      BY <1>1, <2>1, NextPlace
    <3>2. Sent(k + 1) = [l \in 1 .. (y + 1) + 0 |->
                     [data |->
                        [x \in 1 .. IF l <= y + 1 THEN mode.w ELSE 0 |->
                           Shown(x - 1, l - 1)],
                      ended |-> l <= y + 1]]
      BY <3>1 DEF Sent
    <3> HIDE DEF y, j, d
    <3>3. (y + 1) + 0 = y + 1 /\ j * BlenMax + d.len = mode.w /\ d.eop = TRUE
      BY <1>1, <1>2, <2>1
    <3>4. ASSUME NEW l \in 1 .. y + 1
          PROVE  [data |->
                    [x \in 1 .. IF l <= y + 1 THEN mode.w ELSE 0 |->
                       Shown(x - 1, l - 1)],
                  ended |-> l <= y + 1]
                   = IF l <= y
                     THEN [data |-> Row(mode.w, l - 1), ended |-> TRUE]
                     ELSE [data |-> Row(mode.w, y), ended |-> TRUE]
      <4>1. l <= y + 1
        BY <1>1
      <4>2. ~(l <= y) => l - 1 = y
        BY <1>1
      <4> QED BY <4>1, <4>2 DEF Row
    <3> QED BY <3>2, <3>3, <3>4, ZenonT(30) DEF RowsAnd
  <2>2. CASE j # PerLine - 1
    <3>1. LineOf(k + 1) = y /\ PartOf(k + 1) = j + 1 /\ j + 1 # 0
      BY <1>1, <2>2, NextPlace
    <3>2. Sent(k + 1) = [l \in 1 .. y + 1 |->
                     [data |->
                        [x \in 1 .. IF l <= y THEN mode.w
                                ELSE (j + 1) * BlenMax |->
                           Shown(x - 1, l - 1)],
                      ended |-> l <= y]]
      BY <3>1 DEF Sent
    <3> HIDE DEF y, j, d
    <3>3. (j + 1) * BlenMax = j * BlenMax + d.len /\ d.eop = FALSE
      BY <1>1, <1>2, <2>2
    <3>4. ASSUME NEW l \in 1 .. y + 1
          PROVE  [data |->
                    [x \in 1 .. IF l <= y THEN mode.w
                            ELSE (j + 1) * BlenMax |->
                       Shown(x - 1, l - 1)],
                  ended |-> l <= y]
                   = IF l <= y
                     THEN [data |-> Row(mode.w, l - 1), ended |-> TRUE]
                     ELSE [data |-> Row((j + 1) * BlenMax, y), ended |-> FALSE]
      <4>1. CASE l <= y
        BY <4>1 DEF Row
      <4>2. CASE ~(l <= y)
        <5>1. l - 1 = y /\ (l <= y) = FALSE
          BY <1>1, <4>2
        <5>2. [x \in 1 .. IF l <= y THEN mode.w ELSE (j + 1) * BlenMax |->
                 Shown(x - 1, l - 1)] = Row((j + 1) * BlenMax, l - 1)
          BY <4>2 DEF Row
        <5> QED BY <4>2, <5>1, <5>2
      <4> QED BY <4>1, <4>2
    <3> QED BY <3>2, <3>3, <3>4, ZenonT(30) DEF RowsAnd
  <2> QED BY <2>1, <2>2
<1> QED BY <1>3, <1>4, <1>5

-----------------------------------------------------------------------------
(* Sending a descriptor.                                                   *)

(* The device reads what the frame shows.                                  *)
LEMMA ReadLine ==
  ASSUME mode \in Modes, NEW y \in 0 .. mode.h - 1, NEW x \in 0 .. mode.w - 1,
         \A v \in 0 .. mode.h - 1, u \in 0 .. mode.w - 1 :
           lines[v][u] = Shown(u, v)
  PROVE  BusRead(y * mode.w + x) = Shown(x, y)
<1>1. y \in Nat /\ mode.w \in Nat
  BY Sizes
<1>2. /\ (y * mode.w + x) \div mode.w = y
      /\ (y * mode.w + x) % mode.w = x
  BY <1>1, DivUnique
<1> QED BY <1>2 DEF BusRead

(* What the k-th descriptor addresses.                                     *)
LEMMA DescData ==
  ASSUME mode \in Modes, NEW k \in 0 .. Total - 1,
         \A v \in 0 .. mode.h - 1, u \in 0 .. mode.w - 1 :
           lines[v][u] = Shown(u, v)
  PROVE  [i \in 1 .. DescOf(k).len |-> BusRead(DescOf(k).addr + i - 1)]
           = RowPart(PartOf(k) * BlenMax, DescOf(k).len, LineOf(k))
<1> DEFINE y == LineOf(k)
           m == PartOf(k) * BlenMax
           n == DescOf(k).len
<1>1. /\ mode.w \in Nat /\ mode.h \in Nat /\ m \in Nat /\ n \in Nat
      /\ m + n <= mode.w /\ DescOf(k).addr = y * mode.w + m
      /\ y \in 0 .. mode.h - 1
  <2>1. k \in 0 .. Total /\ Total \in Nat /\ k < Total
    BY NextPlace, Place
  <2>2. /\ LineOf(k) \in 0 .. mode.h /\ LineOf(k) < mode.h
        /\ m \in 0 .. mode.w - 1
    BY <2>1, Place
  <2>3. mode.w \in Nat /\ mode.h \in Nat /\ n \in Nat /\ m + n <= mode.w
    BY Sizes, NextDesc
  <2> QED BY <2>2, <2>3 DEF DescOf
<1>2. ASSUME NEW i \in 1 .. n
      PROVE  BusRead(DescOf(k).addr + i - 1) = Shown(m + i - 1, y)
  <2> HIDE DEF y, m, n
  <2>1. m + i - 1 \in 0 .. mode.w - 1 /\ y * mode.w \in Int
    BY <1>1
  <2>2. BusRead(y * mode.w + (m + i - 1)) = Shown(m + i - 1, y)
    BY <1>1, <2>1, ReadLine
  <2>3. DescOf(k).addr + i - 1 = y * mode.w + (m + i - 1)
    BY <1>1, <2>1
  <2> QED BY <2>2, <2>3
<1> QED BY <1>2 DEF RowPart

(* After whole lines the engine starts a packet.                           *)
LEMMA SendFirst ==
  ASSUME mode \in Modes, NEW y \in Nat, NEW n \in Nat, NEW e \in BOOLEAN
  PROVE  /\ ~(Rows(y) # <<>> /\ ~Last(Rows(y)).ended)
         /\ Append(Rows(y), [data |-> Row(n, y), ended |-> e])
              = RowsAnd(y, n, e)
<1> DEFINE s == Rows(y)
           t == RowsAnd(y, n, e)
           p == [data |-> Row(n, y), ended |-> e]
<1>1. /\ s \in Seq(Packets) /\ Len(s) = y
      /\ t \in Seq(Packets) /\ Len(t) = y + 1
  BY RowsSeq
<1>2. p \in Packets
  BY RowSeq DEF Packets
<1>3. ASSUME NEW l \in 1 .. y PROVE s[l].ended = TRUE /\ t[l] = s[l]
  BY DEF Rows, RowsAnd
<1>4. t[y + 1] = p
  BY DEF RowsAnd
<1> HIDE DEF s, t, p
<1>5. s # <<>> => Last(s).ended
  <2>1. s # <<>> => Len(s) \in Nat \ {0}
    BY <1>1, EmptySeq
  <2>2. s # <<>> => y \in 1 .. y
    BY <1>1, <2>1
  <2>3. s # <<>> => s[y].ended = TRUE
    BY <1>3, <2>2
  <2>4. Last(s) = s[y]
    BY <1>1 DEF Last
  <2> QED BY <2>3, <2>4
<1>6. Append(s, p) = t
  <2>1. /\ Append(s, p) \in Seq(Packets) /\ Len(Append(s, p)) = y + 1
        /\ \A i \in 1 .. y : Append(s, p)[i] = s[i]
        /\ Append(s, p)[y + 1] = p
    BY <1>1, <1>2, AppendProperties
  <2>2. ASSUME NEW i \in 1 .. y + 1 PROVE Append(s, p)[i] = t[i]
    <3>1. CASE i = y + 1
      BY <1>4, <2>1, <3>1
    <3>2. CASE i # y + 1
      <4>1. i \in 1 .. y
        BY <3>2
      <4> QED BY <1>3, <2>1, <4>1
    <3> QED BY <3>1, <3>2
  <2> QED BY <1>1, <2>1, <2>2, SeqEqual
<1> QED BY <1>5, <1>6 DEF s, t, p

(* The last packet with more data, and perhaps its end.                    *)
Joined(s, r, e) ==
  [s EXCEPT ![Len(s)] = [data |-> @.data \o r, ended |-> e]]

(* After a part of a line it goes on with its packet.                      *)
LEMMA SendRest ==
  ASSUME mode \in Modes, NEW y \in Nat, NEW m \in Nat, NEW n \in Nat,
         NEW e \in BOOLEAN
  PROVE  /\ RowsAnd(y, m, FALSE) # <<>> /\ ~Last(RowsAnd(y, m, FALSE)).ended
         /\ Joined(RowsAnd(y, m, FALSE), RowPart(m, n, y), e)
              = RowsAnd(y, m + n, e)
<1> DEFINE s == RowsAnd(y, m, FALSE)
           t == RowsAnd(y, m + n, e)
           r == RowPart(m, n, y)
           p == [data |-> Row(m + n, y), ended |-> e]
<1>1. /\ s \in Seq(Packets) /\ Len(s) = y + 1
      /\ t \in Seq(Packets) /\ Len(t) = y + 1
  <2>1. FALSE \in BOOLEAN /\ m + n \in Nat
    OBVIOUS
  <2> QED BY <2>1, RowsSeq
<1>2. p \in Packets
  BY RowSeq DEF Packets
<1>3. ASSUME NEW l \in 1 .. y + 1
      PROVE  t[l] = IF l = y + 1 THEN p ELSE s[l]
  BY DEF RowsAnd
<1>4. s[y + 1] = [data |-> Row(m, y), ended |-> FALSE]
  BY DEF RowsAnd
<1> HIDE DEF s
<1>5. s[y + 1].data \o r = Row(m + n, y)
  <2>0. y \in Int
    OBVIOUS
  <2>1. Row(m, y) \o RowPart(m, n, y) = Row(m + n, y)
    BY <2>0, RowConcat
  <2> QED BY <1>4, <2>1
<1> HIDE DEF t, r
<1>6. s # <<>> /\ Last(s) = s[y + 1]
  BY <1>1, EmptySeq DEF Last
<1>7. Joined(s, r, e) = [s EXCEPT ![y + 1] = p]
  BY <1>1, <1>5 DEF Joined
<1> HIDE DEF p
<1>8. [s EXCEPT ![y + 1] = p] = t
  <2>1. /\ [s EXCEPT ![y + 1] = p] \in Seq(Packets)
        /\ Len([s EXCEPT ![y + 1] = p]) = y + 1
        /\ \A l \in 1 .. y + 1 :
             [s EXCEPT ![y + 1] = p][l] = IF l = y + 1 THEN p ELSE s[l]
    BY <1>1, <1>2, ExceptSeq
  <2> QED BY <1>1, <1>3, <2>1, SeqEqual
<1>9. ~Last(s).ended
  BY <1>4, <1>6
<1> QED BY <1>6, <1>7, <1>8, <1>9 DEF s, t, r

(* The engine sends the k-th descriptor after the first k.                 *)
LEMMA SendNext ==
  ASSUME mode \in Modes, NEW k \in 0 .. Total - 1,
         \A v \in 0 .. mode.h - 1, u \in 0 .. mode.w - 1 :
           lines[v][u] = Shown(u, v)
  PROVE  Send(Sent(k), DescOf(k)) = Sent(k + 1)
<1> DEFINE y == LineOf(k)
           m == PartOf(k) * BlenMax
           n == DescOf(k).len
           e == DescOf(k).eop
           r == RowPart(m, n, y)
<1>1. y \in Nat /\ m \in Nat /\ n \in Nat /\ e \in BOOLEAN
  <2>1. k \in 0 .. Total /\ mode.h \in Nat /\ mode.w \in Nat
    BY NextPlace, Sizes
  <2>2. LineOf(k) \in 0 .. mode.h /\ m \in 0 .. mode.w - 1
    BY <2>1, Place
  <2>3. n \in Nat
    BY NextDesc
  <2>4. e \in BOOLEAN
    BY DEF DescOf
  <2> QED BY <2>1, <2>2, <2>3, <2>4
<1>2. Send(Sent(k), DescOf(k))
        = IF Sent(k) # <<>> /\ ~Last(Sent(k)).ended
          THEN Joined(Sent(k), r, e)
          ELSE Append(Sent(k), [data |-> r, ended |-> e])
  BY DescData DEF Send, Joined
<1>3. /\ PartOf(k) = 0 => m = 0 /\ Sent(k) = Rows(y)
      /\ PartOf(k) # 0 => Sent(k) = RowsAnd(y, m, FALSE)
      /\ Sent(k + 1) = RowsAnd(y, m + n, e)
  BY SentForms
<1>4. CASE PartOf(k) = 0
  <2>1. m = 0 /\ Sent(k) = Rows(y)
    BY <1>3, <1>4
  <2> HIDE DEF m, y, n, e
  <2>2. r = Row(n, y)
    <3>1. \A i \in 1 .. n : m + i - 1 = i - 1
      BY <1>1, <2>1
    <3> QED BY <3>1 DEF Row, RowPart
  <2>3. m + n = n
    BY <1>1, <2>1
  <2> HIDE DEF r
  <2>4. /\ ~(Rows(y) # <<>> /\ ~Last(Rows(y)).ended)
        /\ Append(Rows(y), [data |-> Row(n, y), ended |-> e])
             = RowsAnd(y, n, e)
    BY <1>1, SendFirst
  <2> QED BY <1>2, <1>3, <2>1, <2>2, <2>3, <2>4
<1>5. CASE PartOf(k) # 0
  <2>1. Sent(k) = RowsAnd(y, m, FALSE)
    BY <1>3, <1>5
  <2> HIDE DEF m, y, n, e
  <2>2. r = RowPart(m, n, y)
    OBVIOUS
  <2> HIDE DEF r
  <2>3. /\ RowsAnd(y, m, FALSE) # <<>> /\ ~Last(RowsAnd(y, m, FALSE)).ended
        /\ Joined(RowsAnd(y, m, FALSE), RowPart(m, n, y), e)
             = RowsAnd(y, m + n, e)
    <3>1. y \in Nat /\ m \in Nat /\ n \in Nat /\ e \in BOOLEAN
      BY <1>1
    <3> QED BY <3>1, SendRest, ZenonT(30)
  <2> QED BY <1>2, <1>3, <2>1, <2>2, <2>3
<1> QED BY <1>4, <1>5

(* Nothing at first, the frame at last.                                    *)
LEMMA SentEnds ==
  ASSUME mode \in Modes
  PROVE  /\ Sent(0) = <<>>
         /\ Sent(Total) =
              [y \in 1 .. mode.h |->
                 [data |-> [x \in 1 .. mode.w |-> Shown(x - 1, y - 1)],
                  ended |-> TRUE]]
<1>1. /\ mode.h \in Nat /\ PerLine \in Nat /\ PerLine >= 1 /\ mode.w \in Nat
      /\ BlenMax \in Nat
  BY Sizes, LineSize
<1>2. LineOf(0) = 0 /\ PartOf(0) = 0
  <2>1. (0 * PerLine + 0) \div PerLine = 0 /\ (0 * PerLine + 0) % PerLine = 0
    BY <1>1, DivUnique
  <2>2. 0 * PerLine + 0 = 0
    BY <1>1
  <2> QED BY <2>1, <2>2 DEF LineOf, PartOf
<1>3. LineOf(Total) = mode.h /\ PartOf(Total) = 0
  <2>1. /\ (mode.h * PerLine + 0) \div PerLine = mode.h
        /\ (mode.h * PerLine + 0) % PerLine = 0
    BY <1>1, DivUnique
  <2>2. mode.h * PerLine + 0 = mode.h * PerLine
    BY <1>1
  <2> QED BY <2>1, <2>2 DEF LineOf, PartOf, Total
<1>4. Sent(0) = Rows(0)
  <2>1. Sent(0) = [l \in 1 .. 0 + 0 |->
                     [data |->
                        [x \in 1 .. IF l <= 0 THEN mode.w ELSE 0 * BlenMax |->
                           Shown(x - 1, l - 1)],
                      ended |-> l <= 0]]
    BY <1>2 DEF Sent
  <2>2. 1 .. 0 + 0 = 1 .. 0 /\ \A l \in 1 .. 0 : FALSE
    OBVIOUS
  <2> QED BY <2>1, <2>2 DEF Rows
<1>5. Rows(0) = <<>>
  <2>1. Rows(0) \in Seq(Packets) /\ Len(Rows(0)) = 0
    BY RowsSeq
  <2> QED BY <2>1, EmptySeq
<1>6. Sent(Total) = [l \in 1 .. mode.h |->
                 [data |-> [x \in 1 .. mode.w |-> Shown(x - 1, l - 1)],
                  ended |-> TRUE]]
  <2>1. Sent(Total) = [l \in 1 .. mode.h + 0 |->
                     [data |->
                        [x \in 1 .. IF l <= mode.h THEN mode.w
                                ELSE 0 * BlenMax |->
                           Shown(x - 1, l - 1)],
                      ended |-> l <= mode.h]]
    BY <1>3 DEF Sent
  <2>2. mode.h + 0 = mode.h /\ \A l \in 1 .. mode.h : (l <= mode.h) = TRUE
    BY <1>1
  <2> QED BY <2>1, <2>2
<1> QED BY <1>4, <1>5, <1>6

-----------------------------------------------------------------------------
(* Neighbours, and the ends of the addresses.                              *)

(* The least of a set, when it is known.                                   *)
LEMMA MinIs ==
  ASSUME NEW S, S \subseteq Int, NEW x \in S, \A z \in S : x <= z
  PROVE  Min(S) = x
<1>1. \A z \in S : (\A u \in S : z <= u) => z = x
  <2> SUFFICES ASSUME NEW z \in S, \A u \in S : z <= u PROVE z = x
    OBVIOUS
  <2>1. z <= x /\ x <= z /\ x \in Int /\ z \in Int
    OBVIOUS
  <2> QED BY <2>1
<1>2. Min(S) \in S /\ \A u \in S : Min(S) <= u
  BY DEF Min
<1> QED BY <1>1, <1>2

(* Adjacent descriptors are of the transfer and of one aligned block.      *)
LEMMA Neighbours ==
  ASSUME NEW rem \in Nat, NEW i \in Nat
  PROVE  /\ NextAdj(rem, i) \in Nat
         /\ rem >= 1 => NextAdj(rem, i) <= rem - 1
         /\ i \div BlockSize = (i + NextAdj(rem, i)) \div BlockSize
<1> DEFINE q == i \div BlockSize
           r == i % BlockSize
           a == NextAdj(rem, i)
<1>1. BlockSize \in Nat /\ BlockSize >= 1
  BY SizesAssumption
<1>2. q \in Nat /\ r \in 0 .. BlockSize - 1 /\ i = q * BlockSize + r
  BY <1>1, DivSplit
<1>3. a = IF rem <= 1 THEN 0 ELSE Min({BlockSize - r - 1, rem - 1})
  BY DEF NextAdj
<1> HIDE DEF q, r, a
<1>4. a \in Nat /\ (rem >= 1 => a <= rem - 1) /\ a <= BlockSize - r - 1
  <2>1. CASE rem <= 1
    BY <1>1, <1>2, <1>3, <2>1
  <2>2. CASE ~(rem <= 1)
    <3> DEFINE S == {BlockSize - r - 1, rem - 1}
    <3>1. BlockSize - r - 1 \in Nat /\ rem - 1 \in Nat
      BY <1>1, <1>2, <2>2
    <3>2. CASE BlockSize - r - 1 <= rem - 1
      <4>1. Min(S) = BlockSize - r - 1
        <5>1. /\ S \subseteq Int /\ BlockSize - r - 1 \in S
              /\ \A z \in S : BlockSize - r - 1 <= z
          BY <3>1, <3>2
        <5> HIDE DEF S
        <5> QED BY <5>1, MinIs
      <4> QED BY <1>3, <2>2, <3>1, <3>2, <4>1
    <3>3. CASE ~(BlockSize - r - 1 <= rem - 1)
      <4>1. Min(S) = rem - 1
        <5>1. /\ S \subseteq Int /\ rem - 1 \in S
              /\ \A z \in S : rem - 1 <= z
          BY <3>1, <3>3
        <5> HIDE DEF S
        <5> QED BY <5>1, MinIs
      <4> QED BY <1>3, <2>2, <3>1, <3>3, <4>1
    <3> QED BY <3>2, <3>3
  <2> QED BY <2>1, <2>2
<1>5. (i + a) \div BlockSize = q
  <2>1. r + a \in 0 .. BlockSize - 1
    BY <1>1, <1>2, <1>4
  <2>2. (q * BlockSize + (r + a)) \div BlockSize = q
    BY <1>1, <1>2, <2>1, DivUnique
  <2>3. i + a = q * BlockSize + (r + a)
    <3>1. q * BlockSize \in Int
      BY <1>1, <1>2
    <3> QED BY <1>1, <1>2, <1>4, <3>1
  <2> QED BY <2>2, <2>3
<1> QED BY <1>4, <1>5 DEF q, a

(* The addresses of the lines end where their descriptors do.              *)
LEMMA AddrEnd ==
  ASSUME mode \in Modes, NEW k \in 0 .. Total
  PROVE  /\ DescOf(k).addr \in Nat /\ mode.h * mode.w \in Nat
         /\ k = Total => DescOf(k).addr = mode.h * mode.w
         /\ k < Total => DescOf(k).addr < mode.h * mode.w
<1> DEFINE y == LineOf(k)
           m == PartOf(k) * BlenMax
<1>1. /\ mode.h \in Nat /\ mode.w \in Nat /\ y \in 0 .. mode.h
      /\ m \in 0 .. mode.w - 1 /\ Total \in Nat
      /\ (k < Total <=> y < mode.h) /\ (k = Total => m = 0)
  <2>1. BlenMax \in Nat /\ 0 * BlenMax = 0
    BY Sizes
  <2>2. k = Total => m = 0
    BY <2>1, Place
  <2>3. mode.h \in Nat /\ mode.w \in Nat
    BY Sizes
  <2>4. /\ LineOf(k) \in 0 .. mode.h /\ PartOf(k) * BlenMax \in 0 .. mode.w - 1
        /\ Total \in Nat /\ (k < Total <=> LineOf(k) < mode.h)
    BY Place
  <2> QED BY <2>2, <2>3, <2>4
<1>2. DescOf(k).addr = y * mode.w + m
  BY DEF DescOf
<1> HIDE DEF y, m
<1>3. y * mode.w \in Nat /\ mode.h * mode.w \in Nat
  BY <1>1
<1>4. ASSUME k = Total PROVE y * mode.w + m = mode.h * mode.w
  <2>1. y = mode.h /\ m = 0
    BY <1>1, <1>4
  <2> QED BY <1>3, <2>1
<1>5. ASSUME k < Total PROVE y * mode.w + m < mode.h * mode.w
  <2>1. (y + 1) * mode.w <= mode.h * mode.w
    BY <1>1, <1>5, Times
  <2>2. (y + 1) * mode.w = y * mode.w + mode.w
    <3>1. y \in Int /\ mode.w \in Int
      BY <1>1
    <3> QED BY <3>1, TimesNext
  <2> QED BY <1>1, <1>3, <2>1, <2>2
<1>6. y * mode.w + m \in Nat
  BY <1>1, <1>3
<1> QED BY <1>2, <1>3, <1>4, <1>5, <1>6

(* The first descriptor is where the lines start, and there is one.        *)
LEMMA AddrZero ==
  ASSUME mode \in Modes
  PROVE  /\ 0 \in 0 .. Total /\ 0 < Total /\ LineOf(0) = 0 /\ PartOf(0) = 0
         /\ DescOf(0).addr = 0 /\ PartOf(0) * BlenMax = 0
         /\ Total \in 0 .. Total /\ LineOf(Total) = mode.h
         /\ PartOf(Total) * BlenMax = 0
<1>1. /\ PerLine \in Nat /\ PerLine >= 1 /\ mode.w \in Nat /\ BlenMax \in Nat
      /\ mode.h \in Nat
  BY Sizes, LineSize
<1>2. Total \in Nat /\ Total >= 1
  <2>1. mode.h >= 1 /\ 1 * PerLine = PerLine
    BY <1>1, Sizes
  <2>2. 1 * PerLine <= mode.h * PerLine
    BY <1>1, <2>1, Times
  <2> QED BY <1>1, <2>1, <2>2 DEF Total
<1>3. LineOf(0) = 0 /\ PartOf(0) = 0
  <2>1. (0 * PerLine + 0) \div PerLine = 0 /\ (0 * PerLine + 0) % PerLine = 0
    BY <1>1, DivUnique
  <2>2. 0 * PerLine + 0 = 0
    BY <1>1
  <2> QED BY <2>1, <2>2 DEF LineOf, PartOf
<1>4. 0 * mode.w + 0 * BlenMax = 0 /\ 0 * BlenMax = 0
  BY <1>1
<1>5. DescOf(0).addr = 0
  BY <1>3, <1>4 DEF DescOf
<1>6. LineOf(Total) = mode.h /\ PartOf(Total) = 0
  <2>1. /\ (mode.h * PerLine + 0) \div PerLine = mode.h
        /\ (mode.h * PerLine + 0) % PerLine = 0
    BY <1>1, DivUnique
  <2>2. mode.h * PerLine + 0 = mode.h * PerLine
    BY <1>1
  <2> QED BY <2>1, <2>2 DEF LineOf, PartOf, Total
<1> QED BY <1>2, <1>3, <1>4, <1>5, <1>6

-----------------------------------------------------------------------------
(* The loops over the scatter list.                                        *)

(* A segment runs from the start of a line to the start of a later one,    *)
(* where the next segment starts.                                          *)
LEMMA Segment ==
  ASSUME mode \in Modes, SgInv, pc \in {"count", "build", "fill"},
         NEW i \in 1 .. Len(sg)
  PROVE  /\ Len(sg) \in Nat /\ Len(sg) >= 1
         /\ \E a \in 0 .. mode.h, b \in 0 .. mode.h :
              /\ a < b /\ sg[i].addr = a * mode.w
              /\ sg[i].addr + sg[i].len = b * mode.w
              /\ sg[i].addr \in Nat /\ sg[i].len \in Nat /\ sg[i].len >= 1
              /\ i = 1 => a = 0
              /\ i = Len(sg) => b = mode.h
              /\ i # Len(sg) => i + 1 \in 1 .. Len(sg) /\ b < mode.h
                                /\ sg[i + 1].addr = b * mode.w
                                /\ sg[i + 1].len >= 1
<1>1. Len(sg) \in Nat /\ Len(sg) >= 1 /\ mode.w \in Nat /\ mode.w >= 1
      /\ mode.h \in Nat
  BY Sizes DEF SgInv
<1>2. PICK end \in [0 .. Len(sg) -> 0 .. mode.h] :
        /\ end[0] = 0 /\ end[Len(sg)] = mode.h
        /\ \A n \in 1 .. Len(sg) : end[n - 1] < end[n]
        /\ sg = [n \in 1 .. Len(sg) |->
                   [addr |-> end[n - 1] * mode.w,
                    len |-> (end[n] - end[n - 1]) * mode.w]]
  BY DEF SgInv
<1>3. ASSUME NEW n \in 1 .. Len(sg)
      PROVE  /\ sg[n].addr = end[n - 1] * mode.w
             /\ sg[n].len = (end[n] - end[n - 1]) * mode.w
  <2> DEFINE f == [u \in 1 .. Len(sg) |->
                     [addr |-> end[u - 1] * mode.w,
                      len |-> (end[u] - end[u - 1]) * mode.w]]
  <2>1. f[n] = [addr |-> end[n - 1] * mode.w,
                len |-> (end[n] - end[n - 1]) * mode.w]
    OBVIOUS
  <2>2. sg = f
    BY <1>2
  <2> HIDE DEF f
  <2> QED BY <2>1, <2>2
<1>4. ASSUME NEW n \in 1 .. Len(sg)
      PROVE  /\ end[n - 1] \in 0 .. mode.h /\ end[n] \in 0 .. mode.h
             /\ end[n - 1] < end[n]
             /\ sg[n].addr = end[n - 1] * mode.w
             /\ sg[n].addr + sg[n].len = end[n] * mode.w
             /\ sg[n].addr \in Nat /\ sg[n].len \in Nat /\ sg[n].len >= 1
  <2> DEFINE a == end[n - 1]
             b == end[n]
  <2>1. n - 1 \in 0 .. Len(sg) /\ n \in 0 .. Len(sg)
    BY <1>1
  <2>2. a \in 0 .. mode.h /\ b \in 0 .. mode.h /\ a < b
    BY <1>2, <2>1
  <2>3. sg[n].addr = a * mode.w /\ sg[n].len = (b - a) * mode.w
    BY <1>3
  <2> HIDE DEF a, b
  <2>4. a \in Nat /\ b \in Nat
    BY <1>1, <2>2
  <2>5. /\ a * mode.w \in Nat /\ b * mode.w \in Nat /\ (b - a) * mode.w \in Nat
        /\ (b - a) * mode.w = b * mode.w - a * mode.w /\ (b - a) * mode.w >= 1
    BY <1>1, <2>2, <2>4, TimesGap
  <2>8. /\ sg[n].addr + sg[n].len = b * mode.w
        /\ sg[n].addr \in Nat /\ sg[n].len \in Nat /\ sg[n].len >= 1
    BY <1>1, <2>3, <2>5
  <2> QED BY <2>2, <2>3, <2>8 DEF a, b
<1>5. i = 1 => end[i - 1] = 0
  BY <1>2
<1>6. i # Len(sg) => i + 1 \in 1 .. Len(sg) /\ (i + 1) - 1 = i
  BY <1>1
<1>7. i # Len(sg) => /\ i + 1 \in 1 .. Len(sg) /\ end[i] < mode.h
                     /\ sg[i + 1].addr = end[i] * mode.w /\ sg[i + 1].len >= 1
  <2> SUFFICES ASSUME i # Len(sg)
               PROVE  /\ i + 1 \in 1 .. Len(sg) /\ end[i] < mode.h
                      /\ sg[i + 1].addr = end[i] * mode.w
                      /\ sg[i + 1].len >= 1
    OBVIOUS
  <2>1. i + 1 \in 1 .. Len(sg) /\ (i + 1) - 1 = i
    BY <1>6
  <2>2. /\ end[(i + 1) - 1] < end[i + 1] /\ end[i + 1] \in 0 .. mode.h
        /\ end[(i + 1) - 1] \in 0 .. mode.h
        /\ sg[i + 1].addr = end[(i + 1) - 1] * mode.w /\ sg[i + 1].len >= 1
    BY <1>4, <2>1
  <2> QED BY <1>1, <2>1, <2>2
<1>8. i = Len(sg) => end[i] = mode.h
  BY <1>2
<1> HIDE DEF SgInv
<1> QED BY <1>1, <1>4, <1>5, <1>7, <1>8

(* A piece is a descriptor: the segment holds the rest of the line.        *)
LEMMA PieceIs ==
  ASSUME mode \in Modes, SgInv, pc \in {"count", "fill"}, LoopAt(loop),
         loop.seg <= Len(sg)
  PROVE  /\ loop.n \in 0 .. Total - 1 /\ loop.done < mode.h
         /\ sg[loop.seg].addr + loop.off = DescOf(loop.n).addr
         /\ Piece = DescOf(loop.n).len
         /\ Piece = loop.left <=> DescOf(loop.n).eop
         /\ loop.off + Piece <= sg[loop.seg].len
<1> DEFINE k == loop.n
           y == LineOf(k)
           m == PartOf(k) * BlenMax
           i == loop.seg
           d == DescOf(k)
<1>1. /\ k \in 0 .. Total /\ k < Total /\ loop.done = y
      /\ loop.left = mode.w - m
      /\ loop.off \in Nat /\ loop.off < sg[i].len
      /\ sg[i].addr + loop.off = d.addr
      /\ i \in 1 .. Len(sg) + 1 /\ i <= Len(sg)
  BY DEF LoopAt
<1>2. /\ Total \in Nat /\ mode.h \in Nat /\ mode.w \in Nat /\ BlenMax \in Nat
      /\ y \in 0 .. mode.h /\ y < mode.h /\ m \in 0 .. mode.w - 1
  BY <1>1, Place, Sizes
<1>3. k \in 0 .. Total - 1
  BY <1>1, <1>2
<1>4. /\ d.len \in Nat /\ d.len >= 1 /\ d.len <= BlenMax
      /\ m + d.len <= mode.w /\ (d.eop <=> m + d.len = mode.w)
      /\ ~d.eop => d.len = BlenMax
  <2>1. ~d.eop => d.len = BlenMax
    BY DEF DescOf
  <2> QED BY <1>3, <2>1, NextDesc
<1>5. d.addr = y * mode.w + m
  BY DEF DescOf
<1>6. i \in 1 .. Len(sg)
  <2>1. Len(sg) \in Nat
    BY DEF SgInv
  <2> QED BY <1>1, <2>1
<1>7. PICK b \in 0 .. mode.h :
        /\ sg[i].addr + sg[i].len = b * mode.w
        /\ sg[i].addr \in Nat /\ sg[i].len \in Nat
  BY <1>6, Segment
<1> HIDE DEF k, y, m, i, d
<1> DEFINE o == loop.off
           n == sg[i].len
           a == sg[i].addr
           yw == y * mode.w
           bw == b * mode.w
           left == loop.left
<1>8. /\ yw \in Int /\ bw \in Int /\ a \in Nat /\ n \in Nat /\ o \in Nat
      /\ o < n /\ a + o = yw + m /\ a + n = bw /\ left = mode.w - m
      /\ m \in Nat /\ mode.w \in Nat /\ left \in Nat
  <2>1. yw \in Int /\ bw \in Int
    BY <1>2
  <2>2. m \in Nat /\ mode.w \in Nat /\ mode.w - m \in Nat
    BY <1>2
  <2> HIDE DEF yw, bw
  <2> QED BY <1>1, <1>5, <1>7, <2>1, <2>2 DEF yw, bw
<1>9. y < b => yw + mode.w <= bw
  <2> SUFFICES ASSUME y < b PROVE yw + mode.w <= bw
    OBVIOUS
  <2>1. (y + 1) * mode.w <= b * mode.w
    <3>1. y + 1 \in Int /\ b \in Int /\ mode.w \in Nat /\ y + 1 <= b
      BY <1>2
    <3> QED BY <3>1, Times
  <2>2. (y + 1) * mode.w = y * mode.w + mode.w
    <3>1. y \in Int /\ mode.w \in Int
      BY <1>2
    <3> QED BY <3>1, TimesNext
  <2> QED BY <2>1, <2>2
<1>10. ~(y < b) => bw <= yw
  <2> SUFFICES ASSUME ~(y < b) PROVE bw <= yw
    OBVIOUS
  <2>1. b <= y /\ b \in Int /\ y \in Int /\ mode.w \in Nat
    BY <1>2
  <2> QED BY <2>1, Times
<1> HIDE DEF o, n, a, yw, bw, left
<1>11. o + left <= n
  <2>1. yw + mode.w <= bw \/ bw <= yw
    BY <1>9, <1>10
  <2>2. ~(bw <= yw)
    BY <1>8
  <2> QED BY <1>8, <2>1, <2>2
<1>12. Piece = d.len
  <2> DEFINE S == {n - o, left, BlenMax}
  <2>1. Piece = Min(S)
    BY DEF Piece, i, n, o, left
  <2>2. S \subseteq Int
    BY <1>2, <1>8
  <2>3. d.len <= left /\ (d.eop <=> d.len = left)
    BY <1>4, <1>8
  <2>4. d.len \in S
    BY <1>4, <2>3
  <2>5. d.len <= n - o /\ d.len <= left /\ d.len <= BlenMax
    BY <1>4, <1>8, <1>11, <2>3
  <2>6. \A z \in S : d.len <= z
    BY <2>5
  <2> HIDE DEF S
  <2> QED BY <2>1, <2>2, <2>4, <2>6, MinIs
<1>13. o + Piece <= n /\ (Piece = left <=> d.eop)
  <2>1. d.len <= left /\ (d.len = left <=> d.eop)
    BY <1>4, <1>8
  <2>2. o + d.len <= n
    BY <1>4, <1>8, <1>11, <2>1
  <2> QED BY <1>12, <2>1, <2>2
<1>14. loop.done < mode.h
  BY <1>1, <1>2
<1> QED BY <1>1, <1>3, <1>14, <1>12, <1>13 DEF k, i, d, o, n, left

(* Where a loop is once it has passed the piece.                           *)
LEMMA PassedAt ==
  ASSUME mode \in Modes, SgInv, pc \in {"count", "fill"}, LoopAt(loop),
         loop.seg <= Len(sg)
  PROVE  LoopAt(Passed(Piece)) /\ Passed(Piece).n = loop.n + 1
<1> DEFINE k == loop.n
           p == Piece
           l == Passed(p)
           i == loop.seg
           d == DescOf(k)
<1>1. /\ k \in 0 .. Total - 1 /\ sg[i].addr + loop.off = d.addr
      /\ p = d.len /\ (p = loop.left <=> d.eop) /\ loop.off + p <= sg[i].len
  BY PieceIs
<1>2. /\ loop.done = LineOf(k) /\ loop.left = mode.w - PartOf(k) * BlenMax
      /\ loop.off \in Nat /\ i \in 1 .. Len(sg) + 1
  BY DEF LoopAt
<1>3. /\ l.seg = IF loop.off + p = sg[i].len THEN i + 1 ELSE i
      /\ l.off = IF loop.off + p = sg[i].len THEN 0 ELSE loop.off + p
      /\ l.left = IF p = loop.left THEN mode.w ELSE loop.left - p
      /\ l.done = IF p = loop.left THEN loop.done + 1 ELSE loop.done
      /\ l.n = k + 1
  BY DEF Passed
<1>4. /\ d.addr \in Nat /\ d.len \in Nat /\ d.len >= 1
      /\ DescOf(k + 1).addr = d.addr + d.len
      /\ d.eop <=> PartOf(k) = PerLine - 1
      /\ ~d.eop => d.len = BlenMax
  <2>1. (d.eop <=> PartOf(k) = PerLine - 1) /\ (~d.eop => d.len = BlenMax)
    BY DEF DescOf
  <2>2. /\ d.addr \in Nat /\ d.len \in Nat /\ d.len >= 1
        /\ DescOf(k + 1).addr = d.addr + d.len
    BY <1>1, NextDesc
  <2> QED BY <2>1, <2>2
<1>5. /\ k + 1 \in 0 .. Total /\ Total \in Nat
      /\ d.eop => LineOf(k + 1) = LineOf(k) + 1 /\ PartOf(k + 1) = 0
      /\ ~d.eop => LineOf(k + 1) = LineOf(k) /\ PartOf(k + 1) = PartOf(k) + 1
  <2>1. k + 1 \in 0 .. Total
    BY <1>1, NextPlace
  <2>2. Total \in Nat
    BY <2>1, Place
  <2>3. /\ PartOf(k) = PerLine - 1 =>
             LineOf(k + 1) = LineOf(k) + 1 /\ PartOf(k + 1) = 0
        /\ PartOf(k) # PerLine - 1 =>
             LineOf(k + 1) = LineOf(k) /\ PartOf(k + 1) = PartOf(k) + 1
    BY <1>1, NextPlace
  <2> QED BY <1>4, <2>1, <2>2, <2>3
<1>6. Len(sg) \in Nat /\ i \in 1 .. Len(sg)
  <2>1. Len(sg) \in Nat
    BY DEF SgInv
  <2> QED BY <1>2, <2>1
<1>7. PICK b \in 0 .. mode.h :
        /\ sg[i].addr + sg[i].len = b * mode.w
        /\ sg[i].addr \in Nat /\ sg[i].len \in Nat
        /\ i = Len(sg) => b = mode.h
        /\ i # Len(sg) => i + 1 \in 1 .. Len(sg) /\ b < mode.h
                          /\ sg[i + 1].addr = b * mode.w
                          /\ sg[i + 1].len >= 1
  BY <1>6, Segment
<1>8. mode.h \in Nat /\ mode.w \in Nat /\ mode.w >= 1 /\ BlenMax \in Nat
  BY Sizes
<1>9. /\ DescOf(k + 1).addr \in Nat /\ mode.h * mode.w \in Nat
      /\ k + 1 = Total => DescOf(k + 1).addr = mode.h * mode.w
      /\ k + 1 < Total => DescOf(k + 1).addr < mode.h * mode.w
  BY <1>5, AddrEnd
<1>10. l.done = LineOf(l.n)
  BY <1>1, <1>2, <1>3, <1>5
<1>11. l.left = mode.w - PartOf(l.n) * BlenMax
  <2>1. CASE d.eop
    <3>1. l.left = mode.w /\ PartOf(l.n) = 0
      BY <1>1, <1>3, <1>5, <2>1
    <3>2. 0 * BlenMax = 0
      BY <1>8
    <3> QED BY <1>8, <3>1, <3>2
  <2>2. CASE ~d.eop
    <3>1. /\ l.left = mode.w - PartOf(k) * BlenMax - BlenMax
          /\ PartOf(l.n) = PartOf(k) + 1
      BY <1>1, <1>2, <1>3, <1>4, <1>5, <2>2
    <3>2. PartOf(k) \in Nat
      <4>1. PartOf(k) \in 0 .. PerLine - 1 /\ PerLine \in Nat
        BY <1>1, NextPlace, Place, LineSize
      <4> QED BY <4>1
    <3>3. (PartOf(k) + 1) * BlenMax = PartOf(k) * BlenMax + BlenMax
      BY <1>8, <3>2, TimesNext
    <3>4. PartOf(k) * BlenMax \in Int
      BY <1>8, <3>2
    <3> QED BY <1>8, <3>1, <3>3, <3>4
  <2> QED BY <2>1, <2>2
<1>12. b * mode.w \in Int /\ b * mode.w <= mode.h * mode.w
  <2>1. b \in Int /\ mode.h \in Int /\ b <= mode.h
    BY <1>8
  <2> QED BY <1>8, <2>1, Times
<1> HIDE DEF k, p, l, i, d
<1> DEFINE bw == b * mode.w
           hw == mode.h * mode.w
           a == sg[i].addr
           n == sg[i].len
           o == loop.off
           next == DescOf(k + 1).addr
<1>13. /\ bw \in Int /\ hw \in Nat /\ bw <= hw /\ a \in Nat /\ n \in Nat
       /\ o \in Nat /\ p \in Nat /\ p >= 1 /\ next \in Nat
       /\ a + n = bw /\ o + p <= n /\ next = (a + o) + p
       /\ k + 1 = Total => next = hw
       /\ k + 1 < Total => next < hw
  BY <1>1, <1>2, <1>4, <1>7, <1>9, <1>12
<1>14. CASE o + p = n
  <2>1. l.seg = i + 1 /\ l.off = 0 /\ l.n = k + 1
    BY <1>3, <1>14
  <2>2. next = bw
    <3> HIDE DEF bw, hw, a, n, o, next
    <3> QED BY <1>14, <1>13
  <2>3. i = Len(sg) => k + 1 = Total
    BY <1>5, <1>7, <1>9, <2>2
  <2>4. i # Len(sg) => k + 1 < Total
    <3> SUFFICES ASSUME i # Len(sg), k + 1 = Total PROVE FALSE
      BY <1>5
    <3>1. b < mode.h
      BY <1>7
    <3>2. (b + 1) * mode.w <= mode.h * mode.w
      BY <1>8, <3>1, Times
    <3>3. (b + 1) * mode.w = b * mode.w + mode.w
      BY <1>8, TimesNext
    <3>4. bw + mode.w <= hw
      BY <3>2, <3>3
    <3> HIDE DEF bw, hw, a, n, o, next
    <3> QED BY <1>8, <1>13, <2>2, <3>4
  <2>5. i # Len(sg) => /\ i + 1 \in 1 .. Len(sg) /\ 0 < sg[i + 1].len
                       /\ sg[i + 1].addr + 0 = DescOf(k + 1).addr
    <3> SUFFICES ASSUME i # Len(sg)
                 PROVE  /\ i + 1 \in 1 .. Len(sg) /\ 0 < sg[i + 1].len
                        /\ sg[i + 1].addr + 0 = DescOf(k + 1).addr
      OBVIOUS
    <3>1. /\ i + 1 \in 1 .. Len(sg) /\ sg[i + 1].addr = bw
          /\ sg[i + 1].len >= 1 /\ sg[i + 1].len \in Nat
      BY <1>7, Segment
    <3> HIDE DEF bw, hw, a, n, o
    <3>2. sg[i + 1].addr + 0 = next /\ 0 < sg[i + 1].len
      BY <1>13, <2>2, <3>1
    <3> QED BY <3>1, <3>2
  <2>6. /\ l.n \in 0 .. Total /\ l.off \in Nat /\ l.seg \in 1 .. Len(sg) + 1
        /\ l.seg <= Len(sg) => /\ l.n < Total /\ l.off < sg[l.seg].len
                               /\ sg[l.seg].addr + l.off = DescOf(l.n).addr
        /\ l.seg > Len(sg) => l.n = Total
    BY <1>5, <1>6, <2>1, <2>3, <2>4, <2>5
  <2> QED BY <1>10, <1>11, <2>1, <2>6 DEF LoopAt, l, k, p
<1>15. CASE o + p # n
  <2>1. l.seg = i /\ l.off = loop.off + p /\ l.n = k + 1
    BY <1>3, <1>15
  <2>2. o + p < n /\ o + p \in Nat
    <3> HIDE DEF bw, hw, a, n, o, next
    <3> QED BY <1>15, <1>13
  <2>3. a + (o + p) = next
    <3> HIDE DEF bw, hw, a, n, o, next
    <3> QED BY <1>13
  <2>4. k + 1 < Total
    <3> SUFFICES ASSUME k + 1 = Total PROVE FALSE
      BY <1>5
    <3> HIDE DEF bw, hw, a, n, o, next
    <3> QED BY <1>13, <2>2, <2>3
  <2>5. /\ l.n \in 0 .. Total /\ l.off \in Nat /\ l.seg \in 1 .. Len(sg) + 1
        /\ l.seg <= Len(sg) => /\ l.n < Total /\ l.off < sg[l.seg].len
                               /\ sg[l.seg].addr + l.off = DescOf(l.n).addr
        /\ l.seg > Len(sg) => l.n = Total
    BY <1>2, <1>5, <1>6, <2>1, <2>2, <2>3, <2>4
  <2> QED BY <1>10, <1>11, <2>1, <2>5 DEF LoopAt, l, k, p
<1> QED BY <1>14, <1>15

(* Where a loop starts.                                                    *)
LEMMA StartAt ==
  ASSUME mode \in Modes, SgInv, pc \in {"count", "build", "fill"}
  PROVE  LoopAt(LoopStart)
<1>1. Len(sg) \in Nat /\ Len(sg) >= 1 /\ 1 \in 1 .. Len(sg)
  BY Sizes DEF SgInv
<1>2. PICK a \in 0 .. mode.h : /\ sg[1].addr = a * mode.w /\ a = 0
                               /\ sg[1].len >= 1
  BY <1>1, Segment
<1>3. mode.w \in Nat /\ BlenMax \in Nat
  BY Sizes
<1>4. sg[1].addr + 0 = 0
  <2>1. 0 * mode.w = 0
    BY <1>3
  <2> QED BY <1>2, <2>1
<1>5. /\ 0 \in 0 .. Total /\ 0 < Total /\ LineOf(0) = 0 /\ PartOf(0) = 0
      /\ DescOf(0).addr = 0 /\ PartOf(0) * BlenMax = 0
  BY AddrZero
<1>6. /\ LoopStart.n = 0 /\ LoopStart.done = 0 /\ LoopStart.left = mode.w
      /\ LoopStart.off = 0 /\ LoopStart.seg = 1
  BY DEF LoopStart
<1>7. mode.w = mode.w - PartOf(0) * BlenMax
  BY <1>3, <1>5
<1>8. 0 < sg[1].len /\ 1 \in 1 .. Len(sg) + 1 /\ ~(1 > Len(sg))
  BY <1>1, <1>2, Segment
<1> QED BY <1>4, <1>5, <1>6, <1>7, <1>8 DEF LoopAt

(* Where a loop has gone through all segments it has counted every line.   *)
LEMMA EndAt ==
  ASSUME mode \in Modes, SgInv, pc \in {"count", "fill"}, LoopAt(loop),
         loop.seg > Len(sg)
  PROVE  loop.n = Total /\ loop.done = mode.h /\ loop.left = mode.w
<1>1. loop.n = Total
  BY DEF LoopAt
<1>2. loop.done = LineOf(Total) /\ loop.left = mode.w - PartOf(Total) * BlenMax
  BY <1>1 DEF LoopAt
<1>3. mode.w \in Nat
  BY Sizes
<1> QED BY <1>1, <1>2, <1>3, AddrZero

-----------------------------------------------------------------------------
(* Types.                                                                  *)

(* The types hold at first.                                                *)
LEMMA InitType ==
  ASSUME Init
  PROVE  TypeOK
<1>1. DescMax \in Nat /\ DescMax >= 1 /\ MaxFrames \in Nat
  BY SizesAssumption
<1>2. /\ ring \in [0 .. DescMax - 1 -> Entries \cup {None}]
      /\ 0 \in 0 .. DescMax - 1 /\ 0 \in 0 .. DescMax /\ 0 \in 0 .. MaxFrames
  BY <1>1 DEF Init
<1>3. DOMAIN lines = Lines /\ \A y \in Lines : DOMAIN lines[y] = 0 .. MaxW - 1
  BY DEF Init
<1> QED BY <1>2, <1>3 DEF Init, TypeOK

(* Composition writes into the buffers there are.                          *)
LEMMA ComposedType ==
  /\ DOMAIN CopyPrimary = Lines
  /\ \A y \in Lines : DOMAIN CopyPrimary[y] = 0 .. MaxW - 1
  /\ DOMAIN BlendOverlay(CopyPrimary) = Lines
  /\ \A y \in Lines : DOMAIN BlendOverlay(CopyPrimary)[y] = 0 .. MaxW - 1
<1>1. /\ DOMAIN CopyPrimary = Lines
      /\ \A y \in Lines : DOMAIN CopyPrimary[y] = 0 .. MaxW - 1
  BY DEF CopyPrimary
<1>2. /\ DOMAIN BlendOverlay(CopyPrimary) = Lines
      /\ \A y \in Lines : DOMAIN BlendOverlay(CopyPrimary)[y] = 0 .. MaxW - 1
  <2> HIDE DEF CopyPrimary
  <2> QED BY DEF BlendOverlay
<1> QED BY <1>1, <1>2

(* The types of the ring.                                                  *)
RingType == [0 .. DescMax - 1 -> Entries \cup {None}]

(* The descriptors transfer_desc_init() links are the transfer's.          *)
LEMMA LinkedType ==
  ASSUME TypeOK, count \in Nat, NEW start \in 0 .. DescMax - 1
  PROVE  /\ Linked(start) \in RingType
         /\ \A i \in 0 .. DescMax - 1 :
              /\ i \in start .. start + count - 1 =>
                   /\ Linked(start)[i] # None
                   /\ Linked(start)[i].next =
                        IF i < start + count - 1 THEN i + 1 ELSE 0
              /\ i \notin start .. start + count - 1 =>
                   Linked(start)[i] = ring[i]
<1>1. DescMax \in Nat
  BY SizesAssumption
<1>2. ASSUME NEW i \in 0 .. DescMax - 1
      PROVE  [desc |-> [addr |-> 0, len |-> 0, eop |-> FALSE], stop |-> FALSE,
              next |-> IF i < start + count - 1 THEN i + 1 ELSE 0, adj |-> 0]
               \in Entries
  <2>1. (IF i < start + count - 1 THEN i + 1 ELSE 0) \in Nat
    BY <1>1
  <2> QED BY <2>1 DEF Entries
<1>3. \A i \in 0 .. DescMax - 1 : ring[i] \in Entries \cup {None}
  BY DEF TypeOK
<1>4. Linked(start) \in RingType
  BY <1>2, <1>3 DEF Linked, RingType
<1>5. ASSUME NEW i \in 0 .. DescMax - 1, i \in start .. start + count - 1
      PROVE  /\ Linked(start)[i] # None
             /\ Linked(start)[i].next =
                  IF i < start + count - 1 THEN i + 1 ELSE 0
  <2>1. Linked(start)[i] =
          [desc |-> [addr |-> 0, len |-> 0, eop |-> FALSE], stop |-> FALSE,
           next |-> IF i < start + count - 1 THEN i + 1 ELSE 0, adj |-> 0]
    BY <1>5 DEF Linked
  <2>2. Linked(start)[i] \in Entries
    BY <1>2, <2>1
  <2>3. Linked(start)[i] # None
    BY <2>2, NoneAssumption
  <2>4. Linked(start)[i].next = IF i < start + count - 1 THEN i + 1 ELSE 0
    <3> DEFINE e == Linked(start)[i]
               n == IF i < start + count - 1 THEN i + 1 ELSE 0
    <3>1. e = [desc |-> [addr |-> 0, len |-> 0, eop |-> FALSE],
               stop |-> FALSE, next |-> n, adj |-> 0]
      BY <2>1
    <3> HIDE DEF e, n
    <3>2. e.next = n
      BY <3>1
    <3> QED BY <3>2 DEF e, n
  <2> QED BY <2>3, <2>4
<1>6. ASSUME NEW i \in 0 .. DescMax - 1, i \notin start .. start + count - 1
      PROVE  Linked(start)[i] = ring[i]
  BY <1>6 DEF Linked
<1> QED BY <1>4, <1>5, <1>6

(* The entry a piece fills is the transfer's, and no other changes.        *)
LEMMA FilledType ==
  ASSUME FrameInv, FillPiece
  PROVE  /\ loop.n \in 0 .. count - 1 /\ first + loop.n \in Transfer
         /\ first + loop.n \in 0 .. DescMax - 1
         /\ ring' \in RingType
         /\ \A i \in 0 .. DescMax - 1 \ {first + loop.n} : ring'[i] = ring[i]
         /\ LET e == ring[first + loop.n]
            IN ring'[first + loop.n] =
                 [e EXCEPT !.desc = DescOf(loop.n),
                           !.stop = (loop.n = count - 1)]
<1> DEFINE k == loop.n
           c == first + k
<1>1. /\ pc = "fill" /\ loop.seg <= Len(sg) /\ LoopAt(loop) /\ mode \in Modes
      /\ SgInv /\ count = Total /\ count <= DescMax
      /\ first + count <= DescMax /\ first \in 0 .. DescMax - 1
      /\ ring \in RingType /\ count \in Nat
      /\ \A i \in DOMAIN ring : ring[i] # None <=> i \in Transfer
  BY DEF FrameInv, TypeOK, LoopInv, RingInv, Placed, FillPiece, RingType
<1>2. /\ k \in 0 .. Total - 1 /\ Piece = DescOf(k).len
      /\ sg[loop.seg].addr + loop.off = DescOf(k).addr
      /\ Piece = loop.left <=> DescOf(k).eop
  BY <1>1, PieceIs
<1>3. /\ DescOf(k).addr \in Nat /\ DescOf(k).len \in Nat
      /\ DescOf(k).eop \in BOOLEAN
      /\ DescOf(k) = [addr |-> DescOf(k).addr, len |-> DescOf(k).len,
                      eop |-> DescOf(k).eop]
  <2>1. DescOf(k).addr \in Nat /\ DescOf(k).len \in Nat
    BY <1>1, <1>2, NextDesc
  <2> QED BY <2>1 DEF DescOf
<1>4. DescMax \in Nat
  BY SizesAssumption
<1>5. k \in 0 .. count - 1 /\ c \in Transfer /\ c \in 0 .. DescMax - 1
  BY <1>1, <1>2, <1>4 DEF Transfer
<1>6. [addr |-> sg[loop.seg].addr + loop.off, len |-> Piece,
       eop |-> Piece = loop.left] = DescOf(k)
  <2>1. (Piece = loop.left) = DescOf(k).eop
    BY <1>2, <1>3
  <2> QED BY <1>2, <1>3, <2>1
<1>7. ring[c] \in Entries
  BY <1>1, <1>5, NoneAssumption DEF RingType
<1>8. ring' = [ring EXCEPT ![c] =
                 [ring[c] EXCEPT !.desc = DescOf(k), !.stop = (k = count - 1)]]
  BY <1>6 DEF FillPiece
<1> HIDE DEF k, c
<1>9. [ring[c] EXCEPT !.desc = DescOf(k), !.stop = (k = count - 1)] \in Entries
  BY <1>3, <1>7 DEF Entries
<1>10. ring' \in RingType
  BY <1>1, <1>8, <1>9 DEF RingType
<1>11. \A i \in 0 .. DescMax - 1 \ {c} : ring'[i] = ring[i]
  BY <1>1, <1>8 DEF RingType
<1>12. ring'[c] = [ring[c] EXCEPT !.desc = DescOf(k), !.stop = (k = count - 1)]
  BY <1>1, <1>5, <1>8 DEF RingType
<1> QED BY <1>5, <1>10, <1>11, <1>12 DEF k, c

(* Counting the neighbours changes nothing else of an entry.               *)
LEMMA AdjacentType ==
  ASSUME TypeOK, count \in Nat, first + count <= DescMax,
         \A i \in DOMAIN ring : ring[i] # None <=> i \in Transfer
  PROVE  /\ Adjacent \in RingType
         /\ \A i \in 0 .. DescMax - 1 :
              /\ i \notin Transfer => Adjacent[i] = ring[i]
              /\ i \in Transfer =>
                   Adjacent[i] = [ring[i] EXCEPT !.adj =
                                    NextAdj(first + count - i - 1, i + 1)]
              /\ Adjacent[i] # None <=> i \in Transfer
<1>1. DescMax \in Nat /\ first \in 0 .. DescMax - 1 /\ ring \in RingType
  BY SizesAssumption DEF TypeOK, RingType
<1>2. ASSUME NEW i \in 0 .. DescMax - 1, i \in Transfer
      PROVE  /\ Adjacent[i] = [ring[i] EXCEPT !.adj =
                                 NextAdj(first + count - i - 1, i + 1)]
             /\ Adjacent[i] \in Entries
  <2>1. Adjacent[i] = [ring[i] EXCEPT !.adj =
                         NextAdj(first + count - i - 1, i + 1)]
    BY <1>2 DEF Adjacent
  <2>2. first + count - i - 1 \in Nat /\ i + 1 \in Nat
    BY <1>1, <1>2 DEF Transfer
  <2>3. NextAdj(first + count - i - 1, i + 1) \in Nat
    BY <2>2, Neighbours
  <2>4. ring[i] \in Entries
    BY <1>1, <1>2 DEF RingType
  <2> QED BY <2>1, <2>3, <2>4 DEF Entries
<1>3. ASSUME NEW i \in 0 .. DescMax - 1, i \notin Transfer
      PROVE  Adjacent[i] = ring[i]
  BY <1>3 DEF Adjacent
<1>4. Adjacent \in RingType
  <2>1. \A i \in 0 .. DescMax - 1 : Adjacent[i] \in Entries \cup {None}
    BY <1>1, <1>2, <1>3 DEF RingType
  <2>2. Adjacent = [i \in 0 .. DescMax - 1 |-> Adjacent[i]]
    BY DEF Adjacent
  <2> QED BY <2>1, <2>2 DEF RingType
<1>5. \A i \in 0 .. DescMax - 1 : Adjacent[i] # None <=> i \in Transfer
  BY <1>1, <1>2, <1>3, NoneAssumption DEF RingType
<1> QED BY <1>2, <1>3, <1>4, <1>5

(* Clearing the transfer clears the ring.                                  *)
LEMMA ClearedType ==
  ASSUME TypeOK, \A i \in DOMAIN ring : ring[i] # None <=> i \in Transfer
  PROVE  Cleared \in RingType /\ \A i \in DOMAIN Cleared : Cleared[i] = None
<1>1. ring \in RingType
  BY DEF TypeOK, RingType
<1>2. \A i \in 0 .. DescMax - 1 : Cleared[i] = None
  BY <1>1 DEF Cleared, RingType
<1>3. DOMAIN Cleared = 0 .. DescMax - 1
  BY DEF Cleared
<1>4. Cleared \in RingType
  BY <1>2 DEF Cleared, RingType
<1> QED BY <1>2, <1>3, <1>4

(* The steps of a frame.                                                   *)
Steps == {"idle", "compose", "map", "count", "build", "fill", "queue", "run"}

(* Why a frame may be refused.                                             *)
Reasons == {"none", "copy", "blend", "lines", "descriptors", "busy", "fault",
            "timeout"}

(* The types of the ring and its counters.                                 *)
EngineType ==
  /\ ring \in RingType /\ idx \in 0 .. DescMax - 1
  /\ first \in 0 .. DescMax - 1 /\ used \in 0 .. DescMax /\ count \in Nat

(* The type invariant gives these types.                                   *)
LEMMA TypeSplit ==
  TypeOK => EngineType /\ pc \in Steps /\ why \in Reasons
BY DEF TypeOK, EngineType, RingType, Steps, Reasons

(* A step that leaves the planes keeps the type invariant where it keeps   *)
(* the engine's types.                                                     *)
LEMMA TypeKept ==
  ASSUME TypeOK, UNCHANGED imgVars, pc' \in Steps, why' \in Reasons,
         EngineType', aborted' \in BOOLEAN
  PROVE  TypeOK'
BY DEF TypeOK, EngineType, RingType, Steps, Reasons, imgVars, Lines

(* A commit keeps the types.                                               *)
LEMMA FlushType ==
  ASSUME TypeOK, NEW m \in Modes, NEW p \in Primaries,
         NEW o \in Overlays \cup {None}, Flush(m, p, o)
  PROVE  TypeOK'
<1>1. frame' \in 0 .. MaxFrames
  <2>1. frame \in 0 .. MaxFrames /\ frame < MaxFrames /\ frame' = frame + 1
    BY DEF TypeOK, Flush
  <2>2. MaxFrames \in Nat
    BY SizesAssumption
  <2> QED BY <2>1, <2>2
<1>2. /\ mode' = m /\ primary' = p /\ overlay' = o /\ pc' = "compose"
      /\ why' = "none" /\ lines' = lines
      /\ UNCHANGED <<count, ring, idx, used, first, aborted>>
  BY DEF Flush, ringVars, hwVars, restVars
<1> QED BY <1>1, <1>2 DEF TypeOK, Lines

(* Composition keeps the types.                                            *)
LEMMA ComposeType ==
  ASSUME TypeOK, ComposeFrame
  PROVE  TypeOK'
<1>1. /\ UNCHANGED <<mode, primary, overlay, frame, count, ring, idx, used,
                     first, aborted>>
      /\ pc' \in {"idle", "map"} /\ why' \in {"copy", "blend", why}
      /\ lines' \in {lines, CopyPrimary, BlendOverlay(CopyPrimary)}
  BY DEF ComposeFrame, Refuse, ringVars, hwVars, restVars
<1>2. /\ DOMAIN lines' = Lines
      /\ \A y \in Lines : DOMAIN lines'[y] = 0 .. MaxW - 1
  BY <1>1, ComposedType DEF TypeOK
<1> QED BY <1>1, <1>2 DEF TypeOK, Lines

(* What a frame past composition knows of the engine.                      *)
LEMMA PlacedFacts ==
  ASSUME FrameInv, pc \in Placed
  PROVE  /\ mode \in Modes /\ EngineType /\ count = Total /\ count \in Nat
         /\ count >= 1 /\ count <= DescMax /\ first + count <= DescMax
         /\ DescMax \in Nat /\ DescMax >= 1 /\ first \in Nat
         /\ used = IF pc = "fill" THEN 0 ELSE count
         /\ Transfer = first .. first + count - 1
         /\ Transfer \subseteq 0 .. DescMax - 1
         /\ DOMAIN ring = 0 .. DescMax - 1
         /\ \A i \in 0 .. DescMax - 1 : ring[i] # None <=> i \in Transfer
         /\ \A i \in Transfer : ring[i] \in Entries
<1>1. TypeOK /\ EngineType /\ mode \in Modes
  BY TypeSplit DEF FrameInv, TypeOK
<1>2. /\ count = Total /\ count <= DescMax /\ first + count <= DescMax
      /\ used = IF pc = "fill" THEN 0 ELSE count
      /\ \A i \in DOMAIN ring : ring[i] # None <=> i \in Transfer
  BY DEF FrameInv, RingInv
<1>3. DescMax \in Nat /\ DescMax >= 1
  BY SizesAssumption
<1>4. DOMAIN ring = 0 .. DescMax - 1
  BY <1>1 DEF EngineType, RingType
<1>5. count \in Nat /\ first \in Nat
  BY <1>1, <1>3 DEF EngineType
<1>6. count >= 1
  <2>1. 0 \in 0 .. Total
    BY <1>1, AddrZero
  <2> QED BY <1>1, <1>2, <2>1, Place
<1>7. Transfer = first .. first + count - 1
  BY DEF Transfer
<1>8. Transfer \subseteq 0 .. DescMax - 1
  BY <1>2, <1>3, <1>5, <1>7
<1>9. \A i \in Transfer : ring[i] \in Entries
  BY <1>1, <1>2, <1>4, <1>8 DEF EngineType, RingType
<1> QED BY <1>1, <1>2, <1>3, <1>4, <1>5, <1>6, <1>7, <1>8, <1>9

(* Where the transfer goes there is room for it.                           *)
LEMMA StartInside ==
  ASSUME EngineType, count <= DescMax
  PROVE  /\ RingStart \in 0 .. DescMax - 1 /\ RingStart + count <= DescMax
BY SizesAssumption DEF EngineType, RingStart

(* Every step keeps the types.                                             *)
LEMMA StepType ==
  ASSUME FrameInv, Next
  PROVE  TypeOK'
<1>1. TypeOK /\ EngineType /\ pc \in Steps /\ why \in Reasons
  BY TypeSplit DEF FrameInv
<1>0. aborted' \in BOOLEAN
  <2>1. aborted \in BOOLEAN
    BY <1>1 DEF TypeOK
  <2>2. aborted' \in {aborted, TRUE, FALSE}
    BY DEF Next, Flush, ComposeFrame, MapFrame, CountPiece, CountDone,
           BuildTransfer, FillPiece, FillDone, QueueTransfer, HwSend,
           Completion, HwDrain, HwStop, hwVars, restVars
  <2> QED BY <2>1, <2>2
<1>2. CASE \E m \in Modes, p \in Primaries, o \in Overlays \cup {None} :
             Flush(m, p, o)
  BY <1>1, <1>2, FlushType
<1>3. CASE ComposeFrame
  BY <1>1, <1>3, ComposeType
<1>4. CASE MapFrame
  <2>1. /\ UNCHANGED imgVars /\ UNCHANGED <<count, ring, idx, used, first>>
        /\ pc' \in Steps /\ why' \in Reasons
    BY <1>1, <1>4 DEF MapFrame, Refuse, ringVars, Steps, Reasons
  <2>2. EngineType'
    BY <1>1, <2>1 DEF EngineType, RingType
  <2> QED BY <1>1, <2>1, <2>2, <1>0, TypeKept
<1>5. CASE CountPiece
  <2>1. /\ UNCHANGED imgVars /\ UNCHANGED <<ring, idx, used, first>>
        /\ pc' \in Steps /\ why' \in Reasons /\ count' \in {count, 0}
    BY <1>1, <1>5 DEF CountPiece, Refuse, Unmapped, ringVars, Steps, Reasons
  <2>2. EngineType'
    BY <1>1, <2>1 DEF EngineType, RingType
  <2> QED BY <1>1, <2>1, <2>2, <1>0, TypeKept
<1>6. CASE CountDone
  <2>1. /\ UNCHANGED imgVars /\ UNCHANGED <<ring, idx, used, first>>
        /\ pc' \in Steps /\ why' \in Reasons /\ count' \in {loop.n, 0}
    BY <1>1, <1>6 DEF CountDone, Refuse, Unmapped, ringVars, Steps, Reasons
  <2>2. loop.n \in Nat
    <3>1. mode \in Modes /\ LoopAt(loop)
      BY <1>1, <1>6 DEF FrameInv, LoopInv, CountDone, TypeOK
    <3>2. loop.n \in 0 .. Total
      BY <3>1 DEF LoopAt
    <3> QED BY <3>1, <3>2, Place
  <2>3. EngineType'
    BY <1>1, <2>1, <2>2 DEF EngineType, RingType
  <2> QED BY <1>1, <2>1, <2>3, <1>0, TypeKept
<1>7. CASE BuildTransfer
  <2>1. /\ UNCHANGED imgVars /\ UNCHANGED used
        /\ pc' \in Steps /\ why' \in Reasons /\ count' \in {count, 0}
        /\ \/ UNCHANGED <<ring, idx, first>>
           \/ /\ idx' = RingStart /\ first' = RingStart
              /\ ring' = Linked(RingStart)
    BY <1>1, <1>7 DEF BuildTransfer, Refuse, Unmapped, ringVars, Steps, Reasons
  <2>2. count <= DescMax
    BY <1>7 DEF FrameInv, RingInv, BuildTransfer
  <2>3. RingStart \in 0 .. DescMax - 1
    BY <1>1, <2>2, StartInside
  <2>4. Linked(RingStart) \in RingType
    BY <1>1, <2>3, LinkedType DEF EngineType
  <2>5. EngineType'
    BY <1>1, <2>1, <2>3, <2>4 DEF EngineType, RingType
  <2> QED BY <1>1, <2>1, <2>5, <1>0, TypeKept
<1>8. CASE FillPiece
  <2>1. /\ UNCHANGED imgVars /\ UNCHANGED <<pc, why, count, idx, used, first>>
    BY <1>8 DEF FillPiece
  <2>2. ring' \in RingType
    BY <1>8, FilledType
  <2>3. EngineType'
    BY <1>1, <2>1, <2>2 DEF EngineType, RingType
  <2> QED BY <1>1, <2>1, <2>3, <1>0, TypeKept
<1>9. CASE FillDone
  <2>1. /\ UNCHANGED imgVars /\ UNCHANGED <<why, count, first>>
        /\ pc' \in Steps /\ ring' = Adjacent /\ idx' = Advance(first)
        /\ used' = used + count /\ pc = "fill"
    BY <1>9 DEF FillDone, Steps
  <2>2. pc \in Placed
    BY <2>1 DEF Placed
  <2>3. /\ count \in Nat /\ count <= DescMax /\ first + count <= DescMax
        /\ used = 0 /\ DescMax \in Nat /\ DescMax >= 1 /\ first \in Nat
        /\ \A i \in DOMAIN ring : ring[i] # None <=> i \in Transfer
    BY <2>1, <2>2, PlacedFacts
  <2>4. Adjacent \in RingType
    BY <1>1, <2>3, AdjacentType
  <2>5. idx' \in 0 .. DescMax - 1
    <3>1. first + count \in Nat
      BY <2>3
    <3>2. (first + count) % DescMax \in 0 .. DescMax - 1
      BY <2>3, <3>1, DivSplit
    <3> QED BY <2>1, <3>2 DEF Advance
  <2>6. used' \in 0 .. DescMax
    BY <2>1, <2>3
  <2>7. EngineType'
    BY <1>1, <2>1, <2>4, <2>5, <2>6 DEF EngineType, RingType
  <2> QED BY <1>1, <2>1, <2>7, <1>0, TypeKept
<1>10. CASE QueueTransfer \/ HwSend \/ Completion
  <2>1. /\ UNCHANGED imgVars /\ UNCHANGED <<idx, first>>
        /\ pc' \in Steps /\ why' \in Reasons /\ count' \in {count, 0}
        /\ ring' \in {ring, Cleared} /\ used' \in {used, used - count}
        /\ pc \in {"queue", "run"}
    <3>1. CASE QueueTransfer
      BY <1>1, <3>1 DEF QueueTransfer, Refuse, Unmapped, Steps, Reasons
    <3>2. CASE HwSend
      BY <1>1, <3>2 DEF HwSend, ringVars
    <3>3. CASE Completion
      BY <1>1, <3>3 DEF Completion, Unmapped, Steps, Reasons
    <3> QED BY <1>10, <3>1, <3>2, <3>3
  <2>2. pc \in Placed
    BY <2>1 DEF Placed
  <2>3. /\ used = count /\ count \in Nat /\ DescMax \in Nat
        /\ \A i \in DOMAIN ring : ring[i] # None <=> i \in Transfer
    BY <2>1, <2>2, PlacedFacts
  <2>4. Cleared \in RingType
    BY <1>1, <2>3, ClearedType
  <2>5. used' \in 0 .. DescMax
    BY <1>1, <2>1, <2>3 DEF EngineType
  <2>6. EngineType'
    BY <1>1, <2>1, <2>4, <2>5 DEF EngineType, RingType
  <2> QED BY <1>1, <2>1, <2>6, <1>0, TypeKept
<1>11. CASE HwDrain \/ HwStop
  <2>1. UNCHANGED <<pc, why, imgVars, count, ring, idx, used, first>>
    BY <1>11 DEF HwDrain, HwStop, ringVars
  <2>2. EngineType'
    BY <1>1, <2>1 DEF EngineType, RingType
  <2> QED BY <1>1, <2>1, <2>2, <1>0, TypeKept
<1> QED BY <1>2, <1>3, <1>4, <1>5, <1>6, <1>7, <1>8, <1>9, <1>10, <1>11
        DEF Next

-----------------------------------------------------------------------------
(* The inductive invariant, step by step.                                  *)

(* What the descriptors say and what was sent depend on the planes and the *)
(* mode alone.                                                             *)
LEMMA SentKept ==
  ASSUME UNCHANGED imgVars, NEW k
  PROVE  (Sent(k))' = Sent(k) /\ (DescOf(k))' = DescOf(k) /\ Total' = Total
<1>1. UNCHANGED <<mode, primary, overlay, frame>>
  BY DEF imgVars
<1>2. (Sent(k))' = Sent(k)
  BY <1>1, ZenonT(40)
     DEF Sent, LineOf, PartOf, PerLine, Shown, InRect, Pixel
<1>3. (DescOf(k))' = DescOf(k) /\ Total' = Total
  BY <1>1 DEF DescOf, LineOf, PartOf, PerLine, Total
<1> QED BY <1>2, <1>3

(* Nothing is left of a frame that has gone.                               *)
LEMMA IdleAgain ==
  ASSUME TypeOK', pc' = "idle", used' = 0,
         \A i \in DOMAIN ring' : ring'[i] = None,
         stream' = <<>>, fetch' = Nothing, taken' = 0
  PROVE  FrameInv'
BY DEF FrameInv, PlaneInv, LinesInv, SgInv, LoopInv, RingInv, DescInv, SendInv,
       Placed, Nothing

(* The steps past composition.                                             *)
Mapped == {"map", "count", "build", "fill", "queue", "run"}

(* A step that leaves the planes and the lines leaves what they show.      *)
LEMMA ImageKept ==
  ASSUME FrameInv, UNCHANGED imgVars, UNCHANGED why, pc \in Mapped,
         pc' \in Mapped
  PROVE  PlaneInv' /\ LinesInv'
<1>1. UNCHANGED <<mode, primary, overlay, frame, lines>>
  BY DEF imgVars
<1>2. PlaneInv /\ LinesInv /\ pc \notin {"idle", "compose"} /\ pc' # "idle"
  BY DEF FrameInv, Mapped
<1>3. PlaneInv'
  BY <1>1, <1>2 DEF PlaneInv, PrimaryCheck, OverlayCheck, SourceInside,
                    CheckFb, Primaries
<1>4. LinesInv'
  BY <1>1, <1>2 DEF LinesInv, Shown, InRect, Pixel
<1> QED BY <1>3, <1>4

(* A step that leaves the scatter list leaves its segments.                *)
LEMMA SgKept ==
  ASSUME SgInv, UNCHANGED <<mode, sg>>, pc \in {"count", "build", "fill"}
  PROVE  SgInv'
BY DEF SgInv

(* A loop that has come to where one may be.                               *)
LEMMA LoopKept ==
  ASSUME NEW STATE l, LoopAt(l), UNCHANGED <<mode, sg>>, loop' = l
  PROVE  LoopInv'
BY DEF LoopInv, LoopAt, DescOf, LineOf, PartOf, PerLine, Total

(* The engine is at rest while a frame is composed, mapped and counted.    *)
AtRest ==
  /\ used = 0 /\ \A i \in DOMAIN ring : ring[i] = None
  /\ stream = <<>> /\ fetch = Nothing /\ taken = 0

(* A step that leaves the engine leaves it at rest.                        *)
LEMMA RestKept ==
  ASSUME AtRest, UNCHANGED <<ring, used, hwVars>>
  PROVE  AtRest'
BY DEF AtRest, hwVars

(* With no transfer the engine is at rest.                                 *)
LEMMA RestInv ==
  ASSUME FrameInv, pc \notin Placed
  PROVE  AtRest
BY DEF AtRest, FrameInv, RingInv, SendInv, Placed

(* The invariant holds at first.                                           *)
LEMMA InitInv ==
  ASSUME Init
  PROVE  FrameInv
<1>1. TypeOK
  BY InitType
<1>2. AtRest
  BY DEF Init, AtRest
<1> QED BY <1>1, <1>2 DEF FrameInv, PlaneInv, LinesInv, SgInv, LoopInv,
             RingInv, DescInv, SendInv, Placed, AtRest, Init

(* A commit starts a frame with the engine at rest.                        *)
LEMMA FlushKeeps ==
  ASSUME FrameInv, TypeOK', NEW m \in Modes, NEW p \in Primaries,
         NEW o \in Overlays \cup {None}, Flush(m, p, o)
  PROVE  FrameInv'
<1>1. /\ pc = "idle" /\ pc' = "compose" /\ PrimaryCheck(m, p)
      /\ o # None => OverlayCheck(m, o)
      /\ mode' = m /\ primary' = p /\ overlay' = o /\ why' = "none"
      /\ UNCHANGED <<ring, used, hwVars>>
  BY DEF Flush, ringVars
<1>2. AtRest'
  BY <1>1, RestInv, RestKept DEF Placed
<1>4. PlaneInv'
  <2>1. PrimaryCheck(mode, primary)'
    BY <1>1 DEF PrimaryCheck, SourceInside, CheckFb
  <2>2. overlay' # None => OverlayCheck(mode, overlay)'
    BY <1>1 DEF OverlayCheck, SourceInside, CheckFb
  <2>3. primary' \in Primaries'
    BY <1>1 DEF Primaries
  <2> QED BY <1>1, <2>1, <2>2, <2>3 DEF PlaneInv
<1> QED BY <1>1, <1>2, <1>4 DEF FrameInv, LinesInv, SgInv, LoopInv, RingInv,
             DescInv, SendInv, Placed, AtRest

(* The line buffers hold what the commit shows, or the frame is refused.   *)
LEMMA ComposeKeeps ==
  ASSUME FrameInv, TypeOK', ComposeFrame
  PROVE  FrameInv'
<1>1. /\ pc = "compose" /\ UNCHANGED <<mode, primary, overlay, frame>>
      /\ UNCHANGED <<ring, used, hwVars>>
  BY DEF ComposeFrame, ringVars
<1>2. AtRest'
  BY <1>1, RestInv, RestKept DEF Placed
<1>3. CASE pc' = "idle"
  BY <1>2, <1>3, IdleAgain DEF AtRest
<1>4. CASE pc' # "idle"
  <2>1. /\ CopyChecks /\ pc' = "map" /\ why' = why
        /\ lines' = IF overlay = None THEN CopyPrimary
                    ELSE BlendOverlay(CopyPrimary)
    BY <1>4 DEF ComposeFrame, Refuse
  <2>2. TypeOK /\ PlaneInv
    BY DEF FrameInv
  <2>3. ASSUME NEW y \in 0 .. mode.h - 1, NEW x \in 0 .. mode.w - 1
        PROVE  lines'[y][x] = Shown(x, y)
    BY <1>1, <2>1, <2>2, Composed
  <2>4. LinesInv'
    BY <1>1, <2>3 DEF LinesInv, Shown, InRect, Pixel
  <2>5. PlaneInv'
    BY <1>1, <2>1, <2>2 DEF PlaneInv, PrimaryCheck, OverlayCheck, SourceInside,
                            CheckFb, Primaries
  <2> QED BY <1>2, <2>1, <2>4, <2>5 DEF FrameInv, SgInv, LoopInv, RingInv,
               DescInv, SendInv, Placed, AtRest
<1> QED BY <1>3, <1>4

(* The mapping merges whole lines.                                         *)
LEMMA MapKeeps ==
  ASSUME FrameInv, TypeOK', MapFrame
  PROVE  FrameInv'
<1>1. /\ pc = "map" /\ UNCHANGED imgVars /\ UNCHANGED <<ring, used, hwVars>>
  BY DEF MapFrame, ringVars
<1>2. AtRest'
  BY <1>1, RestInv, RestKept DEF Placed
<1>3. CASE pc' = "idle"
  BY <1>2, <1>3, IdleAgain DEF AtRest
<1>4. CASE pc' # "idle"
  <2>1. pc' = "count" /\ UNCHANGED why /\ loop' = LoopStart
    BY <1>4 DEF MapFrame, Refuse
  <2>2. PICK n \in 1 .. mode.h : \E end \in [0 .. n -> 0 .. mode.h] :
          /\ end[0] = 0 /\ end[n] = mode.h
          /\ \A i \in 1 .. n : end[i - 1] < end[i]
          /\ sg' = [i \in 1 .. n |->
                      [addr |-> end[i - 1] * mode.w,
                       len |-> (end[i] - end[i - 1]) * mode.w]]
    BY <1>4 DEF MapFrame, Refuse
  <2>3. Len(sg') = n
    <3>1. n \in Nat
      BY Sizes DEF FrameInv, TypeOK
    <3>2. PICK end \in [0 .. n -> 0 .. mode.h] :
            sg' = [i \in 1 .. n |->
                     [addr |-> end[i - 1] * mode.w,
                      len |-> (end[i] - end[i - 1]) * mode.w]]
      BY <2>2
    <3> DEFINE e(i) == [addr |-> end[i - 1] * mode.w,
                        len |-> (end[i] - end[i - 1]) * mode.w]
    <3>3. [i \in 1 .. n |-> e(i)] \in [1 .. n -> {e(i) : i \in 1 .. n}]
      OBVIOUS
    <3>4. sg' = [i \in 1 .. n |-> e(i)]
      BY <3>2
    <3> HIDE DEF e
    <3> QED BY <3>1, <3>3, <3>4, FunSeq
  <2>4. mode' = mode
    BY <1>1 DEF imgVars
  <2>5. SgInv'
    BY <2>1, <2>2, <2>3, <2>4 DEF SgInv
  <2>6. LoopInv'
    <3>1. (mode \in Modes /\ SgInv /\ pc \in {"count", "build", "fill"})'
      BY <2>1, <2>5 DEF TypeOK
    <3>2. LoopAt(LoopStart)'
      BY <3>1, StartAt, PTL
    <3>3. loop' = LoopStart'
      BY <2>1, <2>4 DEF LoopStart
    <3> QED BY <3>2, <3>3 DEF LoopInv
  <2>7. PlaneInv' /\ LinesInv'
    BY <1>1, <2>1, ImageKept DEF Mapped
  <2> QED BY <1>2, <2>1, <2>5, <2>6, <2>7 DEF FrameInv, RingInv, DescInv,
               SendInv, Placed, AtRest
<1> QED BY <1>3, <1>4

(* A refusal leaves the engine as it was.                                  *)
LEMMA RefusedKeeps ==
  ASSUME FrameInv, TypeOK', pc \notin Placed, pc' = "idle",
         UNCHANGED <<ring, used, hwVars>>
  PROVE  FrameInv'
<1>1. AtRest'
  BY RestInv, RestKept
<1> QED BY <1>1, IdleAgain DEF AtRest

(* Counting a piece moves the loop to the next descriptor.                 *)
LEMMA CountPieceKeeps ==
  ASSUME FrameInv, TypeOK', CountPiece
  PROVE  FrameInv'
<1>1. /\ pc = "count" /\ UNCHANGED imgVars /\ UNCHANGED <<ring, used, hwVars>>
      /\ loop.seg <= Len(sg) /\ pc \notin Placed
  BY DEF CountPiece, ringVars, Placed
<1>2. SgInv /\ LoopAt(loop) /\ mode \in Modes
  BY <1>1 DEF FrameInv, LoopInv, TypeOK
<1>3. CASE pc' = "idle"
  BY <1>1, <1>3, RefusedKeeps
<1>4. CASE pc' # "idle"
  <2>1. pc' = "count" /\ loop' = Passed(Piece) /\ UNCHANGED <<why, sg, count>>
    BY <1>1, <1>4 DEF CountPiece, Refuse
  <2>2. LoopAt(Passed(Piece))
    BY <1>1, <1>2, PassedAt
  <2>3. mode' = mode
    BY <1>1 DEF imgVars
  <2>4. LoopInv'
    <3> DEFINE l == Passed(Piece)
    <3>1. LoopAt(l) /\ loop' = l /\ UNCHANGED <<mode, sg>>
      BY <2>1, <2>2, <2>3
    <3> HIDE DEF l
    <3> QED BY <3>1, LoopKept
  <2>5. SgInv'
    BY <1>1, <1>2, <2>1, <2>3, SgKept
  <2>6. PlaneInv' /\ LinesInv'
    BY <1>1, <2>1, ImageKept DEF Mapped
  <2>7. AtRest'
    BY <1>1, RestInv, RestKept
  <2> QED BY <2>1, <2>4, <2>5, <2>6, <2>7 DEF FrameInv, RingInv, DescInv,
               SendInv, Placed, AtRest
<1> QED BY <1>3, <1>4

(* What was counted is one descriptor for every piece of every line.       *)
LEMMA CountDoneKeeps ==
  ASSUME FrameInv, TypeOK', CountDone
  PROVE  FrameInv'
<1>1. /\ pc = "count" /\ UNCHANGED imgVars /\ UNCHANGED <<ring, used, hwVars>>
      /\ loop.seg > Len(sg) /\ pc \notin Placed
  BY DEF CountDone, ringVars, Placed
<1>2. SgInv /\ LoopAt(loop) /\ mode \in Modes
  BY <1>1 DEF FrameInv, LoopInv, TypeOK
<1>3. CASE pc' = "idle"
  BY <1>1, <1>3, RefusedKeeps
<1>4. CASE pc' # "idle"
  <2>1. /\ pc' = "build" /\ count' = loop.n /\ UNCHANGED <<why, sg>>
        /\ ~(loop.n > DescMax)
    BY <1>4 DEF CountDone, Refuse
  <2>2. loop.n = Total
    BY <1>1, <1>2, EndAt
  <2>3. mode' = mode
    BY <1>1 DEF imgVars
  <2>4. count' = Total' /\ count' <= DescMax
    <3>1. Total' = Total
      BY <1>1, SentKept
    <3>2. 0 \in 0 .. Total
      BY <1>2, AddrZero
    <3>3. Total \in Nat /\ DescMax \in Nat
      BY <1>2, <3>2, Place, SizesAssumption
    <3> QED BY <2>1, <2>2, <3>1, <3>3
  <2>5. SgInv'
    BY <1>1, <1>2, <2>1, <2>3, SgKept
  <2>6. PlaneInv' /\ LinesInv'
    BY <1>1, <2>1, ImageKept DEF Mapped
  <2>7. AtRest'
    BY <1>1, RestInv, RestKept
  <2> QED BY <2>1, <2>4, <2>5, <2>6, <2>7 DEF FrameInv, LoopInv, RingInv,
               DescInv, SendInv, Placed, AtRest
<1> QED BY <1>3, <1>4

(* The transfer has its place in the ring, linked and empty.               *)
LEMMA BuildKeeps ==
  ASSUME FrameInv, TypeOK', BuildTransfer
  PROVE  FrameInv'
<1>1. /\ pc = "build" /\ UNCHANGED imgVars /\ UNCHANGED hwVars
      /\ pc \notin Placed
  BY DEF BuildTransfer, Placed
<1>2. /\ SgInv /\ mode \in Modes /\ TypeOK /\ EngineType /\ count = Total
      /\ count <= DescMax /\ used = 0 /\ \A i \in DOMAIN ring : ring[i] = None
  BY <1>1, TypeSplit DEF FrameInv, TypeOK, RingInv, Placed
<1>3. /\ pc' = "fill" /\ loop' = LoopStart /\ first' = RingStart
      /\ ring' = Linked(RingStart) /\ UNCHANGED <<why, sg, count, used>>
  BY <1>2 DEF BuildTransfer
<1>4. mode' = mode
  BY <1>1 DEF imgVars
<1>5. Total' = Total /\ count \in Nat
  BY <1>1, <1>2, SentKept DEF EngineType
<1>6. SgInv'
  BY <1>1, <1>2, <1>3, <1>4, SgKept
<1>7. LoopInv'
  <2>1. LoopAt(LoopStart)
    BY <1>1, <1>2, StartAt
  <2> DEFINE l == LoopStart
  <2>2. LoopAt(l) /\ loop' = l /\ UNCHANGED <<mode, sg>>
    BY <1>3, <1>4, <2>1
  <2> HIDE DEF l
  <2> QED BY <2>2, LoopKept
<1>8. PlaneInv' /\ LinesInv'
  BY <1>1, <1>3, ImageKept DEF Mapped
<1>9. RingStart \in 0 .. DescMax - 1 /\ RingStart + count <= DescMax
  BY <1>2, StartInside
<1> DEFINE s == RingStart
           T == s .. s + count - 1
<1>10. Transfer' = T
  BY <1>3 DEF Transfer
<1>11. /\ DOMAIN ring' = 0 .. DescMax - 1
       /\ \A i \in 0 .. DescMax - 1 :
            /\ i \in T => /\ ring'[i] # None
                          /\ ring'[i].next =
                               IF i < s + count - 1 THEN i + 1 ELSE 0
            /\ i \notin T => ring'[i] = ring[i]
  BY <1>2, <1>3, <1>5, <1>9, LinkedType DEF RingType
<1>12. DOMAIN ring = 0 .. DescMax - 1 /\ DescMax \in Nat
  BY <1>2, SizesAssumption DEF EngineType, RingType
<1>13. T \subseteq 0 .. DescMax - 1
  BY <1>5, <1>9, <1>12
<1>14. stream' = <<>> /\ fetch' = Nothing /\ taken' = 0
  BY <1>1 DEF FrameInv, SendInv, hwVars
<1>15. RingInv'
  <2>1. \A i \in DOMAIN ring' : ring'[i] # None <=> i \in T
    BY <1>2, <1>11, <1>12
  <2> HIDE DEF T, s
  <2>2. (first + count)' <= DescMax
    BY <1>3, <1>9 DEF s
  <2> QED BY <1>2, <1>3, <1>5, <1>10, <2>1, <2>2 DEF RingInv, Placed
<1>16. DescInv'
  <2>1. Filled' = 0
    BY <1>3 DEF Filled, LoopStart
  <2>2. \A i \in T : ~(i - s < 0)
    BY <1>5, <1>9
  <2>3. \A i \in T : ring'[i].next = IF i < s + count - 1 THEN i + 1 ELSE 0
    BY <1>11, <1>13
  <2>4. first' = s /\ count' = count
    BY <1>3
  <2> HIDE DEF T, s
  <2> QED BY <1>3, <1>10, <2>1, <2>2, <2>3, <2>4 DEF DescInv
<1>17. SendInv'
  BY <1>3, <1>14 DEF SendInv
<1> QED BY <1>6, <1>7, <1>8, <1>15, <1>16, <1>17 DEF FrameInv

(* The piece's descriptor says what its place says.                        *)
LEMMA FillPieceKeeps ==
  ASSUME FrameInv, TypeOK', FillPiece
  PROVE  FrameInv'
<1>1. /\ pc = "fill" /\ pc' = "fill" /\ UNCHANGED imgVars /\ UNCHANGED hwVars
      /\ UNCHANGED <<sg, count, used, first, why>> /\ loop' = Passed(Piece)
      /\ loop.seg <= Len(sg) /\ pc \in Placed
  BY DEF FillPiece, Placed
<1>2. SgInv /\ LoopAt(loop) /\ mode \in Modes /\ TypeOK
  BY <1>1 DEF FrameInv, LoopInv, TypeOK
<1>3. mode' = mode
  BY <1>1 DEF imgVars
<1>4. /\ EngineType /\ count = Total /\ count \in Nat
      /\ count >= 1 /\ count <= DescMax /\ first + count <= DescMax
      /\ DescMax \in Nat /\ first \in Nat /\ used = 0
      /\ Transfer = first .. first + count - 1
      /\ Transfer \subseteq 0 .. DescMax - 1
      /\ DOMAIN ring = 0 .. DescMax - 1
      /\ \A i \in 0 .. DescMax - 1 : ring[i] # None <=> i \in Transfer
      /\ \A i \in Transfer : ring[i] \in Entries
  BY <1>1, PlacedFacts
<1> DEFINE k == loop.n
           c == first + k
           e == ring[c]
           f == [e EXCEPT !.desc = DescOf(k), !.stop = (k = count - 1)]
<1>5. /\ k \in 0 .. count - 1 /\ c \in Transfer /\ c \in 0 .. DescMax - 1
      /\ ring' \in RingType /\ ring'[c] = f
      /\ \A i \in 0 .. DescMax - 1 \ {c} : ring'[i] = ring[i]
  BY FilledType
<1>6. LoopAt(Passed(Piece)) /\ Passed(Piece).n = loop.n + 1
  BY <1>1, <1>2, PassedAt
<1>7. LoopInv'
  <2> DEFINE l == Passed(Piece)
  <2>1. LoopAt(l) /\ loop' = l /\ UNCHANGED <<mode, sg>>
    BY <1>1, <1>3, <1>6
  <2> HIDE DEF l
  <2> QED BY <2>1, LoopKept
<1>8. SgInv'
  BY <1>1, <1>2, <1>3, SgKept
<1>9. PlaneInv' /\ LinesInv'
  BY <1>1, ImageKept DEF Mapped
<1>10. e \in Entries
  BY <1>4, <1>5
<1>11. f \in Entries /\ f.next = e.next /\ f.desc = DescOf(k)
       /\ f.stop = (k = count - 1)
  <2>1. f.next = e.next /\ f.desc = DescOf(k) /\ f.stop = (k = count - 1)
    BY <1>10 DEF Entries
  <2>2. DescOf(k) \in [addr : Nat, len : Nat, eop : BOOLEAN]
    <3>1. k \in 0 .. Total - 1
      BY <1>4, <1>5
    <3>2. DescOf(k).addr \in Nat /\ DescOf(k).len \in Nat
      BY <1>2, <3>1, NextDesc
    <3> QED BY <3>2 DEF DescOf
  <2> HIDE DEF e
  <2> QED BY <1>10, <2>1, <2>2 DEF Entries
<1>12. Transfer' = Transfer /\ Total' = Total
  BY <1>1, SentKept DEF Transfer
<1> HIDE DEF f, e, c
<1>13. DOMAIN ring' = 0 .. DescMax - 1
  BY <1>5 DEF RingType
<1>14. RingInv'
  <2>1. \A i \in 0 .. DescMax - 1 : ring'[i] # None <=> i \in Transfer
    <3> SUFFICES ASSUME NEW i \in 0 .. DescMax - 1
                 PROVE  ring'[i] # None <=> i \in Transfer
      OBVIOUS
    <3>1. CASE i = c
      BY <1>5, <1>11, <3>1, NoneAssumption
    <3>2. CASE i # c
      BY <1>4, <1>5, <3>2
    <3> QED BY <3>1, <3>2
  <2>2. first' + count' <= DescMax /\ count' <= DescMax
    BY <1>1, <1>4
  <2> QED BY <1>1, <1>4, <1>12, <1>13, <2>1, <2>2 DEF RingInv, Placed
<1>15. DescInv'
  <2>1. DescInv
    BY DEF FrameInv
  <2>2. Filled = k /\ Filled' = k + 1
    BY <1>1, <1>6 DEF Filled
  <2>3. ASSUME NEW i \in Transfer
        PROVE  /\ ring'[i].next = IF i < first + count - 1 THEN i + 1 ELSE 0
               /\ i - first < k + 1 =>
                    /\ ring'[i].desc = DescOf(i - first)
                    /\ ring'[i].stop = (i = first + count - 1)
    <3>1. i \in Int /\ k \in Nat /\ c = first + k /\ i \in 0 .. DescMax - 1
      BY <1>4, <1>5 DEF c
    <3>2. CASE i = c
      <4>1. ring'[i] = f /\ i - first = k
        BY <1>4, <1>5, <3>1, <3>2
      <4>2. e.next = IF i < first + count - 1 THEN i + 1 ELSE 0
        BY <1>1, <2>1, <3>2 DEF DescInv, e
      <4>3. (k = count - 1) = (i = first + count - 1)
        BY <1>4, <3>1, <3>2
      <4> QED BY <1>11, <4>1, <4>2, <4>3
    <3>3. CASE i # c
      <4>1. ring'[i] = ring[i]
        BY <1>5, <3>1, <3>3
      <4>2. i - first < k + 1 => i - first < k
        BY <1>4, <3>1, <3>3
      <4> QED BY <1>1, <2>1, <2>2, <4>1, <4>2 DEF DescInv
    <3> QED BY <3>2, <3>3
  <2>4. ASSUME NEW i \in Transfer
        PROVE  (DescOf(i - first))' = DescOf(i - first)
    BY <1>1, <1>3 DEF DescOf, LineOf, PartOf, PerLine
  <2> QED BY <1>1, <1>12, <2>2, <2>3, <2>4 DEF DescInv
<1>16. SendInv'
  BY <1>1 DEF FrameInv, SendInv, hwVars
<1> QED BY <1>7, <1>8, <1>9, <1>14, <1>15, <1>16 DEF FrameInv

(* A transfer that is filled has all its descriptors.                      *)
LEMMA FillDoneKeeps ==
  ASSUME FrameInv, TypeOK', FillDone
  PROVE  FrameInv'
<1>1. /\ pc = "fill" /\ pc' = "queue" /\ UNCHANGED imgVars /\ UNCHANGED hwVars
      /\ UNCHANGED <<sg, loop, count, first, why>> /\ ring' = Adjacent
      /\ used' = used + count /\ loop.seg > Len(sg) /\ pc \in Placed
  BY DEF FillDone, Placed
<1>2. SgInv /\ LoopAt(loop) /\ mode \in Modes /\ TypeOK
  BY <1>1 DEF FrameInv, LoopInv, TypeOK
<1>3. /\ EngineType /\ count = Total /\ count \in Nat
      /\ count >= 1 /\ count <= DescMax /\ first + count <= DescMax
      /\ DescMax \in Nat /\ first \in Nat /\ used = 0
      /\ Transfer = first .. first + count - 1
      /\ Transfer \subseteq 0 .. DescMax - 1
      /\ DOMAIN ring = 0 .. DescMax - 1
      /\ \A i \in 0 .. DescMax - 1 : ring[i] # None <=> i \in Transfer
      /\ \A i \in Transfer : ring[i] \in Entries
  BY <1>1, PlacedFacts
<1>4. loop.n = count
  BY <1>1, <1>2, <1>3, EndAt
<1>5. /\ ring' \in RingType
      /\ \A i \in 0 .. DescMax - 1 :
           /\ i \in Transfer =>
                ring'[i] = [ring[i] EXCEPT !.adj =
                              NextAdj(first + count - i - 1, i + 1)]
           /\ ring'[i] # None <=> i \in Transfer
  BY <1>1, <1>2, <1>3, AdjacentType
<1>6. Transfer' = Transfer /\ Total' = Total
  BY <1>1, SentKept DEF Transfer
<1>7. DOMAIN ring' = 0 .. DescMax - 1
  BY <1>5 DEF RingType
<1>8. PlaneInv' /\ LinesInv'
  BY <1>1, ImageKept DEF Mapped
<1>9. RingInv'
  <2>1. first' + count' <= DescMax /\ count' <= DescMax /\ used' = count'
        /\ count' = Total'
    BY <1>1, <1>3, <1>6
  <2> QED BY <1>1, <1>5, <1>6, <1>7, <2>1 DEF RingInv, Placed
<1>10. DescInv'
  <2>1. DescInv
    BY DEF FrameInv
  <2>2. Filled = count /\ Filled' = count
    BY <1>1, <1>4 DEF Filled
  <2>3. ASSUME NEW i \in Transfer
        PROVE  /\ ring'[i].next = IF i < first + count - 1 THEN i + 1 ELSE 0
               /\ ring'[i].desc = DescOf(i - first)
               /\ ring'[i].stop = (i = first + count - 1)
               /\ ring'[i].adj = NextAdj(first + count - i - 1, i + 1)
    <3> DEFINE a == NextAdj(first + count - i - 1, i + 1)
               e == ring[i]
    <3>1. ring'[i] = [e EXCEPT !.adj = a]
      BY <1>3, <1>5
    <3>2. e \in Entries
      BY <1>3
    <3>3. i - first < count
      BY <1>3
    <3>4. /\ e.next = IF i < first + count - 1 THEN i + 1 ELSE 0
          /\ e.desc = DescOf(i - first) /\ e.stop = (i = first + count - 1)
      BY <1>1, <2>1, <2>2, <3>3 DEF DescInv
    <3> HIDE DEF a, e
    <3>5. /\ ring'[i].next = e.next /\ ring'[i].desc = e.desc
          /\ ring'[i].stop = e.stop /\ ring'[i].adj = a
      BY <3>1, <3>2 DEF Entries
    <3> QED BY <3>4, <3>5 DEF a
  <2>4. ASSUME NEW i \in Transfer
        PROVE  (DescOf(i - first))' = DescOf(i - first)
    <3>1. mode' = mode
      BY <1>1 DEF imgVars
    <3> QED BY <1>1, <3>1 DEF DescOf, LineOf, PartOf, PerLine
  <2> QED BY <1>1, <1>6, <2>2, <2>3, <2>4 DEF DescInv
<1>11. SendInv'
  BY <1>1 DEF FrameInv, SendInv, hwVars
<1> QED BY <1>1, <1>8, <1>9, <1>10, <1>11 DEF FrameInv, SgInv, LoopInv

(* The descriptors of a frame that is queued or sent are all filled.       *)
LEMMA AllFilled ==
  ASSUME FrameInv, pc \in {"queue", "run"}, NEW i \in Transfer
  PROVE  /\ ring[i].next = IF i < first + count - 1 THEN i + 1 ELSE 0
         /\ ring[i].desc = DescOf(i - first)
         /\ ring[i].stop = (i = first + count - 1)
         /\ ring[i].adj = NextAdj(first + count - i - 1, i + 1)
<1>1. pc \in Placed /\ pc # "fill"
  BY DEF Placed
<1>2. count \in Nat /\ first \in Nat
  BY <1>1, PlacedFacts
<1>3. i - first < Filled
  BY <1>1, <1>2 DEF Filled, Transfer
<1> QED BY <1>1, <1>3 DEF FrameInv, DescInv

(* A step of a placed transfer that changes the engine's progress alone.   *)
LEMMA PlacedKept ==
  ASSUME FrameInv, pc \in {"queue", "run"}, pc' = "run", UNCHANGED imgVars,
         UNCHANGED <<ring, used, first, count, why>>
  PROVE  PlaneInv' /\ LinesInv' /\ SgInv' /\ LoopInv' /\ RingInv' /\ DescInv'
<1>1. mode' = mode
  BY DEF imgVars
<1>2. PlaneInv' /\ LinesInv'
  BY ImageKept DEF Mapped
<1>3. RingInv'
  BY <1>1 DEF FrameInv, RingInv, Placed, Transfer, Total, PerLine
<1>4. DescInv'
  BY <1>1 DEF FrameInv, DescInv, Placed, Transfer, Filled, DescOf, LineOf,
              PartOf, PerLine
<1> QED BY <1>2, <1>3, <1>4 DEF SgInv, LoopInv

(* The engine starts at the transfer's first descriptor, or the ring is    *)
(* cleared.                                                                *)
LEMMA QueueKeeps ==
  ASSUME FrameInv, TypeOK', QueueTransfer
  PROVE  FrameInv'
<1>1. pc = "queue" /\ UNCHANGED imgVars /\ UNCHANGED <<first, taken, stream>>
      /\ pc \in Placed
  BY DEF QueueTransfer, Placed
<1>2. stream = <<>> /\ fetch = Nothing /\ taken = 0
  BY <1>1 DEF FrameInv, SendInv
<1>3. /\ mode \in Modes /\ TypeOK /\ count = Total /\ count \in Nat
      /\ count >= 1 /\ DescMax \in Nat /\ first \in Nat /\ used = count
      /\ Transfer = first .. first + count - 1
      /\ DOMAIN ring = 0 .. DescMax - 1
      /\ \A i \in 0 .. DescMax - 1 : ring[i] # None <=> i \in Transfer
  BY <1>1, PlacedFacts DEF FrameInv
<1>4. CASE pc' = "idle"
  <2>1. ring' = Cleared /\ used' = used - count /\ UNCHANGED fetch
    BY <1>4 DEF QueueTransfer
  <2>2. \A i \in DOMAIN ring' : ring'[i] = None
    BY <1>3, <2>1, ClearedType
  <2>3. used' = 0
    BY <1>3, <2>1
  <2> QED BY <1>1, <1>2, <1>4, <2>1, <2>2, <2>3, IdleAgain
<1>5. CASE pc' # "idle"
  <2>1. /\ pc' = "run"
        /\ fetch' = [from |-> first, n |-> 1 + NextAdj(count, first)]
        /\ UNCHANGED <<why, ring, used, count>>
    BY <1>5 DEF QueueTransfer, Refuse
  <2>2. PlaneInv' /\ LinesInv' /\ SgInv' /\ LoopInv' /\ RingInv' /\ DescInv'
    BY <1>1, <2>1, PlacedKept
  <2>3. SendInv'
    <3>1. /\ fetch'.from = first /\ fetch'.n = 1 + NextAdj(count, first)
          /\ taken' = 0 /\ stream' = <<>>
      BY <1>1, <1>2, <2>1
    <3>2. NextAdj(count, first) \in Nat
      BY <1>3, Neighbours
    <3>3. first \in Transfer /\ Transfer' = Transfer
      BY <1>1, <1>3, <2>1 DEF Transfer
    <3>4. first + count - first = count /\ first + 0 - first = 0
      BY <1>3
    <3>5. Sent(0)' = <<>>
      BY <1>1, <1>3, SentKept, SentEnds
    <3>6. (Sent(fetch.from + taken - first))' = <<>>
      BY <1>1, <3>1, <3>4, <3>5
    <3>7. fetch'.n # 0 /\ 0 \in 0 .. fetch'.n - 1
      BY <3>1, <3>2
    <3> HIDE DEF Transfer
    <3> QED BY <1>1, <2>1, <3>1, <3>3, <3>4, <3>6, <3>7 DEF SendInv
  <2> QED BY <2>2, <2>3 DEF FrameInv
<1> QED BY <1>4, <1>5

(* The descriptor the engine is at is of the transfer.                     *)
LEMMA AtDesc ==
  ASSUME FrameInv, pc = "run", fetch.n # 0
  PROVE  /\ Block \subseteq Transfer /\ fetch.from + taken \in Transfer
         /\ fetch.from \in Nat /\ fetch.n \in Nat /\ fetch.n >= 1
         /\ taken \in 0 .. fetch.n - 1
         /\ fetch.from \div BlockSize
              = (fetch.from + fetch.n - 1) \div BlockSize
<1>1. pc \in Placed
  BY DEF Placed
<1>2. /\ count \in Nat /\ first \in Nat
      /\ Transfer = first .. first + count - 1
  BY <1>1, PlacedFacts
<1>3. /\ fetch.from \in Transfer /\ taken \in 0 .. fetch.n - 1
      /\ fetch.n = 1 + NextAdj(first + count - fetch.from, fetch.from)
  BY DEF FrameInv, SendInv
<1> DEFINE f == fetch.from
           rem == first + count - f
           a == NextAdj(rem, f)
<1>4. f \in Nat /\ rem \in Nat /\ rem >= 1
  BY <1>2, <1>3
<1>5. a \in Nat /\ a <= rem - 1 /\ f \div BlockSize = (f + a) \div BlockSize
  <2> HIDE DEF f, rem
  <2> QED BY <1>4, Neighbours
<1>6. fetch.n = 1 + a /\ rem = first + count - f /\ f \in Transfer
  BY <1>3
<1>7. Block = f .. f + fetch.n - 1
  BY DEF Block
<1> HIDE DEF f, rem, a
<1>8. f + fetch.n - 1 = f + a
  BY <1>4, <1>5, <1>6
<1>9. Block \subseteq Transfer /\ f + taken \in Transfer
  BY <1>2, <1>3, <1>4, <1>5, <1>6, <1>7
<1> QED BY <1>3, <1>4, <1>5, <1>6, <1>8, <1>9 DEF f

(* The engine sends the next descriptor of the transfer.                   *)
LEMMA SendKeeps ==
  ASSUME FrameInv, TypeOK', HwSend
  PROVE  FrameInv'
<1> DEFINE i == fetch.from + taken
           e == ring[i]
           last == first + count - 1
<1>1. /\ pc = "run" /\ pc' = "run" /\ UNCHANGED imgVars /\ fetch.n # 0
      /\ UNCHANGED <<ring, used, first, count, why>> /\ pc \in Placed
      /\ stream' = Send(stream, e.desc) /\ unsent = <<>> /\ unsent' = unsent
      /\ IF e.stop THEN fetch' = Nothing /\ taken' = 0
         ELSE IF taken + 1 < fetch.n
         THEN taken' = taken + 1 /\ UNCHANGED fetch
         ELSE fetch' = [from |-> e.next, n |-> 1 + e.adj] /\ taken' = 0
  BY DEF HwSend, ringVars, restVars, Placed
<1>2. PlaneInv' /\ LinesInv' /\ SgInv' /\ LoopInv' /\ RingInv' /\ DescInv'
  BY <1>1, PlacedKept
<1>3. /\ mode \in Modes /\ count = Total /\ count \in Nat /\ count >= 1
      /\ first \in Nat /\ Transfer = first .. first + count - 1
  BY <1>1, PlacedFacts
<1>4. /\ i \in Transfer /\ fetch.from \in Nat /\ fetch.n \in Nat
      /\ fetch.n >= 1 /\ taken \in 0 .. fetch.n - 1
  BY <1>1, AtDesc
<1>5. /\ fetch.from \in Transfer
      /\ fetch.n = 1 + NextAdj(first + count - fetch.from, fetch.from)
      /\ stream = Sent(fetch.from + taken - first)
  <2>1. SendInv
    BY DEF FrameInv
  <2>2. pc = "run" /\ fetch.n # 0
    BY <1>1
  <2>3. stream = Sent(fetch.from + taken - first)
    BY <2>1, <2>2 DEF SendInv
  <2>4. /\ fetch.from \in Transfer
        /\ fetch.n = 1 + NextAdj(first + count - fetch.from, fetch.from)
    BY <2>1, <2>2 DEF SendInv
  <2> QED BY <2>3, <2>4
<1>6. /\ e.next = IF i < last THEN i + 1 ELSE 0
      /\ e.desc = DescOf(i - first) /\ e.stop = (i = last)
      /\ e.adj = NextAdj(first + count - i - 1, i + 1)
  BY <1>1, <1>4, AllFilled
<1>7. i \in Nat /\ i - first \in 0 .. Total - 1 /\ i <= last
  BY <1>3, <1>4
<1>8. stream' = Sent(i - first + 1)
  <2>1. \A v \in 0 .. mode.h - 1, u \in 0 .. mode.w - 1 :
          lines[v][u] = Shown(u, v)
    BY <1>1 DEF FrameInv, LinesInv
  <2>2. stream' = Send(Sent(i - first), DescOf(i - first))
    <3>1. stream = Sent(i - first)
      <4>1. i - first = fetch.from + taken - first
        BY <1>3, <1>4
      <4> HIDE DEF i
      <4> QED BY <1>5, <4>1
    <3> HIDE DEF e
    <3> QED BY <1>1, <1>6, <3>1
  <2> DEFINE k == i - first
  <2>3. k \in 0 .. Total - 1
    BY <1>7
  <2>4. stream' = Send(Sent(k), DescOf(k))
    BY <2>2
  <2> HIDE DEF k, i
  <2>5. stream' = Sent(k + 1)
    BY <1>3, <2>1, <2>3, <2>4, SendNext
  <2> QED BY <2>5 DEF k
<1>9. Transfer' = Transfer
  BY <1>1 DEF Transfer
<1>10. CASE i = last
  <2>1. e.stop
    BY <1>6, <1>10
  <2>5. fetch' = Nothing /\ taken' = 0
    BY <1>1, <2>1
  <2>6. fetch'.n = 0
    BY <2>5 DEF Nothing
  <2>2. i - first + 1 = count
    BY <1>3, <1>10
  <2>3. (Sent(count))' = Sent(count)
    BY <1>1, SentKept
  <2>4. stream' = (Sent(count))'
    BY <1>8, <2>2, <2>3
  <2> QED BY <1>1, <1>2, <2>4, <2>6 DEF FrameInv, SendInv
<1>11. CASE i # last /\ taken + 1 < fetch.n
  <2>1. taken' = taken + 1 /\ fetch' = fetch
    BY <1>1, <1>6, <1>11
  <2>2. i - first + 1 = fetch'.from + taken' - first'
    BY <1>1, <1>3, <1>4, <2>1
  <2>3. (Sent(fetch.from + taken - first))'
          = Sent(fetch'.from + taken' - first')
    BY <1>1, SentKept
  <2>4. stream' = (Sent(fetch.from + taken - first))'
    BY <1>8, <2>2, <2>3
  <2>5. taken' \in 0 .. fetch'.n - 1
    BY <1>4, <1>11, <2>1
  <2>6. /\ fetch'.n # 0 /\ fetch'.from \in Transfer'
        /\ fetch'.n = 1 + (NextAdj(first + count - fetch.from, fetch.from))'
    BY <1>1, <1>5, <1>9, <2>1 DEF NextAdj
  <2> QED BY <1>1, <1>2, <2>4, <2>5, <2>6 DEF FrameInv, SendInv
<1>12. CASE i # last /\ ~(taken + 1 < fetch.n)
  <2>1. taken' = 0 /\ fetch' = [from |-> e.next, n |-> 1 + e.adj]
    BY <1>1, <1>6, <1>12
  <2>2. i < last
    BY <1>3, <1>7, <1>12
  <2>3. fetch'.from = i + 1 /\ fetch'.n = 1 + e.adj
    BY <1>6, <2>1, <2>2
  <2>4. i - first + 1 = fetch'.from + taken' - first'
    BY <1>1, <1>3, <1>7, <2>1, <2>3
  <2>5. (Sent(fetch.from + taken - first))'
          = Sent(fetch'.from + taken' - first')
    BY <1>1, SentKept
  <2>6. stream' = (Sent(fetch.from + taken - first))'
    BY <1>8, <2>4, <2>5
  <2>7. i + 1 \in Transfer /\ first + count - i - 1 = first + count - (i + 1)
        /\ first + count - (i + 1) \in Nat /\ i + 1 \in Nat
    <3>1. i \in Nat /\ i < first + count - 1 /\ first <= i
      BY <1>3, <1>4, <1>7, <2>2
    <3> HIDE DEF i
    <3> QED BY <1>3, <3>1
  <2>8. NextAdj(first + count - (i + 1), i + 1) \in Nat
    BY <2>7, Neighbours
  <2>9. /\ fetch'.n = 1 + NextAdj(first + count - (i + 1), i + 1)
        /\ fetch'.n # 0 /\ 0 \in 0 .. fetch'.n - 1
    BY <1>6, <2>3, <2>7, <2>8
  <2>10. (NextAdj(first + count - fetch.from, fetch.from))'
           = NextAdj(first + count - (i + 1), i + 1)
    BY <1>1, <2>3 DEF NextAdj
  <2> HIDE DEF i
  <2> QED BY <1>1, <1>2, <1>9, <2>1, <2>3, <2>6, <2>7, <2>9, <2>10
          DEF FrameInv, SendInv
<1> QED BY <1>10, <1>11, <1>12

(* A frame that is over leaves nothing in the ring.                        *)
LEMMA CompletionKeeps ==
  ASSUME FrameInv, TypeOK', Completion
  PROVE  FrameInv'
<1>1. /\ pc = "run" /\ pc' = "idle" /\ ring' = Cleared /\ used' = used - count
      /\ fetch' = Nothing /\ taken' = 0 /\ stream' = <<>> /\ pc \in Placed
  BY DEF Completion, Placed
<1>2. /\ TypeOK /\ count \in Nat /\ used = count
      /\ DOMAIN ring = 0 .. DescMax - 1
      /\ \A i \in 0 .. DescMax - 1 : ring[i] # None <=> i \in Transfer
  BY <1>1, PlacedFacts DEF FrameInv
<1>3. \A i \in DOMAIN ring' : ring'[i] = None
  BY <1>1, <1>2, ClearedType
<1>4. used' = 0
  BY <1>1, <1>2
<1> QED BY <1>1, <1>3, <1>4, IdleAgain

(* What an earlier frame left to the engine is of no account to this one.  *)
LEMMA FrameKept ==
  ASSUME FrameInv, UNCHANGED imgVars,
         UNCHANGED <<pc, sg, loop, count, ring, idx, used, first, why>>,
         UNCHANGED <<fetch, taken, stream>>,
         aborted' \in BOOLEAN, unsent # <<>> \/ unsent' = unsent
  PROVE  FrameInv'
<1>1. UNCHANGED <<mode, primary, overlay, frame, lines>>
  BY DEF imgVars
<1>2. TypeOK'
  BY <1>1 DEF FrameInv, TypeOK, Lines
<1>3. PlaneInv'
  BY <1>1 DEF FrameInv, PlaneInv, PrimaryCheck, OverlayCheck, SourceInside,
              CheckFb, Primaries
<1>4. LinesInv'
  BY <1>1 DEF FrameInv, LinesInv, Shown, InRect, Pixel
<1>5. SgInv'
  BY <1>1 DEF FrameInv, SgInv
<1>6. LoopInv'
  BY <1>1 DEF FrameInv, LoopInv, LoopAt, DescOf, LineOf, PartOf, PerLine,
              Total
<1>7. RingInv'
  BY <1>1 DEF FrameInv, RingInv, Placed, Transfer, Total, PerLine
<1>8. DescInv'
  BY <1>1 DEF FrameInv, DescInv, Placed, Transfer, Filled, DescOf, LineOf,
              PartOf, PerLine
<1>9. SendInv'
  <2>1. /\ (Sent(count))' = Sent(count)
        /\ (Sent(fetch.from + taken - first))'
             = Sent(fetch.from + taken - first)
    BY SentKept
  <2> QED BY <2>1 DEF FrameInv, SendInv, Transfer, NextAdj
<1> QED BY <1>2, <1>3, <1>4, <1>5, <1>6, <1>7, <1>8, <1>9 DEF FrameInv

(* Every step keeps the invariant.                                         *)
LEMMA StepInv ==
  ASSUME FrameInv, [Next]_vars
  PROVE  FrameInv'
<1>1. CASE Next
  <2>1. TypeOK'
    BY <1>1, StepType
  <2>2. CASE HwDrain \/ HwStop
    <3>1. /\ UNCHANGED imgVars
          /\ UNCHANGED <<pc, sg, loop, count, ring, idx, used, first, why>>
          /\ UNCHANGED <<fetch, taken, stream>> /\ unsent # <<>>
      BY <2>2 DEF HwDrain, HwStop, ringVars
    <3>2. aborted' \in BOOLEAN
      BY <2>1 DEF TypeOK
    <3> QED BY <3>1, <3>2, FrameKept
  <2> QED BY <1>1, <2>1, <2>2, FlushKeeps, ComposeKeeps, MapKeeps,
          CountPieceKeeps, CountDoneKeeps, BuildKeeps, FillPieceKeeps,
          FillDoneKeeps, QueueKeeps, SendKeeps, CompletionKeeps DEF Next
<1>2. CASE UNCHANGED vars
  <2>1. /\ UNCHANGED imgVars
        /\ UNCHANGED <<pc, sg, loop, count, ring, idx, used, first, why>>
        /\ UNCHANGED <<fetch, taken, stream>>
        /\ UNCHANGED <<unsent, aborted>>
    BY <1>2 DEF vars, ringVars, hwVars, restVars
  <2>2. aborted' \in BOOLEAN
    BY <2>1 DEF FrameInv, TypeOK
  <2> QED BY <2>1, <2>2, FrameKept
<1> QED BY <1>1, <1>2

(* The inductive invariant holds of every behaviour of the model.          *)
THEOREM FrameInvariant == Spec => []FrameInv
<1>1. Init => FrameInv
  BY InitInv
<1>2. FrameInv /\ [Next]_vars => FrameInv'
  BY StepInv
<1> QED BY <1>1, <1>2, PTL DEF Spec

(* Only a time-out leaves something behind, and only to the next frame     *)
(* that is sent.                                                           *)
LEMMA FrameLeft == Spec => []LeftInv
<1>1. Init => LeftInv
  BY DEF Init, LeftInv
<1>2. FrameInv /\ LeftInv /\ [Next]_vars => LeftInv'
  <2> SUFFICES ASSUME FrameInv, LeftInv, [Next]_vars
               PROVE  LeftInv'
    OBVIOUS
  <2>1. CASE Completion
    <3>1. CASE fetch.n = 0 /\ unended' = <<>> /\ unsent' = unsent
      BY <2>1, <3>1 DEF Completion, FrameInv, SendInv, LeftInv
    <3>2. CASE aborted' = TRUE
      BY <3>2 DEF LeftInv
    <3> QED BY <2>1, <3>1, <3>2, Zenon DEF Completion
  <2>2. CASE HwDrain \/ HwStop
    BY <2>2 DEF HwDrain, HwStop, LeftInv
  <2>3. CASE UNCHANGED restVars
    BY <2>3 DEF restVars, LeftInv
  <2>4. Completion \/ HwDrain \/ HwStop \/ UNCHANGED restVars
    BY DEF Next, vars, Flush, ComposeFrame, MapFrame, CountPiece, CountDone,
           BuildTransfer, FillPiece, FillDone, QueueTransfer, HwSend, hwVars
  <2> QED BY <2>1, <2>2, <2>3, <2>4
<1> QED BY <1>1, <1>2, FrameInvariant, PTL DEF Spec

-----------------------------------------------------------------------------
(* The properties.                                                         *)

(* The frame's step, its planes and the engine's ring keep their types.    *)
THEOREM FrameTypeCorrect == Spec => []TypeOK
<1>1. FrameInv => TypeOK
  BY DEF FrameInv
<1> QED BY <1>1, FrameInvariant, PTL

(* What arrives is what the commit showed, for every mode, framebuffer,    *)
(* plane and ring: fpga_drm_compose_frame(), prepare_active_sgt() and the  *)
(* descriptor loops of xdma_xfer_submit() bring every pixel to its place   *)
(* and end a packet with every line, however the mapping merged the lines; *)
(* what a frame that timed out left of a packet comes before the first     *)
(* line of the next frame sent, and before no other.                       *)
THEOREM FrameShown == Spec => []StreamShowsFrame
<1>1. FrameInv /\ LeftInv => StreamShowsFrame
  <2> SUFFICES ASSUME FrameInv, LeftInv, pc = "run", fetch.n = 0
               PROVE  /\ unended # <<>> => aborted
                      /\ Arrived =
                           [y \in 1 .. mode.h |->
                              [data |-> IF y = 1 THEN unended \o ShownLine(1)
                                        ELSE ShownLine(y),
                               ended |-> TRUE]]
    BY DEF StreamShowsFrame
  <2>1. count = Total /\ mode \in Modes
    BY PlacedFacts DEF Placed
  <2>2. stream = Sent(count)
    BY DEF FrameInv, SendInv
  <2>3. stream = [y \in 1 .. mode.h |->
                    [data |-> ShownLine(y), ended |-> TRUE]]
    BY <2>1, <2>2, SentEnds DEF ShownLine
  <2>4. /\ DOMAIN stream = 1 .. mode.h
        /\ \A y \in 1 .. mode.h :
             stream[y].data = ShownLine(y) /\ stream[y].ended = TRUE
             /\ stream[y] = [data |-> ShownLine(y), ended |-> TRUE]
    BY <2>3
  <2>5. ASSUME NEW y \in 1 .. mode.h
        PROVE  (IF y = 1 THEN [data |-> unended \o stream[y].data,
                               ended |-> stream[y].ended]
                ELSE stream[y])
                 = [data |-> IF y = 1 THEN unended \o ShownLine(1)
                             ELSE ShownLine(y),
                    ended |-> TRUE]
    <3> HIDE DEF ShownLine
    <3> QED BY <2>4
  <2>6. unended # <<>> => aborted
    BY DEF LeftInv
  <2> HIDE DEF ShownLine
  <2> QED BY <2>4, <2>5, <2>6 DEF Arrived
<1> QED BY <1>1, FrameInvariant, FrameLeft, PTL

(* xdma_get_next_adj() never lets the engine fetch a descriptor that is    *)
(* not of the transfer, nor a block across an aligned block, wherever in   *)
(* the ring the transfer starts.                                           *)
THEOREM FrameFetchInside == Spec => []FetchInside
<1>1. FrameInv => FetchInside
  <2> SUFFICES ASSUME FrameInv, pc = "run", fetch.n > 0
               PROVE  /\ Block \subseteq first .. first + count - 1
                      /\ Block \subseteq 0 .. DescMax - 1
                      /\ fetch.from \div BlockSize
                           = (fetch.from + fetch.n - 1) \div BlockSize
    BY DEF FetchInside
  <2>1. fetch.n # 0
    OBVIOUS
  <2>2. /\ Block \subseteq Transfer
        /\ fetch.from \div BlockSize
             = (fetch.from + fetch.n - 1) \div BlockSize
    BY <2>1, AtDesc
  <2>3. /\ Transfer = first .. first + count - 1
        /\ Transfer \subseteq 0 .. DescMax - 1
    BY PlacedFacts DEF Placed
  <2> QED BY <2>2, <2>3
<1> QED BY <1>1, FrameInvariant, PTL

(* desc_used counts the descriptors that are not cleared, and a frame that *)
(* was refused, sent or timed out leaves none.                             *)
THEOREM FrameRingAccounted == Spec => []RingAccounted
<1>1. FrameInv => RingAccounted
  <2> SUFFICES ASSUME FrameInv PROVE RingAccounted
    OBVIOUS
  <2> DEFINE S == {i \in DOMAIN ring : ring[i] # None}
  <2>1. ASSUME pc \notin Placed PROVE used = 0 /\ Cardinality(S) = 0
    <3>1. used = 0 /\ \A i \in DOMAIN ring : ring[i] = None
      BY <2>1 DEF FrameInv, RingInv
    <3>2. S = {}
      BY <3>1
    <3> QED BY <3>1, <3>2, FS_EmptySet
  <2>2. ASSUME pc \in {"queue", "run"} PROVE used = Cardinality(S)
    <3>1. pc \in Placed /\ pc # "fill"
      BY <2>2 DEF Placed
    <3>2. /\ used = count /\ count \in Nat /\ first \in Nat /\ count >= 1
          /\ Transfer = first .. first + count - 1
          /\ Transfer \subseteq 0 .. DescMax - 1
          /\ DOMAIN ring = 0 .. DescMax - 1
          /\ \A i \in 0 .. DescMax - 1 : ring[i] # None <=> i \in Transfer
      BY <3>1, PlacedFacts
    <3>3. S = first .. first + count - 1
      BY <3>2
    <3>4. first + count - 1 \in Int /\ ~(first > first + count - 1)
          /\ (first + count - 1) - first + 1 = count
      BY <3>2
    <3>5. Cardinality(first .. first + count - 1) = count
      BY <3>2, <3>4, FS_Interval
    <3> QED BY <3>2, <3>3, <3>5
  <2> HIDE DEF S
  <2>3. pc # "fill" => used = Cardinality(S)
    BY <2>1, <2>2 DEF Placed
  <2>4. pc \notin {"queue", "run"} => used = 0
    <3>1. pc = "fill" => used = 0
      BY PlacedFacts DEF Placed
    <3> QED BY <2>1, <3>1 DEF Placed
  <2> QED BY <2>3, <2>4 DEF RingAccounted, S
<1> QED BY <1>1, FrameInvariant, PTL

(* When the lines of every mode fit the ring, a frame atomic_check let     *)
(* through is refused for a failing call or a framebuffer of another size  *)
(* than the mode, and for nothing else: the checks in                      *)
(* fpga_drm_compose_frame(), xdma_count_line_descriptors() and the busy    *)
(* test of the ring are never what stops it.                               *)
THEOREM FrameRefusedForCause ==
  ASSUME ModesFit
  PROVE  Spec => []RefusedForCause
<1>1. Init => RefusedForCause
  BY DEF Init, RefusedForCause
<1>2. FrameInv /\ RefusedForCause /\ [Next]_vars => RefusedForCause'
  <2> SUFFICES ASSUME FrameInv, RefusedForCause, [Next]_vars
               PROVE  RefusedForCause'
    OBVIOUS
  <2>1. mode \in Modes /\ TypeOK
    BY DEF FrameInv, TypeOK
  <2>2. CASE \E m \in Modes, p \in Primaries, o \in Overlays \cup {None} :
               Flush(m, p, o)
    BY <2>2 DEF Flush, RefusedForCause
  <2>3. CASE ComposeFrame
    <3>1. /\ UNCHANGED <<mode, primary>> /\ why = "none" /\ PlaneInv
          /\ pc = "compose"
      BY <2>3 DEF ComposeFrame, FrameInv, PlaneInv
    <3>2. CASE ~CopyChecks
      <4>1. primary \in Primaries /\ PrimaryCheck(mode, primary)
        BY <3>1 DEF PlaneInv
      <4>2. primary.fb.w # mode.w \/ primary.fb.h # mode.h
        <5> SUFFICES ASSUME primary.fb.w = mode.w, primary.fb.h = mode.h
                     PROVE  FALSE
          OBVIOUS
        <5>1. ~(primary.fb.pitch >= mode.w)
          BY <3>2 DEF CopyChecks
        <5> QED BY <4>1, <5>1 DEF PrimaryCheck, CheckFb
      <4>3. why' = "copy"
        BY <2>3, <3>2 DEF ComposeFrame, Refuse
      <4> QED BY <3>1, <4>2, <4>3 DEF RefusedForCause
    <3>3. CASE CopyChecks
      <4>1. overlay # None => BlendChecks
        BY <2>1, <3>1, <3>3, Composed
      <4>2. why' = why
        BY <2>3, <3>3, <4>1 DEF ComposeFrame
      <4> QED BY <3>1, <4>2 DEF RefusedForCause
    <3> QED BY <3>2, <3>3
  <2>4. CASE MapFrame
    BY <2>4 DEF MapFrame, Refuse, imgVars, RefusedForCause
  <2>5. CASE CountPiece
    <3>1. SgInv /\ LoopAt(loop) /\ pc = "count" /\ loop.seg <= Len(sg)
      BY <2>5 DEF CountPiece, FrameInv, LoopInv
    <3>2. loop.done < mode.h
      BY <2>1, <3>1, PieceIs
    <3>3. mode.h \in Nat /\ loop.done \in Int
      <4>1. loop.done = LineOf(loop.n) /\ loop.n \in 0 .. Total
        BY <3>1 DEF LoopAt
      <4> QED BY <2>1, <4>1, Place, Sizes
    <3>4. why' = why /\ UNCHANGED imgVars
      BY <2>5, <3>2, <3>3 DEF CountPiece
    <3> QED BY <3>4 DEF RefusedForCause, imgVars
  <2>6. CASE CountDone
    <3>1. SgInv /\ LoopAt(loop) /\ pc = "count" /\ loop.seg > Len(sg)
      BY <2>6 DEF CountDone, FrameInv, LoopInv
    <3>2. loop.n = Total /\ loop.done = mode.h /\ loop.left = mode.w
      BY <2>1, <3>1, EndAt
    <3>3. ~(loop.n > DescMax)
      <4>1. Total <= DescMax
        BY <2>1 DEF ModesFit, Total, PerLine
      <4>2. Total \in Nat /\ DescMax \in Nat
        BY <2>1, Sizes, LineSize DEF Total
      <4> QED BY <3>2, <4>1, <4>2
    <3>4. why' \in {why, "fault"} /\ UNCHANGED imgVars
      BY <2>6, <3>2, <3>3 DEF CountDone, Refuse
    <3> QED BY <3>4 DEF RefusedForCause, imgVars
  <2>7. CASE BuildTransfer
    <3>1. used = 0
      BY <2>7 DEF BuildTransfer, FrameInv, RingInv, Placed
    <3> QED BY <2>7, <3>1 DEF BuildTransfer, imgVars, RefusedForCause
  <2>8. CASE FillPiece \/ FillDone
    BY <2>8 DEF FillPiece, FillDone, imgVars, RefusedForCause
  <2>9. CASE QueueTransfer
    BY <2>9 DEF QueueTransfer, Refuse, imgVars, RefusedForCause
  <2>10. CASE HwSend
    BY <2>10 DEF HwSend, imgVars, RefusedForCause
  <2>11. CASE Completion
    BY <2>11 DEF Completion, imgVars, RefusedForCause
  <2>12. CASE UNCHANGED vars
    BY <2>12 DEF vars, imgVars, RefusedForCause
  <2>13. CASE HwDrain \/ HwStop
    BY <2>13 DEF HwDrain, HwStop, imgVars, RefusedForCause
  <2> QED BY <2>2, <2>3, <2>4, <2>5, <2>6, <2>7, <2>8, <2>9, <2>10, <2>11,
          <2>12, <2>13 DEF Next
<1> QED BY <1>1, <1>2, FrameInvariant, PTL DEF Spec
=============================================================================
