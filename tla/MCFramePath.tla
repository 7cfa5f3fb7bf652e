---------------------------- MODULE MCFramePath -----------------------------
(***************************************************************************)
(* FramePath for TLC: a wide and a tall mode, whose lines take two and one *)
(* descriptors of at most two pixels; framebuffers of the very size, with  *)
(* padding, and larger than the modes; a ring of two blocks of four        *)
(* descriptors, which three or four a frame fill at changing offsets.      *)
(***************************************************************************)
EXTENDS FramePath

MCModes == {[w |-> 3, h |-> 2], [w |-> 2, h |-> 3]}
MCFbs == {[w |-> 3, h |-> 2, pitch |-> 4], [w |-> 2, h |-> 3, pitch |-> 2],
          [w |-> 4, h |-> 3, pitch |-> 5]}
Rect(x, y, w, h) == [x |-> x, y |-> y, w |-> w, h |-> h]
MCRects == {Rect(0, 0, 3, 2), Rect(0, 0, 2, 3), Rect(1, 1, 3, 2),
            Rect(1, 0, 2, 1)}
=============================================================================
