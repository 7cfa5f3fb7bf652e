---------------------------- MODULE MCXdmaEngine ----------------------------
(***************************************************************************)
(* XdmaEngine for TLC: two synchronous callers, two iocbs of which one has *)
(* two segments, a ring of three descriptors so that a request of two is   *)
(* cut at its end, and the combinations of callers and faults to explore.  *)
(***************************************************************************)
EXTENDS XdmaEngine, TLC

CONSTANTS u1, u2, a1, a2

MCSync == {u1, u2}
MCAio == {a1, a2}
MCSegs == (u1 :> 1) @@ (u2 :> 1) @@ (a1 :> 2) @@ (a2 :> 1)
MCNeed == (u1 :> 2) @@ (u2 :> 2) @@ (a1 :> 2) @@ (a2 :> 2)

Run(t, f, p) == [tasks |-> t, faults |-> f, poll |-> p]
MCScenarios ==
  {Run({u1, u2}, {"timeout", "error"}, FALSE),
   Run({u1, u2}, {"timeout", "offline"}, FALSE),
   Run({u1, a1}, {}, FALSE), Run({a1, a2}, {}, FALSE),
   Run({u1, a2}, {"timeout", "error"}, FALSE),
   Run({u1, a2}, {"error", "offline"}, FALSE),
   Run({a1, a2}, {"error"}, FALSE), Run({a1}, {"error", "offline"}, FALSE),
   Run({u1}, {"error", "timeout"}, TRUE), Run({u1, u2}, {"error"}, TRUE),
   Run({u1, a2}, {}, TRUE)}
=============================================================================
