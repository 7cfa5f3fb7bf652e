----------------------------- MODULE XdmaEngine -----------------------------
(***************************************************************************)
(* One SG-DMA engine of libxdma as the character driver drives it: the     *)
(* transfer list, the descriptor ring, synchronous read()/write() calls,   *)
(* asynchronous iocbs, the interrupt path with its deferred work, the      *)
(* polling thread, and taking the device offline and online again.         *)
(*                                                                         *)
(* A transfer <<t, b, i>> is chunk i of segment b of the caller t: a       *)
(* request is cut wherever it meets the end of the ring.  engine->lock is  *)
(* held for a whole critical section, so each section is one action;       *)
(* desc_lock is held across sections and is a variable.                    *)
(***************************************************************************)
EXTENDS Integers, Sequences, FiniteSets

CONSTANTS
  Sync,       \* callers of read() and write()
  Aio,        \* iocbs
  Segs,       \* Segs[t]: segments of an iocb, one xdma_io_cb each
  Need,       \* Need[t]: descriptors each segment of t takes
  DescMax,    \* engine->desc_max, the size of the descriptor ring
  Word,       \* the unsigned counters wrap at this value
  Scenarios,  \* who calls, what may go wrong, interrupts or polling
  MaxOffline  \* bound: times the device is taken offline

Tasks == Sync \cup Aio
AllFaults == {"timeout",   \* wait_event times out or a signal arrives
              "error",     \* the engine reports a descriptor error
              "offline"}   \* a PCI error or reset handler runs

ASSUME TasksAssumption == Sync \cap Aio = {}
ASSUME SizesAssumption ==
  /\ DescMax \in Nat \ {0} /\ Word \in Nat /\ Word > DescMax
  /\ MaxOffline \in Nat
  /\ Segs \in [Tasks -> Nat \ {0}] /\ Need \in [Tasks -> Nat \ {0}]
ASSUME SyncAssumption == \A t \in Sync : Segs[t] = 1
ASSUME ScenariosAssumption ==
  Scenarios \subseteq [tasks : SUBSET Tasks, faults : SUBSET AllFaults,
                       poll : BOOLEAN]

Reqs == UNION {{t} \X (1 .. Segs[t]) : t \in Tasks}
Xfers == UNION {{t} \X (1 .. Segs[t]) \X (1 .. Need[t]) : t \in Tasks}
NoXfer == <<>>
ReqOf(x) == <<x[1], x[2]>>

VARIABLES
  scenario,
  eng,        \* what engine->lock protects, and the engine's registers
  pc, seg, chunk, left, got, ret,   \* each caller and its locals
  desc_lock,  \* the synchronous caller that holds engine->desc_lock
  irq_on, handler, work,            \* interrupt mask, ISR, deferred work
  offline, phase, offlines,         \* XDEV_FLAG_OFFLINE, who is changing it
  ppc, expect, woken,               \* the polling thread
  upset       \* history: disturbances so far, and forged completions

callVars == <<pc, seg, chunk, left, got, ret, desc_lock>>
irqVars == <<irq_on, handler, work>>
devVars == <<offline, phase, offlines>>
pollVars == <<ppc, expect, woken>>
vars == <<scenario, eng, callVars, irqVars, devVars, pollVars, upset>>

Fault(f) == f \in scenario.faults
Disturbances ==
  {"timeout", "stranded", "wild", "offline", "orphan", "overrun"}
XferStates == {"new", "submitted", "completed", "failed", "aborted"}

-----------------------------------------------------------------------------
(* The engine under its lock.  Each operator maps an engine to an engine.  *)
(* ring[p] is the transfer whose descriptor slot p holds: the transfer x   *)
(* was carved out of the slots from at[x] on.                              *)
Slots == 0 .. DescMax - 1
SlotsOf(s, x) == s.at[x] .. s.at[x] + s.dnum[x] - 1

IdleEngine ==
  [list |-> <<>>, running |-> FALSE, dequeued |-> 0, request |-> FALSE,
   busy |-> FALSE, err |-> FALSE,           \* engine->status
   hw |-> "idle", hx |-> NoXfer, hcnt |-> 0, herr |-> FALSE, irq |-> FALSE,
   wb |-> 0, wberr |-> FALSE,
   idx |-> 0, ring |-> [p \in Slots |-> NoXfer],
   at |-> [x \in Xfers |-> 0], dnum |-> [x \in Xfers |-> 0],
   state |-> [x \in Xfers |-> "new"], moved |-> [x \in Xfers |-> 0],
   erred |-> {}, freed |-> {},
   cmpl |-> [t \in Aio |-> 0], res |-> [t \in Aio |-> 0],
   ended |-> [t \in Aio |-> 0]]

(* Clearing RUN does not wait for the hardware to come to rest. *)
Stop(s) == [s EXCEPT !.running = FALSE,
                     !.hw = IF @ = "busy" THEN "drain" ELSE @]

ReadStatus(s) ==
  [s EXCEPT !.busy = s.hw # "idle", !.err = s.herr,
            !.herr = FALSE, !.irq = FALSE]

PeekStatus(s) == [s EXCEPT !.busy = s.hw # "idle", !.err = s.herr]

StartStaleStatus(s) ==             \* mutant: the status is not read at a start
  IF s.running \/ s.list = <<>> THEN s
  ELSE [s EXCEPT !.running = TRUE, !.request = FALSE, !.dequeued = 0,
                 !.hw = "busy", !.hx = Head(s.list), !.hcnt = 0]

Start(s) ==
  IF s.running \/ s.list = <<>> THEN s
  ELSE [s EXCEPT !.running = TRUE, !.request = FALSE, !.dequeued = 0,
                 !.busy = TRUE, !.err = s.herr,
                 !.hw = "busy", !.hx = Head(s.list), !.hcnt = 0]

(* The hardware moves the data of the descriptor it has reached, one of    *)
(* the transfer y.  The last one of a transfer stops it, and a stop        *)
(* request stops it after any.                                             *)
Reached(s) == s.at[s.hx] + s.hcnt
Advance(s, y) ==
  LET n    == s.hcnt + 1
      k    == s.at[s.hx] + n - s.at[y]
      last == k >= s.dnum[y]
      done == last \/ s.hw = "drain"
  IN [s EXCEPT !.hcnt = n,
               !.moved[y] = IF k > @ THEN k ELSE @,
               !.hw = IF done THEN "idle" ELSE @,
               !.irq = @ \/ done,
               !.wb = IF last /\ scenario.poll THEN n ELSE @]

(* That is its own descriptor, which it may have read ahead, or the one    *)
(* that has been written over it since.                                    *)
Steps(s) ==
  IF s.hw = "idle" THEN {}
  ELSE {Advance(s, y) : y \in {z \in {s.hx, s.ring[Reached(s)]} \ {NoXfer} :
                                Reached(s) \in SlotsOf(s, z)}}

(* An error stops the engine at the descriptor it has reached. *)
Fail(s) == [s EXCEPT !.hw = "idle", !.herr = TRUE, !.irq = TRUE,
                     !.wb = IF scenario.poll THEN s.hcnt ELSE 0,
                     !.wberr = scenario.poll, !.erred = @ \cup {s.hx}]

ClearOneMore(s, X) ==              \* mutant: <= for < in the count
  [s EXCEPT !.ring = [p \in Slots |->
     IF \E x \in X : p \in s.at[x] .. s.at[x] + s.dnum[x]
     THEN NoXfer ELSE @[p]]]

(* xdma_desc_done: the slots of the transfers in X are cleared, whatever   *)
(* they hold by now.                                                       *)
Clear(s, X) ==
  [s EXCEPT !.ring = [p \in Slots |-> IF \E x \in X : p \in SlotsOf(s, x)
                                     THEN NoXfer ELSE @[p]]]

(* The first d[x] descriptors of each transfer in X. *)
Descs(X, d) == UNION {{x} \X (1 .. d[x]) : x \in X}
XfersOf(t) == {x \in Xfers : x[1] = t}

(* xdma_xfer_completion: add up the chunks until one has failed, and clear *)
(* the descriptors of those and of the one that has.                       *)
CompletedXfers(s, over) ==
  {x \in Xfers : /\ ReqOf(x) \in over
                 /\ \A i \in 1 .. x[3] :
                      s.state[<<x[1], x[2], i>>] = "completed"}
ClearedXfers(s, over) ==
  {x \in Xfers : /\ ReqOf(x) \in over
                 /\ \A i \in 1 .. x[3] - 1 :
                      s.state[<<x[1], x[2], i>>] = "completed"}

IoDoneEach(s, over) ==             \* mutant: cmpl_cnt is not compared
  LET now(t) == {r \in over : r[1] = t}
  IN [s EXCEPT !.freed = @ \cup over,
               !.cmpl  = [t \in Aio |-> @[t] + Cardinality(now(t))],
               !.ended = [t \in Aio |-> @[t] + Cardinality(now(t))]]

(* async_io_handler for the requests in over: the iocb is complete when it *)
(* has run for each of its segments.                                       *)
IoDone(s, over) ==
  LET now(t) == {r \in over : r[1] = t}
      cmpl == [t \in Aio |-> s.cmpl[t] + Cardinality(now(t))]
      done(t) == Cardinality(Descs(CompletedXfers(s, now(t)), s.dnum))
  IN IF over = {} THEN s
     ELSE [Clear(s, ClearedXfers(s, over)) EXCEPT
             !.freed = @ \cup over,
             !.cmpl  = cmpl,
             !.res   = [t \in Aio |-> @[t] + done(t)],
             !.ended = [t \in Aio |-> @[t] + IF /\ s.cmpl[t] < Segs[t]
                                                /\ cmpl[t] >= Segs[t]
                                             THEN 1 ELSE 0]]

(* With this chunk, the first or the second, the request is carved. *)
LastInRequest(s, x) ==
  s.dnum[x] + (IF x[3] = 2 THEN s.dnum[<<x[1], x[2], 1>>] ELSE 0) = Need[x[1]]

(* Take the first m transfers off the list with a result, and tell owners. *)
Retire(s, m, result) ==
  LET out == {s.list[i] : i \in 1 .. m}
      s1 == [s EXCEPT !.list = SubSeq(@, m + 1, Len(@)),
                      !.state = [x \in Xfers |->
                                   IF x \in out THEN result ELSE @[x]]]
  IN IoDone(s1, {ReqOf(x) : x \in {y \in out : /\ y[1] \in Aio
                                               /\ LastInRequest(s, y)}})

(* The descriptors of the first j transfers on the list. *)
Sums(s) ==
  LET sum[j \in 0 .. Len(s.list)] ==
        IF j = 0 THEN 0 ELSE sum[j - 1] + s.dnum[s.list[j]]
  IN sum

(* engine_service_transfer_list: count descriptors are done.  All the      *)
(* transfers they complete go, but the last: that one is left, with the    *)
(* rest of the count, to engine_service_final_transfer.                    *)
ServiceList(s, count) ==
  LET m == Cardinality({j \in 1 .. Len(s.list) : Sums(s)[j] < count})
      s1 == [s EXCEPT !.dequeued = (@ + Sums(s)[m]) % Word]
  IN [s |-> Retire(s1, m, "completed"), n |-> count - Sums(s)[m]]

ServiceFinalAll(s, n) ==           \* mutant: the count is not compared
  IF s.list = <<>> THEN s
  ELSE LET s1 == [s EXCEPT !.dequeued = (@ + s.dnum[Head(s.list)]) % Word]
       IN IF s.err THEN Retire(Stop(s), 1, "failed")
          ELSE Retire(s1, 1, "completed")

ServiceFinal(s, n) ==
  IF s.list = <<>> THEN s
  ELSE LET d == s.dnum[Head(s.list)]
       IN IF s.err THEN Retire(Stop(s), 1, "failed")
          ELSE Retire([s EXCEPT !.dequeued = (@ + d) % Word], 1,
                      IF n < d THEN "failed" ELSE "completed")

ResumeNever(s) ==                  \* mutant: the next transfer is not started
  IF s.running /\ s.list = <<>> THEN Stop(s) ELSE s
Resume(s) ==
  IF s.running THEN (IF s.list = <<>> THEN Stop(s) ELSE s) ELSE Start(s)

(* engine_service, to the set of engines it may leave: c and werr are the *)
(* polled writeback, 0 and FALSE from an interrupt; the hardware may move  *)
(* between the read of the status and the read of the count.               *)
Halted(s, c, werr) ==
  LET s1 == IF c = 0 \/ werr THEN ReadStatus(s) ELSE s
  IN IF ~s1.busy \/ c # 0 THEN Stop(s1) ELSE s1

Serviced(s, n) ==
  IF n = 0 THEN {s}
  ELSE {Resume(f) : f \in {ServiceFinal(p.s, p.n) :
                             p \in {ServiceList(s, (n - s.dequeued) % Word)}}}

ServiceStopped(s, c, werr) ==      \* mutant: no test for a stopped engine
  UNION {Serviced(h, IF c # 0 THEN c ELSE h.hcnt) : h \in {Halted(s, c, werr)}}

Service(s, c, werr) ==
  IF ~s.running THEN {ReadStatus(s)}
  ELSE IF c # 0 THEN Serviced(Halted(s, c, werr), c)
  ELSE UNION {Serviced(h, h.hcnt) : h \in UNION {{g} \cup Steps(g) :
                                       g \in {Halted(s, c, werr)}}}

(* transfer_init: carve the chunk out of the ring, up to its end, whoever  *)
(* holds those slots: desc_used is kept but not looked at.                 *)
ChunkSize(s, n) == IF s.idx + n >= DescMax THEN DescMax - s.idx ELSE n
Taken(s, n) == s.idx .. s.idx + ChunkSize(s, n) - 1
Written(s, x, n) ==
  [s EXCEPT !.dnum[x] = ChunkSize(s, n), !.at[x] = s.idx,
            !.ring = [p \in Slots |-> IF p \in Taken(s, n) THEN x ELSE @[p]]]

CarveNoWrap(s, x, n) ==            \* mutant: desc_idx is not wrapped
  [Written(s, x, n) EXCEPT !.idx = @ + ChunkSize(s, n)]

Carve(s, x, n) ==
  [Written(s, x, n) EXCEPT !.idx = (@ + ChunkSize(s, n)) % DescMax]

(* A slot that was not cleared yet, or that the engine is still to read.   *)
InUse(s, p) ==
  s.ring[p] # NoXfer \/ (s.hw # "idle" /\ p \in SlotsOf(s, s.hx))

(* transfer_queue, past its checks *)
Queue(s, x) ==
  Start([s EXCEPT !.state[x] = "submitted", !.list = Append(@, x)])

(* transfer_abort: only a transfer at the head is taken off the list. *)
AbortKeeps(s, x) == [s EXCEPT !.state[x] = "aborted"]  \* mutant: no list_del
Abort(s, x) ==
  [s EXCEPT !.list = IF @ # <<>> /\ Head(@) = x THEN Tail(@) ELSE @,
            !.state[x] = "aborted"]

(* A transfer is refused while offline or while a shutdown is requested. *)
Refused == offline \/ eng.request

(* Once the list holds memory that was freed the next access is undefined: *)
(* the model goes no further.                                              *)
Dangling == \E i \in 1 .. Len(eng.list) : ReqOf(eng.list[i]) \in eng.freed
Defined == ~Dangling /\ UNCHANGED scenario

-----------------------------------------------------------------------------
Init ==
  /\ scenario \in Scenarios
  /\ eng = IdleEngine
  /\ pc = [t \in Tasks |-> "idle"]
  /\ seg = [t \in Tasks |-> 1]
  /\ chunk = [t \in Tasks |-> 1]
  /\ left = Need
  /\ got = [t \in Tasks |-> 0]
  /\ ret = [t \in Tasks |-> "none"]
  /\ desc_lock = {}
  /\ irq_on = ~scenario.poll /\ handler = TRUE /\ work = FALSE
  /\ offline = FALSE /\ phase = "on" /\ offlines = 0
  /\ ppc = "idle" /\ expect = 0 /\ woken = FALSE
  /\ upset = [what |-> {}, forged |-> {}]

Disturb(w) == upset' = [upset EXCEPT !.what = @ \cup {w}]
Cur(t) == <<t, seg[t], chunk[t]>>

(* read() and write(): xdma_xfer_submit. *)
SyncCall(t) ==
  /\ pc[t] = "idle" /\ t \in scenario.tasks
  /\ IF offline
     THEN pc' = [pc EXCEPT ![t] = "done"] /\ ret' = [ret EXCEPT ![t] = "busy"]
     ELSE pc' = [pc EXCEPT ![t] = "lock"] /\ UNCHANGED ret
  /\ Defined /\ UNCHANGED <<eng, seg, chunk, left, got, desc_lock, irqVars,
                 devVars, pollVars, upset>>

SyncLockShared(t) ==               \* mutant: desc_lock is not waited for
  /\ pc[t] = "lock"
  /\ desc_lock' = {t}
  /\ pc' = [pc EXCEPT ![t] = "build"]
  /\ Defined /\ UNCHANGED <<eng, seg, chunk, left, got, ret, irqVars, devVars,
                 pollVars, upset>>

SyncLock(t) ==
  /\ pc[t] = "lock" /\ desc_lock = {}
  /\ desc_lock' = {t}
  /\ pc' = [pc EXCEPT ![t] = "build"]
  /\ Defined /\ UNCHANGED <<eng, seg, chunk, left, got, ret, irqVars, devVars,
                 pollVars, upset>>

(* An iocb's request has two transfers: carving a third would write past    *)
(* them, and the model goes no further.                                    *)
Build(t) ==
  /\ pc[t] = "build" /\ (t \in Aio => chunk[t] <= 2)
  /\ eng' = Carve(eng, Cur(t), left[t])
  /\ left' = [left EXCEPT ![t] = @ - ChunkSize(eng, left[t])]
  /\ pc' = [pc EXCEPT ![t] = "queue"]
  /\ IF \E p \in Taken(eng, left[t]) : InUse(eng, p)
     THEN Disturb("overrun") ELSE UNCHANGED upset
  /\ Defined /\ UNCHANGED <<seg, chunk, got, ret, desc_lock, irqVars, devVars,
                 pollVars>>

FinishHoldsLock(t, s, moved, result) ==   \* mutant: no mutex_unlock
  /\ eng' = [s EXCEPT !.freed = @ \cup {<<t, 1>>}]
  /\ got' = [got EXCEPT ![t] = moved]
  /\ ret' = [ret EXCEPT ![t] = IF moved > 0 THEN "bytes" ELSE result]
  /\ pc' = [pc EXCEPT ![t] = "done"]
  /\ UNCHANGED <<chunk, desc_lock>>

(* The call is over: the request is released, and the bytes moved so far   *)
(* are returned if there are any.                                          *)
Finish(t, s, moved, result) ==
  /\ eng' = [s EXCEPT !.freed = @ \cup {<<t, 1>>}]
  /\ got' = [got EXCEPT ![t] = moved]
  /\ ret' = [ret EXCEPT ![t] = IF moved > 0 THEN "bytes" ELSE result]
  /\ pc' = [pc EXCEPT ![t] = "done"]
  /\ desc_lock' = {}
  /\ UNCHANGED chunk

SyncQueue(t) ==
  /\ t \in Sync /\ pc[t] = "queue"
  /\ IF Refused
     THEN Finish(t, eng, got[t], "busy")
     ELSE /\ eng' = Queue(eng, Cur(t))
          /\ pc' = [pc EXCEPT
                      ![t] = IF scenario.poll THEN "wakeup" ELSE "wait"]
          /\ UNCHANGED <<chunk, got, ret, desc_lock>>
  /\ Defined /\ UNCHANGED <<seg, left, irqVars, devVars, pollVars, upset>>

(* xdma_kthread_wakeup: the transfer was already queued for anyone to see. *)
SyncWakePoll(t) ==
  /\ pc[t] = "wakeup"
  /\ woken' = TRUE
  /\ pc' = [pc EXCEPT ![t] = "wait"]
  /\ Defined /\ UNCHANGED <<eng, seg, chunk, left, got, ret, desc_lock,
                            irqVars, devVars, ppc, expect, upset>>

SyncWake(t) ==
  /\ pc[t] = "wait" /\ eng.state[Cur(t)] # "submitted"
  /\ pc' = [pc EXCEPT ![t] = "check"]
  /\ Defined /\ UNCHANGED <<eng, seg, chunk, left, got, ret, desc_lock,
                 irqVars, devVars, pollVars, upset>>

SyncTimeout(t) ==
  /\ pc[t] = "wait" /\ Fault("timeout")
  /\ pc' = [pc EXCEPT ![t] = "check"]
  /\ Defined /\ UNCHANGED <<eng, seg, chunk, left, got, ret, desc_lock,
                 irqVars, devVars, pollVars, upset>>

(* The chunk is done; the request goes on with the next one if any. *)
ChunkDone(t, s) ==
  LET moved == got[t] + s.dnum[Cur(t)]
  IN IF left[t] = 0 THEN Finish(t, s, moved, "bytes")
     ELSE /\ eng' = s
          /\ got' = [got EXCEPT ![t] = moved]
          /\ chunk' = [chunk EXCEPT ![t] = @ + 1]
          /\ pc' = [pc EXCEPT ![t] = "build"]
          /\ UNCHANGED <<ret, desc_lock>>

(* After the wait, by the transfer's state.  A transfer still in flight is *)
(* serviced as if all its descriptors had completed, then aborted.  Its    *)
(* descriptors are cleared in any case, also under an engine that is still *)
(* busy with them; those of a transfer that was refused never are.         *)
Cleared(t, s) == Clear(s, {Cur(t)})

SyncChecked(t) ==
  /\ pc[t] = "check" /\ eng.state[Cur(t)] # "submitted"
  /\ IF eng.state[Cur(t)] = "completed"
     THEN ChunkDone(t, Cleared(t, eng))
     ELSE Finish(t, Cleared(t, eng), got[t], "error")
  /\ Defined /\ UNCHANGED <<seg, left, irqVars, devVars, pollVars, upset>>

SyncExpired(t) ==
  /\ pc[t] = "check" /\ eng.state[Cur(t)] = "submitted"
  /\ LET x == Cur(t) IN
     \E s \in {Cleared(t, f) : f \in Service(eng, eng.dnum[x], FALSE)} :
        /\ upset' = [upset EXCEPT
             !.what = @ \cup {"timeout"} \cup
                      IF \E i \in 2 .. Len(s.list) : s.list[i] = x
                      THEN {"stranded"} ELSE {},
             !.forged = @ \cup {y \in Xfers : /\ eng.state[y] = "submitted"
                                              /\ s.state[y] = "completed"}]
        /\ CASE s.state[x] = "completed" -> ChunkDone(t, s)
             [] s.state[x] = "failed" -> Finish(t, s, got[t], "error")
             [] OTHER ->
                  Finish(t, Stop(Abort(PeekStatus(s), x)), got[t], "restart")
  /\ Defined /\ UNCHANGED <<seg, left, irqVars, devVars, pollVars>>

-----------------------------------------------------------------------------
(* read_iter and write_iter: one request per segment, nobody waits.  What *)
(* xdma_xfer_submit_nowait returns is ignored.                             *)
NextSeg(t) ==
  /\ IF seg[t] < Segs[t]
     THEN seg' = [seg EXCEPT ![t] = @ + 1] /\ pc' = [pc EXCEPT ![t] = "idle"]
     ELSE UNCHANGED seg /\ pc' = [pc EXCEPT ![t] = "done"]
  /\ chunk' = [chunk EXCEPT ![t] = 1]
  /\ left' = [left EXCEPT ![t] = Need[t]]
  /\ woken' = (woken \/ (scenario.poll /\ seg[t] = Segs[t]))

AioSubmit(t) ==
  /\ pc[t] = "idle" /\ t \in scenario.tasks
  /\ IF offline THEN NextSeg(t)
     ELSE /\ pc' = [pc EXCEPT ![t] = "build"]
          /\ UNCHANGED <<seg, chunk, left, woken>>
  /\ Defined /\ UNCHANGED <<eng, got, ret, desc_lock, irqVars, devVars, ppc,
                 expect, upset>>

AioQueue(t) ==
  /\ t \in Aio /\ pc[t] = "queue"
  /\ IF Refused
     THEN /\ eng' = [eng EXCEPT !.freed = @ \cup {ReqOf(Cur(t))}]
          /\ NextSeg(t)
          /\ IF chunk[t] > 1 THEN Disturb("stranded") ELSE UNCHANGED upset
     ELSE /\ eng' = Queue(eng, Cur(t))
          /\ UNCHANGED upset
          /\ IF left[t] = 0 THEN NextSeg(t)
             ELSE /\ chunk' = [chunk EXCEPT ![t] = @ + 1]
                  /\ pc' = [pc EXCEPT ![t] = "build"]
                  /\ UNCHANGED <<seg, left, woken>>
  /\ Defined
  /\ UNCHANGED <<got, ret, desc_lock, irqVars, devVars, ppc, expect>>

-----------------------------------------------------------------------------
(* The hardware, the interrupt and its deferred work. *)
HwMove ==
  /\ eng' \in Steps(eng)
  /\ Defined /\ UNCHANGED <<callVars, irqVars, devVars, pollVars, upset>>

(* An engine in error whose transfer is still at the head of its list, or  *)
(* one whose transfer was taken off the list before the run had ended.     *)
HwFails ==
  /\ eng' = Fail(eng)
  /\ IF eng.list # <<>> /\ eng.hx = Head(eng.list) THEN UNCHANGED upset
     ELSE Disturb("orphan")

(* A cleared descriptor has no magic and is an error to an engine that     *)
(* reads it; one that was told to stop may not come to read it.            *)
HwStarves ==
  /\ eng.hw # "idle" /\ eng.ring[Reached(eng)] = NoXfer
  /\ IF eng.hw = "busy" THEN HwFails
     ELSE /\ eng' = [eng EXCEPT !.hw = "idle", !.irq = TRUE]
          /\ UNCHANGED upset
  /\ Defined /\ UNCHANGED <<callVars, irqVars, devVars, pollVars>>

HwError ==
  /\ eng.hw = "busy" /\ Fault("error")
  /\ HwFails
  /\ Defined /\ UNCHANGED <<callVars, irqVars, devVars, pollVars>>

(* xdma_isr: mask the channel and leave the rest to the work item. *)
Isr ==
  /\ eng.irq /\ irq_on /\ handler
  /\ irq_on' = FALSE /\ work' = TRUE
  /\ Defined /\ UNCHANGED <<eng, callVars, handler, devVars, pollVars, upset>>

ServiceWork ==
  /\ work
  /\ eng' \in Service(eng, 0, FALSE)
  /\ work' = FALSE /\ irq_on' = TRUE
  /\ Defined /\ UNCHANGED <<callVars, handler, devVars, pollVars, upset>>

-----------------------------------------------------------------------------
(* The polling thread: it runs when the list is not empty or it was woken, *)
(* and reads the head's threshold without the lock.  With an empty list    *)
(* that read yields anything.                                              *)
PollBegin ==
  /\ scenario.poll /\ ppc = "idle"
  /\ eng.list # <<>> \/ woken
  /\ woken' = FALSE
  /\ ppc' = "read"
  /\ Defined /\ UNCHANGED <<eng, callVars, irqVars, devVars, expect, upset>>

PollRead ==
  /\ ppc = "read"
  /\ expect' \in IF eng.list = <<>> THEN 0 .. DescMax + 1
                 ELSE {eng.dnum[Head(eng.list)]}
  /\ ppc' = IF expect' = 0 THEN "idle" ELSE "monitor"
  /\ upset' = IF eng.list = <<>> /\ expect' # 0
              THEN [upset EXCEPT !.what = @ \cup {"wild"}] ELSE upset
  /\ Defined /\ UNCHANGED <<eng, callVars, irqVars, devVars, woken>>

(* engine_service_wb_monitor takes each writeback away as it reads it, the *)
(* one that is below the expected count too; it returns that one only if   *)
(* its time is up as well.                                                 *)
PollMonitor ==
  /\ ppc = "monitor" /\ (eng.wb # 0 \/ eng.wberr)
  /\ LET s == [eng EXCEPT !.wb = 0, !.wberr = FALSE]
     IN \/ eng' \in Service(s, eng.wb, eng.wberr) /\ ppc' = "idle"
        \/ ~eng.wberr /\ eng.wb < expect /\ eng' = s /\ UNCHANGED ppc
  /\ Defined /\ UNCHANGED <<callVars, irqVars, devVars, expect, woken, upset>>

PollGivesUp ==
  /\ ppc = "monitor" /\ eng.wb = 0 /\ ~eng.wberr
  /\ ppc' = "idle"
  /\ Defined /\ UNCHANGED <<eng, callVars, irqVars, devVars, expect, woken,
                 upset>>

-----------------------------------------------------------------------------
(* xdma_device_offline and xdma_device_online. *)
OfflineFlag ==
  /\ Fault("offline") /\ phase = "on" /\ offlines < MaxOffline
  /\ offline' = TRUE /\ phase' = "flagged" /\ offlines' = offlines + 1
  /\ Defined /\ UNCHANGED <<eng, callVars, irqVars, pollVars, upset>>

OfflineEngine ==
  /\ phase = "flagged"
  /\ eng' = Stop([eng EXCEPT !.request = TRUE])
  /\ phase' = "stopped"
  /\ Disturb("offline")
  /\ Defined /\ UNCHANGED <<callVars, irqVars, offline, offlines, pollVars>>

OfflineIrqs ==
  /\ phase = "stopped"
  /\ irq_on' = FALSE /\ handler' = FALSE
  /\ phase' = "off"
  /\ Defined /\ UNCHANGED <<eng, callVars, work, offline, offlines, pollVars,
                 upset>>

OnlineEngine ==
  /\ phase = "off"
  /\ eng' = [eng EXCEPT !.request = FALSE, !.wb = 0, !.wberr = FALSE]
  /\ phase' = "regs"
  /\ Defined /\ UNCHANGED <<callVars, irqVars, offline, offlines, pollVars,
                 upset>>

OnlineIrqs ==
  /\ phase = "regs"
  /\ irq_on' = (irq_on \/ ~scenario.poll)
  /\ handler' = (handler \/ ~scenario.poll)
  /\ offline' = FALSE /\ phase' = "on"
  /\ Defined /\ UNCHANGED <<eng, callVars, work, offlines, pollVars, upset>>

SyncStep(t) == \/ SyncCall(t) \/ SyncLock(t) \/ Build(t) \/ SyncQueue(t)
               \/ SyncWakePoll(t) \/ SyncWake(t) \/ SyncTimeout(t)
               \/ SyncChecked(t) \/ SyncExpired(t)
AioStep(t) == AioSubmit(t) \/ Build(t) \/ AioQueue(t)
HwStep == HwMove \/ HwStarves
Hardware == HwStep \/ HwError
Poll == PollBegin \/ PollRead \/ PollMonitor \/ PollGivesUp
Device == \/ OfflineFlag \/ OfflineEngine \/ OfflineIrqs
          \/ OnlineEngine \/ OnlineIrqs

Next == \/ \E t \in Sync : SyncStep(t)
        \/ \E t \in Aio : AioStep(t)
        \/ Hardware \/ Isr \/ ServiceWork \/ Poll \/ Device

(* The scheduler runs every thread that can run, the engine executes what *)
(* it is given and an expired timer fires; nobody has to call, and the    *)
(* device need not go offline.                                            *)
Fairness ==
  /\ \A t \in Sync : WF_vars(pc[t] # "idle" /\ SyncStep(t))
  /\ \A t \in Aio :
       WF_vars((pc[t] # "idle" \/ seg[t] > 1) /\ AioStep(t))
  /\ WF_vars(HwStep) /\ WF_vars(Isr)
  /\ WF_vars(ServiceWork) /\ WF_vars(Poll)

Spec == Init /\ [][Next]_vars /\ Fairness

-----------------------------------------------------------------------------
(* Type invariant: every variable of the callers, the engine, the          *)
(* interrupt path, the polling thread and the offline procedure stays      *)
(* among the values named here.                                            *)
EngineOK(s) ==
  /\ DOMAIN s = DOMAIN IdleEngine
  /\ s.list \in Seq(Xfers)
  /\ s.running \in BOOLEAN /\ s.request \in BOOLEAN
  /\ s.busy \in BOOLEAN /\ s.err \in BOOLEAN
  /\ s.herr \in BOOLEAN /\ s.irq \in BOOLEAN /\ s.wberr \in BOOLEAN
  /\ s.dequeued \in 0 .. Word - 1
  /\ s.hw \in {"idle", "busy", "drain"}
  /\ s.hx \in Xfers \cup {NoXfer}
  /\ s.hcnt \in 0 .. DescMax /\ s.wb \in 0 .. DescMax
  /\ s.idx \in 0 .. DescMax - 1
  /\ s.ring \in [Slots -> Xfers \cup {NoXfer}] /\ s.at \in [Xfers -> Slots]
  /\ s.dnum \in [Xfers -> 0 .. DescMax]
  /\ s.moved \in [Xfers -> 0 .. DescMax]
  /\ s.state \in [Xfers -> XferStates]
  /\ s.cmpl \in [Aio -> Nat] /\ s.ended \in [Aio -> Nat]
  /\ s.res \in [Aio -> Nat]
  /\ s.erred \subseteq Xfers /\ s.freed \subseteq Reqs

TypeOK ==
  /\ EngineOK(eng)
  /\ scenario \in Scenarios
  /\ pc \in [Tasks -> {"idle", "lock", "build", "queue", "wakeup", "wait",
                       "check", "done"}]
  /\ {seg, chunk, left, got} \subseteq [Tasks -> Nat]
  /\ \A t \in Tasks :
       /\ seg[t] \in 1 .. Segs[t] /\ chunk[t] \in 1 .. Need[t]
       /\ left[t] \in 0 .. Need[t] /\ got[t] \in 0 .. Need[t]
  /\ ret \in [Tasks -> {"none", "busy", "error", "restart", "bytes"}]
  /\ desc_lock \subseteq Sync
  /\ irq_on \in BOOLEAN /\ handler \in BOOLEAN /\ work \in BOOLEAN
  /\ offline \in BOOLEAN /\ woken \in BOOLEAN
  /\ phase \in {"on", "flagged", "stopped", "off", "regs"}
  /\ offlines \in 0 .. MaxOffline
  /\ ppc \in {"idle", "read", "monitor"} /\ expect \in 0 .. DescMax + 1
  /\ upset \in [what : SUBSET Disturbances, forged : SUBSET Xfers]

(* What the engine's list may hold: a transfer is listed once, it is       *)
(* submitted, and the request that owns its memory has not been freed,     *)
(* whatever callers, time-outs, errors and resets did.  There are two      *)
(* exceptions, both noted when they happen: a wait that expires behind     *)
(* another transfer, and an iocb whose second chunk is refused.            *)
ListLive ==
  "stranded" \notin upset.what =>
    \A i \in 1 .. Len(eng.list) :
      /\ \A j \in 1 .. Len(eng.list) : eng.list[j] = eng.list[i] => i = j
      /\ eng.state[eng.list[i]] = "submitted"
      /\ ReqOf(eng.list[i]) \notin eng.freed

(* Nobody is told more data moved than the hardware moved: neither the     *)
(* count read() and write() return nor the total an iocb completes with,   *)
(* transfers that an expired wait wrote off excepted.  Once the device was *)
(* taken offline under a running transfer its late interrupt can be        *)
(* charged to the next run, and after an expired wait so can the writeback *)
(* it left for the polling thread.  The late interrupt of a wait that      *)
(* expired fails the next run's transfer too early, and an engine error in *)
(* the rest of that run makes the count less than desc_dequeued: it wraps, *)
(* and all that is listed passes for complete.  And a request carved out   *)
(* of descriptors still in use (transfer_init does not look at desc_used)  *)
(* makes the engine run other transfers' data for the one at the head.     *)
(* Then the counts no longer say anything.                                 *)
SumMoved(t) == Cardinality(Descs(XfersOf(t), eng.moved))
Trusted ==
  /\ {"offline", "orphan", "overrun"} \cap upset.what = {}
  /\ ~("timeout" \in upset.what /\ scenario.poll)
ReportedMoved ==
  Trusted =>
    \A t \in Tasks : (\A x \in upset.forged : x[1] # t) =>
      (IF t \in Sync THEN got[t] ELSE eng.res[t]) <= SumMoved(t)

(* A transfer fails only if the hardware reported an error on that very    *)
(* transfer; a late interrupt of an earlier run, or a status cached from   *)
(* one, must not fail its successor.  Expired waits, an offline device and *)
(* a ring that was run over are excepted.                                  *)
FailedMeansError ==
  upset.what = {} =>
    \A x \in Xfers : eng.state[x] = "failed" => x \in eng.erred

(* As long as no wait expired, the device was not taken offline and no     *)
(* request was carved out of descriptors in use, the hardware only works   *)
(* on the head of the list and finds that transfer's own descriptors in    *)
(* the ring: it never runs one whose owner was already told that it is     *)
(* over, and no other transfer's data.                                     *)
HardwareRunsHead ==
  upset.what = {} /\ eng.hw # "idle" =>
    /\ eng.list # <<>> /\ eng.hx = Head(eng.list)
    /\ \A p \in SlotsOf(eng, eng.hx) : eng.ring[p] = eng.hx

(* Nothing but desc_lock keeps the ring from being run over: as long as    *)
(* only read() and write() are called, transfer_init never takes a         *)
(* descriptor in use, though it does not look at desc_used.  A wait that   *)
(* expires under the engine, and a request refused by an offline device    *)
(* (its descriptors are never given back), are excepted.                   *)
CallsKeepRing ==
  "overrun" \in upset.what =>
    \/ scenario.tasks \cap Aio # {}
    \/ "timeout" \in upset.what \/ offlines > 0

(* An iocb completes at most once, after all its segments are through and  *)
(* none of its transfers is left on the list.                              *)
AioOnce ==
  \A t \in Aio : eng.ended[t] > 0 =>
    /\ eng.ended[t] = 1 /\ eng.cmpl[t] = Segs[t]
    /\ \A i \in 1 .. Len(eng.list) : eng.list[i][1] # t

(* Once the device is offline the engine stays stopped, with transfers     *)
(* still on its list, until it is back online: a late interrupt, an        *)
(* expired wait or a new request does not set it going.                    *)
OfflineStays ==
  [][(phase \in {"stopped", "off"} /\ phase' = phase) => ~(eng'.running)]_vars

(* A call to read() or write() returns, whatever fails and whoever holds   *)
(* desc_lock before it, because its wait times out.  With interrupts it    *)
(* returns without the time-out when nothing fails; a polling thread that  *)
(* took a threshold from an empty list swallows the writeback, and an      *)
(* engine that runs into a descriptor cleared under it, in a ring that was *)
(* run over, is not serviced.                                              *)
Undisturbed == scenario.faults = {} /\ ~scenario.poll
CallsReturn ==
  \A t \in Sync :
    ((pc[t] = "lock" /\ (Fault("timeout") \/ Undisturbed))
       ~> (\/ pc[t] = "done" \/ Dangling
           \/ Undisturbed /\ "overrun" \in upset.what))

(* An iocb whose segments were all accepted completes, when nothing fails  *)
(* and interrupts are used, however it interleaves with other callers, if  *)
(* all that was asked for fits the ring.                                   *)
IocbsComplete ==
  \A t \in Aio :
    (pc[t] = "done" /\ Undisturbed)
      ~> (eng.ended[t] = 1 \/ "overrun" \in upset.what)
=============================================================================
