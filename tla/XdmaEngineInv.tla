--------------------------- MODULE XdmaEngineInv ----------------------------
(***************************************************************************)
(* The inductive invariant of XdmaEngine.  The first part speaks of one    *)
(* engine and is kept by every operator on engines; the second relates     *)
(* the engine to the callers; the third is of the ring as long as it was   *)
(* not run over; the fourth says what holds as long as no wait expired     *)
(* either and the device was not taken offline, and the fifth what holds   *)
(* of the counts as long as they can be trusted.                           *)
(***************************************************************************)
EXTENDS XdmaEngine

Places(s) == 1 .. Len(s.list)
Over == {"completed", "failed"}

(* A transfer is listed once, the chunks of a request in their order.      *)
Ordered(s) ==
  \A i, j \in Places(s) :
    i < j /\ ReqOf(s.list[i]) = ReqOf(s.list[j]) =>
      s.list[i][3] < s.list[j][3]

(* What was queued has descriptors; an iocb's request was cut in two at    *)
(* most, into no more descriptors than it needs.                           *)
Carved(s) ==
  \A x \in Xfers : s.state[x] # "new" =>
    /\ s.dnum[x] >= 1
    /\ x[1] \in Aio /\ x[3] # 1 =>
         /\ x[3] = 2
         /\ s.dnum[<<x[1], x[2], 1>>] >= 1
         /\ s.dnum[<<x[1], x[2], 1>>] + s.dnum[x] <= Need[x[1]]

(* A transfer's slots are in the ring, and a slot that was not cleared is  *)
(* one of those of the transfer it holds.                                  *)
Ringed(s) ==
  /\ \A x \in Xfers : s.at[x] + s.dnum[x] <= DescMax
  /\ \A p \in Slots : s.ring[p] # NoXfer => p \in SlotsOf(s, s.ring[p])

(* The hardware runs a transfer that was queued, and is inside the ring.   *)
Engaged(s) ==
  s.hw # "idle" =>
    s.hx \in Xfers /\ s.state[s.hx] # "new" /\ Reached(s) < DescMax

(* The requests of an iocb whose last chunk is through: so many times its  *)
(* handler ran, and nothing of them is on the list.                        *)
Through(s, t) ==
  {r \in Reqs : r[1] = t /\ \E x \in Xfers :
                  ReqOf(x) = r /\ LastInRequest(s, x) /\ s.state[x] \in Over}

Counted(s) ==
  /\ \A t \in Aio :
       /\ s.cmpl[t] = Cardinality(Through(s, t))
       /\ s.ended[t] = IF s.cmpl[t] >= Segs[t] THEN 1 ELSE 0
  /\ \A i \in Places(s) : s.list[i][1] \in Aio =>
       ReqOf(s.list[i]) \notin Through(s, s.list[i][1])

(* The total of an iocb is of descriptors of completed transfers, of those *)
(* requests of it that are over.                                           *)
IocbTold(s, t) ==
  {x \in XfersOf(t) : s.state[x] = "completed" /\ ReqOf(x) \in s.freed}

Tallied(s) ==
  \A t \in Aio : s.res[t] <= Cardinality(Descs(IocbTold(s, t), s.dnum))

EngineInv(s) ==
  /\ EngineOK(s) /\ Ordered(s) /\ Carved(s) /\ Ringed(s) /\ Engaged(s)
  /\ Counted(s) /\ Tallied(s)

(* What is listed waits for the engine, and its memory is there.           *)
Live(s) ==
  \A i \in Places(s) :
    s.state[s.list[i]] = "submitted" /\ ReqOf(s.list[i]) \notin s.freed

Undangled(s) ==
  \A i \in Places(s) :
    s.state[s.list[i]] = "submitted" \/ ReqOf(s.list[i]) \in s.freed

-----------------------------------------------------------------------------
(* The chunks a caller has not queued yet are new.                         *)
Pending(t) == pc[t] \in {"idle", "lock", "build", "queue"}
Ahead(x) ==
  LET t == x[1]
  IN /\ pc[t] # "done"
     /\ \/ x[2] > seg[t]
        \/ /\ x[2] = seg[t]
           /\ x[3] > chunk[t] \/ (x[3] = chunk[t] /\ Pending(t))

(* And those it has not carved yet have no descriptors.                    *)
Uncarved(x) ==
  LET t == x[1]
  IN /\ pc[t] # "done"
     /\ \/ x[2] > seg[t]
        \/ /\ x[2] = seg[t]
           /\ \/ x[3] > chunk[t]
              \/ x[3] = chunk[t] /\ pc[t] \in {"idle", "lock", "build"}

First(t) == <<t, seg[t], 1>>
Carving(t) == pc[t] \in {"queue", "wakeup", "wait", "check"}

(* The completed ones of the chunks that a call is past.                   *)
CallTold(t) ==
  {x \in XfersOf(t) : /\ eng.state[x] = "completed"
                      /\ x[3] < chunk[t] \/ pc[t] = "done"}

(* Where a call is, the descriptors it has carved and those left make up   *)
(* the request, and those it counts as moved are of completed chunks.      *)
SyncPlace(t) ==
  /\ pc[t] \in {"idle", "lock"} =>
       chunk[t] = 1 /\ left[t] = Need[t] /\ got[t] = 0
  /\ pc[t] = "build" => got[t] + left[t] = Need[t]
  /\ Carving(t) => got[t] + left[t] + eng.dnum[Cur(t)] = Need[t]
  /\ Carving(t) /\ pc[t] # "queue" => eng.state[Cur(t)] # "new"
  /\ \A i \in 1 .. chunk[t] - 1 : eng.state[<<t, 1, i>>] # "submitted"
  /\ got[t] <= Cardinality(Descs(CallTold(t), eng.dnum))

AioPlace(t) ==
  /\ pc[t] \in {"idle", "build", "queue", "done"}
  /\ pc[t] = "idle" => chunk[t] = 1 /\ left[t] = Need[t]
  /\ pc[t] = "build" =>
       \/ chunk[t] = 1 /\ left[t] = Need[t]
       \/ chunk[t] = 2 /\ eng.dnum[First(t)] + left[t] = Need[t]
       \/ chunk[t] = 3 /\ eng.dnum[First(t)] + eng.dnum[<<t, seg[t], 2>>]
                            + left[t] = Need[t]
  /\ pc[t] = "queue" =>
       \/ chunk[t] = 1 /\ eng.dnum[Cur(t)] + left[t] = Need[t]
       \/ chunk[t] = 2 /\ eng.dnum[First(t)] + eng.dnum[Cur(t)] + left[t]
                            = Need[t]
  /\ pc[t] \in {"build", "queue"} /\ chunk[t] # 1 => eng.dnum[First(t)] >= 1

(* What was not queued yet is new, a request is freed once its caller is   *)
(* past it, and each chunk takes a descriptor at least.                    *)
TaskInv(t) ==
  /\ \A x \in Xfers : x[1] = t /\ Ahead(x) => eng.state[x] = "new"
  /\ \A x \in Xfers : x[1] = t /\ Uncarved(x) => eng.dnum[x] = 0
  /\ \A r \in eng.freed : r[1] = t => r[2] < seg[t] \/ pc[t] = "done"
  /\ pc[t] = "build" => left[t] >= 1 /\ chunk[t] + left[t] <= Need[t] + 1
  /\ Carving(t) => chunk[t] + left[t] <= Need[t] /\ eng.dnum[Cur(t)] >= 1
  /\ t \in Sync => SyncPlace(t)
  /\ t \in Aio => AioPlace(t)

CallInv == \A t \in Tasks : TaskInv(t)

OfflineInv ==
  /\ phase # "on" => offline
  /\ phase \in {"stopped", "off"} => ~eng.running
  /\ phase \in {"stopped", "off", "regs"} => "offline" \in upset.what

StrandInv == "stranded" \notin upset.what => ~Dangling

(* The inductive invariant that the types, the list, the iocbs and the     *)
(* offline procedure rest on.                                              *)
CoreInv ==
  /\ TypeOK /\ EngineInv(eng) /\ Undangled(eng)
  /\ CallInv /\ OfflineInv /\ StrandInv

-----------------------------------------------------------------------------
(* The descriptors of a transfer are in the ring as they were written.     *)
Whole(s, x) == \A p \in SlotsOf(s, x) : s.ring[p] = x

(* The chunks that a call is not past, and all those of iocbs.             *)
Current == {x \in Xfers : x[1] \in Sync => x[3] >= chunk[x[1]]}

(* As long as nothing was carved out of descriptors in use: those of the   *)
(* transfers in X are whole until their request is freed, and where the    *)
(* hardware runs it finds its own transfer's, or cleared ones.             *)
Tidy(s, X) ==
  /\ \A x \in X : s.dnum[x] > 0 /\ ReqOf(x) \notin s.freed => Whole(s, x)
  /\ s.hw # "idle" =>
       /\ s.hcnt < s.dnum[s.hx]
       /\ \A p \in SlotsOf(s, s.hx) : s.ring[p] \in {s.hx, NoXfer}

RingInv == "overrun" \notin upset.what => Tidy(eng, Current)

-----------------------------------------------------------------------------
(* Interrupts or polling, never both.                                      *)
PathInv ==
  /\ scenario.poll => ~irq_on /\ ~work
  /\ ~scenario.poll => ppc = "idle"

(* A run of the engine is of the transfer at the head, from its first      *)
(* descriptor on; when it ends, all of the transfer was moved or the       *)
(* hardware has reported an error on it.                                   *)
Runs(s) ==
  /\ s.hw # "drain" /\ (s.hw = "busy" => s.running)
  /\ s.running =>
       /\ s.list # <<>> /\ s.hx = Head(s.list) /\ s.hcnt <= s.dnum[s.hx]
       /\ s.dequeued = 0 /\ ~s.err
       /\ s.hw = "idle" => s.herr \/ s.hcnt = s.dnum[s.hx]
  /\ s.herr => s.running /\ s.hw = "idle" /\ s.hx \in s.erred
  /\ \A x \in Xfers : s.state[x] = "failed" => x \in s.erred

(* There is one report of a run that has ended, an interrupt or a          *)
(* writeback, and none of an earlier one is left when the next begins.     *)
Reports(s) ==
  /\ s.irq => scenario.poll \/ (s.running /\ s.hw = "idle")
  /\ s.wb # 0 => scenario.poll /\ s.running /\ s.hw = "idle" /\ s.wb = s.hcnt
  /\ s.wberr => scenario.poll /\ s.herr
  /\ s.herr => (scenario.poll => s.wberr)

RunInv ==
  upset.what = {} =>
    /\ Runs(eng) /\ Reports(eng)
    /\ work => eng.running /\ eng.hw = "idle"

-----------------------------------------------------------------------------
(* A completed transfer was moved, or written off.                         *)
Credit(s, forged) ==
  \A x \in Xfers : s.state[x] = "completed" =>
    x \in forged \/ s.dnum[x] <= s.moved[x]

(* A run is of the head of the list, or a late interrupt has failed its    *)
(* transfer and the run goes to its end with no report before that.        *)
Fresh(s) == s.hx = Head(s.list) /\ s.dequeued = 0
Orphaned(s) ==
  /\ s.hx # Head(s.list) /\ s.dequeued = s.dnum[s.hx]
  /\ s.hw = "busy" => ~s.irq
  /\ s.hw = "idle" => s.hcnt = s.dnum[s.hx]

(* The count of a run is of descriptors that were moved in it.             *)
Going(s) ==
  /\ s.hw = "busy" => s.running
  /\ s.hw = "drain" => ~s.running /\ ~scenario.poll
  /\ s.running =>
       /\ s.list # <<>>
       /\ s.hx \in Xfers /\ s.state[s.hx] # "new"
       /\ s.hcnt <= s.dnum[s.hx] /\ s.hcnt <= s.moved[s.hx]
       /\ Fresh(s) \/ (~scenario.poll /\ Orphaned(s))
  /\ s.wb # 0 \/ s.wberr => scenario.poll /\ s.running /\ s.hw = "idle"
  /\ s.wb # 0 => s.wb = s.hcnt

MoveInv ==
  Trusted =>
    /\ Credit(eng, upset.forged) /\ Going(eng)
    /\ work /\ eng.running /\ eng.hw = "busy" => Fresh(eng)

-----------------------------------------------------------------------------
(* A stopped engine that has nothing left to report.                       *)
Rest(s) ==
  /\ ~s.running /\ s.hw = "idle" /\ ~s.herr /\ s.wb = 0 /\ ~s.wberr
  /\ ~s.irq \/ scenario.poll
  /\ \A x \in Xfers : s.state[x] = "failed" => x \in s.erred
=============================================================================
